------------------------------ MODULE LangCodes -------------------------------
(***************************************************************************)
(* Names of languages.  app/src/iana-reg.py turns the language subtag      *)
(* registry, line by line, into the tables of lang_codes.cpp, and          *)
(* language_name of lang_codes.inl takes the tag of a locale apart and     *)
(* puts a name together from them.                                         *)
(*                                                                         *)
(* A line of the registry is a field and its value; a subtag is a value,   *)
(* and a tag is a sequence of subtags, hyphens and a dot with an encoding. *)
(***************************************************************************)
EXTENDS Integers, Sequences, SequencesExt, FiniteSetsExt

CONSTANTS
    Registries,  (* what the registry may be: sequences of [field, value]    *)
    Tags         (* the tags names are asked for                             *)

VARIABLES
    registry,    (* the registry,                                            *)
    line,        (*   the lines of it that are read                          *)
    type,        (* the type of the record that is being read, "" to leave   *)
                 (* it out, "None" if there is none                          *)
    key, value,  (* its subtag, and its descriptions                         *)
    out,         (* the tables: out[type] is a set of <<subtag, name>>       *)
    phase,       (* "reading", "written", or "broken": what is written does   *)
                 (* not compile                                              *)
    tag, name    (* the tag a name was asked for, and the name               *)

vars == <<registry, line, type, key, value, out, phase, tag, name>>

Keywords == {"language", "script", "region"}
None == "None"
Empty == ""

(* A record of the registry begins with its type, a wanted one goes on with  *)
(* its subtag, which no other record of the type has, and is described.  A   *)
(* tag begins with a subtag, hyphens are between subtags, and what follows a *)
(* dot is not looked at.                                                     *)
Fields == {"%%", "Type", "Subtag", "Description", "Scope", "other"}

IsRegistry(r) ==
    LET Types == {i \in 1 .. Len(r) : r[i].field = "Type" /\ r[i].value \in Keywords}
    IN /\ \A i \in 1 .. Len(r) :
            /\ r[i].field = "Type" => i > 1 /\ r[i - 1].field = "%%"
            /\ r[i].field = "Subtag" => i > 1 /\ r[i - 1].field = "Type"
       /\ \A i \in Types :
            /\ i < Len(r) /\ r[i + 1].field = "Subtag"
            /\ \E d \in i + 1 .. Len(r) :
                  /\ r[d].field = "Description"
                  /\ \A j \in i .. d : r[j].field # "%%"
            /\ \A j \in Types : r[i].value = r[j].value /\ i # j =>
                               r[i + 1].value # r[j + 1].value

IsTag(t) ==
    \E n \in 1 .. Len(t) :
        /\ n % 2 = 1 /\ (n < Len(t) => t[n + 1] = ".")
        /\ \A i \in 1 .. n : t[i] # "." /\ (t[i] = "-" <=> i % 2 = 0)

CodesAssumption ==
    /\ Registries \subseteq Seq([field : Fields, value : STRING])
    /\ \A r \in Registries : IsRegistry(r)
    /\ Tags \subseteq Seq(STRING)
    /\ \A t \in Tags : IsTag(t)

------------------------------------------------------------------------------
(* iana-reg.py: produce *)

Put(table, k, v) == {p \in table : p[1] # k} \cup {<<k, v>>}

(* Mutant: the last of the descriptions is taken.                            *)
Described_Last(values) == Last(values)

(* The first description is the name.                                        *)
Described(values) == values[1]

Init ==
    /\ registry \in Registries
    /\ line = 0
    /\ type = None /\ key = None /\ value = <<>>
    /\ out = [t \in Keywords |-> {}]
    /\ phase = "reading"
    /\ tag = <<>> /\ name = <<>>

Line(field) ==
    /\ phase = "reading" /\ line < Len(registry)
    /\ registry[line + 1].field = field
    /\ line' = line + 1
    /\ UNCHANGED <<registry, tag, name>>

Given == registry[line + 1].value

(* %%: the record that ends is stored, if it is wanted and described.        *)
EndOfRecord ==
    /\ Line("%%")
    /\ out' = IF type \notin {None, Empty} /\ value # <<>>
                THEN [out EXCEPT ![type] = Put(@, key, Described(value))]
                ELSE out
    /\ type' = None /\ key' = None /\ value' = <<>>
    /\ UNCHANGED phase

Type ==
    /\ Line("Type")
    /\ type' = IF Given \in Keywords THEN Given ELSE Empty
    /\ UNCHANGED <<key, value, out, phase>>

Subtag ==
    /\ Line("Subtag")
    /\ IF type = Empty THEN UNCHANGED <<key, value>>
       ELSE key' = Given /\ value' = <<>>
    /\ UNCHANGED <<type, out, phase>>

Description ==
    /\ Line("Description")
    /\ IF type = Empty THEN UNCHANGED <<type, value>>
       ELSE IF Given = "Private use" THEN type' = Empty /\ UNCHANGED value
       ELSE value' = Append(value, Given) /\ UNCHANGED type
    /\ UNCHANGED <<key, out, phase>>

(* Mutant: records with a scope are kept.                                    *)
Scope_Kept ==
    /\ Line("Scope")
    /\ UNCHANGED <<type, key, value, out, phase>>

(* A collection or a macrolanguage is no language to translate to.           *)
Scope ==
    /\ Line("Scope")
    /\ type' = Empty
    /\ UNCHANGED <<key, value, out, phase>>

(* Any other field, and a line that is not one.                              *)
Skipped ==
    /\ Line("other")
    /\ UNCHANGED <<type, key, value, out, phase>>

(* The end of the file ends a record too, but it stores its descriptions,    *)
(* not the first of them: a table with names then does not compile.  Of      *)
(* scripts, only the subtags are written.                                    *)
EndOfFile ==
    /\ phase = "reading" /\ line = Len(registry)
    /\ phase' = IF type \in {"language", "region"} THEN "broken" ELSE "written"
    /\ out' = IF type = "script" THEN [out EXCEPT ![type] = Put(@, key, Empty)]
              ELSE out
    /\ UNCHANGED <<registry, line, type, key, value, tag, name>>

------------------------------------------------------------------------------
(* lang_codes.inl: language_name *)

(* The tables of lang_codes.cpp, as the script has written them.             *)
languages == out["language"]
regions   == out["region"]
scripts   == out["script"]

(* What search finds (module LangSearch).                                    *)
Has(table, k) == \E p \in table : k = <<p[1]>>
Lookup(table, k) == (CHOOSE p \in table : k = <<p[1]>>)[2]

(* Positions are counted from 1; npos is behind the end.                     *)
Find(text, c, from) ==
    Min({i \in from .. Len(text) : text[i] = c} \cup {Len(text) + 1})

(* Mutant: after a script, the region is taken from its hyphen on.           *)
AfterScript_OffByOne(text, pos) == Find(text, "-", pos + 1) - 1

(* The position of the hyphen behind the subtag that follows pos.            *)
AfterScript(text, pos) == Find(text, "-", pos + 1)

Region(text, pos) == SubSeq(text, pos + 1, Find(text, "-", pos + 1) - 1)

NameWith(base, region) ==
    <<base, " (">>
    \o (IF Has(regions, region) THEN <<Lookup(regions, region)>>
        ELSE <<"Unknown - ">> \o region)
    \o <<")">>

LanguageName(lang) ==
    LET ll_cc == SubSeq(lang, 1, Find(lang, ".", 1) - 1)
        pos   == Find(ll_cc, "-", 1)
        ll    == SubSeq(ll_cc, 1, pos - 1)
        next  == AfterScript(ll_cc, pos)
    IN IF ~Has(languages, ll) THEN <<>>
       ELSE LET base == Lookup(languages, ll) IN
            IF pos > Len(ll_cc) THEN <<base>>
            ELSE IF ~Has(scripts, Region(ll_cc, pos))
              THEN NameWith(base, Region(ll_cc, pos))
            ELSE IF next > Len(ll_cc) THEN <<base>>
            ELSE NameWith(base, Region(ll_cc, next))

Ask(lang) ==
    /\ phase = "written"
    /\ tag' = lang
    /\ name' = LanguageName(lang)
    /\ UNCHANGED <<registry, line, type, key, value, out, phase>>

------------------------------------------------------------------------------
Next ==
    \/ EndOfRecord
    \/ Type
    \/ Subtag
    \/ Description
    \/ Scope
    \/ Skipped
    \/ EndOfFile
    \/ \E lang \in Tags : Ask(lang)

Spec == Init /\ [][Next]_vars

------------------------------------------------------------------------------
(* Properties *)

(* The records of the registry, as the file means them: a record is what    *)
(* follows the beginning of the file, or a separator, up to the next one.    *)
Beginnings == {0} \cup {i \in 1 .. Len(registry) : registry[i].field = "%%"}

With(b, field) ==
    {i \in b + 1 .. Len(registry) :
        /\ registry[i].field = field
        /\ \A j \in b + 1 .. i : registry[j].field # "%%"}

First(b, field) == registry[Min(With(b, field))].value

Wanted(b, t) ==
    /\ \E i \in With(b, "Type") : registry[i].value = t
    /\ With(b, "Scope") = {}
    /\ \A i \in With(b, "Description") : registry[i].value # "Private use"

(* The tables hold each language and each region of the registry, and no     *)
(* other, under the first of its names, wherever in its record the line      *)
(* stands that leaves it out, and whatever the record before it was; and     *)
(* each script.                                                              *)
TablesHoldTheRegistry ==
    phase = "written" =>
        /\ \A t \in {"language", "region"} :
               out[t] = {<<First(b, "Subtag"), First(b, "Description")>> :
                            b \in {b \in Beginnings : Wanted(b, t)}}
        /\ {p[1] : p \in out["script"]} =
               {First(b, "Subtag") : b \in {b \in Beginnings : Wanted(b, "script")}}

(* The subtags of a tag are every second of its parts, up to the encoding.   *)
Encoding(t) == Min({n \in DOMAIN t : t[n] = "."} \cup {Len(t) + 1})
Subtags(t) == [n \in 1 .. Encoding(t) \div 2 |-> t[2 * n - 1]]

Known(t, s) == Has(out[t], <<s>>)
Called(t, s) == Lookup(out[t], <<s>>)

(* A language is called by its name, and by its region, if it has one: the   *)
(* subtag behind the language and behind the script, known to the registry   *)
(* or not.  A language the registry does not know has no name.               *)
NamesTheRegion ==
    LET subtags == Subtags(tag)
        region  == IF Len(subtags) > 1 /\ Known("script", subtags[2]) THEN 3 ELSE 2
        base    == Called("language", subtags[1])
    IN tag # <<>> =>
         name = IF ~Known("language", subtags[1]) THEN <<>>
                ELSE IF region > Len(subtags) THEN <<base>>
                ELSE <<base, " (">> \o
                     (IF Known("region", subtags[region])
                        THEN <<Called("region", subtags[region])>>
                      ELSE <<"Unknown - ", subtags[region]>>) \o <<")">>

==============================================================================
