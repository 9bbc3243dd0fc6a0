-------------------------------- MODULE Make ----------------------------------
(***************************************************************************)
(* lngs make: the messages of a GetText catalogue (modules GettextPo and   *)
(* GettextMo read them) become the strings and attributes of a .lng        *)
(* (module LngFile writes it).                                             *)
(*                                                                         *)
(* A text is a sequence of characters; a word may stand for one.           *)
(***************************************************************************)
EXTENDS Integers, Sequences, SequencesExt, FiniteSetsExt

CONSTANTS
    Strings,         (* of the .idl: a sequence of [id, key, value]          *)
    Catalogues,      (* what a translator may save: [header, messages, bad], *)
                     (* the header by its lines, the messages a function of  *)
                     (* keys, bad if there is an error in the file           *)
    Lists,           (* files to give with -l: [readable, lines]             *)
    Alike,           (* the look-alike of a letter, for those that have one  *)
    LanguageName(_)  (* the name of a language (module LangCodes)            *)

VARIABLES
    catalogue,       (* the .po, or what msgfmt makes the .mo of             *)
    run,             (* the options of lngs make: [form, warp, list]         *)
    file,            (* make::file, in memory                                *)
    pc,              (* "idle", "loaded", "fixed"                            *)
    lng,             (* the .lng on the disk: "none", "part" or "whole",     *)
                     (* and what is in it                                    *)
    source           (* history: catalogue and run of the last whole .lng    *)

vars == <<catalogue, run, file, pc, lng, source>>

ATTR_CULTURE  == 0
ATTR_LANGUAGE == 1
ATTR_PLURALS  == 2

Space == {" ", "\t", "\n"}
NoFile == [strings |-> <<>>, attrs |-> <<>>]
NoList == [readable |-> TRUE, lines |-> <<>>]
NoRun == [form |-> "po", warp |-> FALSE, list |-> NoList]

First(text, from, S) ==
    Min({i \in from .. Len(text) : text[i] \in S} \cup {Len(text) + 1})
FirstNot(text, from, S) ==
    Min({i \in from .. Len(text) : text[i] \notin S} \cup {Len(text) + 1})
TrimmedEnd(text) ==
    SubSeq(text, 1, Max({i \in DOMAIN text : text[i] \notin Space} \cup {0}))

Text(lines) == FlattenSeq([n \in DOMAIN lines |-> Append(lines[n], "\n")])

------------------------------------------------------------------------------
(* languages.cpp *)

Warped(c) == IF c \in DOMAIN Alike THEN Alike[c] ELSE c

warp(s) == [i \in DOMAIN s |-> Warped(s[i])]

Missing(str, warp_missing) ==
    IF warp_missing THEN << [id |-> str.id, value |-> warp(str.value)] >>
    ELSE <<>>

translations(gtt, warp_missing) ==
    FlattenSeq([n \in DOMAIN Strings |->
        IF <<Strings[n].key>> \in DOMAIN gtt
          THEN << [id |-> Strings[n].id, value |-> gtt[<<Strings[n].key>>]] >>
          ELSE Missing(Strings[n], warp_missing)])

(* From a position on: a name, a colon and a value up to the end of its      *)
(* line.  A word without a colon is passed by.                               *)
RECURSIVE attrGTT(_, _, _)
attrGTT(attrs, c, out) ==
    LET name  == FirstNot(attrs, c, Space)
        stop  == First(attrs, name, Space \cup {":"})
        colon == FirstNot(attrs, stop, Space)
        value == FirstNot(attrs, colon + 1, Space \ {"\n"})
        end   == First(attrs, value, {"\n"})
    IN IF c > Len(attrs) THEN out
       ELSE IF colon > Len(attrs) \/ SubSeq(attrs, colon, colon) # <<":">>
         THEN attrGTT(attrs, colon, out)
       ELSE attrGTT(attrs, end + 1,
                    (SubSeq(attrs, name, stop - 1)
                        :> TrimmedEnd(SubSeq(attrs, value, end - 1))) @@ out)

(* Mutant: the encoding is not cut off.                                      *)
gnu2iso_KeepsCode(s) == [i \in DOMAIN s |-> IF s[i] = "_" THEN "-" ELSE s[i]]

gnu2iso(s) ==
    LET iso == [i \in DOMAIN s |-> IF s[i] = "_" THEN "-" ELSE s[i]]
    IN SubSeq(iso, 1, First(s, 1, {"."}) - 1)

attributes(gtt) ==
    LET attrs == attrGTT(IF <<>> \in DOMAIN gtt THEN gtt[<<>>] ELSE <<>>, 1,
                         [k \in {} |-> <<>>])
        Copy(key, id, Convert(_)) ==
            IF key \in DOMAIN attrs
              THEN << [id |-> id, value |-> Convert(attrs[key])] >> ELSE <<>>
        AsIs(value) == value
    IN Copy(<<"Language">>, ATTR_CULTURE, gnu2iso)
       \o Copy(<<"Plural-Forms">>, ATTR_PLURALS, AsIs)

(* ll_CC, from a position on: a code, and a name in the rest of its line.    *)
RECURSIVE LlCC(_, _, _)
LlCC(text, c, names) ==
    LET code == FirstNot(text, c, Space)
        stop == First(text, code, Space)
        name == FirstNot(text, stop, Space)
        end  == First(text, name, {"\n"})
    IN IF code > Len(text) THEN [ok |-> TRUE, names |-> names]
       ELSE IF First(text, stop, {"\n"}) < name THEN [ok |-> FALSE, names |-> names]
       ELSE LlCC(text, end + 1,
                 (SubSeq(text, code, stop - 1)
                     :> TrimmedEnd(SubSeq(text, name, end - 1))) @@ names)

------------------------------------------------------------------------------
(* What the readers hand out.  msgfmt, an external tool, leaves out what has *)
(* no translation; open_po does not.                                         *)
Map(form) ==
    LET Kept == {k \in DOMAIN catalogue.messages :
                   form = "po" \/ catalogue.messages[k] # <<>>}
    IN (IF catalogue.header = <<>> THEN [k \in {} |-> <<>>]
        ELSE <<>> :> Text(catalogue.header))
       @@ [k \in {<<key>> : key \in Kept} |-> catalogue.messages[k[1]]]

Init ==
    /\ catalogue \in Catalogues
    /\ run = NoRun
    /\ file = NoFile /\ pc = "idle"
    /\ lng = [state |-> "none", file |-> NoFile]
    /\ source = [catalogue |-> catalogue, run |-> NoRun]

Translate ==
    /\ pc = "idle"
    /\ catalogue' \in Catalogues
    /\ UNCHANGED <<run, file, pc, lng, source>>

(* Mutant: errors of the reader are reported, but not waited for.            *)
HasErrors_Never == FALSE

(* diag.has_errors()                                                         *)
HasErrors == catalogue.bad

End == pc' = "idle" /\ run' = NoRun /\ file' = NoFile

(* load_msgs                                                                 *)
LoadMsgs(form, warp_missing, list) ==
    /\ pc = "idle"
    /\ IF HasErrors THEN End
       ELSE /\ run' = [form |-> form, warp |-> warp_missing, list |-> list]
            /\ file' = [strings |-> translations(Map(form), warp_missing),
                        attrs   |-> attributes(Map(form))]
            /\ pc' = "loaded"
    /\ UNCHANGED <<catalogue, lng, source>>

Attr(attrs, id) ==
    LET n == SelectInSeq(attrs, LAMBDA a : a.id = id)
    IN IF n = 0 THEN <<>> ELSE attrs[n].value

InOrder(attrs) == SortSeq(attrs, LAMBDA a, b : a.id < b.id)

(* Mutant: an error in the list is reported, and the list used.              *)
Names_Lenient ==
    IF run.list.readable
      THEN [LlCC(Text(run.list.lines), 1, [k \in {} |-> <<>>]) EXCEPT !.ok = TRUE]
      ELSE [ok |-> FALSE, names |-> [k \in {} |-> <<>>]]

Names == IF run.list.readable THEN LlCC(Text(run.list.lines), 1, [k \in {} |-> <<>>])
         ELSE [ok |-> FALSE, names |-> [k \in {} |-> <<>>]]

(* The name of the language: of the list, or else of the registry, warped.   *)
Language(culture) ==
    IF culture \in DOMAIN Names.names
      THEN << [id |-> ATTR_LANGUAGE, value |-> Names.names[culture]] >>
    ELSE IF LanguageName(culture) # <<>>
      THEN << [id |-> ATTR_LANGUAGE, value |-> warp(LanguageName(culture))] >>
    ELSE <<>>

FixAttributes ==
    /\ pc = "loaded"
    /\ LET culture == Attr(file.attrs, ATTR_CULTURE)
           Fixed(attrs) == /\ file' = [file EXCEPT !.attrs = InOrder(attrs)]
                           /\ pc' = "fixed" /\ UNCHANGED run
       IN IF culture = <<>> THEN Fixed(file.attrs)
          ELSE IF Names.ok THEN Fixed(file.attrs \o Language(culture))
          ELSE End
    /\ UNCHANGED <<catalogue, lng, source>>

Write ==
    /\ pc = "fixed"
    /\ lng' = [state |-> "whole", file |-> file]
    /\ source' = [catalogue |-> catalogue, run |-> run]
    /\ End
    /\ UNCHANGED catalogue

(* The .lng is open, and emptied, when a write to it fails.                  *)
WriteFails ==
    /\ pc = "fixed"
    /\ lng' = [state |-> "part", file |-> NoFile]
    /\ source' = [catalogue |-> catalogue, run |-> NoRun]
    /\ End
    /\ UNCHANGED catalogue

Next ==
    \/ Translate
    \/ \E form \in {"po", "mo"}, warp_missing \in BOOLEAN,
          list \in Lists \cup {NoList} : LoadMsgs(form, warp_missing, list)
    \/ FixAttributes
    \/ Write
    \/ WriteFails

Spec == Init /\ [][Next]_vars

------------------------------------------------------------------------------
(* Properties *)

Whole == lng.state = "whole"
Made  == lng.file
From  == source.catalogue
Values(block, id) == {e.value : e \in {e \in ToSet(block) : e.id = id}}

(* A message the reader hands over: msgfmt leaves the empty ones out of a    *)
(* .mo, a .po has them.                                                      *)
HandedOver(key) ==
    /\ key \in DOMAIN From.messages
    /\ source.run.form = "po" \/ From.messages[key] # <<>>

(* A .lng is made of a catalogue without errors only.  A string has the      *)
(* message the reader handed over for it, and nothing else; so an empty      *)
(* message of a .po is a translation, to the empty text.  Of the strings     *)
(* without a message it has nothing, so that the application shows its own,  *)
(* and with -w each one's warped text.                                       *)
HoldsTheTranslations ==
    Whole =>
      /\ ~From.bad
      /\ \A n \in DOMAIN Strings :
           Values(Made.strings, Strings[n].id) =
             IF HandedOver(Strings[n].key) THEN {From.messages[Strings[n].key]}
             ELSE IF source.run.warp THEN {warp(Strings[n].value)}
             ELSE {}

(* The fields of a header, line by line; the last of two wins.               *)
Trimmed(text) == TrimmedEnd(SubSeq(text, FirstNot(text, 1, Space), Len(text)))
UpTo(line, S) == Trimmed(SubSeq(line, 1, First(line, 1, S) - 1))
Behind(line, S) == Trimmed(SubSeq(line, First(line, 1, S) + 1, Len(line)))
Field(lines, name) ==
    LET n == SelectLastInSeq(lines, LAMBDA line : /\ Contains(line, ":")
                                                  /\ UpTo(line, {":"}) = name)
    IN IF n = 0 THEN <<>> ELSE Behind(lines[n], {":"})

(* The language with hyphens for underscores, up to a dot.                   *)
Culture ==
    ReplaceAll(UpTo(Field(From.header, <<"Language">>), {"."}), "_", "-")

(* The attributes of a .lng are those of the header, however it is laid out: *)
(* the language in the form the storages look for, and the plural rule.      *)
HeaderIsRead ==
    Whole =>
      /\ Attr(Made.attrs, ATTR_CULTURE) = Culture
      /\ Attr(Made.attrs, ATTR_PLURALS) = Field(From.header, <<"Plural-Forms">>)
      /\ \A m, n \in DOMAIN Made.attrs : m < n => Made.attrs[m].id < Made.attrs[n].id

Listed(lines, code) ==
    {Behind(Trimmed(lines[n]), {" "}) :
        n \in {n \in DOMAIN lines : UpTo(Trimmed(lines[n]), {" "}) = code}}

(* A language is called what the list calls its culture, which has a hyphen  *)
(* where the header has an underscore, or else what the registry does: a     *)
(* name the list gives to ll_CC is not looked at.  No .lng is made with a    *)
(* list that has a language without a name.                                  *)
LanguageIsNamed ==
    (Whole /\ Culture # <<>>) =>
      LET name == Attr(Made.attrs, ATTR_LANGUAGE)
          list == source.run.list.lines
      IN /\ source.run.list.readable
         /\ \A n \in DOMAIN list :
              Trimmed(list[n]) # <<>> => Contains(Trimmed(list[n]), " ")
         /\ IF Listed(list, Culture) # {} THEN name \in Listed(list, Culture)
            ELSE name = warp(LanguageName(Culture))

(* The list is one of ll_CC names (lngs.idl:136): the language of a header   *)
(* that is in it under just that name gets its name from it.                 *)
ListIsOfLlCC ==
    Whole =>
      LET code == Field(From.header, <<"Language">>)
          list == source.run.list.lines
      IN Listed(list, code) # {} =>
            Attr(Made.attrs, ATTR_LANGUAGE) \in Listed(list, code)

(* Either form of a catalogue can be made (flow.md:41-43): a string without  *)
(* a translation is missing in both, and with -w is warped (lngs.idl:108).   *)
MissingIsWarped ==
    (Whole /\ source.run.warp) =>
      \A n \in DOMAIN Strings :
        LET key == Strings[n].key IN
        (key \notin DOMAIN From.messages \/ From.messages[key] = <<>>) =>
            Values(Made.strings, Strings[n].id) = {warp(Strings[n].value)}

==============================================================================
