------------------------------- MODULE Generated -------------------------------
(***************************************************************************)
(* lngs enums and lngs py: what the templates under app/data/templates     *)
(* make of the strings of an .idl, and what the compiler, or Python, finds *)
(* in it; and the literals lngs mustache gives to templates of others.     *)
(*                                                                         *)
(* A text is a sequence of characters, and a word nothing looks into       *)
(* stands for one.  A generated file is a sequence of lines.               *)
(***************************************************************************)
EXTENDS Integers, Sequences, SequencesExt, FiniteSetsExt

CONSTANTS
    Inputs,          (* files of strings: sequences of [key, id, value,      *)
                     (* plural, help], the last three of them texts          *)
    Escapes,         (* characters with an escape sequence, and its letter   *)
    Spelling, Alphabetical, Capital, Alike (* see Context                    *)

VARIABLES
    strings,         (* idl_strings::strings                                 *)
    command,         (* the command that is run, or "idle"                   *)
    output,          (* the lines it has written                             *)
    json             (* the print --debug has left next to the .idl          *)

vars == <<strings, command, output, json>>

C == INSTANCE Context

P == INSTANCE Pot WITH Before <- LAMBDA k, l : FALSE, Years <- <<>>, NoYear <- 0

------------------------------------------------------------------------------
(* expand_context, as far as these templates look at it                      *)

singular(strs) == SelectSeq(strs, LAMBDA str : str.plural = <<>>)
plural(strs)   == SelectSeq(strs, LAMBDA str : str.plural # <<>>)

(* Mutant: a text goes into the comment as it is.                            *)
Described_AsItIs(str) ==
    str.value
    \o (IF str.plural = <<>> THEN <<>> ELSE <<" | ">> \o str.plural)
    \o (IF str.help = <<>> THEN <<>> ELSE <<" (">> \o str.help \o <<")">>)

(* The comment of py_string.mustache and of enum_string.mustache, with       *)
(* texts as str_transform{} leaves them.                                     *)
Described(str) ==
    P!Straighten(str.value)
    \o (IF str.plural = <<>> THEN <<>> ELSE <<" | ">> \o P!Straighten(str.plural))
    \o (IF str.help = <<>> THEN <<>> ELSE <<" (">> \o P!Straighten(str.help) \o <<")">>)

------------------------------------------------------------------------------
(* enums.mustache *)

EnumString(str) ==
    Append(P!Lines(<<"/", "/", "/", " ">> \o Described(str)),
           <<str.key, " = ", str.id, ",">>)

EnumClass(name, strs) ==
    IF strs = <<>> THEN <<>>
    ELSE << <<"enum class", name, "{">> >>
         \o FlattenSeq([n \in DOMAIN strs |-> EnumString(strs[n])])
         \o << <<"}", ";">>, <<>> >>

Faulty(strs) ==
    IF strs # <<>> THEN <<>>
    ELSE << <<"enum class", "faulty", "{">>,
            <<"UNDEFINED", " = ", "0", " ", "/", "/", "...">>,
            <<"}", ";">>, <<>> >>

(* Mutant: the inner section asks for the plurals once more.                 *)
StringsAlias_Nested(strs) ==
    CASE plural(strs) # <<>> -> <<"StringsWithPlurals", "lng", "counted">>
      [] plural(strs) = <<>> /\ singular(strs) # <<>> ->
            <<"SingularStrings", "lng">>
      [] OTHER -> <<"SingularStrings", "faulty">>

(* The type the program uses its strings through, and its arguments          *)
StringsAlias(strs) ==
    CASE plural(strs) # <<>> /\ singular(strs) # <<>> ->
            <<"StringsWithPlurals", "lng", "counted">>
      [] plural(strs) # <<>> /\ singular(strs) = <<>> ->
            <<"PluralOnlyStrings", "counted">>
      [] plural(strs) = <<>> /\ singular(strs) # <<>> ->
            <<"SingularStrings", "lng">>
      [] OTHER -> <<"SingularStrings", "faulty">>

Resource(with_resource) ==
    IF with_resource THEN << <<"struct", "Resource", ";">>, <<>> >> ELSE <<>>

Enums(strs, with_resource) ==
    << <<"/", "/", "...">> >>
    \o EnumClass("lng", singular(strs))
    \o EnumClass("counted", plural(strs))
    \o Faulty(strs)
    \o Resource(with_resource)
    \o << <<"using Strings">> \o StringsAlias(strs)
           \o (IF with_resource THEN <<"FileWithBuiltin", "Resource">> ELSE <<>>) >>

------------------------------------------------------------------------------
(* py.mustache *)

PyString(str) ==
    P!Lines(<<str.key, " = ", str.id, " ", "#", " ">> \o Described(str))

Py(strs) ==
    << <<"#", "...">> >>
    \o FlattenSeq([n \in DOMAIN singular(strs) |-> PyString(singular(strs)[n])])
    \o FlattenSeq([n \in DOMAIN plural(strs) |-> PyString(plural(strs)[n])])

------------------------------------------------------------------------------
(* A template of the user's puts the value, and the plural, between quotes.  *)

Literals(strs) ==
    FlattenSeq([n \in DOMAIN strs |->
        P!Lines(P!Quoted(C!escape(strs[n].value)))
        \o P!Lines(P!Quoted(C!escape(strs[n].plural)))])

------------------------------------------------------------------------------
Init ==
    /\ strings \in Inputs
    /\ command = "idle"
    /\ output = <<>>
    /\ json = <<>>

Run(name, lines) ==
    /\ command = "idle"
    /\ command' = name
    /\ output' = lines
    /\ UNCHANGED strings

WriteEnums(with_resource) ==
    Run(IF with_resource THEN "enums -r" ELSE "enums",
        Enums(strings, with_resource)) /\ UNCHANGED json
WritePy == Run("py", Py(strings)) /\ UNCHANGED json

(* Where the file for the print does not open there is none.                 *)
WriteMustache(debug_out) ==
    /\ Run("mustache", Literals(strings))
    /\ json' = IF debug_out THEN C!print_item(C!expand_context(strings)) ELSE json

Next ==
    \/ \E with_resource \in BOOLEAN : WriteEnums(with_resource)
    \/ WritePy
    \/ \E debug_out \in BOOLEAN : WriteMustache(debug_out)

Spec == Init /\ [][Next]_vars

------------------------------------------------------------------------------
(* The readers of what was generated *)

StartsWith(line, text) ==
    Len(line) >= Len(text) /\ SubSeq(line, 1, Len(text)) = text

(* A C++ compiler goes on with the next line where one ends in a backslash;  *)
(* of GCC and Clang, also with blanks behind it, or the carriage return of a *)
(* line that ends in two characters.                                         *)
Blanks == {" ", "\t", "\f", "VT"}

Unended(line) == IF line # <<>> /\ Last(line) = "\r" THEN Front(line) ELSE line

GoesOn(line) ==
    LET n == SelectLastInSeq(Unended(line), LAMBDA c : c \notin Blanks)
    IN n # 0 /\ line[n] = "\\"

Spliced(lines) ==
    FoldLeft(LAMBDA out, line :
                IF out # <<>> /\ GoesOn(Last(out))
                  THEN Append(Front(out), Last(out) \o line)
                  ELSE Append(out, line),
             <<>>, lines)

Code(lines) == SelectSeq(Spliced(lines), LAMBDA line : ~StartsWith(line, <<"/", "/">>))

(* The enumerators, each with the class it is in                             *)
Declared(lines) ==
    LET code == Code(lines)
        classes == {n \in DOMAIN code : StartsWith(code[n], <<"enum class">>)}
    IN {<<code[Max({c \in classes : c < n})][2], code[n][1], code[n][3]>> :
          n \in {i \in DOMAIN code : Len(code[i]) >= 4 /\ code[i][2] = " = "
                                     /\ \E c \in classes : c < i}}

(* The other lines of the classes, of which a compiler would complain        *)
Understood(lines) ==
    \A n \in DOMAIN Code(lines) :
        LET line == Code(lines)[n] IN
        \/ line = <<>>
        \/ line[1] \in {"enum class", "}", "struct", "using Strings"}
        \/ Len(line) >= 4 /\ line[2] = " = "

(* Python ends a line at a carriage return, too.                             *)
PyLines(lines) ==
    FlattenSeq([n \in DOMAIN lines |->
        P!Lines([i \in DOMAIN lines[n] |->
                    IF lines[n][i] = "\r" THEN "\n" ELSE lines[n][i]])])

Assigned(lines) ==
    LET code == SelectSeq(PyLines(lines), LAMBDA line : ~StartsWith(line, <<"#">>))
    IN {code[n] : n \in DOMAIN code}

(* A C++ string literal, character by character                              *)
Unescape(letter) ==
    IF \E c \in DOMAIN Escapes : Escapes[c] = letter
      THEN CHOOSE c \in DOMAIN Escapes : Escapes[c] = letter
      ELSE letter

Literal(line) ==
    LET read == FoldLeft(
            LAMBDA r, c :
                CASE r.at = "out" /\ c = "\"" -> [r EXCEPT !.at = "in"]
                  [] r.at = "in" /\ c = "\"" -> [r EXCEPT !.at = "end"]
                  [] r.at = "in" /\ c = "\\" -> [r EXCEPT !.at = "escape"]
                  [] r.at = "in" /\ c \notin {"\"", "\\"} ->
                        [r EXCEPT !.text = Append(@, c)]
                  [] r.at = "escape" ->
                        [at |-> "in", text |-> Append(r.text, Unescape(c))]
                  [] OTHER -> [r EXCEPT !.at = "error"],
            [at |-> "out", text |-> <<>>], line)
    IN IF read.at = "end" THEN read.text ELSE <<"error">>

------------------------------------------------------------------------------
(* lngs.hpp: the calls Strings takes, each as the class of its first         *)
(* argument and whether there is a count.                                    *)

SingularStrings(alias)   == {<<alias[2], FALSE>>}
PluralOnlyStrings(alias) == {<<alias[2], TRUE>>}

(* Mutant: the strings without plurals are hidden by those with.             *)
StringsWithPlurals_Hidden(alias) == {<<alias[3], TRUE>>}

StringsWithPlurals(alias) == SingularStrings(alias) \cup {<<alias[3], TRUE>>}

Calls(alias) ==
    CASE alias[1] = "SingularStrings"    -> SingularStrings(alias)
      [] alias[1] = "PluralOnlyStrings"  -> PluralOnlyStrings(alias)
      [] alias[1] = "StringsWithPlurals" -> StringsWithPlurals(alias)

------------------------------------------------------------------------------
(* Properties *)

Enumerators(strs) ==
    LET Of(class, some) == {<<class, some[n].key, some[n].id>> : n \in DOMAIN some}
    IN Of("lng", singular(strs)) \cup Of("counted", plural(strs))
       \cup (IF strs = <<>> THEN {<<"faulty", "UNDEFINED", "0">>} ELSE {})

(* README.md:16-19: the compiler finds every string, under its identifier,   *)
(* and in the class for strings of its kind only.                            *)
EveryStringIsDeclared ==
    command \in {"enums", "enums -r"} => Declared(output) = Enumerators(strings)

(* The strings without help the text of which ends in a backslash, but for   *)
(* blanks; a line break is one of them then.                                 *)
EndsInBackslash(str) ==
    /\ str.help = <<>>
    /\ LET text == IF str.plural = <<>> THEN str.value ELSE str.plural
           n == SelectLastInSeq(Unended(text), LAMBDA c : c \notin Blanks \cup {"\n"})
       IN n # 0 /\ text[n] = "\\"

(* The compiler finds every string, but for those with a text that ends in a *)
(* backslash: their enumerators become part of the comment above them.  No   *)
(* line break, quote or comment mark in a text reaches the code around it,   *)
(* nor does anything else for a compiler that ends lines at \n only; one     *)
(* that does so at a lone \r, too, reads what Python does (see               *)
(* EveryStringIsAssigned).                                                   *)
OnlyBackslashesHide ==
    command \in {"enums", "enums -r"} =>
        /\ Declared(output) =
             {e \in Enumerators(strings) :
                \A n \in DOMAIN strings :
                    strings[n].key = e[2] => ~EndsInBackslash(strings[n])}
        /\ Understood(output)

(* README.md:17-21: "There will never be mixup between the two": the type    *)
(* all strings are reached through takes each of them in one way only, with  *)
(* a count if it has a plural, without one if it has not, and nothing that   *)
(* was not declared.                                                         *)
NeverMixedUp ==
    command \in {"enums", "enums -r"} =>
        LET alias == Tail(Last(output)) IN
        Calls(alias) = {<<e[1], e[1] = "counted">> : e \in Enumerators(strings)}

(* What stands behind a carriage return in a text, up to the next one or the *)
(* end of the line                                                           *)
BehindReturns(str) ==
    LET text == Described(str)
        Returns == {i \in DOMAIN text : text[i] = "\r"}
    IN {SubSeq(text, i + 1, Min({j \in Returns : j > i} \cup {Len(text) + 1}) - 1) :
          i \in Returns}

(* README.md:16: Python finds every string under its identifier; and nothing *)
(* that is not the assignment of one, but for what stands behind a carriage  *)
(* return in a text: all of that is code to it, unless it begins with a #.   *)
EveryStringIsAssigned ==
    LET Assigns(line, str) == StartsWith(line, <<str.key, " = ", str.id, " ", "#">>)
        Leaks == UNION {BehindReturns(strings[n]) : n \in DOMAIN strings}
        lines == Assigned(output)
    IN command = "py" =>
        /\ \A n \in DOMAIN strings : \E line \in lines : Assigns(line, strings[n])
        /\ {line \in lines : \A n \in DOMAIN strings : ~Assigns(line, strings[n])} =
             {text \in Leaks : ~StartsWith(text, <<"#">>)}

(* A value between quotes is the literal of that value, and ends there.      *)
LiteralsReadBack ==
    command = "mustache" =>
        /\ Len(output) = 2 * Len(strings)
        /\ \A n \in DOMAIN strings :
             /\ Literal(output[2 * n - 1]) = strings[n].value
             /\ Literal(output[2 * n]) = strings[n].plural

(* The print is a JSON text, as the name of its file says, and of everything *)
(* the template has: nothing in a text ends the string it is in.  But for a  *)
(* bell or a vertical tab in the help, which are printed with escapes JSON   *)
(* does not have; those of a value or a plural were escaped before, and the  *)
(* backslash is what is printed (lngs.cpp:524-527,                           *)
(* cmd_write_mustache.cpp:55-125).                                           *)
DebugIsJson ==
    json # <<>> =>
        (C!IsJsonOf(json, C!expand_context(strings)) <=>
            \A n \in DOMAIN strings : ToSet(strings[n].help) \cap {"BEL", "VT"} = {})

(* A key in capitals, of words that begin with letters                       *)
OfWords(key) ==
    /\ Last(key) # "_"
    /\ \A i \in DOMAIN key :
          (i = 1 \/ key[i - 1] = "_") => \E small \in DOMAIN Capital : key[i] = Capital[small]
    /\ \A small \in DOMAIN Capital : small \notin ToSet(key)

(* Names that were made in one style of two keys do not meet, so that what a *)
(* template declares under one of them is declared once                      *)
(* (mstch_engine.cpp:126-175).                                               *)
NamesStayApart ==
    \A m, n \in DOMAIN strings :
        LET k == Spelling[strings[m].key]  l == Spelling[strings[n].key] IN
        (OfWords(k) /\ OfWords(l) /\ k # l) =>
            \A style \in DOMAIN C!Styled(k) : C!Styled(k)[style] # C!Styled(l)[style]

==============================================================================
