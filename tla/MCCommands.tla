------------------------------ MODULE MCCommands ------------------------------
(***************************************************************************)
(* The commands of lngs (lngs.cpp:541-551): small instances of runs of the *)
(* tool, from its command line to its output (Tool), and of what a command *)
(* does in between: what `lngs pot` writes and the gettext readers read    *)
(* (PoWorkflow, GettextPo, GettextMo), `lngs make` (Make), what all of     *)
(* them read and `lngs freeze` writes (IdlReader), and what `lngs enums`,  *)
(* `lngs py` and `lngs mustache` write (Generated).                        *)
(*                                                                         *)
(* They share nothing while they run, so that a behaviour is one of one    *)
(* part, the others resting where they start.                              *)
(***************************************************************************)
EXTENDS PoWorkflow, CommandParts, TLC

CONSTANTS
    Parts,       (* the parts a run is of                                    *)
    IdlLayouts   (* the ways an .idl is written                              *)

VARIABLES
    part,
    catalogue, run, made, making, lng, source,
    idl, def, reading, meant, layout, dropped,
    declared, command, output, json

------------------------------------------------------------------------------
(* GettextPo: short files of any lines, and any short line.                  *)

PoField(name, text) == <<name, " ", "\"">> \o text \o <<"\"">>

LineKinds ==
    { <<>>, PoField("msgctxt", <<"x">>), PoField("msgid", <<"y">>),
      PoField("msgid_plural", <<"z">>), PoField("msgstr", <<"a">>),
      <<"msgstr", "[", "1", "]", " ", "\"", "b", "\"">>,
      <<"msgstr", "[", "0", "]", "\"", "c", "\"">>, <<"\"", "d", "\"">>,
      PoField("word", <<"e">>) }

LineCharacters == {" ", "#", "\"", "\\", "[", "]", "1", "msgid"}

PoFiles ==
    UNION {[1 .. k -> LineKinds] : k \in 0 .. 4} \cup
    {<<line>> : line \in UNION {[1 .. k -> LineCharacters] : k \in 1 .. 4}} \cup
    {<< <<"msgid">> \o line \o <<"\"", "\"">> >> :
        line \in [1 .. 3 -> LineCharacters]}

------------------------------------------------------------------------------
(* PoWorkflow: catalogues with every kind of character in their texts, and   *)
(* every layout.                                                             *)

Alphabetic(a, b) == a = "A" /\ b = "B"
TwoYears == <<"2019", "2020">>

PoStr(key, value, plural, help, forms) ==
    [key |-> key, value |-> value, plural |-> plural, help |-> help,
     forms |-> forms]

Odd == <<"\"", "a", "\n", "\\", "n">>

PoCatalogues ==
    { <<>>,
      << PoStr("B", Odd, <<>>, <<>>, << Odd >>),
         PoStr("A", <<"a", "\\">>, <<"a", "\n">>, <<"\n", "\"">>,
               << <<"BEL", "a">>, <<>>, <<"\\">> >>) >>,
      << PoStr("A", <<>>, <<"s">>, Odd, << <<"\"", "n">>, <<"\t", "b", "BS", "VT">> >>),
         PoStr("B", <<"msgid", "BEL", "BS", "VT">>, <<>>, <<"#">>, << <<>> >>) >> }

(* The same, with a plural that has a quote in it.                            *)
QuotedPlurals ==
    PoCatalogues \cup
    { << PoStr("A", <<"a">>, <<"a", "\"", "s">>, <<>>, << <<"b">> >>) >> }

PoLayouts ==
    [comments : BOOLEAN, split : BOOLEAN, backwards : BOOLEAN, plain : BOOLEAN]

------------------------------------------------------------------------------
(* Make: two strings, catalogues with one or both of them translated, or one *)
(* with an empty message, as a .po has for a string not translated yet;      *)
(* headers and lists in all their layouts.                                   *)

TwoStrings == << [id |-> 1001, key |-> "A", value |-> <<"x", "1">>],
                 [id |-> 1002, key |-> "B", value |-> <<"y">>] >>

LookAlikes == [c \in {"x", "y", "polish"} |-> IF c = "x" THEN "x~"
                                              ELSE IF c = "y" THEN "y~" ELSE "polish~"]

PolishIsKnown(culture) ==
    IF culture \in {<<"pl">>, <<"pl", "-", "PL">>} THEN <<"polish">> ELSE <<>>

PoHeaders ==
    { <<>>,
      << <<"Language", ":", " ", "pl", "_", "PL", ".", "UTF8">> >>,
      << <<"X">>, <<" ", "Language", " ", ":", "pl", "_", "PL", " ">>,
         <<"Plural-Forms", ":", " ", "n", " ", ":", "1">> >>,
      << <<"Plural-Forms", ":">>, <<"Language", ":", "pl">>, <<>>,
         <<"Language", ":", " ", "tlh">> >> }

Translations ==
    [header : PoHeaders, bad : {FALSE},
     messages : { [k \in {"A"} |-> <<"a">>], [k \in {"A", "B"} |-> <<"b">>],
                  ("A" :> <<>>) @@ ("B" :> <<"b">>) }]
      \cup [header : PoHeaders, messages : {[k \in {} |-> <<>>]}, bad : {TRUE}]

NamesList(lines) == [readable |-> TRUE, lines |-> lines]

NamesLists ==
    { [readable |-> FALSE, lines |-> <<>>],
      NamesList(<< <<"pl", "-", "PL", " ", "polski", " ">>,
                   <<" ", "tlh", " ", " ", "a", " ", "b">> >>),
      NamesList(<< <<"pl", " ", "polski">>, <<>>, <<"pl", "-", "PL">>, <<"tlh", " ", "a">> >>),
      NamesList(<< <<"pl", " ", "x">>, <<"pl", "_", "PL", " ", "polski">> >>) }

Making == INSTANCE Make WITH
    Strings <- TwoStrings, Catalogues <- Translations, Lists <- NamesLists,
    Alike <- LookAlikes, LanguageName <- PolishIsKnown,
    file <- made, pc <- making

------------------------------------------------------------------------------
(* GettextMo: files as msgfmt writes them, and what is left of them when a   *)
(* word or two bytes are damaged or the end is lost.                         *)

Little(n) == <<n % MoBase, n \div MoBase>>
Big(n)    == <<n \div MoBase, n % MoBase>>

MoMessage(key, original, text) ==
    [key |-> key, original |-> original, text |-> text]

MoLists ==
    { <<>>,
      << MoMessage(<<>>, <<>>, <<7>>), MoMessage(<<5>>, <<5, 4, 6>>, <<3, 0, 3>>) >>,
      << MoMessage(<<5, 6>>, <<5, 6>>, <<>>) >> }

(* The numbers of the format, whatever files there are.                      *)
Format == INSTANCE GettextMo WITH
    Base <- MoBase, Files <- {}, file <- mo, result <- read,
    outcome <- verdict

(* The strings, one behind the other, each with a zero, and their entries.   *)
MoTexts(list) == [n \in 1 .. 2 * Len(list) |->
                    IF n <= Len(list) THEN list[n].original
                    ELSE list[n - Len(list)].text]

MoData(list) ==
    FlattenSeq([n \in DOMAIN MoTexts(list) |-> MoTexts(list)[n] \o <<0>>])

Msgfmt(list, hash, Order(_)) ==
    LET n == Len(list)
        texts == MoTexts(list)
        start == Format!HeaderSize + 2 * n * Format!Entry + hash * Format!WordSize
        offset == [k \in DOMAIN texts |->
                     start + Len(FlattenSeq([j \in 1 .. k - 1 |->
                                               texts[j] \o <<0>>]))]
        words == <<Format!Magic, 0, n, Format!HeaderSize, Format!HeaderSize + n * Format!Entry,
                   hash, Format!HeaderSize + 2 * n * Format!Entry>>
                 \o FlattenSeq([k \in DOMAIN texts |->
                                  <<Len(texts[k]), offset[k]>>])
                 \o [k \in 1 .. hash |-> 0]
    IN FlattenSeq([k \in DOMAIN words |-> Order(words[k])]) \o MoData(list)

WholeFiles ==
    {[bytes |-> Msgfmt(list, hash, Little), messages |-> list] :
       list \in MoLists, hash \in {0, 3}} \cup
    {[bytes |-> Msgfmt(list, 3, Big), messages |-> list] : list \in MoLists}

Damage(bytes) ==
    {SubSeq(bytes, 1, k) : k \in 0 .. Len(bytes) - 1} \cup
    {[bytes EXCEPT ![2 * k + 1] = v % MoBase, ![2 * k + 2] = v \div MoBase] :
       k \in 0 .. Min({14, Len(bytes) \div 2 - 1}), v \in 0 .. Format!Modulus - 1} \cup
    {[[bytes EXCEPT ![j] = v] EXCEPT ![k] = w] :
       j \in 5 .. 14, k \in 7 .. Min({30, Len(bytes)}),
       v \in {0, 1, 4, 7}, w \in {0, 2, 7}}

MoFiles ==
    WholeFiles \cup
    {[bytes |-> b, messages |-> Damaged] :
       b \in UNION {Damage(f.bytes) : f \in WholeFiles}}

------------------------------------------------------------------------------
(* IdlReader: catalogues of no, two and three strings, with every kind of    *)
(* character in their texts, and every layout.  In ParenthesisLayouts there  *)
(* is a parenthesis in the comments, also between an attribute and its       *)
(* value; in PlainLayouts there is none.                                     *)

NumbersWritten ==
    [w \in {"-1", "0", "1", "2", "1001", "1002", "1003", "1004", "1005"} |->
        CASE w = "-1" -> -1 [] w = "0" -> 0 [] w = "1" -> 1 [] w = "2" -> 2
          [] w = "1001" -> 1001 [] w = "1002" -> 1002 [] w = "1003" -> 1003
          [] w = "1004" -> 1004 [] w = "1005" -> 1005]

WordsWritten == {"serial", "project", "extra", "strings", "id", "help", "plural",
                 "A", "B", "C", "n"}

IdlStr(key, id, value, help, plural) ==
    [key |-> key, id |-> id, value |-> value, help |-> help, plural |-> plural]

IdlText == <<"\"", "n", "\n", "\\", "(">>

IdlCatalogues ==
    { [serial |-> 0, strings |-> <<>>],
      [serial |-> 1, strings |->
          << IdlStr("A", 1003, <<"n">>, <<")", "/", "/">>, <<"n">>),
             IdlStr("B", -1, <<>>, <<>>, IdlText),
             IdlStr("C", 1001, <<"]">>, <<"1">>, <<>>) >>],
      [serial |-> 0, strings |->
          << IdlStr("A", -1, IdlText, <<"n">>, <<>>),
             IdlStr("B", -1, <<";">>, <<>>, <<>>) >>] }

Comment == <<"\n", "/", "/", " ", "\"", "n", "]", "\n", " ">>

IdlLayout(gaps, inners) ==
    [gap : gaps, inner : inners, backwards : BOOLEAN, split : BOOLEAN, extra : BOOLEAN]

PlainLayouts == IdlLayout({<<>>, Comment}, {<<>>}) \cup IdlLayout({<<" ">>}, {Comment})

ParenthesisLayouts == IdlLayout({<<"/", "/", "(", "\n">>}, {<<>>})

Idl == INSTANCE IdlReader WITH
    Numerals <- NumbersWritten, Words <- WordsWritten,
    Catalogues <- IdlCatalogues, Layouts <- IdlLayouts, pc <- reading

------------------------------------------------------------------------------
(* Generated: files of up to two strings.  A text is up to two characters,   *)
(* among them all that mean something to a line, a comment or a literal.     *)

EscapeLetters == [c \in {"\n", "\t", "\r", "\f", "BEL", "BS", "VT", "\\", "\""} |->
    CASE c = "\n" -> "n" [] c = "\t" -> "t" [] c = "\r" -> "r"
      [] c = "\f" -> "f" [] c = "BEL" -> "a" [] c = "BS" -> "b"
      [] c = "VT" -> "v" [] OTHER -> c]

DeclaredStr(key, id, value, other, help) ==
    [key |-> key, id |-> id, value |-> value, plural |-> other, help |-> help]

DeclaredValues ==
    UNION {[1 .. n -> {"a", "\n", "/", "#", "\"", " = ", "\\", "\r", "BEL"}] : n \in 1 .. 2}

Ones == {<<DeclaredStr("ONE", "7", v, p, h)>> :
            v \in DeclaredValues, p \in {<<>>, <<"a">>, <<"\n", "\"">>, <<"\\", "VT">>},
            h \in {<<>>, <<"h", "\n">>, <<"BEL">>}}

DeclaredFiles ==
    { <<>> } \cup Ones
    \cup {Append(one, DeclaredStr("TWO", "5", <<"b">>, p, <<>>)) :
            one \in Ones, p \in {<<>>, <<"\r", "#">>}}

(* Keys that would be one without their underscores; strings out of order.   *)
KeySpelling ==
    ("ONE" :> <<"A", "_", "B", "B">>) @@ ("TWO" :> <<"A", "B", "B">>)
    @@ ("THREE" :> <<"A", "B", "_", "B">>) @@ ("FOUR" :> <<"A", "_", "B", "_", "B">>)
    @@ ("FIVE" :> <<"A", "B", "1">>) @@ ("SIX" :> <<"A", "B", "_", "1">>)

ManyKeys ==
    { <<DeclaredStr(k, "7", <<"a">>, <<>>, <<>>), DeclaredStr(l, "5", <<"c">>, <<"c">>, <<>>)>> :
        k \in DOMAIN KeySpelling, l \in DOMAIN KeySpelling }

Headers == INSTANCE Generated WITH
    Inputs <- DeclaredFiles \cup {strs \in ManyKeys : strs[1].key # strs[2].key},
    Escapes <- EscapeLetters, Spelling <- KeySpelling,
    Alphabetical <- <<"FOUR", "ONE", "SIX", "FIVE", "TWO", "THREE">>,
    Capital <- ("a" :> "A") @@ ("b" :> "B"), Alike <- ("a" :> "a~"), strings <- declared

------------------------------------------------------------------------------
(* Tool: sources that are refused, that name no culture or have no new       *)
(* strings; one template.                                                    *)

SomeIdls ==
    {[ok |-> TRUE, new |-> TRUE], [ok |-> TRUE, new |-> FALSE],
     [ok |-> FALSE, new |-> FALSE]}

SomeRunCatalogues ==
    {[ok |-> TRUE, culture |-> TRUE], [ok |-> TRUE, culture |-> FALSE],
     [ok |-> FALSE, culture |-> FALSE]}

GoodAndBad == [ok : BOOLEAN]

------------------------------------------------------------------------------
(* What a run of the tool and the reader of .mo need of their parameters     *)
ASSUME Lngs!RunAssumption /\ Mo!MoAssumption

make    == <<catalogue, run, made, making, lng, source>>
gettext == <<mo, read, verdict>>
reads   == <<idl, def, reading, meant, layout, dropped>>
writes  == <<declared, command, output, json>>
tool    == <<files, full, cmdline, sourced, used, code, step, before, spoiled,
             refused, edits>>

all == <<part, vars, make, gettext, reads, writes, tool>>

(* Where the parts that rest do so.                                          *)
Rest(of) == part # of

CommandsInit ==
    /\ part \in Parts
    /\ Rest("pot") => strings = <<>>
    /\ Init
    /\ Rest("make") => catalogue = CHOOSE c \in Translations : c.bad
    /\ Making!Init
    /\ \/ part = "mo" /\ Mo!Init
       \/ /\ Rest("mo")
          /\ mo = [bytes |-> <<>>, messages |-> Damaged]
          /\ read = Mo!NoMessages /\ verdict = "closed"
    /\ Rest("idl") => /\ meant = [serial |-> 0, strings |-> <<>>]
                      /\ layout = CHOOSE l \in IdlLayouts : TRUE
    /\ Idl!Init
    /\ Rest("generate") => declared = <<>>
    /\ Headers!Init
    /\ Rest("tool") =>
          /\ files = [path \in {"idl", "po", "names", "out"} |-> NotThere]
          /\ cmdline = CHOOSE r \in Lngs!Runs : TRUE
    /\ Lngs!Init

CommandsNext ==
    \/ /\ part = "pot" /\ NextStep
       /\ UNCHANGED <<part, make, gettext, reads, writes, tool>>
    \/ /\ part = "po" /\ Next
       /\ UNCHANGED <<part, workflow, make, gettext, reads, writes, tool>>
    \/ /\ part = "make" /\ Making!Next
       /\ UNCHANGED <<part, vars, gettext, reads, writes, tool>>
    \/ /\ part = "mo" /\ Mo!Next
       /\ UNCHANGED <<part, vars, make, reads, writes, tool>>
    \/ /\ part = "idl" /\ Idl!Next
       /\ UNCHANGED <<part, vars, make, gettext, writes, tool>>
    \/ /\ part = "generate" /\ Headers!Next
       /\ UNCHANGED <<part, vars, make, gettext, reads, tool>>
    \/ /\ part = "tool" /\ Lngs!Next
       /\ UNCHANGED <<part, vars, make, gettext, reads, writes>>

CommandsSpec == CommandsInit /\ [][CommandsNext]_all

------------------------------------------------------------------------------
(* Properties *)

(* Whatever lines a .po is made of, a message comes from one record, and a   *)
(* file without an error is one of well-formed lines; of a whole .mo every   *)
(* message is read (gettext_plain.cpp:40-350, gettext.cpp:136-188).  What    *)
(* lngs pot writes is read back, and so is every translation made of it,     *)
(* whatever characters are in its texts; but for a plural with a quote or a  *)
(* backslash in it (cmd_write_pot.cpp:106-135).                              *)
GettextIsRead ==
    /\ part = "po" => MessagesComeFromOneRecord /\ NoErrorMeansWellFormed
    /\ part = "mo" => Mo!ReadsWhatWasWritten
    /\ part = "pot" => ReadsWhatWasTranslated /\ TemplateIsReadBack

(* A .lng that lngs make has written holds for every string the message the  *)
(* reader handed over, the empty one of a .po too, and without a message     *)
(* nothing or with -w its warped text; nothing of a catalogue with errors;   *)
(* the culture and the plural rule of the header, and the name that the list *)
(* has for the culture, or the registry (languages.cpp:57-138,               *)
(* cmd_load_msgs.cpp:17-75).                                                 *)
MadeOfTheCatalogue ==
    part = "make" =>
        /\ Making!HoldsTheTranslations
        /\ Making!HeaderIsRead
        /\ Making!LanguageIsNamed

(* An .idl is read as it is meant in all its layouts, and refused with any   *)
(* symbol missing.  Freezing it writes the serial and the number of every    *)
(* string anew, and with each of them takes away all blanks and comments     *)
(* that stood beside the number in its parentheses, also where the number is *)
(* the old one; and not one character else, as long as no comment has a      *)
(* parenthesis (strings.cpp:552-782, cmd_freeze_ids.cpp:45-67).              *)
IdlIsKept ==
    part = "idl" =>
        /\ Idl!ReadsWhatIsMeant
        /\ Idl!BrokenIsRefused
        /\ Idl!FreezeOnlyNumbers

(* C++ and Python find in what is generated every string under its number,   *)
(* reached as its kind wants; of C++, but for the strings with a text that   *)
(* ends in a backslash, and Python takes what is behind a carriage return in *)
(* a text for code, and nothing else.  Every literal has its value, whatever *)
(* is in it.  The print of a context reads as JSON, unless a bell or a       *)
(* vertical tab is in some help; and names in one style stay different       *)
(* (enum_string.mustache, py_string.mustache, cmd_write_mustache.cpp:16-125, *)
(* mstch_engine.cpp:126).                                                    *)
GeneratedIsUnderstood ==
    part = "generate" =>
        /\ Headers!OnlyBackslashesHide
        /\ Headers!NeverMixedUp
        /\ Headers!EveryStringIsAssigned
        /\ Headers!LiteralsReadBack
        /\ Headers!DebugIsJson
        /\ Headers!NamesStayApart

(* What a run of lngs says goes with what it has left where it was told to   *)
(* write, whichever runs were killed before it; and the template of lngs pot *)
(* says the year it was published first, until a run is stopped before its   *)
(* second line (lngs.cpp:40-65, 399, cmd_write_pot.cpp:86-135).              *)
RunsEndWell == Lngs!ResultTellsWhatIsLeft /\ []FirstYearStays

(* What a document says of a command and the command does not do: every      *)
(* string is declared (README.md:16-19),                                     *)
StringsAreDeclared == part = "generate" => Headers!EveryStringIsDeclared

(* an .idl may have comments between any symbols (docs/syntax.md:38) and     *)
(* freeze only replaces numbers in it,                                       *)
FreezeLeavesComments == part = "idl" => Idl!FreezeOnlyNumbers

(* a string without a translation is warped with -w (lngs.idl:108), of both  *)
(* forms of a catalogue (docs/flow.md:41-43),                                *)
MissingIsWarped == part = "make" => Making!MissingIsWarped

(* and the names in the list for -l are those of ll_CC (lngs.idl:136).       *)
ListIsOfLlCC == part = "make" => Making!ListIsOfLlCC

==============================================================================
