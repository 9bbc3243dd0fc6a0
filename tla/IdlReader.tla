------------------------------ MODULE IdlReader -------------------------------
(***************************************************************************)
(* The .idl file as text: the tokenizer and the recursive descent of       *)
(* app/src/strings.cpp, which every command of lngs starts with, and the   *)
(* way lngs freeze puts numbers back into the text (cmd_freeze_ids.cpp).   *)
(*                                                                         *)
(* A text is a sequence of characters; a number or an identifier stands    *)
(* for one.  Positions are those of the next character.                    *)
(***************************************************************************)
EXTENDS Integers, Sequences, SequencesExt, FiniteSetsExt

CONSTANTS
    Numerals,    (* the numbers that may be written: a function to integers  *)
    Words,       (* the identifiers                                          *)
    Catalogues,  (* what may be written down: [serial, strings], a string    *)
                 (* being [key, value, help, plural, id]                     *)
    Layouts      (* the ways to write it: [gap, inner, backwards, split,     *)
                 (* extra]                                                   *)

VARIABLES
    idl,         (* the text of the file                                     *)
    def,         (* idl_strings, as the last command has read it             *)
    pc,          (* "idle", "read" or "refused"                              *)
    meant,       (* history: the catalogue the text is of,                   *)
    layout,      (*   how it is written,                                     *)
    dropped      (*   and the symbol that is missing, 0 if none is           *)

history == <<meant, layout, dropped>>
vars == <<idl, def, pc, history>>

LastBase == 1000

------------------------------------------------------------------------------
(* The tokenizer *)

Space == {" ", "\n"}
Punctuation == {"[", "]", "{", "}", "(", ")", "=", ";", ","}

Peek(text, at) == IF at <= Len(text) THEN text[at] ELSE "end"
First(text, at, S) ==
    CHOOSE i \in at .. Len(text) + 1 : /\ i <= Len(text) => text[i] \in S
                                       /\ \A j \in at .. i - 1 : text[j] \notin S
FirstNot(text, at, S) ==
    CHOOSE i \in at .. Len(text) + 1 : /\ i <= Len(text) => text[i] \notin S
                                       /\ \A j \in at .. i - 1 : text[j] \in S

(* ws_comments: a slash that begins no comment is passed over, too.          *)
RECURSIVE SkipBlanks(_, _)
SkipBlanks(text, at) ==
    LET next == FirstNot(text, at, Space)
    IN IF Peek(text, next) # "/" THEN next
       ELSE IF Peek(text, next + 1) = "/"
         THEN SkipBlanks(text, First(text, next + 1, {"\n"}))
       ELSE next + 1

Control == [a |-> "BEL", b |-> "BS", f |-> "\f", n |-> "\n", r |-> "\r",
            t |-> "\t", v |-> "VT"]

(* A backslash at the end of a line joins it with the next.                  *)
Unescaped(c) ==
    IF c \in DOMAIN Control THEN <<Control[c]>>
    ELSE IF c = "\n" THEN <<>> ELSE <<c>>

(* From behind the opening quote; the end of the file ends a string.         *)
RECURSIVE StringFrom(_, _, _)
StringFrom(text, at, value) ==
    IF Peek(text, at) = "end" THEN [value |-> value, to |-> at]
    ELSE IF text[at] = "\"" THEN [value |-> value, to |-> at + 1]
    ELSE IF text[at] # "\\" THEN StringFrom(text, at + 1, Append(value, text[at]))
    ELSE IF Peek(text, at + 1) = "end" THEN [value |-> value, to |-> at + 1]
    ELSE StringFrom(text, at + 2, value \o Unescaped(text[at + 1]))

Token(text, at) ==
    LET from == SkipBlanks(text, at)
        c    == Peek(text, from)
        str  == StringFrom(text, from + 1, <<>>)
        type == CASE from > Len(text)       -> "end of file"
                  [] c = "\""               -> "string"
                  [] c \in DOMAIN Numerals  -> "number"
                  [] c \in Words            -> "id"
                  [] c \in Punctuation      -> c
                  [] OTHER                  -> "none"
        cooked == IF type = "string" THEN str ELSE [value |-> <<c>>, to |-> from + 1]
    IN [type |-> type, value |-> cooked.value, offset |-> from, to |-> cooked.to]

(* All that get will return, up to the end of the file.                      *)
RECURSIVE Tokens(_, _)
Tokens(text, at) ==
    LET t == Token(text, at)
    IN << t >> \o (IF t.type = "end of file" THEN <<>> ELSE Tokens(text, t.to))

Tok(toks, n) == toks[Min({n, Len(toks)})]

(* Where the strings that stand in a row from n on end.                      *)
Behind(toks, n) == Min({k \in n .. Len(toks) : toks[k].type # "string"} \cup {Len(toks)})
Values(toks, n, m) == [k \in 1 .. m - n |-> toks[n + k - 1].value]

------------------------------------------------------------------------------
(* Attributes *)

(* Attributes to be filled in: offset is 0 as long as one is not visited.    *)
Text   == [number |-> FALSE, value |-> <<>>, offset |-> 0]
Number(n) == [number |-> TRUE, value |-> n, offset |-> 0]

atoi(value) ==
    IF value # <<>> /\ value[1] \in DOMAIN Numerals THEN Numerals[value[1]] ELSE 0

(* store_attr: strings replace a text, and a number is put behind it.        *)
Stored(attr, name, arg, values) ==
    [attr EXCEPT !.offset = name.offset,
                 !.value = IF attr.number THEN atoi(Last(values))
                           ELSE IF arg.type = "string" THEN FlattenSeq(values)
                           ELSE @ \o FlattenSeq(values)]

Failed(p) == [p EXCEPT !.ok = FALSE]

(* Mutant: attributes need no comma between them.                            *)
Separates_Always(next) == TRUE

Separates(next) == next.type \in {"]", ","}

(* One attribute, and the comma behind it.  One that is not known has a      *)
(* single argument or none, and no comma then.                               *)
ReadAttribute(toks, p) ==
    LET name  == Tok(toks, p.at)
        open  == Tok(toks, p.at + 1)
        arg   == Tok(toks, p.at + 2)
        known == name.type = "id" /\ name.value[1] \in DOMAIN p.attrs
        close == IF arg.type = "string" /\ known THEN Behind(toks, p.at + 2) ELSE p.at + 3
        next  == Tok(toks, close + 1)
    IN IF \/ name.type # "id"
          \/ known /\ open.type # "("
          \/ open.type = "(" /\ \/ arg.type \notin {"string", "number"}
                                \/ Tok(toks, close).type # ")"
                                \/ ~Separates(next)
         THEN Failed(p)
       ELSE [p EXCEPT
               !.at = IF open.type # "(" THEN @ + 1
                      ELSE IF next.type = "," THEN close + 2 ELSE close + 1,
               !.attrs = IF known
                           THEN [@ EXCEPT ![name.value[1]] =
                                   Stored(@, name, arg, Values(toks, p.at + 2, close))]
                           ELSE @]

RECURSIVE AttributesFrom(_, _)
AttributesFrom(toks, p) ==
    IF ~p.ok THEN p
    ELSE IF Tok(toks, p.at).type = "]" THEN [p EXCEPT !.at = @ + 1]
    ELSE AttributesFrom(toks, ReadAttribute(toks, p))

ReadAttributes(toks, at, attrs, required) ==
    LET none == [ok |-> required = {}, at |-> at, attrs |-> attrs]
        read == AttributesFrom(toks, [ok |-> TRUE, at |-> at + 1, attrs |-> attrs])
    IN IF Tok(toks, at).type # "[" THEN none
       ELSE [read EXCEPT !.ok = @ /\ \A a \in required : read.attrs[a].offset # 0]

------------------------------------------------------------------------------
(* read_string and read_strings *)

ReadString(toks, at) ==
    LET read  == ReadAttributes(toks, at, [help |-> Text, plural |-> Text,
                                           id |-> Number(-2)], {"id"})
        Sentence(ok, attrs, n) ==
            LET semi == Behind(toks, n + 2)
            IN [ok |-> /\ ok
                       /\ Tok(toks, n).type = "id" /\ Tok(toks, n + 1).type = "="
                       /\ semi > n + 2 /\ Tok(toks, semi).type = ";",
                to |-> semi + 1,
                string |-> [key       |-> Tok(toks, n).value,
                            value     |-> FlattenSeq(Values(toks, n + 2, semi)),
                            help      |-> attrs["help"].value,
                            plural    |-> attrs["plural"].value,
                            id        |-> attrs["id"].value,
                            id_offset |-> attrs["id"].offset]]
    IN Sentence(read.ok, read.attrs, read.at)

RECURSIVE StringsFrom(_, _, _)
StringsFrom(toks, at, strings) ==
    LET type == Tok(toks, at).type
        Further(read) ==
            IF read.ok THEN StringsFrom(toks, read.to, Append(strings, read.string))
            ELSE [ok |-> FALSE, strings |-> strings]
    IN CASE type = "}"            -> [ok |-> TRUE, strings |-> strings]
         [] type \in {"[", "id"} -> Further(ReadString(toks, at))
         [] OTHER                 -> [ok |-> FALSE, strings |-> strings]

(* Mutant: numbers go on from the last one of the file, not the largest.     *)
Numbered_FromLast(strings) ==
    LET final == SelectSeq(strings, LAMBDA s : s.id > 0)
        max   == IF final = <<>> THEN LastBase ELSE Max({LastBase, Last(final).id})
    IN [n \in DOMAIN strings |->
          IF strings[n].id > 0 THEN strings[n]
          ELSE [strings[n] EXCEPT
                  !.id = max + Cardinality({m \in 1 .. n : strings[m].id <= 0})]]

(* New strings are numbered from the largest number on.                      *)
Numbered(strings) ==
    LET max == Max({LastBase} \cup {strings[n].id : n \in DOMAIN strings})
    IN [n \in DOMAIN strings |->
          IF strings[n].id > 0 THEN strings[n]
          ELSE [strings[n] EXCEPT
                  !.id = max + Cardinality({m \in 1 .. n : strings[m].id <= 0})]]

Nothing == [ok |-> FALSE, serial |-> 0, serial_offset |-> 0, has_new |-> FALSE,
            strings |-> <<>>]

ReadStrings(text) ==
    LET toks  == Tokens(text, 1)
        attrs == ReadAttributes(toks, 1,
                     [project |-> Text, namespace |-> Text, version |-> Text,
                      serial |-> Number(0)], {"serial"})
        strs  == Tok(toks, attrs.at)
        read  == StringsFrom(toks, attrs.at + 2, <<>>)
    IN IF ~(/\ Tok(toks, 1).type \in {"[", "id"} /\ attrs.ok
            /\ strs.value = <<"strings">> /\ strs.type = "id"
            /\ Tok(toks, attrs.at + 1).type = "{" /\ read.ok)
         THEN Nothing
       ELSE [ok            |-> TRUE,
             serial        |-> attrs.attrs["serial"].value,
             serial_offset |-> attrs.attrs["serial"].offset,
             has_new       |-> \E n \in DOMAIN read.strings : read.strings[n].id <= 0,
             strings       |-> Numbered(read.strings)]

------------------------------------------------------------------------------
(* lngs freeze *)

Written(n) == CHOOSE w \in DOMAIN Numerals : Numerals[w] = n

Freeze(defs) ==
    [defs EXCEPT !.serial = @ + 1,
                 !.strings = SortSeq(@, LAMBDA s, t : s.id_offset < t.id_offset)]

(* Mutant: the closing parenthesis is taken for a part of the number.        *)
ValuePos_Behind(text, start) ==
    LET first == First(text, start, {"("})
    IN [first |-> first, second |-> First(text, first, {")"}) + 1]

(* The first parenthesis behind a position, and the next closing one.        *)
ValuePos(text, start) ==
    LET first == First(text, start, {"("})
    IN [first |-> first, second |-> First(text, first, {")"})]

(* write: the text up to each number, and the number in place of the old.    *)
Write(defs, text) ==
    LET serial == ValuePos(text, defs.serial_offset)
        Put(done, str) ==
            LET pos == ValuePos(text, str.id_offset)
            IN [out    |-> Append(done.out \o SubSeq(text, done.offset, pos.first),
                                  Written(str.id)),
                offset |-> pos.second]
        all == FoldLeft(Put, [out |-> Append(SubSeq(text, 1, serial.first),
                                             Written(defs.serial)),
                              offset |-> serial.second], defs.strings)
    IN all.out \o SubSeq(text, all.offset, Len(text))

------------------------------------------------------------------------------
(* How a developer writes a catalogue, by docs/syntax.md: its symbols, and   *)
(* any blanks and comments between them.                                     *)

Escape(value) ==
    FlattenSeq([n \in DOMAIN value |->
        CASE value[n] = "\n" -> <<"\\", "n">>
          [] value[n] \in {"\"", "\\"} -> <<"\\", value[n]>>
          [] OTHER -> <<value[n]>>])
Quoted(value) == <<"\"">> \o Escape(value) \o <<"\"">>

StringArg(value, how) ==
    IF how.split THEN << Quoted(<<>>) >> \o [n \in DOMAIN value |-> Quoted(<<value[n]>>)]
    ELSE << Quoted(value) >>

Attribute(name, arg) == << <<name>>, <<"(">> >> \o arg \o << <<")">> >>

Attributes(attrs, how) ==
    LET inOrder == IF how.backwards THEN Reverse(attrs) ELSE attrs
        all == IF how.extra THEN Append(inOrder, Attribute("extra", << Quoted(<<"x">>) >>))
               ELSE inOrder
    IN << <<"[">> >>
       \o FlattenSeq([n \in DOMAIN all |->
             IF n = 1 THEN all[n] ELSE << <<",">> >> \o all[n]])
       \o << <<"]">> >>

Optional(name, value, how) ==
    IF value = <<>> THEN <<>> ELSE << Attribute(name, StringArg(value, how)) >>

StringSymbols(str, how) ==
    Attributes(<< Attribute("id", << <<Written(str.id)>> >>) >>
               \o Optional("help", str.help, how) \o Optional("plural", str.plural, how),
               how)
    \o << <<str.key>>, <<"=">> >> \o StringArg(str.value, how) \o << <<";">> >>

Symbols(catalogue, how) ==
    Attributes(<< Attribute("serial", << <<Written(catalogue.serial)>> >>),
                  Attribute("project", << Quoted(<<"x">>) >>) >>, how)
    \o << <<"strings">>, <<"{">> >>
    \o FlattenSeq([n \in DOMAIN catalogue.strings |->
                      StringSymbols(catalogue.strings[n], how)])
    \o << <<"}">> >>

(* Beside a number there may be other blanks than elsewhere.                 *)
Laid(symbols, how) ==
    LET IsNumber(n) == n \in DOMAIN symbols /\ symbols[n][1] \in DOMAIN Numerals
        Gap(n) == IF IsNumber(n) \/ IsNumber(n + 1) THEN how.inner ELSE how.gap
    IN how.gap \o FlattenSeq([n \in DOMAIN symbols |-> symbols[n] \o Gap(n)])

(* A symbol a sentence cannot do without: all but the strings.               *)
Needed(symbols) == {n \in DOMAIN symbols : symbols[n][1] # "\""}

------------------------------------------------------------------------------
WriteDown(catalogue, how) ==
    /\ meant' = catalogue /\ layout' = how /\ dropped' = 0
    /\ idl' = Laid(Symbols(catalogue, how), how)

Init ==
    /\ meant \in Catalogues /\ layout \in Layouts /\ dropped = 0
    /\ idl = Laid(Symbols(meant, layout), layout)
    /\ def = Nothing
    /\ pc = "idle"

(* A slip of the editor.                                                     *)
Drop ==
    /\ pc = "idle" /\ dropped = 0
    /\ LET symbols == Symbols(meant, layout)
       IN \E n \in Needed(symbols) : /\ dropped' = n
                                     /\ idl' = Laid(RemoveAt(symbols, n), layout)
    /\ UNCHANGED <<def, pc, meant, layout>>

Read ==
    /\ pc = "idle"
    /\ def' = ReadStrings(idl)
    /\ pc' = IF def'.ok THEN "read" ELSE "refused"
    /\ UNCHANGED <<idl, history>>

(* The catalogue with the numbers of its new strings, a serial later.        *)
Frozen(catalogue) ==
    LET max == Max({LastBase} \cup {s.id : s \in ToSet(catalogue.strings)})
        New == {n \in DOMAIN catalogue.strings : catalogue.strings[n].id = -1}
    IN [serial  |-> catalogue.serial + 1,
        strings |-> [n \in DOMAIN catalogue.strings |->
                       IF n \notin New THEN catalogue.strings[n]
                       ELSE [catalogue.strings[n] EXCEPT
                               !.id = max + Cardinality(New \cap 1 .. n)]]]

(* The text is of the catalogue with its new numbers, in the old layout but  *)
(* for what stood beside the numbers: that is lost (value_pos and write).    *)
LngsFreeze ==
    /\ pc = "read"
    /\ IF def.has_new
         THEN /\ idl' = Write(Freeze(def), idl)
              /\ meant' = Frozen(meant)
              /\ layout' = [layout EXCEPT !.inner = <<>>]
         ELSE UNCHANGED <<idl, meant, layout>>
    /\ def' = Nothing
    /\ pc' = "idle"
    /\ UNCHANGED dropped

(* The developer looks at the errors, and writes the symbol that is missing. *)
Repair ==
    /\ pc = "refused"
    /\ WriteDown(meant, layout)
    /\ def' = Nothing
    /\ pc' = "idle"

(* A string is taken out of the file.                                        *)
Edit ==
    /\ pc = "idle" /\ dropped = 0
    /\ \E n \in DOMAIN meant.strings :
         WriteDown([meant EXCEPT !.strings = RemoveAt(@, n)], layout)
    /\ UNCHANGED <<def, pc>>

Next ==
    \/ Drop
    \/ Read
    \/ LngsFreeze
    \/ Repair
    \/ Edit

Spec == Init /\ [][Next]_vars

------------------------------------------------------------------------------
(* Properties *)

(* A text of the grammar of docs/syntax.md is read, whatever blanks and      *)
(* comments are in it, in whatever order its attributes are and in how many  *)
(* pieces its strings: with the values that were written down.               *)
ReadsWhatIsMeant ==
    /\ pc = "refused" => dropped # 0
    /\ pc = "read" =>
         /\ def.serial = meant.serial
         /\ Len(def.strings) = Len(meant.strings)
         /\ \A n \in DOMAIN meant.strings :
              LET str == def.strings[n]  as == meant.strings[n] IN
              /\ str.key = <<as.key>> /\ str.value = as.value
              /\ str.help = as.help /\ str.plural = as.plural
              /\ str.id = Frozen(meant).strings[n].id

(* A text that lacks any of its symbols is not read: no command of lngs      *)
(* works on half of the strings of a file.                                   *)
BrokenIsRefused == pc = "read" => dropped = 0

(* lngs freeze puts the serial and all numbers into the text, new ones and   *)
(* old ones.  What it loses is everything else between the parentheses of    *)
(* serial(...) and of every id(...): blanks and comments.  Nothing is lost,  *)
(* added or moved anywhere else.                                             *)
FreezeOnlyNumbers == dropped = 0 => idl = Laid(Symbols(meant, layout), layout)

==============================================================================
