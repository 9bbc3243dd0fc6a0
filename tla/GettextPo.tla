------------------------------ MODULE GettextPo -------------------------------
(***************************************************************************)
(* The reader of .po files (app/src/gettext_plain.cpp), line by line: a    *)
(* field is kept until a line shows that it is complete, and a record      *)
(* until its last msgstr is.                                               *)
(*                                                                         *)
(* A line is a sequence of characters; the name of a field, or any other   *)
(* word, may stand for one.  The index of a field has no width.            *)
(***************************************************************************)
EXTENDS Integers, Sequences, SequencesExt, FiniteSetsExt

CONSTANT Files    (* the files lngs make is given                            *)

VARIABLES
    file,         (* the .po that is being read                              *)
    lineno,       (* parser_ctx: the lines read,                             *)
    cmd,          (*   the field being read,                                 *)
    rec,          (*   the complete fields of its record,                    *)
    result,       (*   the messages                                          *)
    errors,       (* the number of errors reported                           *)
    outcome       (* "idle", "reading", "read" or "failed"                   *)

reader == <<file, lineno, cmd, rec, result, errors, outcome>>

------------------------------------------------------------------------------
(* One line: parse_line and what it calls.  Positions are of the next        *)
(* character.                                                                *)

Blanks == {" ", "\t"}
Digits == {"0", "1", "2"}
Value == [d \in Digits |-> CASE d = "0" -> 0 [] d = "1" -> 1 [] d = "2" -> 2]
Types == [name \in {"msgctxt", "msgid", "msgid_plural", "msgstr"} |-> name]

(* What a character stands for behind a backslash.                           *)
Unescaped(letter) ==
    CASE letter = "n" -> "\n" [] letter = "t" -> "\t" [] letter = "r" -> "\r"
      [] letter = "f" -> "\f" [] letter = "a" -> "BEL" [] letter = "b" -> "BS"
      [] letter = "v" -> "VT" [] OTHER -> letter

Peek(line, at) == IF at <= Len(line) THEN line[at] ELSE "end"


FirstFrom(line, at, Stop) ==
    Min({i \in at .. Len(line) : line[i] \in Stop} \cup {Len(line) + 1})

SkipWs(line, at) ==
    LET there == Min({i \in at .. Len(line) : line[i] \notin Blanks}
                       \cup {Len(line) + 1})
    IN IF Peek(line, there) = "#" THEN Len(line) + 1 ELSE there

(* Mutant: an empty number is not an error.                                  *)
Index_Empty(line, at) ==
    LET stop == Min({i \in at + 1 .. Len(line) : line[i] \notin Digits}
                      \cup {Len(line) + 1})
        digits == SubSeq(line, at + 1, stop - 1)
    IN IF Peek(line, at) # "[" THEN [at |-> at, value |-> 0, errors |-> 0]
       ELSE [at     |-> Min({stop + 1, Len(line) + 1}),
             value  |-> FoldLeft(LAMBDA n, d : n * 10 + Value[d], 0, digits),
             errors |-> IF Peek(line, stop) \notin {"]", "end"} THEN 1
                        ELSE 0]

(* The number after a field's name.  An error in it is reported, and the     *)
(* line is read on behind the character that is in the way.                  *)
Index(line, at) ==
    LET stop == Min({i \in at + 1 .. Len(line) : line[i] \notin Digits}
                      \cup {Len(line) + 1})
        digits == SubSeq(line, at + 1, stop - 1)
    IN IF Peek(line, at) # "[" THEN [at |-> at, value |-> 0, errors |-> 0]
       ELSE [at     |-> Min({stop + 1, Len(line) + 1}),
             value  |-> FoldLeft(LAMBDA n, d : n * 10 + Value[d], 0, digits),
             errors |-> IF \/ Peek(line, stop) \notin {"]", "end"}
                           \/ Peek(line, stop) = "]" /\ digits = <<>>
                          THEN 1 ELSE 0]

(* parse_string_chunk, behind the opening quote: up to the first one that    *)
(* has an even number of backslashes ahead.                                  *)
Escaping(line, at, i) ==
    LET run == CHOOSE k \in 0 .. i - at :
                 /\ \A j \in i - k .. i - 1 : line[j] = "\\"
                 /\ i - k > at => line[i - k - 1] # "\\"
    IN run % 2 = 1

Closing(line, at) ==
    {i \in at .. Len(line) : line[i] = "\"" /\ ~Escaping(line, at, i)}

Chunk(line, at) ==
    LET Shown == SetToSortSeq({i \in at .. Min(Closing(line, at)) - 1 :
                                 line[i] # "\\" \/ Escaping(line, at, i)}, <)
    IN [n \in DOMAIN Shown |->
          IF Escaping(line, at, Shown[n]) THEN Unescaped(line[Shown[n]])
          ELSE line[Shown[n]]]

(* What a line is to the reader.                                             *)
Parse(line) ==
    LET from    == SkipWs(line, 1)
        field   == Peek(line, from) # "\""
        name    == SubSeq(line, from,
                          FirstFrom(line, from, Blanks \cup {"#", "["}) - 1)
        index   == Index(line, from + Len(name))
        open    == IF field THEN SkipWs(line, index.at) ELSE from
        errors0 == IF field THEN index.errors ELSE 0
        good    == /\ Peek(line, open) = "\""
                   /\ Closing(line, open + 1) # {}
                   /\ SkipWs(line, Min(Closing(line, open + 1)) + 1)
                        = Len(line) + 1
    IN IF from > Len(line) THEN [kind |-> "blank", errors |-> 0]
       ELSE IF ~good THEN [kind |-> "bad", errors |-> errors0 + 1]
       ELSE IF field
         THEN [kind   |-> "field",
               type   |-> IF Len(name) = 1 /\ name[1] \in DOMAIN Types
                            THEN name[1] ELSE "unknown",
               index  |-> index.value,
               text   |-> Chunk(line, open + 1),
               errors |-> errors0]
       ELSE [kind |-> "more", text |-> Chunk(line, open + 1), errors |-> 0]

------------------------------------------------------------------------------
(* Records: line_changed *)

NoField == [type |-> "unknown", index |-> 0, text |-> <<>>]

Rank(type) ==
    CASE type = "msgctxt" -> 1 [] type = "msgid" -> 2 [] type = "msgstr" -> 3
      [] OTHER -> 4

(* cmd_info::operator< and stable_sort                                       *)
SortedFields(fields) ==
    LET Less(m, n) ==
          LET f == fields[m]  g == fields[n] IN
          IF f.type # g.type THEN Rank(f.type) < Rank(g.type)
          ELSE IF f.index # g.index THEN f.index < g.index ELSE m < n
        order == SetToSortSeq(DOMAIN fields, Less)
    IN [n \in DOMAIN order |-> fields[order[n]]]

OfType(fields, type) == SelectSeq(fields, LAMBDA f : f.type = type)

Joined(texts) ==
    IF texts = <<>> THEN <<>>
    ELSE FlattenSeq([n \in DOMAIN texts |->
                       IF n = 1 THEN texts[1] ELSE <<"\\0">> \o texts[n]])

(* The message of a complete record, none for one that has only msgstr: its  *)
(* key is the context, or else the id.                                       *)
MessageOf(fields) ==
    LET sorted == SortedFields(fields)
        names  == IF OfType(sorted, "msgctxt") # <<>>
                    THEN OfType(sorted, "msgctxt")
                    ELSE OfType(sorted, "msgid")
    IN IF sorted[1].type = "msgstr" THEN <<>>
       ELSE << [key  |-> Last(names).text,
                text |-> Joined([n \in DOMAIN OfType(sorted, "msgstr") |->
                                   OfType(sorted, "msgstr")[n].text])] >>

With(messages, key, text) ==
    [k \in DOMAIN messages \cup {key} |->
       IF k = key THEN text ELSE messages[k]]

(* Mutant: a record ends with its first msgstr.                              *)
Completes_First(next) == cmd.type = "msgstr"

(* A record is complete once its last msgstr is.                             *)
Completes(next) == cmd.type = "msgstr" /\ next # "msgstr"

(* line_changed, when the next line starts a field or ends one.              *)
LineChanged(next) ==
    LET fields == IF cmd.type = "unknown" THEN rec ELSE Append(rec, cmd) IN
    IF ~Completes(next) THEN rec' = fields /\ UNCHANGED result
    ELSE /\ rec' = <<>>
         /\ result' = IF MessageOf(fields) = <<>> THEN result
                      ELSE With(result, MessageOf(fields)[1].key,
                                MessageOf(fields)[1].text)

------------------------------------------------------------------------------
NoMessages == [k \in {} |-> <<>>]

ReaderInit ==
    /\ file = <<>>
    /\ lineno = 0 /\ cmd = NoField /\ rec = <<>>
    /\ result = NoMessages /\ errors = 0 /\ outcome = "idle"

------------------------------------------------------------------------------
(* lngs make reads a file *)

Open(lines) ==
    /\ outcome = "idle"
    /\ file' = lines
    /\ outcome' = "reading"
    /\ UNCHANGED <<lineno, cmd, rec, result, errors>>

Line == Parse(file[lineno + 1])

ReadLine(kind) ==
    /\ outcome = "reading" /\ lineno < Len(file)
    /\ Line.kind = kind
    /\ lineno' = lineno + 1
    /\ errors' = errors + Line.errors
    /\ UNCHANGED file

(* Mutant: a blank line or a comment does not end a field.                   *)
BlankLine_Skipped ==
    /\ ReadLine("blank")
    /\ UNCHANGED <<cmd, rec, result, outcome>>

(* An empty line, or a comment.                                              *)
BlankLine ==
    /\ ReadLine("blank")
    /\ LineChanged("unknown")
    /\ cmd' = NoField
    /\ UNCHANGED outcome

FieldLine ==
    /\ ReadLine("field")
    /\ LineChanged(Line.type)
    /\ cmd' = [type |-> Line.type, index |-> Line.index, text |-> Line.text]
    /\ UNCHANGED outcome

MoreLine ==
    /\ ReadLine("more")
    /\ cmd' = [cmd EXCEPT !.text = @ \o Line.text]
    /\ UNCHANGED <<rec, result, outcome>>

(* open_po hands out nothing of a file with a line it cannot read.           *)
BadLine ==
    /\ ReadLine("bad")
    /\ result' = NoMessages
    /\ outcome' = "failed"
    /\ UNCHANGED <<cmd, rec>>

EndOfFile ==
    /\ outcome = "reading" /\ lineno = Len(file)
    /\ LineChanged("unknown")
    /\ cmd' = NoField
    /\ outcome' = "read"
    /\ UNCHANGED <<file, lineno, errors>>

(* The next run of lngs.                                                     *)
Again ==
    /\ outcome \in {"read", "failed"}
    /\ file' = <<>>
    /\ lineno' = 0 /\ cmd' = NoField /\ rec' = <<>>
    /\ result' = NoMessages /\ errors' = 0 /\ outcome' = "idle"

Read ==
    \/ BlankLine
    \/ FieldLine
    \/ MoreLine
    \/ BadLine
    \/ EndOfFile
    \/ Again

Next == Read \/ (outcome = "idle" /\ \E lines \in Files : Open(lines))

Spec == ReaderInit /\ [][Next]_reader

------------------------------------------------------------------------------
(* Properties *)

(* Fields of a file by line number, with the text of the lines that go on.   *)
Fields == {n \in DOMAIN file : Parse(file[n]).kind = "field"}

TextAt(n) ==
    LET Rest == {m \in n + 1 .. Len(file) :
                   \A k \in n + 1 .. m : Parse(file[k]).kind = "more"}
    IN FlattenSeq([k \in 1 .. Cardinality(Rest) + 1 |->
                     Parse(file[n + k - 1]).text])

Is(n, types) == n \in Fields /\ Parse(file[n]).type \in types

(* From line m to line n, every line is a msgstr or more of one.             *)
OneRun(m, n) ==
    \A k \in m .. n :
        Is(k, {"msgstr"}) \/ (k > m /\ Parse(file[k]).kind = "more")

(* A message is the text of msgstr lines that follow each other, under the   *)
(* text of a context or an id above them that no other msgstr has come       *)
(* between: no translation is put together from two records, or filed under  *)
(* the name of an earlier one that had its own.                              *)
MessagesComeFromOneRecord ==
    outcome = "read" =>
        \A key \in DOMAIN result :
            \E name, first, last \in Fields :
                /\ name < first /\ first <= last
                /\ Is(name, {"msgctxt", "msgid"}) /\ TextAt(name) = key
                /\ \A k \in name .. first - 1 : ~Is(k, {"msgstr"})
                /\ OneRun(first, last)
                /\ \E order \in [1 .. Cardinality(Fields \cap first .. last)
                                   -> Fields \cap first .. last] :
                     /\ Range(order) = Fields \cap first .. last
                     /\ result[key] = Joined([i \in DOMAIN order |->
                                                TextAt(order[i])])

(* The grammar of a line: blanks, the name of a field with or without a      *)
(* number, a text in quotes, and blanks or a comment to the end.             *)
Only(line, from, to, S) == \A i \in from .. to : line[i] \in S

WellFormed(line) ==
    \/ \E n \in 1 .. Len(line) + 1 :
         Only(line, 1, n - 1, Blanks) /\ (n > Len(line) \/ line[n] = "#")
    \/ \E open, close \in DOMAIN line :
         /\ open < close /\ line[open] = "\"" /\ line[close] = "\""
         /\ \E n \in close + 1 .. Len(line) + 1 :
              /\ Only(line, close + 1, n - 1, Blanks)
              /\ n > Len(line) \/ line[n] = "#"
         /\ \/ Only(line, 1, open - 1, Blanks)
            \/ \E from, to \in 1 .. open - 1 :
                 /\ Only(line, 1, from - 1, Blanks)
                 /\ Range(SubSeq(line, from, to))
                      \cap (Blanks \cup {"#", "["}) = {}
                 /\ Only(line, to + 1, open - 1, Blanks)
            \/ \E from, to, digit \in 1 .. open - 1 :
                 /\ from <= to /\ to < digit /\ digit + 1 < open
                 /\ Only(line, 1, from - 1, Blanks)
                 /\ line[to] = "[" /\ line[digit + 1] = "]"
                 /\ Only(line, to + 1, digit, Digits)
                 /\ Only(line, digit + 2, open - 1, Blanks)

(* A file that is read without an error has no line that is not what the     *)
(* reader takes it for, and of a file with an error lngs make has either     *)
(* nothing or the count of errors it stops for.                              *)
NoErrorMeansWellFormed ==
    /\ (outcome = "read" /\ errors = 0) =>
         \A n \in DOMAIN file : WellFormed(file[n])
    /\ outcome = "failed" => errors > 0 /\ result = NoMessages

==============================================================================
