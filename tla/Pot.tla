--------------------------------- MODULE Pot ----------------------------------
(***************************************************************************)
(* `lngs pot`: the template a translator starts from, as it comes out of   *)
(* app/data/templates/pot.mustache, and the escaping of cmd_write_pot.cpp  *)
(* and mstch_engine.hpp.                                                   *)
(*                                                                         *)
(* A line is a sequence of characters.  The names of fields stand for one  *)
(* character each, and so does all of a line nothing depends on.           *)
(***************************************************************************)
EXTENDS Integers, Sequences, SequencesExt, FiniteSetsExt

CONSTANTS
    Before(_, _),   (* the order of the keys of strings                      *)
    Years,          (* the years to come, in order                           *)
    NoYear          (* -1 in the code                                        *)

------------------------------------------------------------------------------
(* Texts *)

(* The characters that have an escape sequence of their own, and its letter. *)
EscapeLetter ==
    [c \in {"\n", "\t", "\r", "\f", "BEL", "BS", "VT", "\\", "\""} |->
        CASE c = "\n" -> "n" [] c = "\t" -> "t" [] c = "\r" -> "r"
          [] c = "\f" -> "f" [] c = "BEL" -> "a" [] c = "BS" -> "b"
          [] c = "VT" -> "v" [] OTHER -> c]

(* Mutant: the backslash is left as it is.                                   *)
Escape_Backslash(text) ==
    FlattenSeq([i \in DOMAIN text |->
        IF text[i] \in DOMAIN EscapeLetter \ {"\\"}
          THEN <<"\\", EscapeLetter[text[i]]>> ELSE <<text[i]>>])

Escape(text) ==
    FlattenSeq([i \in DOMAIN text |->
        IF text[i] \in DOMAIN EscapeLetter
          THEN <<"\\", EscapeLetter[text[i]]>> ELSE <<text[i]>>])

(* Line breaks become spaces.                                                *)
Straighten(text) ==
    [i \in DOMAIN text |-> IF text[i] = "\n" THEN " " ELSE text[i]]

(* Output is text too: a line break in it starts a line.                     *)
Lines(text) ==
    LET Breaks == {i \in DOMAIN text : text[i] = "\n"}
        Ends == SetToSortSeq(Breaks \cup {Len(text) + 1}, <)
    IN [k \in DOMAIN Ends |->
          SubSeq(text, IF k = 1 THEN 1 ELSE Ends[k - 1] + 1, Ends[k] - 1)]

------------------------------------------------------------------------------
(* The template *)

Quoted(text) == <<"\"">> \o text \o <<"\"">>

Field(name, text) == <<name, " ">> \o Quoted(text)

Indexed(n, text) == <<"msgstr", "[", ToString(n), "]", " ">> \o Quoted(text)

(* str_transform::from with the transforms of pot::write, through the        *)
(* template: the value is escaped, the plural and the help are straightened. *)
MessageLines(str) ==
    << <<>> >>
    \o (IF str.help = <<>> THEN <<>>
        ELSE Lines(<<"#", ".", " ">> \o Straighten(str.help)))
    \o << Field("msgctxt", <<str.key>>), Field("msgid", Escape(str.value)) >>
    \o IF str.plural = <<>> THEN << Field("msgstr", <<>>) >>
       ELSE << Field("msgid_plural", Straighten(str.plural)),
               Indexed(0, <<>>), Indexed(1, <<>>) >>

HeaderLines ==
    << <<"#", ",", " ", "fuzzy">>,
       Field("msgid", <<>>), Field("msgstr", <<>>),
       Quoted(<<"Language: ", "\\", "n">>) >>

(* expand_context: the messages are in the order of their keys.              *)
Sorted(strings) ==
    SetToSortSeq({strings[n] : n \in DOMAIN strings},
                 LAMBDA s, t : Before(s.key, t.key))

Messages(strings) ==
    HeaderLines
    \o FlattenSeq([n \in DOMAIN Sorted(strings) |->
                     MessageLines(Sorted(strings)[n])])

------------------------------------------------------------------------------
(* The copyright line *)

Prefix == " Copyright (C) "

(* year_from_template: the year of the first copyright line among the        *)
(* comments a file starts with, if the year is a word of its own.            *)
CopyrightLine(line) ==
    /\ Len(line) >= 3 /\ line[2] = Prefix
    /\ line[3] \in Range(Years)
    /\ Len(line) = 3 \/ line[4] = " "

Comments(lines) ==
    {n \in DOMAIN lines :
       \A k \in 1 .. n : lines[k] # <<>> /\ lines[k][1] = "#"}

(* Mutant: only the first line is looked at.                                 *)
YearFromTemplate_FirstLine(lines) ==
    LET Found == {n \in Comments(lines) : n = 1 /\ CopyrightLine(lines[n])} IN
    IF Found = {} THEN NoYear ELSE lines[Min(Found)][3]

YearFromTemplate(lines) ==
    LET Found == {n \in Comments(lines) : CopyrightLine(lines[n])} IN
    IF Found = {} THEN NoYear ELSE lines[Min(Found)][3]

(* pot::call and pot::write: the year in the file that is about to be        *)
(* overwritten is kept.                                                      *)
Published(old, thisYear) ==
    IF YearFromTemplate(old) = NoYear THEN thisYear ELSE YearFromTemplate(old)

Template(strings, year) ==
    << <<"#", " ", "title">>, <<"#", Prefix, year, " ", "holder">>, <<"#">> >>
    \o Messages(strings)

==============================================================================
