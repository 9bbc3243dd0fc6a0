------------------------------ MODULE PoWorkflow ------------------------------
(***************************************************************************)
(* The way of a translation (docs/flow.md): `lngs pot` writes a template   *)
(* (module Pot), a translator's editor fills it in, and `lngs make` reads  *)
(* the .po (module GettextPo).                                             *)
(***************************************************************************)
EXTENDS GettextPo, Pot

CONSTANTS
    Catalogues,   (* the strings of an .idl: [key, value, plural, help], and *)
                  (* forms, the translation they are given                   *)
    Layouts       (* how a translator's editor writes a .po                  *)

VARIABLES
    strings,      (* the strings of the .idl                                 *)
    thisYear,     (* the clock: a position in Years                          *)
    template,     (* the .pot                                                *)
    published     (* history: the year of the first run of lngs pot since    *)
                  (* the file was without a copyright line, NoYear before it *)

workflow == <<strings, thisYear, template, published>>
vars == <<workflow, reader>>

Init ==
    /\ strings \in Catalogues
    /\ thisYear = 1
    /\ template = <<>>
    /\ published = NoYear
    /\ ReaderInit

------------------------------------------------------------------------------
(* The template *)

NewYear ==
    /\ thisYear < Len(Years)
    /\ thisYear' = thisYear + 1
    /\ UNCHANGED <<strings, template, published, reader>>

FirstYear == IF published = NoYear THEN Years[thisYear] ELSE published

LngsPot ==
    /\ template' = Template(strings, Published(template, Years[thisYear]))
    /\ published' = FirstYear
    /\ UNCHANGED <<strings, thisYear, reader>>

(* The file is opened, and truncated, and not all of it gets written: with   *)
(* less than its first two lines there is no copyright line.                 *)
LngsPotFails(written) ==
    /\ template' = SubSeq(Template(strings, Published(template, Years[thisYear])),
                          1, written)
    /\ published' = IF written < 2 THEN NoYear ELSE FirstYear
    /\ UNCHANGED <<strings, thisYear, reader>>

------------------------------------------------------------------------------
(* The translator's editor, which is not part of the repository *)

(* A field, in one line or with its text in lines of their own; head is the  *)
(* field with no text, which ends in its quotes.                             *)
Written(head, text, split) ==
    IF ~split THEN << SubSeq(head, 1, Len(head) - 2) \o Quoted(Escape(text)) >>
    ELSE << head >>
         \o [n \in DOMAIN text |->
               <<"\t">> \o Quoted(Escape(<<text[n]>>)) \o <<" ", "#", "\"">>]

Names(str, layout) ==
    LET Named(name, text) == Written(Field(name, <<>>), text, layout.split)
        gap == IF layout.comments THEN << <<"#", "\"">>, <<>> >> ELSE <<>>
    IN IF layout.plain
         THEN Named("msgid", <<str.key>>) \o gap
         ELSE Named("msgctxt", <<str.key>>) \o gap
              \o Named("msgid", str.value) \o gap
              \o IF str.plural = <<>> THEN <<>>
                 ELSE Named("msgid_plural", str.plural) \o gap

Strs(str, layout) ==
    LET Form(n) == IF layout.backwards THEN Len(str.forms) + 1 - n ELSE n
        Lns(n)  == Written(Indexed(Form(n) - 1, <<>>), str.forms[Form(n)],
                           layout.split)
    IN IF str.plural = <<>>
         THEN Written(Field("msgstr", <<>>), str.forms[1], layout.split)
         ELSE FlattenSeq([n \in DOMAIN str.forms |-> Lns(n)])

Translated(layout) ==
    HeaderLines
    \o FlattenSeq([n \in DOMAIN strings |->
         (IF layout.comments THEN << <<>> >> ELSE <<>>)
         \o Names(strings[n], layout) \o Strs(strings[n], layout)])

------------------------------------------------------------------------------
(* lngs make *)

OpenTranslated(layout) == Open(Translated(layout)) /\ UNCHANGED workflow

OpenTemplate == template # <<>> /\ Open(template) /\ UNCHANGED workflow

ReadOn == Read /\ UNCHANGED workflow

NextStep ==
    \/ NewYear
    \/ LngsPot
    \/ \E written \in 0 .. 2 : LngsPotFails(written)
    \/ \E layout \in Layouts : OpenTranslated(layout)
    \/ OpenTemplate
    \/ ReadOn

WorkflowSpec == Init /\ [][NextStep]_vars

------------------------------------------------------------------------------
(* Properties *)

Done == outcome \in {"read", "failed"}

(* However a translator's editor lays a .po out, with comments between the   *)
(* fields, texts in pieces, plural forms in any order, a context or none:    *)
(* what `lngs make` reads is the translation of every string, and nothing    *)
(* else but the header.                                                      *)
ReadsWhatWasTranslated ==
    \A layout \in Layouts :
        (Done /\ file = Translated(layout)) =>
            /\ outcome = "read" /\ errors = 0
            /\ DOMAIN result =
                 {<<>>} \cup {<<strings[n].key>> : n \in DOMAIN strings}
            /\ \A n \in DOMAIN strings :
                 result[<<strings[n].key>>] = Joined(strings[n].forms)

TemplateReads ==
    (Done /\ template # <<>> /\ file = template
          /\ Len(template) = Len(Template(strings, Years[1]))) =>
        /\ outcome = "read" /\ errors = 0
        /\ \A n \in DOMAIN strings :
             /\ <<strings[n].key>> \in DOMAIN result
             /\ \A i \in DOMAIN result[<<strings[n].key>>] :
                  result[<<strings[n].key>>][i] = "\\0"

(* A template names every string, without a translation, and can be read     *)
(* back, whatever is in the values and the help of the strings.              *)
TemplateIsReadBack ==
    (\A n \in DOMAIN strings :
       Range(strings[n].plural) \cap {"\\", "\""} = {}) => TemplateReads

(* The template is compatible with GetText (README.md:28), with any string   *)
(* there may be in a catalogue.                                              *)
TemplateIsGettext == TemplateReads

Says(lines, year) ==
    \E n \in DOMAIN lines : Len(lines[n]) > 2 /\ lines[n][3] = year

(* However often lngs pot is run, in whatever years, and stopped anywhere    *)
(* behind the copyright line: the template says the year it was published    *)
(* first, and no other.  A run that is stopped before that line loses the    *)
(* year for good: it was only in the file that the run has truncated, and    *)
(* the next run begins with its own (lngs.cpp:399, cmd_write_pot.cpp:86-135). *)
FirstYearStays ==
    \A year \in Range(Years) : Says(template, year) <=> year = published

==============================================================================
