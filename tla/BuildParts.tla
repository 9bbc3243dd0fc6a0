------------------------------ MODULE BuildParts ------------------------------
(***************************************************************************)
(* Parts a program with translations is built from: the templates of the   *)
(* tool (Templates), its built-in strings (Resource) and the files that    *)
(* are embedded in it (Embed), both as tables of bytes (Table), and what   *)
(* is promised of them.  MCBuild checks small instances of them, beside    *)
(* the tables of languages, and BuildProofs proves the promises for all.   *)
(***************************************************************************)
EXTENDS Table

CONSTANTS
    Names, Uses, BuildKinds, MaxTime, MaxChanges
VARIABLES
    clock, changes, built, m_additional_templates, templates, todo, cache,
    loading, seen, place, output, quiet

Mustache == INSTANCE Templates WITH
    Builds <- BuildKinds, MaxEdits <- MaxChanges, edits <- changes, build <- built,
    dirs <- templates, pc <- loading, path <- place

CONSTANTS
    WordSize, Base, langtext_tag, hdrtext_tag, attrtext_tag, strstext_tag,
    keystext_tag, lasttext_tag, version, Inputs, defs_serial, Alike, PluralRule
VARIABLES
    file, image, view, rpc, uints, ints, serial, attrs, strings, keys, origin,
    defs, options, content, offset

Resources == INSTANCE Resource WITH disk <- image

CONSTANTS
    Lists, Reserved, Contents, MaxWrites, MaxRuns
VARIABLES
    disk, inputs, embedding, header, source, embedded, program, writes, runs

Embedding == INSTANCE Embed WITH pc <- embedding

------------------------------------------------------------------------------
(* Properties *)

(* A rendering uses one text of a template throughout, and of two places it  *)
(* takes the one that was newer when it looked, whatever is saved, installed *)
(* or removed meanwhile (mstch_engine.cpp:37-102).                           *)
TemplatesStayTheSame == Mustache!TemplatesStayTheSame

(* The table lngs res writes is a .lng as LngFile has it, written word by    *)
(* word and read from memory (cmd_write_res.cpp:77-87).                      *)
ImplementsLngFile == Resources!ImplementsLngFile

(* What is compiled into a program comes out of it as it was put in, byte by *)
(* byte, however the tables are cut into rows: the built-in strings with     *)
(* their plural forms, and every embedded file under its name, builds that   *)
(* were stopped half way included (cmd_write_res.cpp:22-75, embed.py:8-164,  *)
(* update_src.py:44-57).                                                     *)
CompiledInIsWhatWasRead ==
    /\ Resources!TableIsText /\ Resources!ResourceAnswers
    /\ Embedding!TypeOK /\ Embedding!AnswersForEveryFile
    /\ Embedding!SourceTreeIsUpdated

==============================================================================
