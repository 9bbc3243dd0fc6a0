------------------------------- MODULE Resource --------------------------------
(***************************************************************************)
(* lngs res: the strings of an .idl become a .lng in memory                *)
(* (make_resource), which file::write passes to table_outstream word by    *)
(* word; the text of that table, between the braces of res.mustache, is    *)
(* compiled into the program, whose Builtin opens it as it would a file.   *)
(*                                                                         *)
(* The writer and the reader are those of LngFile, and this is shown to    *)
(* implement it: going through C++ text must not change a word.            *)
(***************************************************************************)
EXTENDS Integers, Sequences, SequencesExt, FiniteSetsExt, Table

CONSTANTS
    WordSize, Base, langtext_tag, hdrtext_tag, attrtext_tag, strstext_tag,
    keystext_tag, lasttext_tag, version,    (* of LngFile                    *)
    Inputs,       (* sequences of [id, key, value, plural], texts as bytes   *)
    defs_serial,  (* idl_strings::serial                                     *)
    Alike,        (* bytes of the look-alike of a letter that has one        *)
    PluralRule    (* the bytes of "nplurals=2; plural=(n != 1);"             *)

VARIABLES
    file, disk, view, rpc, uints, ints, serial, attrs, strings, keys, origin,
                  (* of LngFile; disk is what file::write has passed on      *)
    defs,         (* idl_strings::strings                                    *)
    options,      (* of lngs res: [warp, keys]                               *)
    content,      (* the text of the table                                   *)
    offset        (* bytes written to it                                     *)

app_vars == <<defs, options, content, offset>>
vars == <<file, disk, view, rpc, uints, ints, serial, attrs, strings, keys,
          origin, app_vars>>

Options == [warp : BOOLEAN, keys : BOOLEAN]

ATTR_PLURALS == 2

------------------------------------------------------------------------------
(* make_resource *)

(* warp: the look-alike of a letter takes more than one byte.                *)
Warp(text) ==
    FlattenSeq([i \in DOMAIN text |->
        IF text[i] \in DOMAIN Alike THEN Alike[text[i]] ELSE <<text[i]>>])

Warped(text, opt) == IF opt.warp THEN Warp(text) ELSE text

Forms(str, opt) ==
    IF str.plural = <<>> THEN << Warped(str.value, opt) >>
    ELSE << Warped(str.value, opt), Warped(str.plural, opt) >>

(* Mutant: a string without a plural takes the rule back.                    *)
HasPlurals_OfLast(strs) == strs # <<>> /\ Last(strs).plural # <<>>

HasPlurals(strs) == \E n \in DOMAIN strs : strs[n].plural # <<>>

make_resource(strs, opt) ==
    [serial  |-> defs_serial,
     attrs   |-> IF HasPlurals(strs)
                   THEN << [id |-> ATTR_PLURALS, forms |-> <<PluralRule>>] >>
                   ELSE <<>>,
     strings |-> [n \in DOMAIN strs |->
                    [id |-> strs[n].id, forms |-> Forms(strs[n], opt)]],
     keys    |-> IF ~opt.keys THEN <<>>
                 ELSE [n \in DOMAIN strs |->
                    [id |-> strs[n].id, forms |-> <<strs[n].key>>]]]

Catalogs == {make_resource(strs, opt) : strs \in Inputs, opt \in Options}

L == INSTANCE LngFile

------------------------------------------------------------------------------
(* table_outstream *)

(* Mutant: every write counts its rows from its own start.                   *)
Write_FromZero(data) ==
    /\ content' = content \o Rows(data, 0)
    /\ offset' = offset + Len(data)

(* write: the table is one for all that is written to it.                    *)
Write(data) ==
    /\ content' = content \o Rows(data, offset)
    /\ offset' = offset + Len(data)

finalize == Ended(content, offset)

(* What is left of a word without its n least digits                         *)
Rest(word, n) ==
    LET rest[k \in 0 .. n] == IF k = 0 THEN word ELSE rest[k - 1] \div Base
    IN rest[n]

(* The bytes of a word, least digit first.                                   *)
BytesOf(word) == [k \in 1 .. WordSize |-> Rest(word, k - 1) % Base]

(* The numbers that are words: uint32_t in the code.                         *)
WordValues == {word \in Nat : Rest(word, WordSize) = 0}

------------------------------------------------------------------------------
(* What an .idl may hold: its identifiers are different, and so are its      *)
(* keys, and every number in the file made of it is a word.                  *)
ResourceAssumption ==
    /\ TableAssumption
    /\ L!LngFileAssumption
    /\ \A strs \in Inputs : \A n, m \in DOMAIN strs :
         /\ strs[n].key # <<>>
         /\ n # m => strs[n].id # strs[m].id /\ strs[n].key # strs[m].key
    /\ \A catalog \in Catalogs : L!Words(catalog) \in Seq(WordValues)

(* The words of the compiled table                                           *)
Compiled(text) == IF IsText(text) THEN L!Pack(Bytes(text)) ELSE <<>>

(* The program's Builtin is a LngFile that reads what was compiled.          *)
Builtin == INSTANCE LngFile WITH disk <- Compiled(finalize)

------------------------------------------------------------------------------
Init ==
    /\ L!Init
    /\ \E strs \in Inputs, opt \in Options :
        /\ defs = strs /\ options = opt
        /\ file = make_resource(strs, opt)
    /\ content = <<>> /\ offset = 0

(* Mutant: the table of the last run is not left behind.                     *)
Generate_KeepsOffset(strs, opt) ==
    /\ L!StartWrite(make_resource(strs, opt))
    /\ defs' = strs /\ options' = opt
    /\ content' = <<>> /\ UNCHANGED offset

(* A string is added, or the options change, and lngs res runs again.        *)
Generate(strs, opt) ==
    /\ L!StartWrite(make_resource(strs, opt))
    /\ defs' = strs /\ options' = opt
    /\ content' = <<>> /\ offset' = 0

(* update_and_write: what file::write gives next goes to the table.          *)
WriteTable ==
    /\ L!WriteWord
    /\ Write(BytesOf(Last(disk')))
    /\ UNCHANGED <<defs, options>>

Written == Len(disk) = Len(L!Words(file))

(* init_builtin of a program that was built with the whole table             *)
InitBuiltin ==
    /\ Written
    /\ UNCHANGED <<disk, app_vars>>
    /\ Builtin!Open

InitSection ==
    /\ L!NextSection \/ L!LastSection
    /\ UNCHANGED app_vars

Next ==
    \/ \E strs \in Inputs, opt \in Options : Generate(strs, opt)
    \/ WriteTable
    \/ InitBuiltin
    \/ InitSection

Spec == Init /\ [][Next]_vars

------------------------------------------------------------------------------
(* Properties *)

TypeOK ==
    /\ L!TypeOK
    /\ defs \in Inputs /\ options \in Options
    /\ offset = WordSize * Len(disk)

(* The text of the table, ended wherever it is, is C++: rows are opened and  *)
(* closed in turn, whichever of the many writes of a file opened them, and   *)
(* none is longer than the width (cmd_write_res.cpp:22-43).                  *)
TableIsText ==
    /\ IsText(finalize)
    /\ \A i \in DOMAIN content : content[i] = Quote =>
        \E j \in i + 1 .. i + row_width + 1 :
            j \in DOMAIN finalize /\ finalize[j] = EndQuote

(* Opening the compiled table is opening the file `lngs make` would have     *)
(* written of the same strings: not a byte is lost or added on the way.      *)
ImplementsLngFile == L!Init /\ [][UNCHANGED L!vars \/ L!Next]_(L!vars)

(* The built-in strings of the current generation are open.                  *)
BuiltinIsOpen == rpc = "open" /\ origin = make_resource(defs, options)

(* README.md:24: the table holds "a copy of untranslated strings": each one  *)
(* under its identifier, with its value for the singular and its plural for  *)
(* index 1, warped if so asked, and the rule for that index whenever there   *)
(* is a string to use it; keys lead to identifiers exactly when asked for.   *)
ResourceAnswers ==
    BuiltinIsOpen =>
        /\ serial = defs_serial
        /\ \A n \in DOMAIN defs :
            LET str == defs[n]
                read == L!String(strings, str.id)
            IN /\ L!Form(read, 0) = Warped(str.value, options)
               /\ str.plural # <<>> =>
                    /\ L!Form(read, 1) = Warped(str.plural, options)
                    /\ L!String(attrs, ATTR_PLURALS) = PluralRule
               /\ L!FindKey(str.key) = IF options.keys THEN str.id ELSE -1

==============================================================================
