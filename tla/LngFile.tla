------------------------------- MODULE LngFile --------------------------------
(***************************************************************************)
(* The binary .lng format, from both of its ends: app::file::write         *)
(* (app/src/languages.cpp), which lays out three blocks of strings word by *)
(* word and may stop at any of them (a full disk, a crash, a make that is  *)
(* interrupted), and lang_file::open (libs/liblngs/src/lang_file.cpp),     *)
(* which walks over the sections of whatever part of that it was given.    *)
(*                                                                         *)
(* A word is a number; the bytes of a string are its digits.  A word that  *)
(* was cut in two does not count: the reader divides the size of the file  *)
(* by the size of a word.                                                  *)
(***************************************************************************)
EXTENDS Integers, Sequences, SequencesExt, FiniteSetsExt

CONSTANTS
    WordSize,     (* bytes in a word: 4 in the code                          *)
    Base,         (* values of a byte: 256 in the code                       *)
    langtext_tag, hdrtext_tag, attrtext_tag, strstext_tag, keystext_tag,
    lasttext_tag, (* the tags of lngs_base.hpp                               *)
    version,      (* v1_0::version                                           *)
    Catalogs      (* what is written: [serial, attrs, strings, keys]         *)

Tags == {langtext_tag, hdrtext_tag, attrtext_tag, strstext_tag, keystext_tag,
         lasttext_tag}

(* A string, or the forms of a plural, none of which has a zero in it        *)
Entries == [id : Nat, forms : Seq(Seq(1 .. Base - 1)) \ {<<>>}]

Blocks == Seq(Entries)

ASSUME LngFileAssumption ==
    /\ WordSize \in Nat \ {0}
    /\ Base \in Nat \ {0, 1}
    /\ Tags \subseteq Nat /\ Cardinality(Tags) = 6
    /\ version \in Nat
    /\ Catalogs \subseteq [serial : Nat, attrs : Blocks, strings : Blocks,
                           keys : Blocks]

VARIABLES
    file,       (* the catalogue being written                               *)
    disk,       (* the words of it that reached the file                     *)
    view,       (* the block of memory the reader was given                  *)
    rpc,        (* the reader: "closed", in its loop over "sections", "open" *)
    uints,      (* index in view of the section the reader is at             *)
    ints,       (* words that are left from there on                         *)
    serial, attrs, strings, keys,
                (* the members of lang_file                                  *)
    origin      (* history: the catalogue of which view is a part            *)

writer_vars == <<file, disk>>
lang_file   == <<serial, attrs, strings, keys>>
vars == <<writer_vars, view, rpc, uints, ints, lang_file, origin>>

------------------------------------------------------------------------------
(* Writing.  An entry of a block is an identifier and the forms of a string; *)
(* the value of a plural is its forms with zero bytes between them.          *)

Nul == 0

Value(entry) ==
    FlattenSeq([n \in DOMAIN entry.forms |->
                  IF n = 1 THEN entry.forms[n] ELSE <<Nul>> \o entry.forms[n]])

(* data(), without the padding                                               *)
Data(block) ==
    FlattenSeq([n \in DOMAIN block |-> Append(Value(block[n]), Nul)])

(* update_offsets: where the n-th string of a block begins.                  *)
Offset(block, n) ==
    LET next_offset[k \in 1 .. n] ==
          IF k = 1 THEN 0
          ELSE next_offset[k - 1] + Len(Value(block[k - 1])) + 1
    IN next_offset[n]

(* list()                                                                    *)
List(block) ==
    FlattenSeq([n \in DOMAIN block |->
                  <<block[n].id, Offset(block, n), Len(Value(block[n]))>>])

(* Bytes put into words, the last of them padded with zeros.                 *)
Padded(bytes, n) == IF n <= Len(bytes) THEN bytes[n] ELSE Nul

(* The first byte of a word is its last digit.                               *)
Word(bytes, w) ==
    LET digits[k \in 0 .. WordSize] ==
          IF k = 0 THEN 0
          ELSE digits[k - 1] * Base + Padded(bytes, w * WordSize + 1 - k)
    IN digits[WordSize]

Pack(bytes) ==
    [w \in 1 .. (Len(bytes) + WordSize - 1) \div WordSize |-> Word(bytes, w)]

(* Mutant: string_offset is counted from the list, not from the section.     *)
Section_OffsetFromList(id, block) ==
    IF block = <<>> THEN <<>>
    ELSE <<id, 3 * Len(block) + 2 + Len(Pack(Data(block))),
           Len(block), 3 * Len(block)>>
         \o List(block) \o Pack(Data(block))

(* section(): nothing at all for an empty block.                             *)
Section(id, block) ==
    IF block = <<>> THEN <<>>
    ELSE <<id, 3 * Len(block) + 2 + Len(Pack(Data(block))),
           Len(block), 3 * Len(block) + 4>>
         \o List(block) \o Pack(Data(block))

(* file::write                                                               *)
Words(f) ==
    <<langtext_tag, hdrtext_tag, 2, version, f.serial>>
      \o Section(attrtext_tag, f.attrs)
      \o Section(strstext_tag, f.strings)
      \o Section(keystext_tag, f.keys)
      \o <<lasttext_tag, 0>>

------------------------------------------------------------------------------
(* Reading a section                                                         *)

Closed == [count |-> 0, keys |-> 0, strings |-> 0]

(* A section some words of which lie behind the end of the block: what the   *)
(* reader took from there is not known.                                      *)
Unknown == [count |-> 1, keys |-> 0, strings |-> 0]

(* The byte at a distance from the beginning of a word, least digit first.   *)
Byte(word, n) ==
    LET rest[k \in 0 .. n % WordSize] ==
          IF k = 0 THEN view[word + n \div WordSize] ELSE rest[k - 1] \div Base
    IN rest[n % WordSize] % Base

(* The n-th string_key of a section                                          *)
Key(section, n) ==
    LET at == section.keys + 3 * (n - 1) IN
    [id |-> view[at], offset |-> view[at + 1], length |-> view[at + 2]]

(* The section whose string_header is at a word of the block                 *)
SectionAt(at) ==
    [count |-> view[at + 2], keys |-> at + 4, strings |-> at + view[at + 3]]

(* The conditions of section::read_strings.  The differences are unsigned in *)
(* the code; the offsets file::write gives never make them wrap around.      *)
ReadStrings(at) ==
    LET sec_ints == view[at + 1]
        string_offset == view[at + 3]
        space == (sec_ints + 2 - string_offset) * WordSize
        section == SectionAt(at)
    IN
    /\ string_offset - 2 <= sec_ints
    /\ string_offset - 4 >= 3 * section.count
    /\ \A n \in 1 .. section.count :
        LET key == Key(section, n) IN
        /\ key.offset <= space
        /\ key.offset + key.length <= space
        /\ Byte(section.strings, key.offset + key.length) = Nul

(* All words of the section at a place are in the block.                     *)
Whole(at, left) == left >= 4 /\ view[at + 1] + 2 <= left

(* What read_strings answers, and the section it then leaves: behind the end *)
(* of the block anything may be found.                                       *)
Verdicts(at, left) == IF Whole(at, left) THEN {ReadStrings(at)} ELSE BOOLEAN

SectionRead(at, left) == IF Whole(at, left) THEN SectionAt(at) ELSE Unknown

------------------------------------------------------------------------------
Init ==
    /\ file \in Catalogs
    /\ disk = <<>>
    /\ view = <<>>
    /\ rpc = "closed"
    /\ uints = 0 /\ ints = 0
    /\ serial = 0
    /\ attrs = Closed /\ strings = Closed /\ keys = Closed
    /\ origin = file

(* The writer.  A new one truncates the file, however far the last one came. *)

(* Mutant: the file is opened for writing without being truncated.           *)
StartWrite_KeepsOld(catalog) ==
    /\ file' = catalog
    /\ UNCHANGED <<disk, view, rpc, uints, ints, lang_file, origin>>

StartWrite(catalog) ==
    /\ file' = catalog
    /\ disk' = <<>>
    /\ UNCHANGED <<view, rpc, uints, ints, lang_file, origin>>

WriteWord ==
    /\ Len(disk) < Len(Words(file))
    /\ disk' = Append(disk, Words(file)[Len(disk) + 1])
    /\ UNCHANGED <<file, view, rpc, uints, ints, lang_file, origin>>

------------------------------------------------------------------------------
(* lang_file::open, under translation::open, which closes the file before it *)
(* reads another and once more when it turns one down.                       *)

(* The tag, the header and the version are what file::write gives.           *)
HeaderIsRead ==
    /\ Len(disk) >= 5
    /\ disk[1] = langtext_tag /\ disk[2] = hdrtext_tag
    /\ disk[3] + 2 >= 4
    /\ disk[4] = version

(* Mutant: one of the sections is forgotten.                                 *)
CloseSections_NotKeys ==
    attrs' = Closed /\ strings' = Closed /\ UNCHANGED keys

(* lang_file::close                                                          *)
CloseSections == attrs' = Closed /\ strings' = Closed /\ keys' = Closed

Open ==
    /\ rpc # "sections"
    /\ origin' = file
    /\ CloseSections
    /\ IF HeaderIsRead
         THEN /\ view' = disk
              /\ serial' = disk[5]
              /\ rpc' = "sections"
              /\ uints' = 2 /\ ints' = Len(disk) - 1
         ELSE /\ view' = <<>> /\ rpc' = "closed"
              /\ UNCHANGED <<serial, uints, ints>>
    /\ UNCHANGED writer_vars

OpenFails ==
    /\ CloseSections
    /\ view' = <<>>
    /\ rpc' = "closed"
    /\ UNCHANGED <<uints, ints>>

(* The end of an iteration: the sections that are strings are read.          *)
EnterSection(at, left) ==
    LET tag == view[at] IN
    IF tag \notin {attrtext_tag, strstext_tag, keystext_tag}
      THEN /\ uints' = at /\ ints' = left
           /\ UNCHANGED <<view, rpc, attrs, strings, keys>>
      ELSE \E ok \in Verdicts(at, left) :
             IF ~ok THEN OpenFails
             ELSE LET section == SectionRead(at, left) IN
                  /\ uints' = at /\ ints' = left
                  /\ attrs' = IF tag = attrtext_tag THEN section ELSE attrs
                  /\ strings' = IF tag = strstext_tag THEN section ELSE strings
                  /\ keys' = IF tag = keystext_tag THEN section ELSE keys
                  /\ UNCHANGED <<view, rpc>>

(* Mutant: only the words of its contents are skipped, not of its header.    *)
NextSection_Stuck ==
    /\ rpc = "sections"
    /\ view[uints] # lasttext_tag
    /\ IF ints < 2 \/ view[uints + 1] + 2 >= ints
         THEN OpenFails
         ELSE EnterSection(uints, ints)
    /\ UNCHANGED <<writer_vars, serial, origin>>

NextSection ==
    /\ rpc = "sections"
    /\ view[uints] # lasttext_tag
    /\ IF ints < 2 \/ view[uints + 1] + 2 >= ints
         THEN OpenFails
         ELSE EnterSection(uints + view[uints + 1] + 2,
                           ints - view[uints + 1] - 2)
    /\ UNCHANGED <<writer_vars, serial, origin>>

(* Mutant: the loop ends when it runs out of words, too.                     *)
LastSection_OutOfWords ==
    /\ rpc = "sections"
    /\ view[uints] = lasttext_tag \/ ints = 1
    /\ rpc' = "open"
    /\ UNCHANGED <<writer_vars, view, uints, ints, lang_file, origin>>

LastSection ==
    /\ rpc = "sections"
    /\ view[uints] = lasttext_tag
    /\ rpc' = "open"
    /\ UNCHANGED <<writer_vars, view, uints, ints, lang_file, origin>>

Next ==
    \/ \E catalog \in Catalogs : StartWrite(catalog)
    \/ WriteWord
    \/ Open \/ NextSection \/ LastSection

Spec == Init /\ [][Next]_vars

(* lang_file::open is a loop without a wait.                                 *)
FairSpec == Spec /\ WF_vars(NextSection \/ LastSection)

------------------------------------------------------------------------------
(* The getters of lang_file                                                  *)

NoString == <<>>

(* section::string of a key                                                  *)
Text(section, n) ==
    LET key == Key(section, n) IN
    [k \in 1 .. key.length |-> Byte(section.strings, key.offset + k - 1)]

Matches(section, id) == {n \in 1 .. section.count : Key(section, n).id = id}

(* section::get and section::string: the first key with the identifier       *)
String(section, id) ==
    IF Matches(section, id) = {} THEN NoString
    ELSE Text(section, Min(Matches(section, id)))

Zeros(str) == {k \in DOMAIN str : str[k] = Nul}

(* substr(0, find(0))                                                        *)
UpToZero(str) ==
    IF Zeros(str) = {} THEN str ELSE SubSeq(str, 1, Min(Zeros(str)) - 1)

(* Mutant: the zero is not passed with the form ahead of it.                 *)
Form_AtZero(str, sub) ==
    LET cur[k \in 0 .. sub] ==
          IF k = 0 THEN str
          ELSE SubSeq(cur[k - 1], Min(Zeros(cur[k - 1])), Len(cur[k - 1]))
    IN UpToZero(IF sub \in 0 .. Cardinality(Zeros(str)) THEN cur[sub] ELSE str)

(* get_string(id, count) for a rule that evaluates to sub: as many zeros are *)
(* passed as sub says; if there are fewer, and for a negative sub, which     *)
(* counts down past 0 for as long as there are any, the answer is the first  *)
(* form.                                                                     *)
Form(str, sub) ==
    LET cur[k \in 0 .. sub] ==
          IF k = 0 THEN str
          ELSE SubSeq(cur[k - 1], Min(Zeros(cur[k - 1])) + 1, Len(cur[k - 1]))
    IN UpToZero(IF sub \in 0 .. Cardinality(Zeros(str)) THEN cur[sub] ELSE str)

(* Mutant: the place of the key, and not its identifier.                     *)
FindKey_Place(text) ==
    LET found == {n \in 1 .. keys.count : Text(keys, n) = text} IN
    IF text = <<>> \/ found = {} THEN -1 ELSE Min(found)

(* find_key; -1 stands for the largest uint32_t                              *)
FindKey(text) ==
    LET found == {n \in 1 .. keys.count : Text(keys, n) = text} IN
    IF text = <<>> \/ found = {} THEN -1 ELSE Key(keys, Min(found)).id

------------------------------------------------------------------------------
(* Properties *)

Sections == [count : Nat, keys : Nat, strings : Nat]

TypeOK ==
    /\ file \in Catalogs /\ origin \in Catalogs
    /\ disk \in Seq(Nat) /\ IsPrefix(disk, Words(file))
    /\ view \in Seq(Nat)
    /\ rpc \in {"closed", "sections", "open"}
    /\ uints \in Nat /\ ints \in Nat /\ serial \in Nat
    /\ attrs \in Sections /\ strings \in Sections /\ keys \in Sections

(* The part of a catalogue that is enough to read it: the reader looks at    *)
(* the tag of the last section and not at the word that follows it.          *)
Enough(catalog) == Front(Words(catalog))

(* A file that was written up to its end is opened, and one of which any     *)
(* section is missing or cut is turned down, wherever the writer was         *)
(* stopped, although sections are read before their size is compared with    *)
(* what is left of the file (lang_file.cpp:92-112).                          *)
OnlyWholeFilesOpen ==
    rpc = "open" => IsPrefix(Enough(origin), view)

(* What an identifier leads to: the first string that has it                 *)
IsFirst(block, n) == \A m \in 1 .. n - 1 : block[m].id # block[n].id

(* The strings of block, each in its place and under its identifier, and no  *)
(* others                                                                    *)
Holds(section, block) ==
    /\ section.count = Len(block)
    /\ \A n \in DOMAIN block :
        /\ Text(section, n) = Value(block[n])
        /\ IsFirst(block, n) => String(section, block[n].id) = Value(block[n])

(* What was written is what is read: every string of every block under its   *)
(* own identifier, the serial, and nothing from a file opened earlier when a *)
(* block is empty and therefore has no section.                              *)
ReadsWhatWasWritten ==
    rpc = "open" =>
        /\ serial = origin.serial
        /\ Holds(attrs, origin.attrs)
        /\ Holds(strings, origin.strings)
        /\ Holds(keys, origin.keys)

(* find_key is the inverse of get_key, for the first one of keys that are    *)
(* the same.                                                                 *)
KeysAreFound ==
    rpc = "open" =>
        LET text(n) == Value(origin.keys[n]) IN
        \A n \in DOMAIN origin.keys :
            text(n) # <<>> /\ (\A m \in 1 .. n - 1 : text(m) # text(n)) =>
                FindKey(text(n)) = origin.keys[n].id

(* A plural index finds its own form, a negative one or one past the last    *)
(* the singular, and never a part of the next string (lang_file.cpp:139).    *)
IndexFindsForm ==
    rpc = "open" =>
        \A n \in DOMAIN origin.strings : \A sub \in -1 .. 3 :
            LET forms == origin.strings[n].forms IN
            IsFirst(origin.strings, n) =>
                Form(String(strings, origin.strings[n].id), sub) =
                    IF sub \in 0 .. Len(forms) - 1 THEN forms[sub + 1]
                    ELSE forms[1]

(* A reader finds in an open file all that was written, whichever way it     *)
(* asks: a string by its identifier, its key or the index of a form.         *)
ReadsBack == ReadsWhatWasWritten /\ KeysAreFound /\ IndexFindsForm

(* A file that was complete when it was read is not turned down.             *)
WholeFilesOpen ==
    [][rpc = "sections" /\ rpc' = "closed" =>
         ~ IsPrefix(Enough(origin), view)]_vars

(* The walk over the sections ends.                                          *)
OpenAnswers == rpc = "sections" ~> rpc # "sections"

==============================================================================
