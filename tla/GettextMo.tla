------------------------------ MODULE GettextMo -------------------------------
(***************************************************************************)
(* The reader of .mo files (app/src/gettext.cpp): a header of seven words, *)
(* a table of the original strings and one of their translations, each     *)
(* entry a length and an offset, and a hash table nobody looks into.       *)
(*                                                                         *)
(* A word is two bytes of Base values each, so that what wraps in 32 bits  *)
(* wraps at Modulus; sizes and offsets of the code are scaled with it.     *)
(***************************************************************************)
EXTENDS Integers, Sequences, SequencesExt, FiniteSetsExt

CONSTANTS
    Base,     (* values of a byte: 256 in the code                           *)
    Files,    (* the files there are: [bytes, messages], the second what     *)
    Damaged   (* msgfmt wrote, or Damaged                                    *)

VARIABLES
    file,     (* the file that is open                                       *)
    result,   (* open_mo's messages                                          *)
    outcome   (* "closed", "not_mo", an error or "read"                      *)

vars == <<file, result, outcome>>

WordSize == 2
Entry    == 2 * WordSize
Modulus  == Base * Base

(* A file is any bytes at all.                                               *)
MoAssumption ==
    /\ Base \in Nat \ {0}
    /\ \A f \in Files : f.bytes \in Seq(0 .. Base - 1)

------------------------------------------------------------------------------
(* The stream: bytes are counted from 0                                      *)

Bytes == file.bytes
Size  == Len(Bytes)

ByteAt(off) == Bytes[off + 1]

(* intFromOffset: 0 behind the end.                                          *)
IntFromOffset(off, reverse) ==
    IF Size - off < WordSize THEN 0
    ELSE IF reverse THEN ByteAt(off) * Base + ByteAt(off + 1)
    ELSE ByteAt(off + 1) * Base + ByteAt(off)

Magic   == Base + 2
Swapped == 2 * Base + 1

(* is_mo: the first word tells the order of bytes, and the next is 0.        *)
IsMo ==
    /\ Size >= 2 * WordSize
    /\ IntFromOffset(0, FALSE) \in {Magic, Swapped}
    /\ IntFromOffset(WordSize, FALSE) = 0

Reversed == IntFromOffset(0, FALSE) = Swapped

Word(n)     == IntFromOffset(n * WordSize, Reversed)
Count       == Word(2)
Originals   == Word(3)
Translation == Word(4)
HashSize    == Word(5)
HashPos     == Word(6)
HeaderSize  == 7 * WordSize

(* The top of the hash table: a sum of two words, which is one, and of a     *)
(* size that counts entries, not bytes.                                      *)
HashTop == (HashPos + HashSize) % Modulus

BlocksInOrder ==
    HeaderSize <= Originals /\ Originals <= Translation /\ Translation <= HashPos

(* Mutant: the product is made of one word.                                  *)
TablesFit_Doubled ==
    /\ Translation - Originals >= Count
    /\ HashPos - Translation >= Count

(* count * 2 is a word, its product with the size of a word is not.          *)
TablesFit ==
    LET needed == ((Count * 2) % Modulus) * WordSize IN
    /\ Translation - Originals >= needed
    /\ HashPos - Translation >= needed

Entries   == 0 .. Count - 1
Length(table, i) == IntFromOffset(table + i * Entry, Reversed)
Offset(table, i) == IntFromOffset(table + i * Entry + WordSize, Reversed)

Outside(table, i) == Offset(table, i) < HashTop

Truncated(table, i) ==
    Offset(table, i) > Size \/ Size - Offset(table, i) < Length(table, i)

(* Mutant: the byte behind the last of the file is taken for a zero.         *)
NotAsciiz_AtEnd(table, i) ==
    /\ Length(table, i) > 0
    /\ Offset(table, i) + Length(table, i) < Size
    /\ ByteAt(Offset(table, i) + Length(table, i)) # 0

NotAsciiz(table, i) ==
    /\ Length(table, i) > 0
    /\ \/ Offset(table, i) + Length(table, i) = Size
       \/ ByteAt(Offset(table, i) + Length(table, i)) # 0

OffsetsValid(table) ==
    \A i \in Entries :
        ~Outside(table, i) /\ ~Truncated(table, i) /\ ~NotAsciiz(table, i)

GetString(table, i) ==
    [k \in 1 .. Length(table, i) |-> ByteAt(Offset(table, i) + k - 1)]

EOT == 4

(* Mutant: a context is part of the key.                                     *)
GttKey_Whole(text) == text

(* gtt_key: the context, if there is one, or all of the text.                *)
GttKey(text) ==
    LET Cuts == {k \in DOMAIN text : text[k] = EOT} IN
    IF Cuts = {} THEN text ELSE SubSeq(text, 1, Min(Cuts) - 1)

(* Of two messages with the same key the later is kept.                      *)
Messages ==
    LET Key(i) == GttKey(GetString(Originals, i)) IN
    [key \in {Key(i) : i \in Entries} |->
       GetString(Translation, Max({i \in Entries : Key(i) = key}))]

------------------------------------------------------------------------------
NoMessages == [key \in {} |-> <<>>]

Init ==
    /\ file \in Files
    /\ result = NoMessages
    /\ outcome = "closed"

Answer(messages, what) ==
    /\ outcome = "closed"
    /\ result' = messages
    /\ outcome' = what
    /\ UNCHANGED file

NotMo == ~IsMo /\ Answer(NoMessages, "not_mo")

BlocksOverlap == IsMo /\ ~BlocksInOrder /\ Answer(NoMessages, "error")

FileTruncated ==
    /\ IsMo /\ BlocksInOrder /\ ~TablesFit
    /\ Answer(NoMessages, "error")

Whole == IsMo /\ BlocksInOrder /\ TablesFit

StringsInvalid ==
    /\ Whole
    /\ ~(OffsetsValid(Originals) /\ OffsetsValid(Translation))
    /\ Answer(NoMessages, "error")

Read ==
    /\ Whole
    /\ OffsetsValid(Originals) /\ OffsetsValid(Translation)
    /\ Answer(Messages, "read")

Next == NotMo \/ BlocksOverlap \/ FileTruncated \/ StringsInvalid \/ Read

Spec == Init /\ [][Next]_vars

------------------------------------------------------------------------------
(* Properties *)

(* What msgfmt has written is read, in either order of bytes, whatever the   *)
(* size of the hash table: every message under its context, or under its id  *)
(* if it has none.                                                           *)
ReadsWhatWasWritten ==
    (outcome # "closed" /\ file.messages # Damaged) =>
        /\ outcome = "read"
        /\ DOMAIN result = {file.messages[n].key : n \in DOMAIN file.messages}
        /\ \A n \in DOMAIN file.messages :
             result[file.messages[n].key] = file.messages[n].text

Strings == {<<Length(t, i), Offset(t, i)>> :
              t \in {Originals, Translation}, i \in Entries}

(* However a file is damaged or cut off, the strings that are made of it     *)
(* end with a zero that is in the file.                                      *)
StringsLieInFile ==
    outcome = "read" =>
        \A s \in Strings :
            /\ s[2] + s[1] <= Size
            /\ s[1] > 0 => s[2] + s[1] < Size /\ ByteAt(s[2] + s[1]) = 0

(* The tables of a file that is read are in it and do not overlap, header    *)
(* included, and no string is made of them, unless the count of messages or  *)
(* the end of the hash table is too large for a word.                        *)
TablesLieApart ==
    (outcome = "read" /\ 2 * Count < Modulus /\ HashPos + HashSize < Modulus) =>
        /\ HeaderSize <= Originals
        /\ Originals + Count * Entry <= Translation
        /\ Translation + Count * Entry <= HashPos
        /\ \A s \in Strings : HashPos <= s[2]

(* A string that is within the hash table is not accepted (a test of the     *)
(* repository, gettext.cc, has the file within_hash.mo for it).              *)
NoStringInHash ==
    outcome = "read" =>
        \A s \in Strings : s[1] > 0 => s[2] >= HashPos + HashSize * WordSize

==============================================================================
