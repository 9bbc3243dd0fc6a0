----------------------------- MODULE CatalogProofs ----------------------------
(***************************************************************************)
(* Proofs about Catalog, for any set of strings, any number of edits,      *)
(* freezes and releases, and wherever identifiers start.                   *)
(***************************************************************************)
EXTENDS Catalog, Facts

USE CatalogAssumption

(* The strings of a file that are final, and their places.                   *)
FinalAt(file) == {n \in DOMAIN file.strings : ~IsNew(file.strings[n])}

Finals(file) == {file.strings[n] : n \in FinalAt(file)}

(* No two final strings of a file have the same number.                      *)
Distinct(file) ==
    \A m, n \in FinalAt(file) : file.strings[m].id = file.strings[n].id => m = n

(* A file for what is settled in it: its serial and its final strings.       *)
Settled(file) == [serial |-> file.serial, strings |-> Finals(file)]

(* All there is at a time: files, and what was released.                     *)
Files == {idl, committed, freezing} \ {Damaged, Nothing}

Released == {header, lng} \ {Nothing}

Records == {Settled(file) : file \in Files} \cup Released

(* Whatever carries one serial gives one meaning to a number.                *)
Agreeing(records) ==
    \A a, b \in records : a.serial = b.serial =>
        \A s \in a.strings, t \in b.strings : s.id = t.id => s.key = t.key

(* What makes OneMeaning inductive: a serial only grows from what was        *)
(* released over what is committed to what is edited and frozen, so that the *)
(* serial freeze writes is that of nothing else.                             *)
SerialsGrow ==
    /\ \A file \in Files : Distinct(file) /\ committed.serial <= file.serial
    /\ \A release \in Released : release.serial <= committed.serial
    /\ freezing # Nothing => freezing.serial < MaxSerial
    /\ (freezing # Nothing /\ idl # Damaged) => freezing.serial = idl.serial

IInv == CatalogTypeOK /\ SerialsGrow /\ Agreeing(Records)

------------------------------------------------------------------------------
(* Numbering *)

(* A string of a file is a key with a number or with none.                   *)
Entry == [key : Keys, id : {New} \cup Nat]

LEMMA FileTypes ==
    ASSUME NEW file \in Catalogs
    PROVE  /\ file.serial \in 0 .. MaxSerial
           /\ file.strings \in Seq(Entry)
           /\ Len(file.strings) \in Nat
           /\ DOMAIN file.strings = 1 .. Len(file.strings)
           /\ \A n \in DOMAIN file.strings :
                 /\ file.strings[n] \in Entry
                 /\ file.strings[n].id \in {New} \cup Nat
                 /\ file.strings[n].id \in Int
                 /\ file.strings[n].key \in Keys
<1>1. file.serial \in 0 .. MaxSerial /\ file.strings \in Seq(Entry)
  BY DEF Catalogs, Entry
<1>2. /\ Len(file.strings) \in Nat
      /\ DOMAIN file.strings = 1 .. Len(file.strings)
      /\ \A n \in DOMAIN file.strings : file.strings[n] \in Entry
  BY <1>1, LenProperties, ElementOfSeq
<1>3. QED
  BY <1>1, <1>2 DEF Entry, New

(* The highest identifier is a number none of the final ones exceeds.        *)
LEMMA HighestIsHighest ==
    ASSUME NEW file \in Catalogs
    PROVE  /\ HighestId(file.strings) \in Nat
           /\ \A n \in FinalAt(file) :
                 file.strings[n].id <= HighestId(file.strings)
<1> DEFINE strings == file.strings
           ids == [n \in DOMAIN strings |-> strings[n].id]
           finals == {ids[n] : n \in FinalAt(file)}
           all == {LastBase} \cup finals
<1>1. finals = {strings[n].id : n \in {m \in DOMAIN strings : ~IsNew(strings[m])}}
  BY DEF FinalAt
<1>2. IsFiniteSet(finals)
  <2>1. FinalAt(file) \in SUBSET (1 .. Len(strings)) /\ Len(strings) \in Nat
    BY FileTypes DEF FinalAt
  <2> HIDE DEF ids
  <2>2. QED
    BY <2>1, ValuesAreFinite
<1>3. finals \subseteq Nat
  <2>1. \A n \in FinalAt(file) : ids[n] \in Nat
    BY FileTypes DEF FinalAt, IsNew, New
  <2> HIDE DEF ids
  <2>2. QED
    BY <2>1
<1> HIDE DEF finals
<1>4. IsFiniteSet(all) /\ all \in SUBSET Int /\ all # {} /\ all \subseteq Nat
  <2>1. IsFiniteSet({LastBase})
    BY FS_Singleton
  <2>2. IsFiniteSet(all)
    BY <1>2, <2>1, FS_Union
  <2>3. QED
    BY <1>3, <2>2
<1>5. Max(all) \in all /\ \A y \in all : Max(all) >= y
  BY <1>4, MaxIsLargest
<1>6. Max(all) = HighestId(strings)
  BY <1>1 DEF HighestId
<1>7. \A n \in FinalAt(file) : strings[n].id \in all
  BY DEF finals, FinalAt
<1>8. QED
  BY <1>3, <1>4, <1>5, <1>6, <1>7

(* A final string keeps its number; the number of a new one is above all     *)
(* final ones, and the higher the later the string stands.                   *)
LEMMA NumbersOfStrings ==
    ASSUME NEW file \in Catalogs
    PROVE  /\ \A n \in DOMAIN file.strings :
                 /\ NumberOf(file.strings, n) \in Nat \ {0}
                 /\ ~IsNew(file.strings[n]) =>
                       NumberOf(file.strings, n) = file.strings[n].id
                 /\ IsNew(file.strings[n]) =>
                       NumberOf(file.strings, n) > HighestId(file.strings)
           /\ \A m, n \in DOMAIN file.strings :
                 m < n /\ IsNew(file.strings[m]) /\ IsNew(file.strings[n]) =>
                   NumberOf(file.strings, m) < NumberOf(file.strings, n)
<1> DEFINE strings == file.strings
           new == {m \in DOMAIN strings : IsNew(strings[m])}
           count(n) == Cardinality({m \in 1 .. n : IsNew(strings[m])})
<1>1. \A n \in DOMAIN strings : {m \in 1 .. n : IsNew(strings[m])} = new \cap 1 .. n
  BY FileTypes
<1>2. \A n \in DOMAIN strings :
         IsNew(strings[n]) => NumberOf(strings, n) = HighestId(strings) + count(n)
  BY DEF NumberOf
<1>3. HighestId(strings) \in Nat
  BY HighestIsHighest
<1>4. \A n \in DOMAIN strings : n \in Nat \ {0} /\ n \in Int
  BY FileTypes
<1>5. \A n \in DOMAIN strings : count(n) = Cardinality(new \cap 1 .. n)
  BY <1>1
<1>6. \A n \in new : count(n) \in Nat \ {0}
  <2> SUFFICES ASSUME NEW n \in new PROVE count(n) \in Nat \ {0}
    OBVIOUS
  <2>1. n \in DOMAIN strings
    OBVIOUS
  <2> HIDE DEF new
  <2>2. Cardinality(new \cap 1 .. n) \in Nat /\ Cardinality(new \cap 1 .. 0) \in Nat
    <3>1. n \in Int /\ 0 \in Int
      BY <1>4, <2>1
    <3>2. QED
      BY <3>1, CountTypes
  <2>3. Cardinality(new \cap 1 .. 0) < Cardinality(new \cap 1 .. n)
    BY <1>4, <2>1, CountGrows
  <2> HIDE DEF count
  <2>4. QED
    BY <1>5, <2>1, <2>2, <2>3
<1>7. \A m, n \in new : m < n => count(m) < count(n)
  <2> SUFFICES ASSUME NEW m \in new, NEW n \in new, m < n PROVE count(m) < count(n)
    OBVIOUS
  <2>1. m \in DOMAIN strings /\ n \in DOMAIN strings
    OBVIOUS
  <2> HIDE DEF new
  <2>2. Cardinality(new \cap 1 .. m) < Cardinality(new \cap 1 .. n)
    BY <1>4, <2>1, CountGrows
  <2> HIDE DEF count
  <2>3. QED
    BY <1>5, <2>1, <2>2
<1> HIDE DEF count
<1>8. \A n \in DOMAIN strings : ~IsNew(strings[n]) =>
          NumberOf(strings, n) = strings[n].id /\ strings[n].id \in Nat \ {0}
  BY FileTypes DEF NumberOf, IsNew, New
<1>9. \A n \in DOMAIN strings :
        /\ NumberOf(strings, n) \in Nat \ {0}
        /\ IsNew(strings[n]) => NumberOf(strings, n) > HighestId(strings)
  <2> SUFFICES ASSUME NEW n \in DOMAIN strings
               PROVE  /\ NumberOf(strings, n) \in Nat \ {0}
                      /\ IsNew(strings[n]) =>
                            NumberOf(strings, n) > HighestId(strings)
    OBVIOUS
  <2>1. CASE IsNew(strings[n])
    BY <1>2, <1>3, <1>6, <2>1
  <2>2. CASE ~IsNew(strings[n])
    BY <1>8, <2>2
  <2>3. QED
    BY <2>1, <2>2
<1>10. \A m, n \in DOMAIN strings :
          m < n /\ IsNew(strings[m]) /\ IsNew(strings[n]) =>
            NumberOf(strings, m) < NumberOf(strings, n)
  <2> SUFFICES ASSUME NEW m \in new, NEW n \in new, m < n
               PROVE  NumberOf(strings, m) < NumberOf(strings, n)
    OBVIOUS
  <2>1. count(m) < count(n) /\ count(m) \in Nat /\ count(n) \in Nat
    BY <1>6, <1>7
  <2>2. QED
    BY <1>2, <1>3, <2>1
<1>11. QED
  BY <1>8, <1>9, <1>10

(* The numbers a command works with are of all strings of a file different.  *)
LEMMA NumbersDiffer ==
    ASSUME NEW file \in Catalogs, Distinct(file)
    PROVE  \A m, n \in DOMAIN file.strings :
              NumberOf(file.strings, m) = NumberOf(file.strings, n) => m = n
<1> DEFINE strings == file.strings
<1> SUFFICES ASSUME NEW m \in DOMAIN strings, NEW n \in DOMAIN strings,
                    NumberOf(strings, m) = NumberOf(strings, n), m # n
             PROVE  FALSE
  OBVIOUS
<1>1. m \in Nat /\ n \in Nat /\ HighestId(strings) \in Nat
      /\ NumberOf(strings, m) \in Nat /\ NumberOf(strings, n) \in Nat
  BY FileTypes, HighestIsHighest, NumbersOfStrings
<1>2. CASE IsNew(strings[m]) /\ IsNew(strings[n])
  <2>1. m < n \/ n < m
    BY <1>1
  <2>2. QED
    BY <1>1, <1>2, <2>1, NumbersOfStrings
<1>3. CASE ~IsNew(strings[m]) /\ ~IsNew(strings[n])
  BY <1>3, NumbersOfStrings DEF Distinct, FinalAt
<1>4. CASE IsNew(strings[m]) /\ ~IsNew(strings[n])
  <2>1. n \in FinalAt(file)
    BY <1>4 DEF FinalAt
  <2>2. QED
    BY <1>1, <1>4, <2>1, NumbersOfStrings, HighestIsHighest
<1>5. CASE ~IsNew(strings[m]) /\ IsNew(strings[n])
  <2>1. m \in FinalAt(file)
    BY <1>5 DEF FinalAt
  <2>2. QED
    BY <1>1, <1>5, <2>1, NumbersOfStrings, HighestIsHighest
<1>6. QED
  BY <1>2, <1>3, <1>4, <1>5

(* The catalogue that is read: the strings of the file, each with a number.  *)
LEMMA WhatIsRead ==
    ASSUME NEW file \in Catalogs
    PROVE  /\ ReadStrings(file) \in Catalogs
           /\ ReadStrings(file).serial = file.serial
           /\ DOMAIN ReadStrings(file).strings = DOMAIN file.strings
           /\ \A n \in DOMAIN file.strings :
                 /\ ReadStrings(file).strings[n] \in [key : Keys, id : Nat]
                 /\ ReadStrings(file).strings[n].key = file.strings[n].key
                 /\ ReadStrings(file).strings[n].id = NumberOf(file.strings, n)
                 /\ ~IsNew(ReadStrings(file).strings[n])
                 /\ ~IsNew(file.strings[n]) =>
                       ReadStrings(file).strings[n] = file.strings[n]
<1> DEFINE strings == file.strings
           read == [n \in DOMAIN strings |->
                      [key |-> strings[n].key, id |-> NumberOf(strings, n)]]
<1>1. ReadStrings(file) = [serial |-> file.serial, strings |-> read]
  BY DEF ReadStrings
<1>2. \A n \in DOMAIN strings :
        /\ read[n] \in [key : Keys, id : Nat] /\ read[n] \in Entry
        /\ read[n].key = strings[n].key /\ read[n].id = NumberOf(strings, n)
        /\ ~IsNew(read[n])
  BY FileTypes, NumbersOfStrings DEF Entry, IsNew
<1>3. read \in Seq(Entry)
  <2>1. read \in [1 .. Len(strings) -> Entry] /\ Len(strings) \in Nat
    BY <1>2, FileTypes
  <2> HIDE DEF read
  <2>2. QED
    BY <2>1, SeqDef
<1>4. \A n \in DOMAIN strings : ~IsNew(strings[n]) => read[n] = strings[n]
  <2> SUFFICES ASSUME NEW n \in DOMAIN strings, ~IsNew(strings[n])
               PROVE  read[n] = strings[n]
    OBVIOUS
  <2>1. strings[n] \in Entry /\ NumberOf(strings, n) = strings[n].id
    BY FileTypes, NumbersOfStrings
  <2>2. strings[n] = [key |-> strings[n].key, id |-> strings[n].id]
    BY <2>1 DEF Entry
  <2>3. QED
    BY <2>1, <2>2
<1>5. ReadStrings(file) \in Catalogs
  BY <1>1, <1>3, FileTypes DEF Catalogs, Entry
<1>6. DOMAIN read = DOMAIN strings
  OBVIOUS
<1> HIDE DEF read
<1>7. QED
  BY <1>1, <1>2, <1>4, <1>5, <1>6

(* What freeze writes: no string is new, no number occurs twice, and reading *)
(* it gives the numbers that reading the file before gave.                   *)
LEMMA WhatIsFrozen ==
    ASSUME NEW file \in Catalogs, file.serial < MaxSerial, Distinct(file)
    PROVE  /\ Freeze(file) \in Catalogs
           /\ Freeze(file).serial = file.serial + 1
           /\ Distinct(Freeze(file))
           /\ ~HasNew(Freeze(file))
           /\ ReadStrings(Freeze(file)).strings = ReadStrings(file).strings
<1> DEFINE read == ReadStrings(file)
           frozen == Freeze(file)
<1>1. frozen = [serial |-> file.serial + 1, strings |-> read.strings]
  <2>1. read = [serial |-> file.serial, strings |-> read.strings]
    BY DEF ReadStrings
  <2>2. frozen = [read EXCEPT !.serial = @ + 1]
    BY DEF Freeze
  <2> HIDE DEF read, frozen
  <2>3. QED
    BY <2>1, <2>2
<1>2. frozen \in Catalogs
  <2>1. file.serial + 1 \in 0 .. MaxSerial
    BY FileTypes
  <2>2. read.strings \in Seq([key : Keys, id : {New} \cup Nat])
    BY WhatIsRead DEF Catalogs
  <2> HIDE DEF read
  <2>3. QED
    BY <1>1, <2>1, <2>2 DEF Catalogs
<1>3. frozen.strings = read.strings /\ frozen.serial = file.serial + 1
  BY <1>1
<1>4. ~HasNew(frozen)
  BY <1>3, WhatIsRead DEF HasNew
<1>5. Distinct(frozen)
  BY <1>3, WhatIsRead, NumbersDiffer DEF Distinct, FinalAt
<1>6. ReadStrings(frozen).strings = read.strings
  <2>1. /\ DOMAIN ReadStrings(frozen).strings = DOMAIN frozen.strings
        /\ \A n \in DOMAIN frozen.strings : ~IsNew(frozen.strings[n]) =>
             ReadStrings(frozen).strings[n] = frozen.strings[n]
    BY <1>2, WhatIsRead
  <2>2. ReadStrings(frozen) \in Catalogs /\ frozen \in Catalogs
    BY <1>2, WhatIsRead
  <2>3. /\ ReadStrings(frozen).strings \in Seq(Entry)
        /\ frozen.strings \in Seq(Entry)
    BY <2>2, FileTypes
  <2>4. \A n \in DOMAIN frozen.strings : ~IsNew(frozen.strings[n])
    BY <1>4 DEF HasNew
  <2> DEFINE again == ReadStrings(frozen).strings
             once == frozen.strings
  <2>5. /\ again \in [1 .. Len(again) -> Entry]
        /\ once \in [1 .. Len(once) -> Entry]
        /\ DOMAIN again = DOMAIN once
        /\ \A n \in DOMAIN once : again[n] = once[n]
    BY <2>1, <2>3, <2>4, LenProperties
  <2> HIDE DEF again, once
  <2>6. again = once
    BY <2>5
  <2>7. QED
    BY <1>3, <2>6 DEF again, once
<1>7. QED
  BY <1>2, <1>3, <1>4, <1>5, <1>6

------------------------------------------------------------------------------
(* The invariant *)

LEMMA FilesAreCatalogs ==
    ASSUME CatalogTypeOK
    PROVE  /\ committed \in Catalogs /\ committed \in Files
           /\ idl # Damaged => idl \in Catalogs /\ idl \in Files
           /\ freezing # Nothing => freezing \in Catalogs /\ freezing \in Files
           /\ \A file \in Files : /\ file \in Catalogs
                                  /\ \/ file = committed
                                     \/ file = idl /\ idl # Damaged
                                     \/ file = freezing /\ freezing # Nothing
BY DEF CatalogTypeOK, Files

LEMMA ReleasesAreArtefacts ==
    ASSUME CatalogTypeOK
    PROVE  \A release \in Released : release \in Artefacts
BY DEF CatalogTypeOK, Released

(* Records stay in agreement if each of the new ones says no more than one   *)
(* of the old ones did.                                                      *)
LEMMA AgreementKept ==
    ASSUME NEW old, NEW new, Agreeing(old),
           \A a \in new : \E b \in old : /\ a.serial = b.serial
                                        /\ a.strings \subseteq b.strings
    PROVE  Agreeing(new)
<1> SUFFICES ASSUME NEW a \in new, NEW b \in new, a.serial = b.serial,
                    NEW s \in a.strings, NEW t \in b.strings, s.id = t.id
             PROVE  s.key = t.key
  BY DEF Agreeing
<1>1. PICK c \in old : a.serial = c.serial /\ a.strings \subseteq c.strings
  OBVIOUS
<1>2. PICK d \in old : b.serial = d.serial /\ b.strings \subseteq d.strings
  OBVIOUS
<1>3. c.serial = d.serial /\ s \in c.strings /\ t \in d.strings
  BY <1>1, <1>2
<1>4. QED
  BY <1>3 DEF Agreeing

(* A new string is not final, wherever it is put.                            *)
LEMMA WhatIsAdded ==
    ASSUME NEW file \in Catalogs, Distinct(file), NEW key \in Keys,
           NEW n \in 1 .. Len(file.strings) + 1
    PROVE  LET added == [file EXCEPT !.strings =
                           InsertAt(@, n, [key |-> key, id |-> New])]
           IN  /\ added \in Catalogs
               /\ added.serial = file.serial
               /\ Distinct(added)
               /\ Finals(added) \subseteq Finals(file)
<1> DEFINE e == [key |-> key, id |-> New]
           old == file.strings
           new == InsertAt(old, n, e)
           added == [file EXCEPT !.strings = InsertAt(@, n, e)]
<1>1. e \in Entry /\ IsNew(e)
  BY DEF Entry, IsNew, New
<1>2. /\ new \in Seq(Entry) /\ Len(new) = Len(old) + 1
      /\ \A k \in 1 .. Len(old) + 1 :
            new[k] = IF k < n THEN old[k] ELSE IF k = n THEN e ELSE old[k - 1]
  <2>1. old \in Seq(Entry) /\ n \in 1 .. Len(old) + 1 /\ e \in Entry
    BY <1>1, FileTypes
  <2> HIDE DEF e, old
  <2>2. QED
    BY <2>1, InsertAtProperties
<1> HIDE DEF e
<1>3. added \in Catalogs /\ added.serial = file.serial /\ added.strings = new
  BY <1>2 DEF Catalogs, Entry
<1> HIDE DEF new, added
<1>4. DOMAIN new = 1 .. Len(old) + 1 /\ DOMAIN old = 1 .. Len(old) /\ Len(old) \in Nat
  BY <1>2, FileTypes, LenProperties
<1> DEFINE from(k) == IF k < n THEN k ELSE k - 1
<1>5. \A k \in FinalAt(added) :
         k \in Nat /\ k # n /\ from(k) \in FinalAt(file) /\ new[k] = old[from(k)]
  <2> SUFFICES ASSUME NEW k \in 1 .. Len(old) + 1, ~IsNew(new[k])
               PROVE  /\ k \in Nat /\ k # n /\ from(k) \in FinalAt(file)
                      /\ new[k] = old[from(k)]
    BY <1>3, <1>4 DEF FinalAt
  <2>1. k # n
    BY <1>1, <1>2
  <2>2. new[k] = old[from(k)]
    BY <1>2, <2>1
  <2>3. from(k) \in 1 .. Len(old)
    BY <1>4, <2>1
  <2>4. QED
    BY <1>4, <2>1, <2>2, <2>3 DEF FinalAt
<1>6. \A k, l \in Nat \ {n} : from(k) = from(l) => k = l
  BY <1>4
<1> HIDE DEF from
<1>7. Distinct(added)
  <2> SUFFICES ASSUME NEW k \in FinalAt(added), NEW l \in FinalAt(added),
                      new[k].id = new[l].id
               PROVE  k = l
    BY <1>3 DEF Distinct
  <2>1. from(k) = from(l)
    BY <1>5 DEF Distinct
  <2>2. QED
    BY <1>5, <1>6, <2>1
<1>8. Finals(added) \subseteq Finals(file)
  BY <1>3, <1>5 DEF Finals
<1>9. QED
  BY <1>3, <1>7, <1>8 DEF added, e

(* Deleting a string leaves no more final ones than there were.              *)
LEMMA WhatIsLeft ==
    ASSUME NEW file \in Catalogs, Distinct(file), NEW n \in DOMAIN file.strings
    PROVE  LET left == [file EXCEPT !.strings = RemoveAt(@, n)]
           IN  /\ left \in Catalogs
               /\ left.serial = file.serial
               /\ Distinct(left)
               /\ Finals(left) \subseteq Finals(file)
<1> DEFINE old == file.strings
           new == RemoveAt(old, n)
           left == [file EXCEPT !.strings = RemoveAt(@, n)]
<1>1. /\ new \in Seq(Entry) /\ Len(new) = Len(old) - 1
      /\ \A k \in 1 .. Len(old) - 1 : new[k] = IF k < n THEN old[k] ELSE old[k + 1]
  <2>1. old \in Seq(Entry)
    BY FileTypes
  <2>2. n \in DOMAIN old
    OBVIOUS
  <2> HIDE DEF old
  <2>3. n \in 1 .. Len(old)
    BY <2>1, <2>2
  <2>4. QED
    BY <2>1, <2>3, RemoveAtProperties, Zenon
<1>2. left \in Catalogs /\ left.serial = file.serial /\ left.strings = new
  BY <1>1 DEF Catalogs, Entry
<1> HIDE DEF new, left
<1>3. /\ DOMAIN new = 1 .. Len(old) - 1 /\ DOMAIN old = 1 .. Len(old)
      /\ Len(old) \in Nat /\ n \in 1 .. Len(old)
  BY <1>1, FileTypes, LenProperties
<1> DEFINE from(k) == IF k < n THEN k ELSE k + 1
<1>4. \A k \in FinalAt(left) :
         k \in Nat /\ from(k) \in FinalAt(file) /\ new[k] = old[from(k)]
  <2> SUFFICES ASSUME NEW k \in 1 .. Len(old) - 1, ~IsNew(new[k])
               PROVE  /\ k \in Nat /\ from(k) \in FinalAt(file)
                      /\ new[k] = old[from(k)]
    BY <1>2, <1>3 DEF FinalAt
  <2>1. new[k] = old[from(k)]
    BY <1>1
  <2>2. from(k) \in 1 .. Len(old) /\ k \in Nat
    BY <1>3
  <2>3. QED
    BY <1>3, <2>1, <2>2 DEF FinalAt
<1>5. \A k, l \in Nat : from(k) = from(l) => k = l
  BY <1>3
<1> HIDE DEF from
<1>6. Distinct(left)
  <2> SUFFICES ASSUME NEW k \in FinalAt(left), NEW l \in FinalAt(left),
                      new[k].id = new[l].id
               PROVE  k = l
    BY <1>2 DEF Distinct
  <2>1. from(k) = from(l)
    BY <1>4 DEF Distinct
  <2>2. QED
    BY <1>4, <1>5, <2>1
<1>7. Finals(left) \subseteq Finals(file)
  BY <1>2, <1>4 DEF Finals
<1>8. QED
  BY <1>2, <1>6, <1>7 DEF left

(* A file that is released has only final strings, and is released as it is. *)
LEMMA WhatIsReleased ==
    ASSUME NEW file \in Catalogs, ~HasNew(file)
    PROVE  /\ Strings(ReadStrings(file)) = Finals(file)
           /\ Finals(file) \subseteq [key : Keys, id : Nat]
<1>1. FinalAt(file) = DOMAIN file.strings
  BY DEF FinalAt, HasNew
<1>2. /\ DOMAIN ReadStrings(file).strings = DOMAIN file.strings
      /\ \A n \in DOMAIN file.strings :
            /\ ReadStrings(file).strings[n] \in [key : Keys, id : Nat]
            /\ ReadStrings(file).strings[n] = file.strings[n]
  BY WhatIsRead DEF HasNew
<1>3. QED
  BY <1>1, <1>2 DEF Strings, Finals

LEMMA InvInit == CatalogInit => IInv
<1> SUFFICES ASSUME CatalogInit PROVE IInv
  OBVIOUS
<1>1. idl \in Catalogs /\ idl = [serial |-> 0, strings |-> <<>>]
  BY DEF CatalogInit, Catalogs
<1>2. CatalogTypeOK
  BY <1>1 DEF CatalogInit, CatalogTypeOK
<1>3. Files = {idl} /\ Released = {}
  BY <1>1 DEF CatalogInit, Files, Released
<1>4. FinalAt(idl) = {}
  BY <1>1 DEF FinalAt
<1>5. SerialsGrow
  BY <1>1, <1>3, <1>4 DEF SerialsGrow, Distinct, CatalogInit
<1>6. Agreeing(Records)
  <2>1. Finals(idl) = {}
    BY <1>4 DEF Finals
  <2>2. Records = {Settled(idl)} /\ Settled(idl).strings = {}
    BY <1>3, <2>1 DEF Records, Settled
  <2>3. QED
    BY <2>2 DEF Agreeing
<1>7. QED
  BY <1>2, <1>5, <1>6 DEF IInv

(* A step after which every file says no more than one did before it, and so *)
(* does everything released, leaves all in agreement.                        *)
LEMMA StepAgrees ==
    ASSUME Agreeing(Records),
           \A f \in Files' : \E g \in Files : /\ f.serial = g.serial
                                           /\ Finals(f) \subseteq Finals(g),
           \A r \in Released' : r \in Released \/
              \E g \in Files : r.serial = g.serial /\ r.strings \subseteq Finals(g)
    PROVE  Agreeing(Records)'
<1>1. ASSUME NEW g \in Files
      PROVE  /\ Settled(g) \in Records
             /\ Settled(g).serial = g.serial /\ Settled(g).strings = Finals(g)
  BY DEF Records, Settled
<1>2. ASSUME NEW r \in Released PROVE r \in Records
  BY DEF Records
<1>3. Records' = {Settled(f) : f \in Files'} \cup Released'
  BY DEF Records, Settled, Finals, FinalAt
<1>4. \A a \in Records' : \E b \in Records : /\ a.serial = b.serial
                                          /\ a.strings \subseteq b.strings
  <2>1. ASSUME NEW f \in Files'
        PROVE  \E b \in Records : /\ Settled(f).serial = b.serial
                                 /\ Settled(f).strings \subseteq b.strings
    <3>1. PICK g \in Files : f.serial = g.serial /\ Finals(f) \subseteq Finals(g)
      OBVIOUS
    <3>2. Settled(f).serial = f.serial /\ Settled(f).strings = Finals(f)
      BY DEF Settled
    <3>3. QED
      BY <1>1, <3>1, <3>2
  <2>2. ASSUME NEW r \in Released'
        PROVE  \E b \in Records : r.serial = b.serial /\ r.strings \subseteq b.strings
    BY <1>1, <1>2
  <2>3. QED
    BY <1>3, <2>1, <2>2
<1>5. QED
  <2>1. Agreeing(Records')
    BY <1>4, AgreementKept
  <2>2. QED
    BY <2>1 DEF Agreeing

(* An edit that says no more than the file did before.                       *)
LEMMA EditKeeps ==
    ASSUME IInv, idl # Damaged,
           idl' \in Catalogs, idl'.serial = idl.serial,
           Distinct(idl'), Finals(idl') \subseteq Finals(idl),
           UNCHANGED <<committed, freezing, header, lng>>
    PROVE  IInv'
<1> USE DEF IInv
<1>1. CatalogTypeOK'
  BY DEF CatalogTypeOK
<1>2. Files' = ({idl', committed, freezing} \ {Damaged, Nothing}) /\ Released' = Released
  BY DEF Files, Released
<1>3. SerialsGrow'
  BY <1>2, FilesAreCatalogs DEF SerialsGrow, Files
<1>4. \A f \in Files' : \E g \in Files : /\ f.serial = g.serial
                                      /\ Finals(f) \subseteq Finals(g)
  <2>1. idl \in Files
    BY FilesAreCatalogs
  <2>2. QED
    BY <1>2, <2>1 DEF Files
<1>5. QED
  BY <1>1, <1>2, <1>3, <1>4, StepAgrees

(* Freezing writes a serial that nothing else carries.                       *)
LEMMA FreezeWritesKeeps ==
    ASSUME IInv, FreezeWrites
    PROVE  IInv'
<1> USE DEF IInv
<1>1. /\ freezing \in Catalogs /\ freezing \in Files /\ Distinct(freezing)
      /\ freezing.serial < MaxSerial /\ committed.serial <= freezing.serial
  BY FilesAreCatalogs DEF FreezeWrites, SerialsGrow
<1>2. /\ idl' \in Catalogs /\ idl'.serial = freezing.serial + 1 /\ Distinct(idl')
      /\ freezing' = Nothing /\ committed' = committed
      /\ Released' = Released
  BY <1>1, WhatIsFrozen DEF FreezeWrites, Released
<1>3. CatalogTypeOK'
  BY <1>2 DEF CatalogTypeOK, FreezeWrites
<1>4. Files' = {idl', committed}
  BY <1>2, FilesAreCatalogs DEF Files
<1>5. /\ freezing.serial \in Int /\ committed.serial \in Int
      /\ committed \in Files
  BY <1>1, FilesAreCatalogs, FileTypes
<1>6. \A r \in Released : r.serial \in Int /\ r.serial <= committed.serial
  BY ReleasesAreArtefacts DEF SerialsGrow, Artefacts
<1>7. SerialsGrow'
  BY <1>1, <1>2, <1>4, <1>5, <1>6 DEF SerialsGrow
<1>8. Agreeing(Records)'
  <2> DEFINE new == Settled(idl')
             kept == {Settled(committed)} \cup Released
  <2>1. new.serial = freezing.serial + 1 /\ new.strings = Finals(idl')
    BY <1>2 DEF Settled
  <2>2. Records' = {new} \cup kept
    BY <1>2, <1>4 DEF Records, Settled, Finals, FinalAt
  <2>3. \A r \in kept : r.serial \in Int /\ r.serial <= committed.serial
    BY <1>5, <1>6 DEF Settled
  <2>4. Agreeing(kept)
    <3>1. kept \subseteq Records
      BY <1>5 DEF Records
    <3> HIDE DEF kept
    <3>2. QED
      BY <3>1 DEF Agreeing
  <2>5. \A s, t \in Finals(idl') : s.id = t.id => s.key = t.key
    BY <1>2 DEF Finals, Distinct
  <2> HIDE DEF new, kept
  <2>6. Agreeing({new} \cup kept)
    <3> SUFFICES ASSUME NEW a \in {new} \cup kept, NEW b \in {new} \cup kept,
                        a.serial = b.serial,
                        NEW s \in a.strings, NEW t \in b.strings, s.id = t.id
                 PROVE  s.key = t.key
      BY DEF Agreeing
    <3>1. CASE a = new /\ b = new
      BY <2>1, <2>5, <3>1
    <3>2. CASE a \in kept /\ b \in kept
      BY <2>4, <3>2 DEF Agreeing
    <3>3. ASSUME NEW r \in kept, r.serial = new.serial PROVE FALSE
      BY <1>1, <1>5, <2>1, <2>3, <3>3
    <3>4. QED
      BY <3>1, <3>2, <3>3
  <2>7. QED
    BY <2>2, <2>6 DEF Agreeing
<1>9. QED
  BY <1>3, <1>7, <1>8

LEMMA InvStep == IInv /\ [CatalogNext]_catalogVars => IInv'
<1> SUFFICES ASSUME IInv, [CatalogNext]_catalogVars PROVE IInv'
  OBVIOUS
<1> USE DEF IInv
<1>1. ASSUME NEW key \in Keys, NEW n \in 1 .. Len(idl.strings) + 1,
             AddString(key, n)
      PROVE  IInv'
  <2>1. idl # Damaged /\ idl \in Catalogs /\ Distinct(idl)
    BY <1>1, FilesAreCatalogs DEF AddString, SerialsGrow
  <2>2. /\ idl' = [idl EXCEPT !.strings = InsertAt(@, n, [key |-> key, id |-> New])]
        /\ UNCHANGED <<committed, freezing, header, lng>>
    BY <1>1 DEF AddString
  <2>3. /\ idl' \in Catalogs /\ idl'.serial = idl.serial
        /\ Distinct(idl') /\ Finals(idl') \subseteq Finals(idl)
    BY <2>1, <2>2, WhatIsAdded
  <2>4. QED
    BY <2>1, <2>2, <2>3, EditKeeps
<1>2. ASSUME NEW n, DeleteString(n)
      PROVE  IInv'
  <2>1. idl # Damaged /\ idl \in Catalogs /\ Distinct(idl) /\ n \in DOMAIN idl.strings
    BY <1>2, FilesAreCatalogs DEF DeleteString, SerialsGrow
  <2>2. /\ idl' = [idl EXCEPT !.strings = RemoveAt(@, n)]
        /\ UNCHANGED <<committed, freezing, header, lng>>
    BY <1>2 DEF DeleteString
  <2>3. /\ idl' \in Catalogs /\ idl'.serial = idl.serial
        /\ Distinct(idl') /\ Finals(idl') \subseteq Finals(idl)
    BY <2>1, <2>2, WhatIsLeft
  <2>4. QED
    BY <2>1, <2>2, <2>3, EditKeeps
<1>3. CASE Commit
  <2>1. /\ idl # Damaged /\ idl \in Catalogs /\ idl \in Files /\ Distinct(idl)
        /\ committed.serial <= idl.serial
    BY <1>3, FilesAreCatalogs DEF Commit, SerialsGrow
  <2>2. /\ committed' = idl /\ UNCHANGED <<idl, freezing>>
        /\ Released' = Released /\ Files' \subseteq Files
    BY <1>3 DEF Commit, Files, Released
  <2>3. CatalogTypeOK'
    BY <1>3, <2>1, <2>2 DEF CatalogTypeOK, Commit
  <2>4. idl.serial \in Int /\ committed.serial \in Int
    BY <2>1, FilesAreCatalogs, FileTypes
  <2>5. \A r \in Released : r.serial \in Int
    BY ReleasesAreArtefacts DEF Artefacts
  <2>6. \A f \in Files' : f = idl \/ (f = freezing /\ freezing # Nothing)
    BY <2>2 DEF Files
  <2>7. SerialsGrow'
    <3>1. \A f \in Files' : Distinct(f) /\ idl.serial <= f.serial
      BY <2>1, <2>2, <2>4, <2>6, FilesAreCatalogs DEF SerialsGrow
    <3>2. \A r \in Released : r.serial <= idl.serial
      BY <2>1, <2>4, <2>5 DEF SerialsGrow
    <3>3. QED
      BY <2>2, <3>1, <3>2 DEF SerialsGrow
  <2>8. QED
    BY <2>2, <2>3, <2>7, StepAgrees
<1>4. CASE Checkout
  <2>1. /\ idl' = committed /\ committed' = committed
        /\ freezing = Nothing /\ freezing' = Nothing
        /\ Released' = Released /\ Files' \subseteq Files
    BY <1>4, FilesAreCatalogs DEF Checkout, Files, Released
  <2>2. CatalogTypeOK' /\ SerialsGrow'
    BY <1>4, <2>1 DEF CatalogTypeOK, Checkout, SerialsGrow
  <2>3. QED
    BY <2>1, <2>2, StepAgrees
<1>5. CASE FreezeReads
  <2>1. /\ freezing' = idl /\ idl # Damaged /\ UNCHANGED <<idl, committed>>
        /\ idl.serial < MaxSerial
        /\ Released' = Released /\ Files' \subseteq Files
    BY <1>5 DEF FreezeReads, Files, Released
  <2>2. CatalogTypeOK' /\ SerialsGrow'
    BY <1>5, <2>1, FilesAreCatalogs DEF CatalogTypeOK, FreezeReads, SerialsGrow
  <2>3. QED
    BY <2>1, <2>2, StepAgrees
<1>6. CASE FreezeOpens
  <2>1. /\ idl' = Damaged /\ UNCHANGED <<freezing, committed>>
        /\ Released' = Released /\ Files' \subseteq Files
    BY <1>6 DEF FreezeOpens, Files, Released
  <2>2. CatalogTypeOK' /\ SerialsGrow'
    BY <1>6, <2>1 DEF CatalogTypeOK, FreezeOpens, SerialsGrow
  <2>3. QED
    BY <2>1, <2>2, StepAgrees
<1>7. CASE FreezeWrites
  BY <1>7, FreezeWritesKeeps
<1>8. CASE FreezeFails
  <2>1. /\ freezing' = Nothing /\ UNCHANGED <<idl, committed>>
        /\ Released' = Released /\ Files' \subseteq Files
    BY <1>8 DEF FreezeFails, Files, Released
  <2>2. CatalogTypeOK' /\ SerialsGrow'
    BY <1>8, <2>1 DEF CatalogTypeOK, FreezeFails, SerialsGrow
  <2>3. QED
    BY <2>1, <2>2, StepAgrees
<1>9. ASSUME Releasable, UNCHANGED <<idl, committed, freezing>>,
             NEW r, r.serial = idl.serial, r.strings \subseteq Finals(idl),
             r \in Artefacts,
             \/ header' = r /\ lng' = lng
             \/ lng' = r /\ header' = header
      PROVE  IInv'
  <2>1. idl # Damaged /\ idl = committed /\ idl \in Files
    BY <1>9, FilesAreCatalogs DEF Releasable
  <2>2. Released' \subseteq Released \cup {r} /\ Files' = Files
    BY <1>9 DEF Released, Files
  <2>3. CatalogTypeOK'
    BY <1>9 DEF CatalogTypeOK
  <2>4. idl.serial \in Int
    BY <2>1, FilesAreCatalogs, FileTypes
  <2>5. SerialsGrow'
    BY <1>9, <2>1, <2>2, <2>4 DEF SerialsGrow
  <2>6. QED
    BY <1>9, <2>1, <2>2, <2>3, <2>5, StepAgrees
<1>10. ASSUME Releasable
       PROVE  /\ idl \in Catalogs /\ Strings(ReadStrings(idl)) = Finals(idl)
              /\ Finals(idl) \subseteq [key : Keys, id : Nat]
              /\ idl.serial \in 0 .. MaxSerial
  BY <1>10, FilesAreCatalogs, FileTypes, WhatIsReleased DEF Releasable
<1>11. CASE ReleaseHeader
  <2>1. Releasable /\ header' \in Artefacts
        /\ header'.serial = idl.serial /\ header'.strings \subseteq Finals(idl)
    BY <1>10, <1>11 DEF ReleaseHeader, Artefacts
  <2>2. QED
    BY <1>9, <1>11, <2>1 DEF ReleaseHeader
<1>12. ASSUME NEW translated, ReleaseLng(translated)
       PROVE  IInv'
  <2> DEFINE chosen == {str \in Strings(ReadStrings(idl)) : str.key \in translated}
  <2>1. chosen \subseteq Strings(ReadStrings(idl))
    OBVIOUS
  <2>2. Releasable /\ lng' = [serial |-> idl.serial, strings |-> chosen]
    BY <1>12 DEF ReleaseLng
  <2> HIDE DEF chosen
  <2>3. /\ lng' \in Artefacts
        /\ lng'.serial = idl.serial /\ lng'.strings \subseteq Finals(idl)
    BY <1>10, <2>1, <2>2 DEF Artefacts
  <2>4. QED
    BY <1>9, <1>12, <2>2, <2>3 DEF ReleaseLng
<1>13. CASE UNCHANGED catalogVars
  <2>1. UNCHANGED <<idl, committed, freezing, header, lng>>
    BY <1>13 DEF catalogVars
  <2>2. Files' = Files /\ Released' = Released
    BY <2>1 DEF Files, Released
  <2>3. CatalogTypeOK' /\ SerialsGrow'
    BY <2>1, <2>2 DEF CatalogTypeOK, SerialsGrow
  <2>4. QED
    BY <2>2, <2>3, StepAgrees
<1>14. QED
  BY <1>1, <1>2, <1>3, <1>4, <1>5, <1>6, <1>7, <1>8, <1>11, <1>12, <1>13
  DEF CatalogNext, AddString

(* The invariant implies the properties                                      *)
LEMMA InvMeans == IInv => OneMeaning
<1> SUFFICES ASSUME IInv PROVE OneMeaning
  OBVIOUS
<1> USE DEF IInv
<1>1. IdsAreUnique
  <2> SUFFICES ASSUME idl # Damaged,
                      NEW m \in DOMAIN ReadStrings(idl).strings,
                      NEW n \in DOMAIN ReadStrings(idl).strings,
                      ReadStrings(idl).strings[m].id = ReadStrings(idl).strings[n].id
               PROVE  m = n
    BY DEF IdsAreUnique
  <2>1. idl \in Catalogs /\ Distinct(idl)
    BY FilesAreCatalogs DEF SerialsGrow
  <2>2. QED
    BY <2>1, WhatIsRead, NumbersDiffer
<1>2. SameSerialAgrees
  <2>1. header # Nothing => header \in Records
    BY DEF Records, Released
  <2>2. lng # Nothing => lng \in Records
    BY DEF Records, Released
  <2>3. QED
    BY <2>1, <2>2 DEF SameSerialAgrees, Agreeing
<1>3. QED
  BY <1>1, <1>2 DEF OneMeaning

(* Only the last step of a freeze turns a damaged file into a catalogue      *)
(* while a freeze is running.                                                *)
LEMMA FreezeStep ==
    IInv /\ [CatalogNext]_catalogVars =>
      ((idl = Damaged /\ idl' # Damaged /\ freezing # Nothing) =>
          /\ ReadStrings(idl').strings = ReadStrings(freezing).strings
          /\ idl'.serial = freezing.serial + 1
          /\ ~HasNew(idl'))
<1> SUFFICES ASSUME IInv, [CatalogNext]_catalogVars,
                    idl = Damaged, idl' # Damaged, freezing # Nothing
             PROVE  /\ ReadStrings(idl').strings = ReadStrings(freezing).strings
                    /\ idl'.serial = freezing.serial + 1
                    /\ ~HasNew(idl')
  OBVIOUS
<1>1. FreezeWrites
  BY DEF CatalogNext, catalogVars, AddString, DeleteString, Commit, Checkout, FreezeReads,
         FreezeOpens, FreezeFails, ReleaseHeader, ReleaseLng, Releasable
<1>2. freezing \in Catalogs /\ freezing.serial < MaxSerial /\ Distinct(freezing)
  BY FilesAreCatalogs DEF IInv, SerialsGrow
<1>3. QED
  BY <1>1, <1>2, WhatIsFrozen DEF FreezeWrites

------------------------------------------------------------------------------
(* The files and what is released have their types: a catalogue and its      *)
(* serial stay in bounds, and every released number is final.                *)
THEOREM CatalogTypeCorrect == CatalogSpec => []CatalogTypeOK
<1>1. IInv => CatalogTypeOK
  BY DEF IInv
<1>2. QED
  BY <1>1, InvInit, InvStep, PTL DEF CatalogSpec

(* An identifier means one string, within a catalogue and between a program  *)
(* and the translation it opens (docs/syntax.md:138, cmd_freeze_ids.cpp).    *)
THEOREM OneNumberOneString == CatalogSpec => []OneMeaning
BY InvInit, InvStep, InvMeans, PTL DEF CatalogSpec

(* A freeze changes no number a build from the same file was made with.      *)
THEOREM FreezeIsHarmless == CatalogSpec => FreezeKeepsNumbers
BY InvInit, InvStep, FreezeStep, PTL DEF CatalogSpec, FreezeKeepsNumbers

==============================================================================
