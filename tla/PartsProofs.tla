------------------------------ MODULE PartsProofs -----------------------------
(***************************************************************************)
(* Proofs about parts that share a run with others: the names of languages *)
(* (LangCodes), the C interface and the Python module (Lite), the messages *)
(* of the tool (ToolStrings), a run of the tool (Tool), the reader of .mo  *)
(* (GettextMo) and the sources of system_locales (SystemLocales).          *)
(* NameParts, LibraryParts and CommandParts name their parameters and      *)
(* state what they promise; it is proved here for every value of the       *)
(* parameters.                                                             *)
(***************************************************************************)
EXTENDS Facts, LibraryParts, CommandParts, NameParts

------------------------------------------------------------------------------
(* LangCodes: the tables of languages                                        *)

(* The least of some numbers                                                 *)
LEMMA LeastOf ==
    ASSUME NEW n \in Nat, NEW S, S \subseteq 1 .. n, S # {}
    PROVE  Codes!Min(S) \in S /\ \A y \in S : Codes!Min(S) <= y
<1>1. IsFiniteSet(S)
  <2>1. IsFiniteSet(1 .. n)
    BY FS_Interval
  <2>2. QED
    BY <2>1, FS_Subset, Zenon
<1>2. S \in SUBSET Int
  OBVIOUS
<1>3. Min(S) \in S /\ \A y \in S : Min(S) <= y
  BY <1>1, <1>2, MinIsSmallest
<1>4. Codes!Min(S) = Min(S)
  BY Zenon DEF Codes!Min, Min
<1>5. QED
  BY <1>3, <1>4

(* How much of the registry is read, of the record that begins behind b      *)
InRecord(b) == \A j \in b + 1 .. cursor : registry[j].field # "%%"

FirstDescribed(b, d) ==
    /\ registry[d].field = "Description"
    /\ \A j \in b + 1 .. d - 1 : registry[j].field # "Description"

SeenIn(b) ==
    /\ record \in Codes!Keywords \cup {"None", ""}
    /\ record \in Codes!Keywords =>
          /\ b + 1 <= cursor
          /\ registry[b + 1].field = "Type" /\ registry[b + 1].value = record
          /\ b + 1 < cursor => subtag = registry[b + 2].value
          /\ \A i \in b + 1 .. cursor :
                /\ registry[i].field # "Scope"
                /\ registry[i].field = "Description" =>
                      registry[i].value # "Private use"
          /\ IF descriptions = <<>>
               THEN \A i \in b + 1 .. cursor : registry[i].field # "Description"
             ELSE \E d \in b + 1 .. cursor :
                     FirstDescribed(b, d) /\ descriptions[1] = registry[d].value
    /\ record = "" => \A t \in Codes!Keywords : ~Codes!Wanted(b, t)
    /\ record = "None" /\ b < cursor => registry[b + 1].field # "Type"
    /\ cursor = b => descriptions = <<>>

(* What the records up to the one behind b have for a table                  *)
EntryOf(b) == <<Codes!First(b, "Subtag"), Codes!First(b, "Description")>>
Listed(b, t) == {EntryOf(c) : c \in {c \in Codes!Beginnings : c < b /\ Codes!Wanted(c, t)}}

ReadUpTo(b) ==
    /\ b \in Codes!Beginnings /\ InRecord(b) /\ SeenIn(b)
    /\ \A t \in Codes!Keywords : tables[t] = Listed(b, t)

ReadingInv ==
    /\ cursor \in 0 .. Len(registry)
    /\ descriptions \in Seq(STRING)
    /\ DOMAIN tables = Codes!Keywords
    /\ \E b \in 0 .. cursor : ReadUpTo(b)

CodesInv ==
    /\ registry \in Registries
    /\ phase \in {"reading", "written", "broken"}
    /\ phase = "reading" => ReadingInv
    /\ Codes!TablesHoldTheRegistry
    /\ query # <<>> => /\ phase = "written" /\ query \in LanguageTags
                       /\ reply = Codes!LanguageName(query)

RegistryLine == [field : Codes!Fields, value : STRING]

LEMMA RegistryIsOne ==
    ASSUME Codes!CodesAssumption, registry \in Registries
    PROVE  /\ registry \in Seq(RegistryLine) /\ Len(registry) \in Nat
           /\ \A i \in 1 .. Len(registry) :
                /\ registry[i] \in RegistryLine
                /\ registry[i].field = "Type" => i > 1 /\ registry[i - 1].field = "%%"
                /\ registry[i].field = "Subtag" => i > 1 /\ registry[i - 1].field = "Type"
           /\ \A i \in 1 .. Len(registry) :
                registry[i].field = "Type" /\ registry[i].value \in Codes!Keywords =>
                  /\ i < Len(registry) /\ registry[i + 1].field = "Subtag"
                  /\ \E d \in i + 1 .. Len(registry) :
                        /\ registry[d].field = "Description"
                        /\ \A j \in i .. d : registry[j].field # "%%"
           /\ \A i, j \in 1 .. Len(registry) :
                /\ registry[i].field = "Type" /\ registry[i].value \in Codes!Keywords
                /\ registry[j].field = "Type" /\ registry[i].value = registry[j].value
                /\ i # j
                => registry[i + 1].value # registry[j + 1].value
<1>1. registry \in Seq(RegistryLine) /\ Codes!IsRegistry(registry)
  BY DEF Codes!CodesAssumption, RegistryLine
<1>2. Len(registry) \in Nat /\ \A i \in 1 .. Len(registry) : registry[i] \in RegistryLine
  BY <1>1
<1>3. QED
  BY <1>1, <1>2, Zenon DEF Codes!IsRegistry

(* A wanted record, by its lines                                             *)
LEMMA WantedAt ==
    ASSUME Codes!CodesAssumption, registry \in Registries,
           NEW b \in Codes!Beginnings, NEW t \in Codes!Keywords, Codes!Wanted(b, t)
    PROVE  /\ b + 2 \in 1 .. Len(registry) /\ b \in 0 .. Len(registry)
           /\ registry[b + 1].field = "Type" /\ registry[b + 1].value = t
           /\ Codes!First(b, "Subtag") = registry[b + 2].value
<1> DEFINE N == Len(registry)
<1>1. /\ N \in Nat
      /\ \A i \in 1 .. N :
            /\ registry[i].field = "Type" => i > 1 /\ registry[i - 1].field = "%%"
            /\ registry[i].field = "Subtag" => i > 1 /\ registry[i - 1].field = "Type"
            /\ registry[i].field = "Type" /\ registry[i].value \in Codes!Keywords =>
                  i < N /\ registry[i + 1].field = "Subtag"
  BY RegistryIsOne
<1>2. b \in 0 .. N
  BY <1>1 DEF Codes!Beginnings
<1> HIDE DEF N
<1>3. PICK i \in b + 1 .. N : /\ registry[i].field = "Type" /\ registry[i].value = t
                              /\ \A j \in b + 1 .. i : registry[j].field # "%%"
  BY Zenon DEF Codes!Wanted, Codes!With, N
<1>4. i = b + 1
  <2>1. i \in 1 .. N
    BY <1>1, <1>2, <1>3
  <2>2. registry[i - 1].field = "%%"
    BY <1>1, <1>3, <2>1
  <2>3. i - 1 \notin b + 1 .. i
    BY <1>3, <2>2
  <2>4. QED
    BY <1>1, <1>2, <1>3, <2>3
<1>5. b + 1 \in 1 .. N /\ b + 1 < N /\ registry[(b + 1) + 1].field = "Subtag"
  BY <1>1, <1>2, <1>3, <1>4
<1>6. (b + 1) + 1 = b + 2 /\ b + 2 \in 1 .. N /\ b + 2 \in b + 1 .. N
  BY <1>1, <1>2, <1>5
<1>7. Codes!With(b, "Subtag") = {b + 2}
  <2>1. b + 2 \in Codes!With(b, "Subtag")
    <3>1. \A j \in b + 1 .. b + 2 : j = b + 1 \/ j = b + 2
      BY <1>2
    <3>2. \A j \in b + 1 .. b + 2 : registry[j].field # "%%"
      BY <1>3, <1>4, <1>5, <1>6, <3>1
    <3>3. QED
      BY <1>5, <1>6, <3>2 DEF Codes!With, N
  <2>2. ASSUME NEW k \in Codes!With(b, "Subtag") PROVE k = b + 2
    <3>1. /\ k \in b + 1 .. N /\ registry[k].field = "Subtag"
          /\ \A j \in b + 1 .. k : registry[j].field # "%%"
      BY DEF Codes!With, N
    <3>2. k \in 1 .. N /\ k # b + 1
      BY <1>1, <1>2, <1>3, <1>4, <3>1
    <3>3. registry[k - 1].field = "Type" /\ k - 1 \in 1 .. N /\ k - 1 \in b + 1 .. k
      BY <1>1, <1>2, <3>1, <3>2
    <3>4. registry[(k - 1) - 1].field = "%%"
      BY <1>1, <3>3
    <3>5. (k - 1) - 1 \notin b + 1 .. k
      BY <3>1, <3>4
    <3>6. QED
      BY <1>1, <1>2, <3>1, <3>2, <3>3, <3>5
  <2>3. QED
    BY <2>1, <2>2
<1>8. Codes!Min({b + 2}) = b + 2
  <2>1. {b + 2} \subseteq 1 .. N /\ {b + 2} # {}
    BY <1>6
  <2>2. QED
    BY <1>1, <2>1, LeastOf
<1>9. QED
  BY <1>2, <1>3, <1>4, <1>6, <1>7, <1>8, Zenon DEF Codes!First, N

(* A record whose end is reached has the lines that were read.               *)
LEMMA LinesRead ==
    ASSUME Codes!CodesAssumption, registry \in Registries, cursor \in 0 .. Len(registry),
           NEW b \in 0 .. cursor, InRecord(b),
           cursor < Len(registry) => registry[cursor + 1].field = "%%"
    PROVE  \A f : Codes!With(b, f) = {i \in b + 1 .. cursor : registry[i].field = f}
<1>1. Len(registry) \in Nat
  BY RegistryIsOne
<1>2. ASSUME NEW f, NEW i \in Codes!With(b, f)
      PROVE  i \in b + 1 .. cursor /\ registry[i].field = f
  <2>1. /\ i \in b + 1 .. Len(registry) /\ registry[i].field = f
        /\ \A j \in b + 1 .. i : registry[j].field # "%%"
    BY DEF Codes!With
  <2>2. ASSUME i > cursor PROVE FALSE
    <3>1. cursor < Len(registry) /\ cursor + 1 \in b + 1 .. i
      BY <1>1, <2>1, <2>2
    <3>2. QED
      BY <2>1, <3>1
  <2>3. QED
    BY <1>1, <2>1, <2>2
<1>3. ASSUME NEW f, NEW i \in b + 1 .. cursor, registry[i].field = f
      PROVE  i \in Codes!With(b, f)
  <2>1. i \in b + 1 .. Len(registry) /\ \A j \in b + 1 .. i : j \in b + 1 .. cursor
    BY <1>1
  <2>2. QED
    BY <1>3, <2>1 DEF Codes!With, InRecord
<1>4. QED
  BY <1>2, <1>3

(* ... and what is known of them then is all there is to know.               *)
LEMMA RecordIsKnown ==
    ASSUME Codes!CodesAssumption, registry \in Registries, cursor \in 0 .. Len(registry),
           NEW b \in 0 .. cursor, b \in Codes!Beginnings, InRecord(b), SeenIn(b),
           cursor < Len(registry) => registry[cursor + 1].field = "%%"
    PROVE  /\ \A t \in Codes!Keywords : Codes!Wanted(b, t) <=> t = record
           /\ record \in Codes!Keywords =>
                 /\ descriptions # <<>>
                 /\ EntryOf(b) = <<subtag, descriptions[1]>>
                 /\ \A c \in Codes!Beginnings :
                       c < b /\ Codes!Wanted(c, record) => EntryOf(c)[1] # subtag
<1> DEFINE N == Len(registry)
<1>1. /\ N \in Nat
      /\ \A i \in 1 .. N :
            /\ registry[i].field = "Type" => i > 1 /\ registry[i - 1].field = "%%"
            /\ registry[i].field = "Type" /\ registry[i].value \in Codes!Keywords =>
                  /\ i < N /\ registry[i + 1].field = "Subtag"
                  /\ \E d \in i + 1 .. N :
                        /\ registry[d].field = "Description"
                        /\ \A j \in i .. d : registry[j].field # "%%"
  BY RegistryIsOne
<1>2. \A f : Codes!With(b, f) = {i \in b + 1 .. cursor : registry[i].field = f}
  BY LinesRead
<1>bounds. b \in Int /\ cursor \in Int /\ 0 <= b /\ b <= cursor /\ cursor <= N
  BY <1>1
<1> HIDE DEF N
<1>3. ASSUME NEW t \in Codes!Keywords, Codes!Wanted(b, t) PROVE t = record
  <2>1. /\ b + 2 \in 1 .. N /\ registry[b + 1].field = "Type" /\ registry[b + 1].value = t
    BY <1>3, WantedAt DEF N
  <2>2. b + 1 \in b + 1 .. cursor
    <3>1. PICK i \in Codes!With(b, "Type") : TRUE
      BY <1>3, Zenon DEF Codes!Wanted
    <3>2. i \in b + 1 .. cursor
      BY <1>2
    <3>3. QED
      BY <3>2
  <2>3. record # "None"
    <3>1. b < cursor
      BY <2>2
    <3>2. QED
      BY <2>1, <3>1, Zenon DEF SeenIn
  <2>4. record # ""
    BY <1>3, Zenon DEF SeenIn
  <2>5. record \in Codes!Keywords
    BY <2>3, <2>4, Zenon DEF SeenIn
  <2>6. QED
    BY <2>1, <2>5, Zenon DEF SeenIn
<1>4. ASSUME record \in Codes!Keywords
      PROVE  /\ Codes!Wanted(b, record)
             /\ descriptions # <<>> /\ EntryOf(b) = <<subtag, descriptions[1]>>
  <2>1. /\ b + 1 \in b + 1 .. cursor /\ b + 1 \in 1 .. N
        /\ registry[b + 1].field = "Type" /\ registry[b + 1].value = record
        /\ \A i \in b + 1 .. cursor :
              /\ registry[i].field # "Scope"
              /\ registry[i].field = "Description" => registry[i].value # "Private use"
    <3>1. /\ b + 1 <= cursor
          /\ registry[b + 1].field = "Type" /\ registry[b + 1].value = record
          /\ \A i \in b + 1 .. cursor :
                /\ registry[i].field # "Scope"
                /\ registry[i].field = "Description" => registry[i].value # "Private use"
      BY <1>4, Zenon DEF SeenIn
    <3>2. b + 1 <= cursor
      BY <3>1, Zenon
    <3>3. b + 1 \in b + 1 .. cursor /\ b + 1 \in 1 .. N
      BY <1>1, <1>bounds, <3>2
    <3>4. QED
      BY <3>1, <3>3, Zenon
  <2>2. Codes!Wanted(b, record)
    BY <1>2, <2>1, Zenon DEF Codes!Wanted
  <2>3. /\ b + 2 \in 1 .. N /\ registry[(b + 1) + 1].field = "Subtag"
        /\ Codes!First(b, "Subtag") = registry[b + 2].value
    BY <1>1, <1>4, <2>1, <2>2, WantedAt, Zenon DEF N
  <2>4. b + 1 < cursor
    <3>1. (b + 1) + 1 \in 1 .. N /\ (b + 1) + 1 = b + 2
      BY <1>1, <2>3
    <3>2. ASSUME b + 1 = cursor PROVE FALSE
      BY <1>1, <2>3, <3>1, <3>2 DEF N
    <3>3. b + 1 \in b + 1 .. cursor
      BY <2>1, Zenon
    <3>4. QED
      BY <1>bounds, <3>2, <3>3
  <2>5. subtag = registry[b + 2].value
    BY <1>4, <2>4, Zenon DEF SeenIn
  <2>6. PICK k \in b + 1 .. cursor : registry[k].field = "Description"
    <3>1. PICK d \in (b + 1) + 1 .. N :
             /\ registry[d].field = "Description"
             /\ \A j \in b + 1 .. d : registry[j].field # "%%"
      BY <1>1, <1>4, <2>1, Zenon
    <3>2. d \in Codes!With(b, "Description")
      <4>1. d \in b + 1 .. Len(registry)
        BY <1>1, <3>1 DEF N
      <4>2. QED
        BY <3>1, <4>1 DEF Codes!With
    <3>3. QED
      BY <1>2, <3>1, <3>2
  <2>7. descriptions # <<>>
    BY <1>4, <2>6, Zenon DEF SeenIn
  <2>8. PICK d \in b + 1 .. cursor :
           FirstDescribed(b, d) /\ descriptions[1] = registry[d].value
    BY <1>4, <2>7, Zenon DEF SeenIn
  <2>9. Codes!Min(Codes!With(b, "Description")) = d
    <3> DEFINE D == Codes!With(b, "Description")
               m == Codes!Min(D)
    <3>1. D = {i \in b + 1 .. cursor : registry[i].field = "Description"}
      BY <1>2
    <3>2. d \in D /\ D \subseteq 1 .. N
      BY <1>1, <2>8, <3>1 DEF FirstDescribed, N
    <3> HIDE DEF D
    <3>3. m \in D /\ \A y \in D : m <= y
      BY <1>1, <3>2, LeastOf
    <3> HIDE DEF m
    <3>4. m \in b + 1 .. cursor /\ registry[m].field = "Description" /\ m <= d
      BY <3>1, <3>2, <3>3
    <3>5. m \notin b + 1 .. d - 1
      BY <2>8, <3>4 DEF FirstDescribed
    <3>6. m = d
      BY <3>4, <3>5
    <3>7. QED
      BY <3>6 DEF m, D
  <2>10. Codes!First(b, "Description") = descriptions[1]
    BY <2>8, <2>9, Zenon DEF Codes!First
  <2>11. QED
    BY <2>2, <2>3, <2>5, <2>7, <2>10, Zenon DEF EntryOf
<1>5. ASSUME record \in Codes!Keywords, NEW c \in Codes!Beginnings, c < b,
             Codes!Wanted(c, record)
      PROVE  EntryOf(c)[1] # subtag
  <2>1. /\ c + 2 \in 1 .. N /\ c \in 0 .. N
        /\ registry[c + 1].field = "Type" /\ registry[c + 1].value = record
        /\ Codes!First(c, "Subtag") = registry[c + 2].value
    BY <1>5, WantedAt DEF N
  <2>2. /\ b + 2 \in 1 .. N /\ b \in 0 .. N
        /\ registry[b + 1].field = "Type" /\ registry[b + 1].value = record
        /\ Codes!First(b, "Subtag") = registry[b + 2].value
    BY <1>4, <1>5, WantedAt DEF N
  <2>3. registry[(c + 1) + 1].value # registry[(b + 1) + 1].value
    <3>1. c + 1 \in 1 .. N /\ b + 1 \in 1 .. N /\ c + 1 # b + 1
      BY <1>1, <1>5, <2>1, <2>2
    <3>2. QED
      BY <1>5, <2>1, <2>2, <3>1, RegistryIsOne DEF N
  <2>4. (c + 1) + 1 = c + 2 /\ (b + 1) + 1 = b + 2
    BY <2>1, <2>2
  <2>5. subtag = Codes!First(b, "Subtag") /\ EntryOf(c)[1] = Codes!First(c, "Subtag")
    BY <1>4, <1>5 DEF EntryOf
  <2>6. QED
    BY <2>1, <2>2, <2>3, <2>4, <2>5, Zenon
<1>6. QED
  BY <1>3, <1>4, <1>5

(* Nothing but the beginning of the file and separators begins a record.     *)
LEMMA BeginningsUpTo ==
    ASSUME Codes!CodesAssumption, registry \in Registries, cursor \in 0 .. Len(registry),
           NEW b \in 0 .. cursor, b \in Codes!Beginnings, InRecord(b)
    PROVE  \A c \in Codes!Beginnings : c < cursor + 1 <=> c < b \/ c = b
<1>1. Len(registry) \in Nat
  BY RegistryIsOne
<1>2. \A c \in Codes!Beginnings :
         /\ c \in 0 .. Len(registry)
         /\ c # 0 => registry[c].field = "%%"
  BY <1>1 DEF Codes!Beginnings
<1>3. ASSUME NEW c \in Codes!Beginnings, c < cursor + 1 PROVE c < b \/ c = b
  <2>1. ASSUME c > b PROVE FALSE
    <3>1. c \in b + 1 .. cursor /\ c # 0
      BY <1>1, <1>2, <1>3, <2>1
    <3>2. registry[c].field = "%%"
      BY <1>2, <3>1
    <3>3. QED
      BY <3>1, <3>2 DEF InRecord
  <2>2. QED
    BY <1>1, <1>2, <2>1
<1>4. ASSUME NEW c \in Codes!Beginnings, c < b \/ c = b PROVE c < cursor + 1
  BY <1>1, <1>2, <1>4
<1>5. QED
  BY <1>3, <1>4

(* What a separator, or the end of the file, adds to a table                 *)
LEMMA ListedGrows ==
    ASSUME Codes!CodesAssumption, registry \in Registries, cursor \in 0 .. Len(registry),
           NEW b \in 0 .. cursor, ReadUpTo(b), NEW t \in Codes!Keywords,
           cursor < Len(registry) => registry[cursor + 1].field = "%%"
    PROVE  Listed(cursor + 1, t) =
             IF t = record THEN Codes!Put(Listed(b, t), subtag, descriptions[1])
             ELSE Listed(b, t)
<1>1. b \in Codes!Beginnings /\ InRecord(b) /\ SeenIn(b)
  BY DEF ReadUpTo
<1>2. \A c \in Codes!Beginnings : c < cursor + 1 <=> c < b \/ c = b
  BY <1>1, BeginningsUpTo
<1>3. Codes!Wanted(b, t) <=> t = record
  BY <1>1, RecordIsKnown
<1>4. CASE t = record
  <2>1. /\ EntryOf(b) = <<subtag, descriptions[1]>>
        /\ \A c \in Codes!Beginnings : c < b /\ Codes!Wanted(c, t) => EntryOf(c)[1] # subtag
    BY <1>1, <1>4, RecordIsKnown
  <2>2. \A p \in Listed(b, t) : p[1] # subtag
    BY <2>1, Zenon DEF Listed
  <2>3. Codes!Put(Listed(b, t), subtag, descriptions[1])
          = Listed(b, t) \cup {<<subtag, descriptions[1]>>}
    BY <2>2 DEF Codes!Put
  <2>4. Listed(cursor + 1, t) = Listed(b, t) \cup {EntryOf(b)}
    BY <1>1, <1>2, <1>3, <1>4, Zenon DEF Listed
  <2>5. QED
    BY <1>4, <2>1, <2>3, <2>4, Zenon
<1>5. CASE t # record
  <2>1. {c \in Codes!Beginnings : c < cursor + 1 /\ Codes!Wanted(c, t)}
          = {c \in Codes!Beginnings : c < b /\ Codes!Wanted(c, t)}
    BY <1>1, <1>2, <1>3, <1>5, Zenon
  <2>2. QED
    BY <1>5, <2>1, Zenon DEF Listed
<1>6. QED
  BY <1>4, <1>5

LEMMA CodesInit == Codes!CodesAssumption /\ Codes!Init => CodesInv
<1> SUFFICES ASSUME Codes!CodesAssumption, Codes!Init PROVE CodesInv
  OBVIOUS
<1>1. /\ registry \in Registries /\ cursor = 0 /\ record = "None" /\ subtag = "None"
      /\ descriptions = <<>> /\ tables = [t \in Codes!Keywords |-> {}]
      /\ phase = "reading" /\ query = <<>>
  BY DEF Codes!Init, Codes!None
<1>2. Len(registry) \in Nat
  BY <1>1, RegistryIsOne
<1>3. InRecord(0) /\ SeenIn(0)
  BY <1>1 DEF InRecord, SeenIn, Codes!Keywords
<1>4. ASSUME NEW t \in Codes!Keywords PROVE tables[t] = Listed(0, t)
  <2>1. \A c \in Codes!Beginnings : ~(c < 0)
    BY <1>2 DEF Codes!Beginnings
  <2>2. Listed(0, t) = {}
    BY <2>1, Zenon DEF Listed
  <2>3. QED
    BY <1>1, <1>4, <2>2
<1>5. ReadUpTo(0)
  BY <1>3, <1>4 DEF ReadUpTo, Codes!Beginnings
<1>6. ReadingInv
  <2>1. cursor \in 0 .. Len(registry) /\ 0 \in 0 .. cursor
    BY <1>1, <1>2
  <2>2. descriptions \in Seq(STRING)
    BY <1>1, EmptySeq
  <2>3. DOMAIN tables = Codes!Keywords
    BY <1>1
  <2>4. QED
    BY <1>5, <2>1, <2>2, <2>3, Zenon DEF ReadingInv
<1>7. QED
  BY <1>1, <1>6 DEF CodesInv, Codes!TablesHoldTheRegistry

(* What is said of the registry alone is said of it for good.                *)
LEMMA RegistryStays ==
    ASSUME registry' = registry
    PROVE  /\ Codes!Beginnings' = Codes!Beginnings
           /\ \A b, t : Codes!Wanted(b, t)' <=> Codes!Wanted(b, t)
           /\ \A b, f : Codes!First(b, f)' = Codes!First(b, f)
           /\ \A b : EntryOf(b)' = EntryOf(b)
           /\ \A b, t : Listed(b, t)' = Listed(b, t)
<1>1. Codes!Beginnings' = Codes!Beginnings
  BY Zenon DEF Codes!Beginnings
<1>2. \A b, f : Codes!With(b, f)' = Codes!With(b, f)
  BY Zenon DEF Codes!With
<1>3. \A b, t : Codes!Wanted(b, t)' <=> Codes!Wanted(b, t)
  BY <1>2, Zenon DEF Codes!Wanted
<1>4. \A b, f : Codes!First(b, f)' = Codes!First(b, f)
  BY <1>2, Zenon DEF Codes!First
<1>5. \A b : EntryOf(b)' = EntryOf(b)
  BY <1>4, Zenon DEF EntryOf
<1>6. \A b, t : Listed(b, t)' = Listed(b, t)
  <2>1. ASSUME NEW b, NEW t PROVE Listed(b, t)' = Listed(b, t)
    <3>1. {c \in Codes!Beginnings : c < b /\ Codes!Wanted(c, t)}'
            = {c \in Codes!Beginnings : c < b /\ Codes!Wanted(c, t)}
      BY <1>1, <1>3, Zenon
    <3>2. QED
      BY <1>5, <3>1, Zenon DEF Listed
  <2>2. QED
    BY <2>1
<1>7. QED
  BY <1>1, <1>3, <1>4, <1>5, <1>6

(* A line within a record                                                    *)
LEMMA LineIsRead ==
    ASSUME Codes!CodesAssumption, CodesInv, phase = "reading",
           NEW f \in {"Type", "Subtag", "Description", "Scope", "other"}, Codes!Line(f),
           phase' = phase, tables' = tables, descriptions' \in Seq(STRING),
           \A b \in 0 .. cursor :
              ReadUpTo(b) /\ cursor' = cursor + 1 => SeenIn(b)'
    PROVE  CodesInv'
<1>1. /\ registry' = registry /\ cursor' = cursor + 1 /\ cursor < Len(registry)
      /\ registry[cursor + 1].field = f /\ query' = query /\ reply' = reply
  BY DEF Codes!Line
<1>2. /\ Len(registry) \in Nat /\ cursor \in 0 .. Len(registry)
      /\ DOMAIN tables = Codes!Keywords /\ registry \in Registries
  BY RegistryIsOne DEF CodesInv, ReadingInv
<1>3. PICK b \in 0 .. cursor : ReadUpTo(b)
  BY DEF CodesInv, ReadingInv
<1>4. InRecord(b)'
  <2>1. \A j \in b + 1 .. cursor : registry[j].field # "%%"
    BY <1>3 DEF ReadUpTo, InRecord
  <2>2. \A j \in b + 1 .. cursor + 1 : j \in b + 1 .. cursor \/ j = cursor + 1
    BY <1>2
  <2>3. \A j \in b + 1 .. cursor + 1 : registry[j].field # "%%"
    BY <1>1, <2>1, <2>2
  <2>4. QED
    BY <1>1, <2>3 DEF InRecord
<1>5. ReadUpTo(b)'
  <2>1. SeenIn(b)'
    BY <1>1, <1>3
  <2>2. Codes!Beginnings' = Codes!Beginnings /\ \A t : Listed(b, t)' = Listed(b, t)
    BY <1>1, RegistryStays
  <2>3. b \in Codes!Beginnings /\ \A t \in Codes!Keywords : tables[t] = Listed(b, t)
    BY <1>3 DEF ReadUpTo
  <2>4. \A t \in Codes!Keywords : tables'[t] = Listed(b, t)'
    BY <2>2, <2>3, Zenon
  <2>5. QED
    BY <1>4, <2>1, <2>2, <2>3, <2>4, Zenon DEF ReadUpTo
<1>6. ReadingInv'
  <2>1. cursor' \in 0 .. Len(registry)' /\ b \in 0 .. cursor'
    BY <1>1, <1>2
  <2>2. QED
    BY <1>1, <1>2, <1>5, <2>1, Zenon DEF ReadingInv
<1>7. phase' = "reading" /\ query' = <<>>
  BY <1>1 DEF CodesInv
<1>8. QED
  BY <1>1, <1>2, <1>6, <1>7 DEF CodesInv, Codes!TablesHoldTheRegistry

LEMMA CodesEndOfRecord ==
    ASSUME Codes!CodesAssumption, CodesInv, Codes!EndOfRecord
    PROVE  CodesInv'
<1>1. /\ phase = "reading" /\ cursor < Len(registry) /\ registry[cursor + 1].field = "%%"
      /\ cursor' = cursor + 1 /\ registry' = registry /\ query' = query
      /\ tables' = IF record \notin {"None", ""} /\ descriptions # <<>>
                     THEN [tables EXCEPT ![record] =
                             Codes!Put(@, subtag, descriptions[1])]
                   ELSE tables
      /\ record' = "None" /\ subtag' = "None" /\ descriptions' = <<>> /\ phase' = phase
  BY Zenon DEF Codes!EndOfRecord, Codes!Line, Codes!None, Codes!Empty, Codes!Described
<1>2. /\ Len(registry) \in Nat /\ cursor \in 0 .. Len(registry)
      /\ DOMAIN tables = Codes!Keywords /\ registry \in Registries /\ query = <<>>
  BY <1>1, RegistryIsOne, Zenon DEF CodesInv, ReadingInv
<1>3. PICK b \in 0 .. cursor : ReadUpTo(b)
  BY <1>1, Zenon DEF CodesInv, ReadingInv
<1>4. /\ b \in Codes!Beginnings /\ InRecord(b) /\ SeenIn(b)
      /\ \A t \in Codes!Keywords : tables[t] = Listed(b, t)
  BY <1>3 DEF ReadUpTo
<1>5. DOMAIN tables' = Codes!Keywords
      /\ \A t \in Codes!Keywords : tables'[t] = Listed(cursor + 1, t)
  <2>1. \A t \in Codes!Keywords :
           Listed(cursor + 1, t) =
             IF t = record THEN Codes!Put(Listed(b, t), subtag, descriptions[1])
             ELSE Listed(b, t)
    BY <1>1, <1>2, <1>3, ListedGrows, Zenon
  <2>2. CASE record \in Codes!Keywords
    <3>1. descriptions # <<>> /\ record \notin {"None", ""}
      BY <1>1, <1>2, <1>4, <2>2, RecordIsKnown, Zenon DEF Codes!Keywords
    <3>2. tables' = [tables EXCEPT ![record] = Codes!Put(@, subtag, descriptions[1])]
      BY <1>1, <3>1, Zenon
    <3>3. QED
      BY <1>2, <1>4, <2>1, <2>2, <3>2
  <2>3. CASE record \notin Codes!Keywords
    <3>1. record \in {"None", ""}
      BY <1>4, <2>3, Zenon DEF SeenIn
    <3>2. tables' = tables
      BY <1>1, <3>1, Zenon
    <3>3. QED
      BY <1>2, <1>4, <2>1, <2>3, <3>2, Zenon
  <2>4. QED
    BY <2>2, <2>3
<1>6. PICK next : next = cursor + 1
  OBVIOUS
<1>7. /\ cursor' = next /\ registry' = registry /\ registry[next].field = "%%"
      /\ record' = "None" /\ descriptions' = <<>> /\ next \in 1 .. Len(registry)
  <2>1. cursor < Len(registry) /\ cursor' = cursor + 1
    BY <1>1, Zenon
  <2>2. next \in 1 .. Len(registry)
    BY <1>2, <1>6, <2>1
  <2>3. QED
    BY <1>1, <1>6, <2>2, Zenon
<1>8. ReadUpTo(next)'
  <2>1. Codes!Beginnings' = Codes!Beginnings
        /\ \A c, t : Listed(c, t)' = Listed(c, t)
    BY <1>1, RegistryStays, Zenon
  <2>2. next \in Codes!Beginnings
    BY <1>7 DEF Codes!Beginnings
  <2>3. InRecord(next)'
    <3>1. \A j \in next + 1 .. next : FALSE
      BY <1>7
    <3>2. QED
      BY <1>7, <3>1 DEF InRecord
  <2>4. SeenIn(next)'
    <3>1. record' \notin Codes!Keywords /\ record' # "" /\ ~(next < cursor')
      BY <1>7 DEF Codes!Keywords
    <3>2. QED
      BY <1>7, <3>1, Zenon DEF SeenIn
  <2>5. QED
    BY <1>1, <1>5, <1>6, <2>1, <2>2, <2>3, <2>4, Zenon DEF ReadUpTo
<1>9. ReadingInv'
  <2>1. cursor' \in 0 .. Len(registry)' /\ next \in 0 .. cursor'
    BY <1>7
  <2>2. descriptions' \in Seq(STRING)
    BY <1>1, EmptySeq, Zenon
  <2>3. \E c \in 0 .. cursor' : ReadUpTo(c)'
    BY <1>8, <2>1
  <2>4. QED
    BY <1>5, <2>1, <2>2, <2>3, Zenon DEF ReadingInv
<1>10. QED
  BY <1>1, <1>2, <1>9, Zenon DEF CodesInv, Codes!TablesHoldTheRegistry

(* The line that is read next, in the record that is being read              *)
LEMMA LineInRecord ==
    ASSUME Codes!CodesAssumption, registry \in Registries, cursor \in 0 .. Len(registry),
           NEW b \in 0 .. cursor, ReadUpTo(b),
           cursor < Len(registry), registry[cursor + 1].field # "%%"
    PROVE  /\ cursor + 1 \in Codes!With(b, registry[cursor + 1].field)
           /\ registry[cursor + 1].field = "Type" => cursor = b
           /\ registry[cursor + 1].field = "Subtag" =>
                 cursor = b + 1 /\ registry[b + 1].field = "Type"
           /\ record \in Codes!Keywords /\ cursor = b + 1 =>
                 registry[cursor + 1].field = "Subtag"
<1>1. /\ Len(registry) \in Nat
      /\ \A i \in 1 .. Len(registry) :
            /\ registry[i].field = "Type" => i > 1 /\ registry[i - 1].field = "%%"
            /\ registry[i].field = "Subtag" => i > 1 /\ registry[i - 1].field = "Type"
            /\ registry[i].field = "Type" /\ registry[i].value \in Codes!Keywords =>
                  registry[i + 1].field = "Subtag"
  BY RegistryIsOne
<1>2. PICK n : n = cursor + 1
  OBVIOUS
<1>3. /\ n \in 1 .. Len(registry) /\ n \in b + 1 .. Len(registry) /\ b \in Nat
      /\ n - 1 = cursor /\ cursor \in Int
  BY <1>1, <1>2
<1>4. \A j \in b + 1 .. n - 1 : registry[j].field # "%%"
  BY <1>3 DEF ReadUpTo, InRecord
<1>5. n \in Codes!With(b, registry[n].field)
  <2>1. \A j \in b + 1 .. n : j \in b + 1 .. n - 1 \/ j = n
    BY <1>3
  <2>2. \A j \in b + 1 .. n : registry[j].field # "%%"
    BY <1>2, <1>4, <2>1
  <2>3. QED
    BY <1>3, <2>2 DEF Codes!With
<1>6. ASSUME registry[n].field = "Type" PROVE cursor = b
  <2>1. n > 1 /\ registry[n - 1].field = "%%"
    BY <1>1, <1>3, <1>6
  <2>2. n - 1 \notin b + 1 .. n - 1
    BY <1>4, <2>1
  <2>3. QED
    BY <1>3, <2>2
<1>7. ASSUME registry[n].field = "Subtag"
      PROVE  cursor = b + 1 /\ registry[b + 1].field = "Type"
  <2>1. n > 1 /\ registry[n - 1].field = "Type"
    BY <1>1, <1>3, <1>7
  <2>2. n - 1 \in 1 .. Len(registry)
    BY <1>3, <2>1
  <2>3. n - 1 > 1 /\ registry[(n - 1) - 1].field = "%%"
    BY <1>1, <2>1, <2>2
  <2>4. (n - 1) - 1 \notin b + 1 .. n - 1
    BY <1>4, <2>3
  <2>5. cursor <= b + 1
    BY <1>3, <2>3, <2>4
  <2>6. cursor # b
    <3>1. ASSUME cursor = b PROVE FALSE
      <4>1. b \in Codes!Beginnings /\ b # 0
        BY <1>3, <2>3, <3>1 DEF ReadUpTo
      <4>2. registry[b].field = "%%"
        BY <4>1 DEF Codes!Beginnings
      <4>3. QED
        BY <1>3, <2>1, <3>1, <4>2
    <3>2. QED
      BY <3>1
  <2>7. cursor = b + 1
    BY <1>3, <2>5, <2>6
  <2>8. QED
    BY <1>3, <2>1, <2>7
<1>8. ASSUME record \in Codes!Keywords, cursor = b + 1
      PROVE  registry[n].field = "Subtag"
  <2>1. registry[b + 1].field = "Type" /\ registry[b + 1].value \in Codes!Keywords
    BY <1>8, Zenon DEF ReadUpTo, SeenIn
  <2>2. b + 1 \in 1 .. Len(registry) /\ (b + 1) + 1 = n
    BY <1>2, <1>3, <1>8
  <2>3. QED
    BY <1>1, <2>1, <2>2
<1>9. QED
  BY <1>2, <1>5, <1>6, <1>7, <1>8, Zenon

LEMMA CodesType ==
    ASSUME Codes!CodesAssumption, CodesInv, Codes!Type
    PROVE  CodesInv'
<1>1. /\ phase = "reading" /\ Codes!Line("Type") /\ cursor < Len(registry)
      /\ registry[cursor + 1].field = "Type" /\ registry' = registry
      /\ record' = IF registry[cursor + 1].value \in Codes!Keywords
                     THEN registry[cursor + 1].value ELSE ""
      /\ subtag' = subtag /\ descriptions' = descriptions /\ tables' = tables
      /\ phase' = phase
  BY Zenon DEF Codes!Type, Codes!Line, Codes!Given, Codes!Empty
<1>2. /\ Len(registry) \in Nat /\ cursor \in 0 .. Len(registry) /\ registry \in Registries
      /\ descriptions \in Seq(STRING)
  BY <1>1, RegistryIsOne, Zenon DEF CodesInv, ReadingInv
<1>3. ASSUME NEW b \in 0 .. cursor, ReadUpTo(b), cursor' = cursor + 1
      PROVE  SeenIn(b)'
  <2>1. cursor = b
    BY <1>1, <1>2, <1>3, LineInRecord, Zenon
  <2>2. /\ cursor' = b + 1 /\ registry[b + 1].field = "Type" /\ b \in Int
        /\ descriptions = <<>> /\ b \in Codes!Beginnings
    <3>1. b \in Int /\ cursor' = b + 1
      BY <1>2, <1>3, <2>1
    <3>2. QED
      BY <1>1, <1>3, <2>1, <3>1, Zenon DEF ReadUpTo, SeenIn
  <2>3. CASE registry[b + 1].value \in Codes!Keywords
    <3>1. record' = registry[b + 1].value /\ record' # "" /\ record' # "None"
      BY <1>1, <2>1, <2>3, Zenon DEF Codes!Keywords
    <3>2. b + 1 <= cursor' /\ ~(b + 1 < cursor') /\ cursor' # b
          /\ \A i \in b + 1 .. cursor' : i = b + 1
      BY <2>2
    <3>3. \A i \in b + 1 .. cursor' : registry[i].field = "Type"
      BY <2>2, <3>2
    <3>4. QED
      BY <1>1, <2>2, <2>3, <3>1, <3>2, <3>3, Zenon DEF SeenIn
  <2>4. CASE registry[b + 1].value \notin Codes!Keywords
    <3>1. record' = "" /\ record' \notin Codes!Keywords /\ cursor' # b
      <4>1. record' = ""
        BY <1>1, <2>1, <2>4, Zenon
      <4>2. cursor' # b
        BY <2>2
      <4>3. QED
        BY <4>1, <4>2, Zenon DEF Codes!Keywords
    <3>2. \A t \in Codes!Keywords : ~Codes!Wanted(b, t)
      BY <1>2, <2>2, <2>4, WantedAt
    <3>3. \A t \in Codes!Keywords : ~Codes!Wanted(b, t)'
      BY <1>1, <3>2, RegistryStays, Zenon
    <3>4. QED
      BY <3>1, <3>3, Zenon DEF SeenIn
  <2>5. QED
    BY <2>3, <2>4
<1>4. QED
  BY <1>1, <1>2, <1>3, LineIsRead, Zenon

LEMMA CodesSubtag ==
    ASSUME Codes!CodesAssumption, CodesInv, Codes!Subtag
    PROVE  CodesInv'
<1>1. /\ phase = "reading" /\ Codes!Line("Subtag") /\ cursor < Len(registry)
      /\ registry[cursor + 1].field = "Subtag" /\ registry' = registry
      /\ IF record = "" THEN subtag' = subtag /\ descriptions' = descriptions
         ELSE subtag' = registry[cursor + 1].value /\ descriptions' = <<>>
      /\ record' = record /\ tables' = tables /\ phase' = phase
  BY Zenon DEF Codes!Subtag, Codes!Line, Codes!Given, Codes!Empty
<1>2. /\ Len(registry) \in Nat /\ cursor \in 0 .. Len(registry) /\ registry \in Registries
      /\ descriptions \in Seq(STRING)
  BY <1>1, RegistryIsOne, Zenon DEF CodesInv, ReadingInv
<1>3. descriptions' \in Seq(STRING)
  BY <1>1, <1>2, EmptySeq, Zenon
<1>4. ASSUME NEW b \in 0 .. cursor, ReadUpTo(b), cursor' = cursor + 1
      PROVE  SeenIn(b)'
  <2>1. cursor = b + 1 /\ registry[b + 1].field = "Type"
    BY <1>1, <1>2, <1>4, LineInRecord, Zenon
  <2>2. /\ b \in Int /\ cursor' = b + 2 /\ b < cursor /\ cursor' # b
        /\ b + 1 <= cursor' /\ b + 1 \in b + 1 .. cursor
        /\ \A i \in b + 1 .. cursor' : i \in b + 1 .. cursor \/ i = cursor + 1
    BY <1>2, <1>4, <2>1
  <2>3. SeenIn(b)
    BY <1>4 DEF ReadUpTo
  <2>4. record \in Codes!Keywords \cup {""}
    BY <2>1, <2>2, <2>3, Zenon DEF SeenIn
  <2>5. CASE record = ""
    <3>1. record' = "" /\ record' \notin Codes!Keywords /\ record' # "None"
      BY <1>1, <2>5, Zenon DEF Codes!Keywords
    <3>2. \A t \in Codes!Keywords : ~Codes!Wanted(b, t)'
      BY <1>1, <2>3, <2>5, RegistryStays, Zenon DEF SeenIn
    <3>3. QED
      BY <2>2, <3>1, <3>2, Zenon DEF SeenIn
  <2>6. CASE record \in Codes!Keywords
    <3>1. record # "" /\ record # "None"
      BY <2>6, Zenon DEF Codes!Keywords
    <3>2. subtag' = registry[b + 2].value /\ descriptions' = <<>>
      <4>1. cursor + 1 = b + 2
        BY <2>1, <2>2
      <4>2. QED
        BY <1>1, <3>1, <4>1, Zenon
    <3>3. \A i \in b + 1 .. cursor' :
             registry[i].field # "Scope" /\ registry[i].field # "Description"
      <4>1. \A i \in b + 1 .. cursor : i = b + 1
        BY <2>1, <2>2
      <4>2. QED
        BY <1>1, <2>1, <2>2, <4>1, Zenon
    <3>4. registry[b + 1].value = record
      BY <2>3, <2>6, Zenon DEF SeenIn
    <3>5. QED
      BY <1>1, <2>1, <2>2, <2>6, <3>1, <3>2, <3>3, <3>4, Zenon DEF SeenIn
  <2>7. QED
    BY <2>4, <2>5, <2>6, Zenon
<1>5. QED
  BY <1>1, <1>2, <1>3, <1>4, LineIsRead, Zenon

(* A record that is left out stays so.                                       *)
LEMMA LeftOut ==
    ASSUME NEW b, registry' = registry, record' = "", cursor' # b,
           \A t \in Codes!Keywords : ~Codes!Wanted(b, t)
    PROVE  SeenIn(b)'
<1>1. record' \notin Codes!Keywords /\ record' # "None"
  BY Zenon DEF Codes!Keywords
<1>2. \A t \in Codes!Keywords : ~Codes!Wanted(b, t)'
  BY RegistryStays, Zenon
<1>3. QED
  BY <1>1, <1>2, Zenon DEF SeenIn

(* A line of another field leaves a record as it is.                         *)
LEMMA CodesSkipped ==
    ASSUME Codes!CodesAssumption, CodesInv, Codes!Skipped
    PROVE  CodesInv'
<1>1. /\ phase = "reading" /\ Codes!Line("other") /\ cursor < Len(registry)
      /\ registry[cursor + 1].field = "other" /\ registry' = registry
      /\ record' = record /\ subtag' = subtag /\ descriptions' = descriptions
      /\ tables' = tables /\ phase' = phase
  BY DEF Codes!Skipped, Codes!Line
<1>2. /\ Len(registry) \in Nat /\ cursor \in 0 .. Len(registry) /\ registry \in Registries
      /\ descriptions \in Seq(STRING)
  BY <1>1, RegistryIsOne DEF CodesInv, ReadingInv
<1>3. ASSUME NEW b \in 0 .. cursor, ReadUpTo(b), cursor' = cursor + 1
      PROVE  SeenIn(b)'
  <2>1. SeenIn(b)
    BY <1>3 DEF ReadUpTo
  <2>2. PICK n : n = cursor + 1
    OBVIOUS
  <2>3. registry[n].field = "other" /\ cursor' = n
    BY <1>1, <1>3, <2>2, Zenon
  <2>4. /\ b \in Int /\ cursor' # b /\ cursor \in Int /\ n = cursor + 1
        /\ \A i \in b + 1 .. cursor' : i \in b + 1 .. cursor \/ i = n
        /\ b + 1 .. cursor \subseteq b + 1 .. cursor'
        /\ b < cursor => b + 1 < cursor'
        /\ b + 1 <= cursor => b + 1 <= cursor'
    BY <1>2, <2>2, <2>3
  <2>5. CASE record = ""
    BY <1>1, <2>1, <2>4, <2>5, LeftOut, Zenon DEF SeenIn
  <2>6. CASE record = "None"
    <3>1. record' = "None" /\ record' \notin Codes!Keywords /\ record' # ""
      BY <1>1, <2>6 DEF Codes!Keywords
    <3>2. registry[b + 1].field # "Type"
      <4>1. CASE b < cursor
        BY <2>1, <2>6, <4>1, Zenon DEF SeenIn
      <4>2. CASE ~(b < cursor)
        <5>1. n = b + 1
          BY <1>2, <2>4, <4>2
        <5>2. QED
          BY <2>3, <5>1
      <4>3. QED
        BY <4>1, <4>2
    <3>3. QED
      BY <1>1, <2>4, <3>1, <3>2, Zenon DEF SeenIn
  <2>7. CASE record \in Codes!Keywords
    <3>1. record' \in Codes!Keywords /\ record' # "" /\ record' # "None"
      BY <1>1, <2>7, Zenon DEF Codes!Keywords
    <3>2. /\ b + 1 <= cursor
          /\ registry[b + 1].field = "Type" /\ registry[b + 1].value = record
          /\ b + 1 < cursor => subtag = registry[b + 2].value
          /\ \A i \in b + 1 .. cursor :
                /\ registry[i].field # "Scope"
                /\ registry[i].field = "Description" =>
                      registry[i].value # "Private use"
          /\ IF descriptions = <<>>
               THEN \A i \in b + 1 .. cursor : registry[i].field # "Description"
             ELSE \E d \in b + 1 .. cursor :
                     FirstDescribed(b, d) /\ descriptions[1] = registry[d].value
      BY <2>1, <2>7, Zenon DEF SeenIn
    <3>3. b + 1 < cursor
      <4>1. ASSUME cursor = b + 1 PROVE FALSE
        BY <1>1, <1>2, <1>3, <2>7, <4>1, LineInRecord
      <4>2. b + 1 <= cursor
        BY <3>2, Zenon
      <4>3. QED
        BY <2>4, <4>1, <4>2
    <3>4. b + 1 <= cursor' /\ subtag' = registry[b + 2].value
      BY <1>1, <2>4, <3>2, <3>3, Zenon
    <3>5. \A i \in b + 1 .. cursor' :
             /\ registry[i].field # "Scope"
             /\ registry[i].field = "Description" => registry[i].value # "Private use"
      BY <2>3, <2>4, <3>2, Zenon
    <3>6. IF descriptions' = <<>>
            THEN \A i \in b + 1 .. cursor' : registry[i].field # "Description"
          ELSE \E d \in b + 1 .. cursor' :
                  FirstDescribed(b, d) /\ descriptions'[1] = registry[d].value
      <4>1. CASE descriptions = <<>>
        <5>1. \A i \in b + 1 .. cursor' : registry[i].field # "Description"
          BY <2>3, <2>4, <3>2, <4>1, Zenon
        <5>2. QED
          BY <1>1, <4>1, <5>1
      <4>2. CASE descriptions # <<>>
        <5>1. PICK d \in b + 1 .. cursor :
                 FirstDescribed(b, d) /\ descriptions[1] = registry[d].value
          BY <3>2, <4>2, Zenon
        <5>2. d \in b + 1 .. cursor'
          BY <2>4, <5>1, Zenon
        <5>3. QED
          BY <1>1, <4>2, <5>1, <5>2, Zenon
      <4>3. QED
        BY <4>1, <4>2
    <3>7. \A d : FirstDescribed(b, d)' <=> FirstDescribed(b, d)
      BY <1>1, Zenon DEF FirstDescribed
    <3>8. QED
      BY <1>1, <2>4, <3>1, <3>2, <3>4, <3>5, <3>6, <3>7, Zenon DEF SeenIn
  <2>8. QED
    BY <2>1, <2>5, <2>6, <2>7, Zenon DEF SeenIn
<1>4. QED
  BY <1>1, <1>2, <1>3, LineIsRead

LEMMA CodesScope ==
    ASSUME Codes!CodesAssumption, CodesInv, Codes!Scope
    PROVE  CodesInv'
<1>1. /\ phase = "reading" /\ Codes!Line("Scope") /\ cursor < Len(registry)
      /\ registry[cursor + 1].field = "Scope" /\ registry' = registry
      /\ record' = "" /\ subtag' = subtag /\ descriptions' = descriptions
      /\ tables' = tables /\ phase' = phase
  BY Zenon DEF Codes!Scope, Codes!Line, Codes!Empty
<1>2. /\ Len(registry) \in Nat /\ cursor \in 0 .. Len(registry) /\ registry \in Registries
      /\ descriptions \in Seq(STRING)
  BY <1>1, RegistryIsOne, Zenon DEF CodesInv, ReadingInv
<1>3. ASSUME NEW b \in 0 .. cursor, ReadUpTo(b), cursor' = cursor + 1
      PROVE  SeenIn(b)'
  <2>1. cursor + 1 \in Codes!With(b, "Scope")
    BY <1>1, <1>2, <1>3, LineInRecord, Zenon
  <2>2. \A t \in Codes!Keywords : ~Codes!Wanted(b, t)
    BY <2>1, Zenon DEF Codes!Wanted
  <2>3. cursor' # b
    BY <1>2, <1>3
  <2>4. QED
    BY <1>1, <2>2, <2>3, LeftOut, Zenon
<1>4. QED
  BY <1>1, <1>2, <1>3, LineIsRead, Zenon

(* The first description of a record is the one that is kept.                *)
LEMMA CodesDescription ==
    ASSUME Codes!CodesAssumption, CodesInv, Codes!Description
    PROVE  CodesInv'
<1>1. /\ phase = "reading" /\ Codes!Line("Description") /\ cursor < Len(registry)
      /\ registry[cursor + 1].field = "Description" /\ registry' = registry
      /\ subtag' = subtag /\ tables' = tables /\ phase' = phase
      /\ IF record = "" THEN record' = record /\ descriptions' = descriptions
         ELSE IF registry[cursor + 1].value = "Private use"
           THEN record' = "" /\ descriptions' = descriptions
         ELSE /\ descriptions' = Append(descriptions, registry[cursor + 1].value)
              /\ record' = record
  BY Zenon DEF Codes!Description, Codes!Line, Codes!Given, Codes!Empty
<1>2. /\ Len(registry) \in Nat /\ cursor \in 0 .. Len(registry) /\ registry \in Registries
      /\ descriptions \in Seq(STRING)
  BY <1>1, RegistryIsOne, Zenon DEF CodesInv, ReadingInv
<1>3. PICK n : n = cursor + 1
  OBVIOUS
<1>4. /\ n \in 1 .. Len(registry) /\ n = cursor + 1 /\ cursor \in Int
      /\ registry[n].field = "Description" /\ registry[n].value \in STRING
  <2>1. n \in 1 .. Len(registry) /\ cursor \in Int
    <3>1. cursor < Len(registry) /\ Len(registry) \in Nat /\ cursor \in 0 .. Len(registry)
      BY <1>1, <1>2, Zenon
    <3>2. QED
      BY <1>3, <3>1
  <2>2. registry[n] \in RegistryLine
    BY <1>2, <2>1, RegistryIsOne
  <2>3. registry[n].value \in STRING
    BY <2>2 DEF RegistryLine
  <2>4. QED
    BY <1>1, <1>3, <2>1, <2>3, Zenon
<1>5. IF record = "" THEN record' = record /\ descriptions' = descriptions
      ELSE IF registry[n].value = "Private use"
        THEN record' = "" /\ descriptions' = descriptions
      ELSE descriptions' = Append(descriptions, registry[n].value) /\ record' = record
  BY <1>1, <1>3, Zenon
<1>6. descriptions' \in Seq(STRING)
  <2>1. Append(descriptions, registry[n].value) \in Seq(STRING)
    BY <1>2, <1>4, AppendProperties
  <2>2. QED
    BY <1>2, <1>5, <2>1, Zenon
<1>7. ASSUME NEW b \in 0 .. cursor, ReadUpTo(b), cursor' = cursor + 1
      PROVE  SeenIn(b)'
  <2>1. SeenIn(b)
    BY <1>7 DEF ReadUpTo
  <2>2. /\ n \in Codes!With(b, "Description")
        /\ record \in Codes!Keywords => cursor # b + 1
    BY <1>1, <1>2, <1>3, <1>7, LineInRecord, Zenon
  <2>3. cursor' = n
    BY <1>3, <1>7, Zenon
  <2>4. /\ b \in Int /\ cursor' # b /\ b + 1 <= cursor' /\ n \in b + 1 .. cursor'
        /\ \A i \in b + 1 .. cursor' : i \in b + 1 .. cursor \/ i = n
        /\ b + 1 .. cursor \subseteq b + 1 .. cursor'
        /\ b + 1 .. n - 1 = b + 1 .. cursor
    BY <1>2, <1>4, <2>3
  <2>5. CASE record = ""
    <3>1. record' = ""
      BY <1>5, <2>5, Zenon
    <3>2. QED
      BY <1>1, <2>1, <2>4, <2>5, <3>1, LeftOut, Zenon DEF SeenIn
  <2>6. CASE record # "" /\ registry[n].value = "Private use"
    <3>1. \A t \in Codes!Keywords : ~Codes!Wanted(b, t)
      BY <2>2, <2>6, Zenon DEF Codes!Wanted
    <3>2. record' = ""
      BY <1>5, <2>6, Zenon
    <3>3. QED
      BY <1>1, <2>4, <3>1, <3>2, LeftOut, Zenon
  <2>7. CASE record # "" /\ registry[n].value # "Private use"
    <3>1. record' = record /\ descriptions' = Append(descriptions, registry[n].value)
      BY <1>5, <2>7, Zenon
    <3>2. CASE record = "None"
      <4>1. record' = "None" /\ record' \notin Codes!Keywords /\ record' # ""
        BY <3>1, <3>2 DEF Codes!Keywords
      <4>2. registry[b + 1].field # "Type"
        <5>1. CASE b < cursor
          BY <2>1, <3>2, <5>1, Zenon DEF SeenIn
        <5>2. CASE ~(b < cursor)
          <6>1. n = b + 1
            BY <1>2, <1>4, <2>4, <5>2
          <6>2. QED
            BY <1>4, <6>1
        <5>3. QED
          BY <5>1, <5>2
      <4>3. QED
        BY <1>1, <2>4, <4>1, <4>2, Zenon DEF SeenIn
    <3>3. CASE record \in Codes!Keywords
      <4>1. record' \in Codes!Keywords /\ record' # "" /\ record' # "None"
        BY <3>1, <3>3, Zenon DEF Codes!Keywords
      <4>2. /\ b + 1 <= cursor
            /\ registry[b + 1].field = "Type" /\ registry[b + 1].value = record
            /\ b + 1 < cursor => subtag = registry[b + 2].value
            /\ \A i \in b + 1 .. cursor :
                  /\ registry[i].field # "Scope"
                  /\ registry[i].field = "Description" =>
                        registry[i].value # "Private use"
            /\ IF descriptions = <<>>
                 THEN \A i \in b + 1 .. cursor : registry[i].field # "Description"
               ELSE \E d \in b + 1 .. cursor :
                       FirstDescribed(b, d) /\ descriptions[1] = registry[d].value
        BY <2>1, <3>3, Zenon DEF SeenIn
      <4>3. b + 1 < cursor
        <5>1. b + 1 <= cursor /\ cursor # b + 1
          BY <2>2, <3>3, <4>2, Zenon
        <5>2. QED
          BY <1>4, <2>4, <5>1
      <4>4. subtag' = registry[b + 2].value
        BY <1>1, <4>2, <4>3, Zenon
      <4>5. \A i \in b + 1 .. cursor' :
               /\ registry[i].field # "Scope"
               /\ registry[i].field = "Description" => registry[i].value # "Private use"
        BY <1>4, <2>4, <2>7, <4>2, Zenon
      <4>6. descriptions' # <<>>
        BY <1>2, <1>4, <3>1, AppendProperties
      <4>7. \E d \in b + 1 .. cursor' :
               FirstDescribed(b, d) /\ descriptions'[1] = registry[d].value
        <5>1. CASE descriptions = <<>>
          <6>1. descriptions'[1] = registry[n].value
            BY <3>1, <5>1
          <6>2. \A i \in b + 1 .. n - 1 : registry[i].field # "Description"
            BY <2>4, <4>2, <5>1, Zenon
          <6>3. FirstDescribed(b, n)
            BY <1>4, <6>2 DEF FirstDescribed
          <6>4. QED
            BY <2>4, <6>1, <6>3, Zenon
        <5>2. CASE descriptions # <<>>
          <6>1. PICK d \in b + 1 .. cursor :
                   FirstDescribed(b, d) /\ descriptions[1] = registry[d].value
            BY <4>2, <5>2, Zenon
          <6>2. d \in b + 1 .. cursor'
            BY <2>4, <6>1, Zenon
          <6>3. descriptions'[1] = descriptions[1]
            <7>1. Len(descriptions) \in Nat /\ Len(descriptions) # 0
              BY <1>2, <5>2, EmptySeq
            <7>2. 1 \in 1 .. Len(descriptions)
              BY <7>1
            <7>3. QED
              BY <1>2, <1>4, <3>1, <7>2, AppendProperties
          <6>4. QED
            BY <6>1, <6>2, <6>3, Zenon
        <5>3. QED
          BY <5>1, <5>2
      <4>8. \A d : FirstDescribed(b, d)' <=> FirstDescribed(b, d)
        BY <1>1, Zenon DEF FirstDescribed
      <4>9. QED
        BY <1>1, <2>4, <4>1, <4>2, <4>4, <4>5, <4>6, <4>7, <4>8, Zenon DEF SeenIn
    <3>4. QED
      BY <2>1, <2>7, <3>2, <3>3, Zenon DEF SeenIn
  <2>8. QED
    BY <2>5, <2>6, <2>7, Zenon
<1>8. QED
  BY <1>1, <1>2, <1>6, <1>7, LineIsRead, Zenon

(* What the registry has for a table, and what the keys of a table are       *)
AllOf(t) == {c \in Codes!Beginnings : Codes!Wanted(c, t)}
Complete(t) == {EntryOf(c) : c \in AllOf(t)}
AllKeys(t) == {Codes!First(c, "Subtag") : c \in AllOf(t)}
KeysIn(T) == {p[1] : p \in T}

LEMMA TablesHold ==
    Codes!TablesHoldTheRegistry <=>
      (phase = "written" => /\ tables["language"] = Complete("language")
                            /\ tables["region"] = Complete("region")
                            /\ KeysIn(tables["script"]) = AllKeys("script"))
BY Zenon DEF Codes!TablesHoldTheRegistry, Complete, AllOf, AllKeys, KeysIn, EntryOf

LEMMA CompleteStays ==
    ASSUME registry' = registry
    PROVE  \A t : Complete(t)' = Complete(t) /\ AllKeys(t)' = AllKeys(t)
<1>1. /\ Codes!Beginnings' = Codes!Beginnings
      /\ \A c, t : Codes!Wanted(c, t)' <=> Codes!Wanted(c, t)
      /\ \A c, f : Codes!First(c, f)' = Codes!First(c, f)
      /\ \A c : EntryOf(c)' = EntryOf(c)
  BY RegistryStays
<1>2. \A t : AllOf(t)' = AllOf(t)
  BY <1>1, Zenon DEF AllOf
<1>3. \A t : Complete(t)' = Complete(t)
  BY <1>1, <1>2, Zenon DEF Complete
<1>4. \A t : AllKeys(t)' = AllKeys(t)
  BY <1>1, <1>2, Zenon DEF AllKeys
<1>5. QED
  BY <1>3, <1>4

LEMMA TablesStay ==
    ASSUME registry' = registry, tables' = tables, phase' = phase
    PROVE  Codes!TablesHoldTheRegistry' <=> Codes!TablesHoldTheRegistry
<1>1. \A t : Complete(t)' = Complete(t) /\ AllKeys(t)' = AllKeys(t)
  BY CompleteStays
<1>2. Codes!TablesHoldTheRegistry' <=>
        (phase' = "written" => /\ tables'["language"] = Complete("language")'
                               /\ tables'["region"] = Complete("region")'
                               /\ KeysIn(tables["script"])' = AllKeys("script")')
  BY Zenon DEF Codes!TablesHoldTheRegistry, Complete, AllOf, AllKeys, KeysIn, EntryOf
<1>3. KeysIn(tables["script"])' = KeysIn(tables["script"])
  BY Zenon DEF KeysIn
<1>4. QED
  BY <1>1, <1>2, <1>3, TablesHold, Zenon

(* A name stays what it is while the tables do.                              *)
LEMMA NameStays ==
    ASSUME NEW lang, tables' = tables
    PROVE  Codes!LanguageName(lang)' = Codes!LanguageName(lang)
BY Zenon DEF Codes!LanguageName, Codes!NameWith, Codes!languages, Codes!regions,
             Codes!scripts, Codes!Has, Codes!Lookup, Codes!Region, Codes!Find,
             Codes!AfterScript

(* What a table has of its keys is no matter of the values.                  *)
LEMMA KeysOf ==
    ASSUME NEW T, NEW k, NEW v, NEW w
    PROVE  KeysIn(Codes!Put(T, k, v)) = KeysIn(Codes!Put(T, k, w))
<1>1. ASSUME NEW x, NEW y, NEW p \in Codes!Put(T, k, x)
      PROVE  \E q \in Codes!Put(T, k, y) : q[1] = p[1]
  <2>1. CASE p \in T /\ p[1] # k
    BY <2>1 DEF Codes!Put
  <2>2. CASE p = <<k, x>>
    <3>1. <<k, y>> \in Codes!Put(T, k, y) /\ <<k, y>>[1] = k
      BY DEF Codes!Put
    <3>2. p[1] = k
      BY <2>2
    <3>3. QED
      BY <3>1, <3>2, Zenon
  <2>3. QED
    BY <2>1, <2>2 DEF Codes!Put
<1>2. \A p \in Codes!Put(T, k, v) : \E q \in Codes!Put(T, k, w) : q[1] = p[1]
  BY <1>1
<1>3. \A p \in Codes!Put(T, k, w) : \E q \in Codes!Put(T, k, v) : q[1] = p[1]
  BY <1>1
<1>4. QED
  BY <1>2, <1>3 DEF KeysIn

(* At the end of the file, the tables are complete.                          *)
LEMMA CodesEndOfFile ==
    ASSUME Codes!CodesAssumption, CodesInv, Codes!EndOfFile
    PROVE  CodesInv'
<1>1. /\ phase = "reading" /\ cursor = Len(registry)
      /\ phase' = IF record \in {"language", "region"} THEN "broken" ELSE "written"
      /\ tables' = IF record = "script"
                     THEN [tables EXCEPT ![record] = Codes!Put(@, subtag, "")]
                   ELSE tables
      /\ registry' = registry /\ query' = query
  BY Zenon DEF Codes!EndOfFile, Codes!Empty
<1>2. /\ Len(registry) \in Nat /\ cursor \in 0 .. Len(registry)
      /\ DOMAIN tables = Codes!Keywords /\ registry \in Registries /\ query = <<>>
      /\ ~(cursor < Len(registry))
  <2>1. phase = "reading" /\ cursor = Len(registry)
    BY <1>1, Zenon
  <2>2. cursor \in 0 .. Len(registry) /\ DOMAIN tables = Codes!Keywords
        /\ registry \in Registries /\ query = <<>>
    <3>1. phase # "written"
      BY <2>1
    <3>2. QED
      BY <2>1, <3>1, Zenon DEF CodesInv, ReadingInv
  <2>3. Len(registry) \in Nat
    BY <2>2, RegistryIsOne, Zenon
  <2>4. ~(cursor < Len(registry))
    BY <2>1, <2>3
  <2>5. QED
    BY <2>2, <2>3, <2>4, Zenon
<1>3. PICK b \in 0 .. cursor : ReadUpTo(b)
  BY <1>1, Zenon DEF CodesInv, ReadingInv
<1>4. \A t \in Codes!Keywords :
         /\ Listed(cursor + 1, t) =
              IF t = record THEN Codes!Put(Listed(b, t), subtag, descriptions[1])
              ELSE Listed(b, t)
         /\ tables[t] = Listed(b, t)
  BY <1>2, <1>3, ListedGrows DEF ReadUpTo
<1>5. \A t : Listed(cursor + 1, t) = Complete(t)
  <2>1. \A c \in Codes!Beginnings : c < cursor + 1
    <3>1. cursor = Len(registry) /\ Len(registry) \in Nat
      BY <1>1, <1>2, Zenon
    <3>2. QED
      BY <3>1 DEF Codes!Beginnings
  <2>2. ASSUME NEW t
        PROVE  {c \in Codes!Beginnings : c < cursor + 1 /\ Codes!Wanted(c, t)} = AllOf(t)
    BY <2>1, Zenon DEF AllOf
  <2>3. QED
    BY <2>2, Zenon DEF Listed, Complete
<1>6. ASSUME phase' = "written"
      PROVE  /\ tables'["language"] = Complete("language")
             /\ tables'["region"] = Complete("region")
             /\ KeysIn(tables'["script"]) = AllKeys("script")
  <2>1. record \notin {"language", "region"}
    BY <1>1, <1>6, Zenon
  <2>2. ASSUME NEW t \in {"language", "region"}
        PROVE  tables'[t] = Complete(t)
    <3>1. t \in Codes!Keywords /\ t # record /\ t # "script"
      BY <2>1 DEF Codes!Keywords
    <3>2. tables'[t] = tables[t]
      BY <1>1, <1>2, <3>1, Zenon
    <3>3. QED
      BY <1>4, <1>5, <3>1, <3>2, Zenon
  <2>3. "script" \in Codes!Keywords
    BY DEF Codes!Keywords
  <2>4. KeysIn(tables'["script"]) = KeysIn(Complete("script"))
    <3>1. CASE record = "script"
      <4>1. tables'["script"] = Codes!Put(Listed(b, "script"), subtag, "")
        BY <1>1, <1>2, <1>4, <2>3, <3>1, Zenon
      <4>2. Listed(cursor + 1, "script")
              = Codes!Put(Listed(b, "script"), subtag, descriptions[1])
        BY <1>4, <2>3, <3>1, Zenon
      <4>3. QED
        <5>1. KeysIn(Codes!Put(Listed(b, "script"), subtag, ""))
                = KeysIn(Codes!Put(Listed(b, "script"), subtag, descriptions[1]))
          BY KeysOf, Zenon
        <5>2. QED
          BY <1>5, <4>1, <4>2, <5>1, Zenon
    <3>2. CASE record # "script"
      BY <1>1, <1>4, <1>5, <2>3, <3>2, Zenon
    <3>3. QED
      BY <3>1, <3>2
  <2>5. KeysIn(Complete("script")) = AllKeys("script")
    <3>1. \A c : EntryOf(c)[1] = Codes!First(c, "Subtag")
      BY DEF EntryOf
    <3>2. QED
      BY <3>1 DEF KeysIn, Complete, AllKeys
  <2>6. QED
    BY <2>2, <2>4, <2>5, Zenon
<1>7. Codes!TablesHoldTheRegistry'
  <2>1. Codes!TablesHoldTheRegistry' <=>
          (phase' = "written" => /\ tables'["language"] = Complete("language")'
                                 /\ tables'["region"] = Complete("region")'
                                 /\ KeysIn(tables["script"])' = AllKeys("script")')
    BY Zenon DEF Codes!TablesHoldTheRegistry, Complete, AllOf, AllKeys, KeysIn, EntryOf
  <2>2. KeysIn(tables["script"])' = KeysIn(tables'["script"])
    BY Zenon DEF KeysIn
  <2>3. \A t : Complete(t)' = Complete(t) /\ AllKeys(t)' = AllKeys(t)
    BY <1>1, CompleteStays, Zenon
  <2>4. QED
    BY <1>6, <2>1, <2>2, <2>3, Zenon
<1>8. phase' \in {"reading", "written", "broken"} /\ phase' # "reading"
  BY <1>1, Zenon
<1>9. QED
  BY <1>1, <1>2, <1>7, <1>8, Zenon DEF CodesInv

LEMMA CodesAsk ==
    ASSUME CodesInv, NEW lang \in LanguageTags, Codes!Ask(lang)
    PROVE  CodesInv'
<1>1. /\ phase = "written" /\ query' = lang /\ reply' = Codes!LanguageName(lang)
      /\ registry' = registry /\ tables' = tables /\ phase' = phase
  BY DEF Codes!Ask
<1>2. Codes!LanguageName(lang)' = Codes!LanguageName(lang)
  BY <1>1, NameStays
<1>3. Codes!TablesHoldTheRegistry'
  BY <1>1, TablesStay, Zenon DEF CodesInv
<1>4. phase' # "reading" /\ query' \in LanguageTags /\ reply' = Codes!LanguageName(query)'
  BY <1>1, <1>2
<1>5. QED
  BY <1>1, <1>3, <1>4 DEF CodesInv

LEMMA CodesStep ==
    ASSUME Codes!CodesAssumption, CodesInv, [Codes!Next]_(Codes!vars)
    PROVE  CodesInv'
<1>1. CASE Codes!EndOfRecord
  BY <1>1, CodesEndOfRecord
<1>2. CASE Codes!Type
  BY <1>2, CodesType
<1>3. CASE Codes!Subtag
  BY <1>3, CodesSubtag
<1>4. CASE Codes!Description
  BY <1>4, CodesDescription
<1>5. CASE Codes!Scope
  BY <1>5, CodesScope
<1>6. CASE Codes!Skipped
  BY <1>6, CodesSkipped
<1>7. CASE Codes!EndOfFile
  BY <1>7, CodesEndOfFile
<1>8. CASE \E lang \in LanguageTags : Codes!Ask(lang)
  BY <1>8, CodesAsk
<1>9. CASE UNCHANGED Codes!vars
  <2>1. /\ registry' = registry /\ cursor' = cursor /\ record' = record
        /\ subtag' = subtag /\ descriptions' = descriptions /\ tables' = tables
        /\ phase' = phase /\ query' = query /\ reply' = reply
    BY <1>9 DEF Codes!vars
  <2>2. /\ Codes!Beginnings' = Codes!Beginnings
        /\ \A c, t : Codes!Wanted(c, t)' <=> Codes!Wanted(c, t)
        /\ \A c, t : Listed(c, t)' = Listed(c, t)
    BY <2>1, RegistryStays
  <2>3. PICK lang : lang = query
    OBVIOUS
  <2>4. Codes!TablesHoldTheRegistry' <=> Codes!TablesHoldTheRegistry
    BY <2>1, TablesStay
  <2>5. \A b : ReadUpTo(b)' <=> ReadUpTo(b)
    <3>1. \A b : SeenIn(b)' <=> SeenIn(b)
      <4>1. \A b, d : FirstDescribed(b, d)' <=> FirstDescribed(b, d)
        BY <2>1, Zenon DEF FirstDescribed
      <4>2. QED
        BY <2>1, <2>2, <4>1, Zenon DEF SeenIn
    <3>2. \A b : InRecord(b)' <=> InRecord(b)
      BY <2>1, Zenon DEF InRecord
    <3>3. QED
      BY <2>1, <2>2, <3>1, <3>2, Zenon DEF ReadUpTo
  <2>6. ReadingInv' <=> ReadingInv
    BY <2>1, <2>5, Zenon DEF ReadingInv
  <2>7. Codes!LanguageName(query)' = Codes!LanguageName(query)
    <3>1. Codes!LanguageName(lang)' = Codes!LanguageName(lang) /\ query' = lang
      BY <2>1, <2>3, NameStays
    <3>2. QED
      BY <2>3, <3>1, Zenon
  <2>8. QED
    BY <2>1, <2>4, <2>6, <2>7, Zenon DEF CodesInv
<1>10. QED
  BY <1>1, <1>2, <1>3, <1>4, <1>5, <1>6, <1>7, <1>8, <1>9 DEF Codes!Next

------------------------------------------------------------------------------
(* LangCodes: the name of a language                                         *)

(* A part of a text that is found is the first of its kind.                  *)
LEMMA FoundAt ==
    ASSUME NEW text \in Seq(STRING), NEW c, NEW from \in 1 .. Len(text) + 1,
           NEW p \in from .. Len(text) + 1,
           p <= Len(text) => text[p] = c,
           \A i \in from .. p - 1 : text[i] # c
    PROVE  Codes!Find(text, c, from) = p
<1> DEFINE S == {i \in from .. Len(text) : text[i] = c} \cup {Len(text) + 1}
           m == Codes!Min(S)
<1>1. Len(text) \in Nat /\ Len(text) + 1 \in Nat
  OBVIOUS
<1>2. S \subseteq 1 .. Len(text) + 1 /\ S \subseteq from .. Len(text) + 1
  BY <1>1
<1>3. p \in S
  BY <1>1
<1>4. m \in S /\ \A y \in S : m <= y
  <2> HIDE DEF S
  <2>1. QED
    BY <1>1, <1>2, <1>3, LeastOf
<1>5. m \in from .. Len(text) + 1 /\ m <= p /\ (m = Len(text) + 1 \/ text[m] = c)
  <2>1. m \in from .. Len(text) + 1 /\ m <= p
    <3> HIDE DEF S, m
    <3>1. QED
      BY <1>2, <1>3, <1>4
  <2>2. m = Len(text) + 1 \/ text[m] = c
    <3> HIDE DEF m
    <3>1. QED
      BY <1>4
  <2>3. QED
    BY <2>1, <2>2
<1>6. m = p
  <2> HIDE DEF S, m
  <2>1. ASSUME m # p PROVE FALSE
    <3>1. m \in from .. p - 1 /\ m # Len(text) + 1
      BY <1>1, <1>5, <2>1
    <3>2. QED
      BY <1>5, <3>1
  <2>2. QED
    BY <2>1
<1>7. QED
  BY <1>6 DEF Codes!Find

LEMMA SubSeqOne ==
    ASSUME NEW text \in Seq(STRING), NEW i \in 1 .. Len(text)
    PROVE  SubSeq(text, i, i) = <<text[i]>>
<1>1. i \in Int /\ \A j \in i .. i : text[j] \in STRING
  OBVIOUS
<1>2. /\ SubSeq(text, i, i) \in Seq(STRING) /\ Len(SubSeq(text, i, i)) = 1
      /\ SubSeq(text, i, i)[1] = text[i]
  <2>1. /\ SubSeq(text, i, i) \in Seq(STRING)
        /\ Len(SubSeq(text, i, i)) = IF i <= i THEN i - i + 1 ELSE 0
        /\ \A k \in 1 .. i - i + 1 : SubSeq(text, i, i)[k] = text[i + k - 1]
    BY <1>1, SubSeqProperties
  <2>2. i <= i /\ i - i + 1 = 1 /\ 1 \in 1 .. i - i + 1 /\ i + 1 - 1 = i
    BY <1>1
  <2>3. QED
    BY <2>1, <2>2
<1>3. <<text[i]>> \in Seq(STRING) /\ Len(<<text[i]>>) = 1 /\ <<text[i]>>[1] = text[i]
  BY <1>1
<1>4. \A k \in 1 .. 1 : k = 1
  OBVIOUS
<1>5. QED
  <2>1. \A k \in 1 .. Len(SubSeq(text, i, i)) : SubSeq(text, i, i)[k] = <<text[i]>>[k]
    BY <1>2, <1>3, <1>4
  <2>2. QED
    BY <1>2, <1>3, <2>1, SeqEqual

LEMMA OneAndOne ==
    ASSUME NEW S, NEW x \in S, NEW y \in S
    PROVE  <<x>> \o <<y>> = <<x, y>>
<1>1. /\ <<x>> \in Seq(S) /\ <<y>> \in Seq(S) /\ <<x, y>> \in Seq(S)
  OBVIOUS
<1>2. Len(<<x>>) = 1 /\ Len(<<y>>) = 1 /\ Len(<<x, y>>) = 2
  OBVIOUS
<1> DEFINE both == <<x>> \o <<y>>
<1>3. /\ both \in Seq(S) /\ Len(both) = 1 + 1
      /\ \A i \in 1 .. 1 + 1 : both[i] = IF i <= 1 THEN <<x>>[i] ELSE <<y>>[i - 1]
  BY <1>1, <1>2, ConcatProperties
<1> HIDE DEF both
<1>4. both[1] = x /\ both[2] = y
  BY <1>3
<1>5. Len(both) = Len(<<x, y>>) /\ Len(both) = 2
  BY <1>2, <1>3
<1>6. \A i \in 1 .. Len(both) : both[i] = <<x, y>>[i]
  <2>1. \A i \in 1 .. 2 : i = 1 \/ i = 2
    OBVIOUS
  <2>2. QED
    BY <1>4, <1>5, <2>1
<1>7. both = <<x, y>>
  BY <1>1, <1>3, <1>5, <1>6, SeqEqual
<1>8. QED
  BY <1>7 DEF both

(* A name with a region, known or not, has it behind it.                     *)
LEMMA NameWithOne ==
    ASSUME NEW base, NEW s
    PROVE  Codes!NameWith(base, <<s>>) =
             <<base, " (">> \o
             (IF Codes!Known("region", s) THEN <<Codes!Called("region", s)>>
              ELSE <<"Unknown - ", s>>) \o <<")">>
<1>1. <<"Unknown - ">> \o <<s>> = <<"Unknown - ", s>>
  <2>1. \A u : <<u>> \o <<s>> = <<u, s>>
    <3>1. ASSUME NEW u PROVE <<u>> \o <<s>> = <<u, s>>
      <4>1. u \in {u, s} /\ s \in {u, s}
        OBVIOUS
      <4>2. QED
        BY <4>1, OneAndOne
    <3>2. QED
      BY <3>1
  <2>2. QED
    BY <2>1, Zenon
<1>2. QED
  BY <1>1, Zenon DEF Codes!NameWith, Codes!Known, Codes!Called, Codes!regions

LEMMA NameOfTag ==
    ASSUME Codes!CodesAssumption, query \in LanguageTags, reply = Codes!LanguageName(query)
    PROVE  Codes!NamesTheRegion
<1>1. query \in Seq(STRING) /\ Len(query) \in Nat /\ Codes!IsTag(query)
  <2>1. query \in Seq(STRING) /\ Codes!IsTag(query)
    BY DEF Codes!CodesAssumption
  <2>2. QED
    BY <2>1
<1>2. PICK n \in 1 .. Len(query) :
         /\ n % 2 = 1 /\ (n < Len(query) => query[n + 1] = ".")
         /\ \A i \in 1 .. n : query[i] # "." /\ (query[i] = "-" <=> i % 2 = 0)
  BY <1>1 DEF Codes!IsTag
<1>3. n = 1 \/ n = 3 \/ (n \in Nat /\ n >= 5)
  BY <1>1, <1>2
<1>4. /\ n \in Nat /\ n + 1 \in 1 .. Len(query) + 1 /\ 1 \in 1 .. Len(query) + 1
      /\ n + 1 - 1 = n /\ n + 1 <= Len(query) => query[n + 1] = "."
      /\ \A i \in 1 .. n : query[i] # "."
  BY <1>1, <1>2
<1>5. Codes!Find(query, ".", 1) = n + 1
  <2>1. PICK p \in 1 .. Len(query) + 1 : p = n + 1
    BY <1>4
  <2>2. /\ p <= Len(query) => query[p] = "."
        /\ \A i \in 1 .. p - 1 : query[i] # "."
    BY <1>1, <1>4, <2>1
  <2>3. QED
    BY <1>1, <1>4, <2>1, <2>2, FoundAt
<1>6. Codes!Encoding(query) = n + 1
  <2>1. {k \in DOMAIN query : query[k] = "."} = {k \in 1 .. Len(query) : query[k] = "."}
    BY <1>1
  <2>2. Codes!Encoding(query) = Codes!Find(query, ".", 1)
    BY <2>1, Zenon DEF Codes!Encoding, Codes!Find
  <2>3. QED
    BY <1>5, <2>2
<1> DEFINE bare == SubSeq(query, 1, n)
<1>7. bare \in Seq(STRING) /\ Len(bare) = n /\ \A i \in 1 .. n : bare[i] = query[i]
  <2>1. 1 \in Int /\ n \in Int /\ 1 <= n /\ n - 1 + 1 = n
        /\ \A i \in 1 .. n : query[i] \in STRING
    BY <1>1, <1>2
  <2>2. /\ bare \in Seq(STRING)
        /\ Len(bare) = IF 1 <= n THEN n - 1 + 1 ELSE 0
        /\ \A i \in 1 .. n - 1 + 1 : bare[i] = query[1 + i - 1]
    BY <2>1, SubSeqProperties
  <2>3. \A i \in 1 .. n : 1 + i - 1 = i
    OBVIOUS
  <2> HIDE DEF bare
  <2>4. QED
    BY <2>1, <2>2, <2>3
<1>8. \A i \in 1 .. n : bare[i] = "-" <=> i % 2 = 0
  BY <1>2, <1>7
<1>9. SubSeq(query, 1, Codes!Find(query, ".", 1) - 1) = bare
  BY <1>4, <1>5
<1> HIDE DEF bare
<1>10. Codes!Find(bare, "-", 1) = 2
  <2>1. bare[1] # "-" /\ 1 \in 1 .. Len(bare) + 1 /\ 2 \in 1 .. Len(bare) + 1
    BY <1>4, <1>2, <1>7, <1>8
  <2>2. 2 <= Len(bare) => bare[2] = "-"
    BY <1>7, <1>8
  <2>3. \A i \in 1 .. 2 - 1 : bare[i] # "-"
    BY <2>1
  <2>4. QED
    BY <1>7, <2>1, <2>2, <2>3, FoundAt
<1>11. ASSUME n # 1
       PROVE  Codes!Find(bare, "-", 3) = 4
  <2>1. bare[3] # "-" /\ 3 \in 1 .. Len(bare) + 1 /\ 4 \in 3 .. Len(bare) + 1
    BY <1>3, <1>7, <1>8, <1>11
  <2>2. 4 <= Len(bare) => bare[4] = "-"
    BY <1>7, <1>8
  <2>3. \A i \in 3 .. 4 - 1 : bare[i] # "-"
    BY <2>1
  <2>4. QED
    BY <1>7, <2>1, <2>2, <2>3, FoundAt
<1>12. ASSUME n >= 5
       PROVE  Codes!Find(bare, "-", 5) = 6
  <2>1. bare[5] # "-" /\ 5 \in 1 .. Len(bare) + 1 /\ 6 \in 5 .. Len(bare) + 1
    BY <1>3, <1>7, <1>8, <1>12
  <2>2. 6 <= Len(bare) => bare[6] = "-"
    BY <1>7, <1>8
  <2>3. \A i \in 5 .. 6 - 1 : bare[i] # "-"
    BY <2>1
  <2>4. QED
    BY <1>7, <2>1, <2>2, <2>3, FoundAt
<1> DEFINE subtags == Codes!Subtags(query)
<1>13. /\ Len(subtags) = (n + 1) \div 2
       /\ \A k \in 1 .. (n + 1) \div 2 : subtags[k] = query[2 * k - 1]
  <2>1. (n + 1) \div 2 \in Nat
    BY <1>4
  <2>2. subtags = [k \in 1 .. (n + 1) \div 2 |-> query[2 * k - 1]]
    BY <1>6, Zenon DEF Codes!Subtags
  <2> HIDE DEF subtags
  <2>3. QED
    BY <2>1, <2>2
<1> HIDE DEF subtags
<1>14. SubSeq(bare, 1, 2 - 1) = <<subtags[1]>> /\ Len(subtags) \in Nat
  <2>1. 1 \in 1 .. Len(bare) /\ 2 - 1 = 1 /\ 1 \in 1 .. (n + 1) \div 2 /\ 2 * 1 - 1 = 1
        /\ 1 \in 1 .. n /\ (n + 1) \div 2 \in Nat
    BY <1>3, <1>7
  <2>2. bare[1] = subtags[1]
    BY <1>7, <1>13, <2>1
  <2>3. QED
    BY <1>7, <1>13, <2>1, <2>2, SubSeqOne
<1>15. CASE n = 1
  <2>1. Len(subtags) = 1 /\ 2 > Len(bare)
    BY <1>7, <1>13, <1>15
  <2>2. Codes!LanguageName(query) =
          IF ~Codes!Known("language", subtags[1]) THEN <<>>
          ELSE <<Codes!Called("language", subtags[1])>>
    BY <1>9, <1>10, <1>14, <2>1
       DEF Codes!LanguageName, Codes!Known, Codes!Called, Codes!languages
  <2>3. ~(Len(subtags) > 1) /\ 2 > Len(subtags)
    BY <2>1
  <2>4. QED
    BY <2>2, <2>3, Zenon DEF Codes!NamesTheRegion, subtags
<1>16. ASSUME n # 1
       PROVE  /\ Codes!Region(bare, 2) = <<subtags[2]>>
              /\ ~(2 > Len(bare)) /\ Len(subtags) > 1
  <2>1. 3 \in 1 .. Len(bare) /\ 3 \in 1 .. n /\ 2 \in 1 .. (n + 1) \div 2
        /\ 2 * 2 - 1 = 3 /\ 4 - 1 = 3 /\ 2 + 1 = 3 /\ ~(2 > Len(bare))
        /\ (n + 1) \div 2 > 1
    BY <1>3, <1>7, <1>16
  <2>2. subtags[2] = bare[3]
    BY <1>7, <1>13, <2>1
  <2>3. Codes!Region(bare, 2) = SubSeq(bare, 3, 3)
    BY <1>11, <1>16, <2>1 DEF Codes!Region
  <2>4. QED
    BY <1>7, <1>13, <2>1, <2>2, <2>3, SubSeqOne
<1>17. ASSUME n # 1
       PROVE  Codes!AfterScript(bare, 2) = 4
  BY <1>11, <1>17 DEF Codes!AfterScript
<1>18. ASSUME n # 1, ~Codes!Known("script", subtags[2])
       PROVE  Codes!NamesTheRegion
  <2>1. Codes!LanguageName(query) =
          IF ~Codes!Known("language", subtags[1]) THEN <<>>
          ELSE Codes!NameWith(Codes!Called("language", subtags[1]), <<subtags[2]>>)
    BY <1>9, <1>10, <1>14, <1>16, <1>17, <1>18
       DEF Codes!LanguageName, Codes!Known, Codes!Called, Codes!languages, Codes!scripts
  <2>2. ~(2 > Len(subtags))
    BY <1>14, <1>16, <1>18
  <2>3. QED
    BY <1>18, <2>1, <2>2, NameWithOne, Zenon DEF Codes!NamesTheRegion, subtags
<1>19. ASSUME n = 3, Codes!Known("script", subtags[2])
       PROVE  Codes!NamesTheRegion
  <2>1. n # 1 /\ 4 > Len(bare) /\ Len(subtags) > 1 /\ 3 > Len(subtags)
    BY <1>7, <1>13, <1>19
  <2>2. Codes!LanguageName(query) =
          IF ~Codes!Known("language", subtags[1]) THEN <<>>
          ELSE <<Codes!Called("language", subtags[1])>>
    BY <1>9, <1>10, <1>14, <1>16, <1>17, <1>19, <2>1
       DEF Codes!LanguageName, Codes!Known, Codes!Called, Codes!languages, Codes!scripts
  <2>3. QED
    BY <1>19, <2>1, <2>2, Zenon DEF Codes!NamesTheRegion, subtags
<1>20. ASSUME n >= 5, Codes!Known("script", subtags[2])
       PROVE  Codes!NamesTheRegion
  <2>1. /\ n # 1 /\ ~(4 > Len(bare)) /\ Len(subtags) > 1 /\ ~(3 > Len(subtags))
        /\ 5 \in 1 .. Len(bare) /\ 5 \in 1 .. n /\ 3 \in 1 .. (n + 1) \div 2
        /\ 2 * 3 - 1 = 5 /\ 6 - 1 = 5 /\ 4 + 1 = 5
    BY <1>4, <1>7, <1>13, <1>20
  <2>2. subtags[3] = bare[5]
    BY <1>7, <1>13, <2>1
  <2>3. Codes!Region(bare, 4) = <<subtags[3]>>
    <3>1. Codes!Region(bare, 4) = SubSeq(bare, 5, 5)
      BY <1>12, <1>20, <2>1 DEF Codes!Region
    <3>2. QED
      BY <1>7, <2>1, <2>2, <3>1, SubSeqOne
  <2>4. Codes!LanguageName(query) =
          IF ~Codes!Known("language", subtags[1]) THEN <<>>
          ELSE Codes!NameWith(Codes!Called("language", subtags[1]), <<subtags[3]>>)
    BY <1>9, <1>10, <1>14, <1>16, <1>17, <1>20, <2>1, <2>3
       DEF Codes!LanguageName, Codes!Known, Codes!Called, Codes!languages, Codes!scripts
  <2>5. QED
    BY <1>20, <2>1, <2>4, NameWithOne, Zenon DEF Codes!NamesTheRegion, subtags
<1>21. QED
  BY <1>3, <1>15, <1>18, <1>19, <1>20

(* A language has the name the registry gives it, with its region, and the   *)
(* tables have nothing the registry does not have, for every registry and    *)
(* every tag (iana-reg.py:7-95, lang_codes.inl:32-71).                       *)
THEOREM NamesAreRight ==
    ASSUME Codes!CodesAssumption
    PROVE  Codes!Spec => []NamesAreOfTheRegistry
<1>1. Codes!Init => CodesInv
  BY CodesInit
<1>2. CodesInv /\ [Codes!Next]_(Codes!vars) => CodesInv'
  BY CodesStep
<1>3. CodesInv => NamesAreOfTheRegistry
  <2>1. query = <<>> => Codes!NamesTheRegion
    BY Zenon DEF Codes!NamesTheRegion
  <2>2. ASSUME CodesInv PROVE NamesAreOfTheRegistry
    <3>1. Codes!NamesTheRegion
      BY <2>1, <2>2, NameOfTag DEF CodesInv
    <3>2. QED
      BY <2>2, <3>1 DEF CodesInv, NamesAreOfTheRegistry
  <2>3. QED
    BY <2>2
<1>4. QED
  BY <1>1, <1>2, <1>3, PTL DEF Codes!Spec

------------------------------------------------------------------------------
(* Lite: the handles of C and Python                                         *)

DllTypeOK ==
    /\ paths \in [LitePaths -> LiteTexts]
    /\ heap \in [Handles -> LiteTexts \cup {NoPointer}]

(* Both properties are inductive once files and handles have their types.    *)
DllInv == DllTypeOK /\ Dll!HandlesAndStringsAreKept

LEMMA DllInit == Dll!LiteAssumption /\ Dll!Init => DllInv
BY DEF Dll!LiteAssumption, Dll!Init, DllInv, DllTypeOK, Dll!HandlesAndStringsAreKept,
       Dll!HandlesAreOwned, Dll!NullMeansMissing, Dll!Live, Dll!NoAnswer

(* A handle that opens is a new one, and nobody's yet.                       *)
LEMMA DllOpens ==
    ASSUME Dll!LiteAssumption, DllInv, NEW h \in Handles, NEW path \in LitePaths,
           Dll!Opened(h, path)
    PROVE  /\ heap' \in [Handles -> LiteTexts \cup {NoPointer}]
           /\ Dll!Live' = Dll!Live \cup {h}
           /\ h \notin Dll!Live
BY DEF Dll!LiteAssumption, DllInv, DllTypeOK, Dll!Opened, Dll!Live

(* What is closed is open no longer, and nothing else is closed.             *)
LEMMA DllCloses ==
    ASSUME Dll!LiteAssumption, DllInv, NEW h \in Handles, Dll!Closed(h)
    PROVE  /\ heap' \in [Handles -> LiteTexts \cup {NoPointer}]
           /\ Dll!Live' = Dll!Live \ {h}
BY DEF Dll!LiteAssumption, DllInv, DllTypeOK, Dll!Closed, Dll!Live

(* What a file has for an identifier is no null pointer, and what it has     *)
(* nothing for is one.                                                       *)
LEMMA DllFinds ==
    ASSUME Dll!LiteAssumption, NEW text \in LiteTexts, NEW id
    PROVE  /\ Dll!Singular(text, id) = NoPointer <=> id \notin DOMAIN text.forms
           /\ \A count : Dll!Plural(text, id, count) = NoPointer <=> id \notin DOMAIN text.forms
BY DEF Dll!LiteAssumption, Dll!Singular, Dll!Plural

LEMMA DllStep ==
    ASSUME Dll!LiteAssumption, DllInv, [Dll!Next]_(Dll!vars)
    PROVE  DllInv'
<1> USE DEF DllInv, DllTypeOK, Dll!HandlesAndStringsAreKept
<1>1. ASSUME NEW path \in LitePaths, NEW text \in LiteTexts, Dll!WriteFile(path, text)
      PROVE  DllInv'
  BY <1>1 DEF Dll!WriteFile, Dll!HandlesAreOwned, Dll!NullMeansMissing, Dll!Live
<1>2. ASSUME NEW path \in LitePaths, Dll!OpenStrings(path)
      PROVE  DllInv'
  <2>1. PICK h \in Handles : Dll!Opened(h, path) /\ host' = host \cup {h}
    BY <1>2 DEF Dll!OpenStrings
  <2> QED
    BY <1>2, <2>1, DllOpens DEF Dll!OpenStrings, Dll!HandlesAreOwned,
       Dll!NullMeansMissing, Dll!LiteAssumption
<1>3. ASSUME NEW path \in LitePaths, Dll!PyOpen(path)
      PROVE  DllInv'
  <2>1. PICK h \in Handles : Dll!Opened(h, path) /\ wrapping' = h
    BY <1>3 DEF Dll!PyOpen
  <2> QED
    BY <1>3, <2>1, DllOpens DEF Dll!PyOpen, Dll!HandlesAreOwned,
       Dll!NullMeansMissing, Dll!LiteAssumption
<1>4. CASE Dll!PyOpened
  BY <1>4 DEF Dll!PyOpened, Dll!HandlesAreOwned, Dll!NullMeansMissing, Dll!Live,
     Dll!LiteAssumption
<1>5. CASE Dll!PyOpenFails
  <2>1. wrapping \in Handles
    BY <1>5 DEF Dll!PyOpenFails, Dll!HandlesAreOwned, Dll!Live
  <2>2. heap' \in [Handles -> LiteTexts \cup {NoPointer}] /\ Dll!Live' = Dll!Live \ {wrapping}
    BY <1>5, <2>1, DllCloses DEF Dll!PyOpenFails
  <2>3. host \cup objects \subseteq Handles
    BY DEF Dll!HandlesAreOwned, Dll!Live
  <2>4. Dll!HandlesAreOwned'
    BY <1>5, <2>1, <2>2, <2>3 DEF Dll!PyOpenFails, Dll!HandlesAreOwned, Dll!LiteAssumption
  <2> QED
    BY <1>5, <2>2, <2>4 DEF Dll!PyOpenFails, Dll!NullMeansMissing
<1>6. ASSUME NEW h \in Handles, Dll!CloseStrings(h) \/ Dll!PyCollect(h)
      PROVE  DllInv'
  BY <1>6, DllCloses DEF Dll!CloseStrings, Dll!PyCollect, Dll!HandlesAreOwned,
     Dll!NullMeansMissing
<1>7. ASSUME NEW h \in Handles \cup {NoHandle}, NEW call, NEW args, NEW is,
             Dll!Reads(h, call, args, is),
             h # NoHandle => (is = NoPointer <=>
                 Dll!LookedUp([call |-> call, text |-> heap[h], args |-> args, is |-> is])
                     \notin DOMAIN heap[h].forms)
      PROVE  DllInv'
  BY <1>7 DEF Dll!Reads, Dll!HandlesAreOwned, Dll!NullMeansMissing, Dll!Live, Dll!LookedUp
<1>8. ASSUME NEW h \in host \cup objects
      PROVE  h \in Handles /\ h # NoHandle /\ heap[h] \in LiteTexts
  BY <1>8 DEF Dll!HandlesAreOwned, Dll!Live, Dll!LiteAssumption
<1>9. ASSUME NEW h \in Handles \cup {NoHandle}, NEW id \in LiteIds, Dll!ReadString(h, id)
      PROVE  DllInv'
  BY <1>9, <1>7, <1>8, DllFinds DEF Dll!ReadString, Dll!LookedUp
<1>10. ASSUME NEW h \in Handles \cup {NoHandle}, NEW id \in LiteIds, NEW count \in LiteCounts,
              Dll!ReadStringPl(h, id, count)
       PROVE  DllInv'
  BY <1>10, <1>7, <1>8, DllFinds DEF Dll!ReadStringPl, Dll!LookedUp
<1>11. ASSUME NEW h \in Handles, NEW args, Dll!PyGet(h, args)
       PROVE  DllInv'
  BY <1>11, <1>7, <1>8, DllFinds DEF Dll!PyGet, Dll!LookedUp
<1>12. CASE UNCHANGED Dll!vars
  BY <1>12 DEF Dll!vars, Dll!HandlesAreOwned, Dll!NullMeansMissing, Dll!Live
<1> QED
  BY <1>1, <1>2, <1>3, <1>4, <1>5, <1>6, <1>9, <1>10, <1>11, <1>12 DEF Dll!Next

(* Every open translation of the C interface belongs to one owner who will   *)
(* close it, also where Python fails half way, and of the strings only one   *)
(* that is missing is a null pointer (py-lngs.cc:73-80, lite.cpp:40-55): for *)
(* any number of handles, files and strings.                                 *)
THEOREM HandlesKept ==
    ASSUME Dll!LiteAssumption
    PROVE  Dll!Spec => []HandlesAndStringsAreKept
<1>1. Dll!Init => DllInv
  BY DllInit
<1>2. DllInv /\ [Dll!Next]_(Dll!vars) => DllInv'
  BY DllStep
<1>3. DllInv => HandlesAndStringsAreKept
  BY DEF DllInv, HandlesAndStringsAreKept
<1> QED
  BY <1>1, <1>2, <1>3, PTL DEF Dll!Spec

------------------------------------------------------------------------------
(* ToolStrings: the messages of the tool                                     *)

(* How much of the user's list a walk has behind it.                         *)
Tried == Len(UserLangs) - Len(langs)

ToolTypeOK ==
    /\ kind \in {"files", "linked", "zero"}
    /\ dirs \in [Tool!Dirs -> {there \in [ToolLangs -> ToolTexts \cup {NoText}] :
                                 \A lang \in ToolLangs : Tool!Lies(there[lang], lang)}]
    /\ install \in ToolTexts \cup {NoText}
    /\ tool \in {"start", "install", "adopt", "build", "ready"}
    /\ tool # "start" => linked
    /\ installs \in Nat

(* What is left to be tried is the end of the user's list.                   *)
ToolWalk ==
    /\ langs \in Seq(ToolLangs) /\ Len(langs) <= Len(UserLangs)
    /\ \A n \in 1 .. Len(langs) : langs[n] = UserLangs[Tried + n]
    /\ tool = "start" => langs = UserLangs

(* The build tree is opened last, and when a language is installed that says *)
(* which one it is, for that language only.                                  *)
ToolPhases ==
    /\ kind # "files" => install = NoText /\ tool \in {"start", "build", "ready"}
    /\ tool \in {"start", "install"} => install = NoText
    /\ tool # "ready" => build = NoText
    /\ tool = "adopt" => install # NoText /\ install.culture # NoToolCulture
    /\ tool = "build" => install = NoText \/ install.culture = NoToolCulture
    /\ (tool = "ready" /\ install # NoText /\ install.culture # NoToolCulture) =>
          build = NoText \/ build.culture \in {install.culture, NoToolCulture}

Installed == Tool!FirstOf(Tool!Provided(dirs["install"]))

(* What a language may be opened from if none is installed.                  *)
Offered == IF kind = "files" THEN Tool!Provided(dirs["build"])
           ELSE IF kind = "linked" THEN Tool!Provided(ToolResources)
           ELSE {}

(* Left alone, a walk has nothing behind it that could have been opened.     *)
ToolLeftAlone ==
    installs = 0 =>
        /\ tool = "install" => \A n \in 1 .. Tried :
                                  UserLangs[n] \notin Tool!Provided(dirs["install"])
        /\ (kind = "files" /\ tool \notin {"start", "install"}) =>
              IF Installed = {} THEN install = NoText
              ELSE \E lang \in Installed : install = dirs["install"][lang]
        /\ tool = "build" => \A n \in 1 .. Tried : UserLangs[n] \notin Offered
        /\ tool = "ready" => Tool!UsersChoice

ToolInv == ToolTypeOK /\ ToolWalk /\ ToolPhases /\ Tool!OwnSerialOnly /\ ToolLeftAlone

------------------------------------------------------------------------------
(* The first of a list                                                       *)

LEMMA FirstIsFound ==
    ASSUME UserLangs \in Seq(ToolLangs), NEW some, NEW n \in DOMAIN UserLangs,
           UserLangs[n] \in some, \A m \in 1 .. n - 1 : UserLangs[m] \notin some
    PROVE  Tool!FirstOf(some) = {UserLangs[n]}
<1> DEFINE places == {k \in DOMAIN UserLangs : UserLangs[k] \in some}
           first == CHOOSE k \in places : \A m \in places : k <= m
<1>1. DOMAIN UserLangs = 1 .. Len(UserLangs) /\ Len(UserLangs) \in Nat
  OBVIOUS
<1>2. n \in places /\ \A m \in places : n <= m
  BY <1>1
<1>3. first \in places /\ \A m \in places : first <= m
  <2> HIDE DEF places
  <2> QED
    BY <1>2
<1>4. first = n
  BY <1>1, <1>2, <1>3
<1> QED
  BY <1>2, <1>4 DEF Tool!FirstOf

LEMMA NoneIsFound ==
    ASSUME NEW some, \A n \in DOMAIN UserLangs : UserLangs[n] \notin some
    PROVE  Tool!FirstOf(some) = {}
BY DEF Tool!FirstOf

(* The next language to be tried is the one behind those that were.          *)
LEMMA WalkGoesOn ==
    ASSUME UserLangs \in Seq(ToolLangs), ToolWalk, langs # <<>>
    PROVE  /\ Tried + 1 \in DOMAIN UserLangs /\ Tried \in Nat
           /\ Head(langs) = UserLangs[Tried + 1] /\ Head(langs) \in ToolLangs
           /\ Tail(langs) \in Seq(ToolLangs) /\ Len(Tail(langs)) = Len(langs) - 1
           /\ \A n \in 1 .. Len(Tail(langs)) : Tail(langs)[n] = UserLangs[Tried + 1 + n]
<1>1. Len(langs) \in Nat /\ Len(langs) > 0 /\ Len(UserLangs) \in Nat /\ Tried \in Nat
  BY DEF ToolWalk, Tried
<1>2. Head(langs) = langs[1] /\ Len(Tail(langs)) = Len(langs) - 1
  BY <1>1 DEF ToolWalk
<1>3. \A n \in 1 .. Len(langs) - 1 : Tail(langs)[n] = langs[n + 1]
  BY <1>1 DEF ToolWalk
<1>4. \A n \in 1 .. Len(langs) : langs[n] = UserLangs[Tried + n]
  BY DEF ToolWalk
<1>5. Tried + 1 \in DOMAIN UserLangs
  BY <1>1 DEF Tried
<1>6. \A n \in 1 .. Len(Tail(langs)) : Tail(langs)[n] = UserLangs[Tried + 1 + n]
  <2>1. ASSUME NEW n \in 1 .. Len(Tail(langs)) PROVE Tail(langs)[n] = UserLangs[Tried + 1 + n]
    <3>1. n \in 1 .. Len(langs) - 1 /\ n + 1 \in 1 .. Len(langs)
      BY <1>1, <1>2
    <3>2. Tried + (n + 1) = Tried + 1 + n
      BY <1>1
    <3> QED
      BY <1>3, <1>4, <3>1, <3>2
  <2> QED
    BY <2>1
<1> QED
  BY <1>1, <1>2, <1>4, <1>5, <1>6 DEF ToolWalk

(* An open finds a language exactly where there is a usable one.             *)
LEMMA AnswerIsUsable ==
    ASSUME NEW text
    PROVE  /\ Tool!Usable(text) => Tool!Answer(text) = text /\ text # NoText
           /\ ~Tool!Usable(text) => Tool!Answer(text) = NoText
           /\ Tool!Answer(text) # NoText =>
                 Tool!Answer(text).valid /\ Tool!Answer(text).serial = ToolSerial
BY DEF Tool!Usable, Tool!Answer

------------------------------------------------------------------------------
(* The steps of the tool's start                                             *)

LEMMA ToolInit == Tool!ToolAssumption /\ Tool!Init => ToolInv
<1> SUFFICES ASSUME Tool!ToolAssumption, Tool!Init PROVE ToolInv
  OBVIOUS
<1> USE DEF Tool!Init, Tool!ToolAssumption
<1>1. ToolTypeOK /\ ToolPhases /\ Tool!OwnSerialOnly /\ ToolLeftAlone
  BY DEF ToolTypeOK, ToolPhases, Tool!OwnSerialOnly, ToolLeftAlone
<1>2. ToolWalk
  BY DEF ToolWalk, Tried
<1> QED
  BY <1>1, <1>2 DEF ToolInv

(* Every other program may replace files: the promise of the user's choice   *)
(* ends with it.                                                             *)
LEMMA ToolReplace ==
    ASSUME ToolInv, NEW dir \in Tool!Dirs, NEW lang \in ToolLangs,
           NEW text \in ToolTexts \cup {NoText}, Tool!Replace(dir, lang, text)
    PROVE  ToolInv'
<1> USE DEF ToolInv, Tool!Replace
<1>1. dirs' \in [Tool!Dirs -> {there \in [ToolLangs -> ToolTexts \cup {NoText}] :
                                 \A l \in ToolLangs : Tool!Lies(there[l], l)}]
  <2>1. Tool!Lies(text, lang) /\ dirs' = [dirs EXCEPT ![dir][lang] = text]
    OBVIOUS
  <2>2. [dirs[dir] EXCEPT ![lang] = text]
            \in {there \in [ToolLangs -> ToolTexts \cup {NoText}] :
                    \A l \in ToolLangs : Tool!Lies(there[l], l)}
    BY <2>1 DEF ToolTypeOK
  <2> QED
    BY <2>1, <2>2 DEF ToolTypeOK
<1>2. installs' \in Nat /\ installs' # 0
  BY DEF ToolTypeOK
<1>3. ToolTypeOK'
  BY <1>1, <1>2 DEF ToolTypeOK
<1>4. ToolWalk' /\ ToolPhases' /\ Tool!OwnSerialOnly'
  BY DEF ToolWalk, Tried, ToolPhases, Tool!OwnSerialOnly
<1>5. ToolLeftAlone'
  BY <1>2 DEF ToolLeftAlone
<1> QED
  BY <1>3, <1>4, <1>5

LEMMA ToolStart ==
    ASSUME Tool!ToolAssumption, ToolInv, Tool!Start
    PROVE  ToolInv'
<1> USE DEF ToolInv, Tool!Start
<1>1. ToolTypeOK'
  BY DEF ToolTypeOK
<1>2. ToolPhases' /\ Tool!OwnSerialOnly'
  BY DEF ToolPhases, Tool!OwnSerialOnly, ToolTypeOK
<1>3. ToolWalk' /\ Tried' = 0
  BY DEF ToolWalk, Tried, Tool!ToolAssumption
<1>4. ToolLeftAlone'
  BY <1>3 DEF ToolLeftAlone, ToolTypeOK, Tool!ToolAssumption
<1> QED
  BY <1>1, <1>2, <1>3, <1>4

(* A language the list has is where the files of its directory are.          *)
LEMMA FilesOfDirs ==
    ASSUME ToolTypeOK, NEW dir \in Tool!Dirs, NEW lang \in ToolLangs
    PROVE  /\ dirs[dir][lang] \in ToolTexts \cup {NoText}
           /\ Tool!Lies(dirs[dir][lang], lang)
           /\ lang \in Tool!Provided(dirs[dir]) <=> Tool!Usable(dirs[dir][lang])
BY DEF ToolTypeOK, Tool!Provided

LEMMA ToolTryInstall ==
    ASSUME Tool!ToolAssumption, ToolInv, Tool!TryInstall
    PROVE  ToolInv'
<1> DEFINE lang == Head(langs)
           text == dirs["install"][lang]
<1>1. ToolTypeOK /\ ToolWalk /\ ToolPhases /\ Tool!OwnSerialOnly /\ ToolLeftAlone
      /\ UserLangs \in Seq(ToolLangs)
  BY DEF ToolInv, Tool!ToolAssumption
<1>2. /\ tool = "install" /\ langs # <<>> /\ install' = Tool!Answer(text)
      /\ UNCHANGED <<kind, dirs, build, linked, installs>>
  BY DEF Tool!TryInstall
<1>3. /\ Tried + 1 \in DOMAIN UserLangs /\ Tried \in Nat
      /\ lang = UserLangs[Tried + 1] /\ lang \in ToolLangs
      /\ Tail(langs) \in Seq(ToolLangs) /\ Len(Tail(langs)) = Len(langs) - 1
      /\ \A n \in 1 .. Len(Tail(langs)) : Tail(langs)[n] = UserLangs[Tried + 1 + n]
  BY <1>1, <1>2, WalkGoesOn
<1>4. /\ text \in ToolTexts \cup {NoText}
      /\ lang \in Tool!Provided(dirs["install"]) <=> Tool!Usable(text)
  BY <1>1, <1>3, FilesOfDirs DEF Tool!Dirs
<1>5. /\ Tool!Usable(text) => install' = text /\ text # NoText
      /\ ~Tool!Usable(text) => install' = NoText
  BY <1>2, AnswerIsUsable
<1>6. kind = "files" /\ build = NoText
  BY <1>1, <1>2 DEF ToolTypeOK, ToolPhases
<1>7. Tool!OwnSerialOnly'
  BY <1>2, <1>6, AnswerIsUsable DEF Tool!OwnSerialOnly
<1>8. CASE install' = NoText
  <2>1. tool' = "install" /\ langs' = Tail(langs)
    BY <1>2, <1>8 DEF Tool!TryInstall
  <2>2. Len(UserLangs) \in Nat /\ Len(langs) \in Nat /\ Len(langs) > 0
    BY <1>1, <1>2 DEF ToolWalk
  <2>3. Tried' = Tried + 1
    BY <1>3, <2>1, <2>2 DEF Tried
  <2>4. ToolTypeOK' /\ ToolPhases'
    BY <1>1, <1>2, <1>6, <1>8, <2>1 DEF ToolTypeOK, ToolPhases
  <2>5. Len(langs') <= Len(UserLangs)
    BY <1>1, <1>3, <2>1, <2>2 DEF ToolWalk
  <2>6. ToolWalk'
    BY <1>3, <2>1, <2>3, <2>5 DEF ToolWalk
  <2>7. lang \notin Tool!Provided(dirs["install"])
    BY <1>4, <1>5, <1>8
  <2>8. ASSUME installs = 0, NEW n \in 1 .. Tried + 1
        PROVE  UserLangs[n] \notin Tool!Provided(dirs["install"])
    <3>1. n \in 1 .. Tried \/ n = Tried + 1
      BY <1>3
    <3> QED
      BY <1>1, <1>2, <1>3, <2>7, <2>8, <3>1 DEF ToolLeftAlone
  <2>9. ToolLeftAlone'
    BY <1>2, <2>1, <2>3, <2>8 DEF ToolLeftAlone
  <2> QED
    BY <1>7, <2>4, <2>6, <2>9 DEF ToolInv
<1>9. CASE install' # NoText
  <2>1. /\ tool' = IF install'.culture # NoToolCulture THEN "adopt" ELSE "build"
        /\ langs' = UserLangs
    BY <1>2, <1>9 DEF Tool!TryInstall
  <2>2. install' = text /\ Tool!Usable(text)
    BY <1>5, <1>9
  <2>3. ToolTypeOK' /\ ToolPhases'
    BY <1>1, <1>2, <1>4, <1>6, <1>9, <2>1, <2>2 DEF ToolTypeOK, ToolPhases
  <2>4. ToolWalk' /\ Tried' = 0
    BY <1>1, <2>1 DEF ToolWalk, Tried
  <2>5. ASSUME installs = 0
        PROVE  Installed = {lang}
    <3>1. \A m \in 1 .. Tried : UserLangs[m] \notin Tool!Provided(dirs["install"])
      BY <1>1, <1>2, <2>5 DEF ToolLeftAlone
    <3>2. (Tried + 1) - 1 = Tried
      BY <1>3
    <3>3. lang \in Tool!Provided(dirs["install"])
      BY <1>4, <2>2
    <3>4. /\ Tried + 1 \in DOMAIN UserLangs
          /\ UserLangs[Tried + 1] \in Tool!Provided(dirs["install"])
          /\ \A m \in 1 .. (Tried + 1) - 1 :
               UserLangs[m] \notin Tool!Provided(dirs["install"])
      BY <1>3, <3>1, <3>2, <3>3
    <3>5. Tool!FirstOf(Tool!Provided(dirs["install"])) = {UserLangs[Tried + 1]}
      BY <1>1, <3>4, FirstIsFound, Zenon
    <3> QED
      BY <1>3, <3>5 DEF Installed
  <2>6. Installed' = Installed
    BY <1>2 DEF Installed
  <2>7. ToolLeftAlone'
    BY <1>2, <2>1, <2>2, <2>4, <2>5, <2>6 DEF ToolLeftAlone
  <2> QED
    BY <1>7, <2>3, <2>4, <2>7 DEF ToolInv
<1> QED
  BY <1>8, <1>9

LEMMA ToolNoneInstalled ==
    ASSUME Tool!ToolAssumption, ToolInv, Tool!NoneInstalled
    PROVE  ToolInv'
<1>1. ToolTypeOK /\ ToolWalk /\ ToolPhases /\ Tool!OwnSerialOnly /\ ToolLeftAlone
      /\ UserLangs \in Seq(ToolLangs)
  BY DEF ToolInv, Tool!ToolAssumption
<1>2. /\ tool = "install" /\ langs = <<>> /\ tool' = "build" /\ langs' = UserLangs
      /\ UNCHANGED <<kind, dirs, install, build, linked, installs>>
  BY DEF Tool!NoneInstalled
<1>3. ToolTypeOK' /\ ToolPhases' /\ Tool!OwnSerialOnly'
  BY <1>1, <1>2 DEF ToolTypeOK, ToolPhases, Tool!OwnSerialOnly
<1>4. ToolWalk' /\ Tried' = 0 /\ 1 .. Tried = DOMAIN UserLangs
  BY <1>1, <1>2 DEF ToolWalk, Tried
<1>5. installs = 0 => Installed = {}
  BY <1>1, <1>2, <1>4, NoneIsFound DEF ToolLeftAlone, Installed
<1>6. Installed' = Installed /\ install = NoText
  BY <1>1, <1>2 DEF Installed, ToolPhases
<1>7. ToolLeftAlone'
  BY <1>2, <1>4, <1>5, <1>6 DEF ToolLeftAlone
<1> QED
  BY <1>3, <1>4, <1>7 DEF ToolInv

(* What the build tree has for a language is of that language.               *)
LEMMA ToolAdopt ==
    ASSUME Tool!ToolAssumption, ToolInv, Tool!Adopt
    PROVE  ToolInv'
<1>1. ToolTypeOK /\ ToolWalk /\ ToolPhases /\ Tool!OwnSerialOnly /\ ToolLeftAlone
  BY DEF ToolInv
<1>2. /\ tool = "adopt" /\ tool' = "ready"
      /\ build' = Tool!OpenBuild(install.culture)
      /\ UNCHANGED <<kind, dirs, install, linked, langs, installs>>
  BY DEF Tool!Adopt
<1>3. kind = "files" /\ install # NoText /\ install.culture # NoToolCulture
  BY <1>1, <1>2 DEF ToolTypeOK, ToolPhases
<1>4. install.culture \in ToolLangs
  BY <1>1, <1>3 DEF ToolTypeOK, Tool!ToolAssumption
<1>5. build' = Tool!Answer(dirs["build"][install.culture])
  BY <1>2, <1>3 DEF Tool!OpenBuild
<1>6. build' = NoText \/ build'.culture \in {install.culture, NoToolCulture}
  BY <1>1, <1>4, <1>5, FilesOfDirs, AnswerIsUsable DEF Tool!Dirs, Tool!Lies
<1>7. ToolTypeOK' /\ ToolPhases'
  BY <1>1, <1>2, <1>3, <1>6 DEF ToolTypeOK, ToolPhases
<1>8. Tool!OwnSerialOnly'
  BY <1>1, <1>2, <1>5, AnswerIsUsable DEF Tool!OwnSerialOnly
<1>9. ToolWalk'
  BY <1>1, <1>2 DEF ToolWalk, Tried
<1>10. installs = 0 => Installed # {} /\ \E lang \in Installed : install = dirs["install"][lang]
  BY <1>1, <1>2, <1>3 DEF ToolLeftAlone
<1>11. installs = 0 => Tool!UsersChoice'
  BY <1>2, <1>3, <1>10 DEF Tool!UsersChoice, Installed
<1>12. ToolLeftAlone'
  BY <1>2, <1>10, <1>11 DEF ToolLeftAlone, Installed
<1> QED
  BY <1>7, <1>8, <1>9, <1>12 DEF ToolInv

(* A language can be opened exactly if it is offered, and then it is open.   *)
LEMMA BuildIsOffered ==
    ASSUME ToolTypeOK, build = NoText, NEW lang \in ToolLangs
    PROVE  /\ Tool!Opens(lang) <=> lang \in Offered
           /\ Tool!Opens(lang) => /\ kind # "zero"
                                  /\ Tool!OpenBuild(lang) =
                                       IF kind = "files" THEN dirs["build"][lang]
                                       ELSE ToolResources[lang]
           /\ ~Tool!Opens(lang) /\ kind # "zero" => Tool!OpenBuild(lang) = NoText
           /\ Tool!OpenBuild(lang) # NoText =>
                 Tool!OpenBuild(lang).valid /\ Tool!OpenBuild(lang).serial = ToolSerial
<1>1. CASE kind = "files"
  BY <1>1, FilesOfDirs, AnswerIsUsable
     DEF Tool!Opens, Tool!OpenBuild, Offered, Tool!Dirs
<1>2. CASE kind = "linked"
  BY <1>2, AnswerIsUsable
     DEF Tool!Opens, Tool!OpenBuild, Tool!OpenResource, Tool!InMemory, Offered, Tool!Provided
<1>3. CASE kind = "zero"
  BY <1>3 DEF Tool!Opens, Tool!OpenBuild, Tool!OpenResource, Tool!InMemory, Offered
<1> QED
  BY <1>1, <1>2, <1>3 DEF ToolTypeOK

LEMMA ToolTryBuild ==
    ASSUME Tool!ToolAssumption, ToolInv, Tool!TryBuild
    PROVE  ToolInv'
<1> DEFINE lang == Head(langs)
<1>1. ToolTypeOK /\ ToolWalk /\ ToolPhases /\ Tool!OwnSerialOnly /\ ToolLeftAlone
      /\ UserLangs \in Seq(ToolLangs)
  BY DEF ToolInv, Tool!ToolAssumption
<1>2. /\ tool = "build" /\ langs # <<>> /\ langs' = Tail(langs)
      /\ build' = IF kind = "zero" THEN build ELSE Tool!OpenBuild(lang)
      /\ tool' = IF Tool!Opens(lang) THEN "ready" ELSE tool
      /\ UNCHANGED <<kind, dirs, install, linked, installs>>
  BY DEF Tool!TryBuild
<1>3. /\ Tried + 1 \in DOMAIN UserLangs /\ Tried \in Nat
      /\ lang = UserLangs[Tried + 1] /\ lang \in ToolLangs
      /\ Tail(langs) \in Seq(ToolLangs) /\ Len(Tail(langs)) = Len(langs) - 1
      /\ \A n \in 1 .. Len(Tail(langs)) : Tail(langs)[n] = UserLangs[Tried + 1 + n]
  BY <1>1, <1>2, WalkGoesOn
<1>4. build = NoText /\ (install = NoText \/ install.culture = NoToolCulture)
  BY <1>1, <1>2 DEF ToolPhases
<1>5. /\ Tool!Opens(lang) <=> lang \in Offered
      /\ Tool!Opens(lang) => /\ kind # "zero"
                             /\ build' = IF kind = "files" THEN dirs["build"][lang]
                                         ELSE ToolResources[lang]
      /\ ~Tool!Opens(lang) => build' = NoText
      /\ build' # NoText => build'.valid /\ build'.serial = ToolSerial
  BY <1>1, <1>2, <1>3, <1>4, BuildIsOffered
<1>6. Len(UserLangs) \in Nat /\ Len(langs) \in Nat /\ Len(langs) > 0
  BY <1>1, <1>2 DEF ToolWalk
<1>7. Tried' = Tried + 1
  BY <1>2, <1>3, <1>6 DEF Tried
<1>8. Tool!OwnSerialOnly'
  BY <1>1, <1>2, <1>5 DEF Tool!OwnSerialOnly
<1>9. ToolTypeOK' /\ ToolPhases'
  BY <1>1, <1>2, <1>4, <1>5 DEF ToolTypeOK, ToolPhases
<1>10. ToolWalk'
  <2>1. Len(langs') <= Len(UserLangs)
    BY <1>1, <1>2, <1>3, <1>6 DEF ToolWalk
  <2> QED
    BY <1>2, <1>3, <1>7, <2>1 DEF ToolWalk
<1>11. Installed' = Installed /\ Offered' = Offered
  BY <1>2 DEF Installed, Offered
<1>12. installs = 0 => \A n \in 1 .. Tried : UserLangs[n] \notin Offered
  BY <1>1, <1>2 DEF ToolLeftAlone
<1>13. ASSUME installs = 0, ~Tool!Opens(lang), NEW n \in 1 .. Tried + 1
       PROVE  UserLangs[n] \notin Offered
  <2>1. n \in 1 .. Tried \/ n = Tried + 1
    BY <1>3
  <2> QED
    BY <1>3, <1>5, <1>12, <1>13, <2>1
<1>14. ASSUME installs = 0, Tool!Opens(lang)
       PROVE  Tool!UsersChoice'
  <2>1. (Tried + 1) - 1 = Tried
    BY <1>3
  <2>2. Tool!FirstOf(Offered) = {lang}
    <3>1. /\ Tried + 1 \in DOMAIN UserLangs /\ UserLangs[Tried + 1] \in Offered
          /\ \A m \in 1 .. (Tried + 1) - 1 : UserLangs[m] \notin Offered
      BY <1>3, <1>5, <1>12, <1>14, <2>1
    <3>2. Tool!FirstOf(Offered) = {UserLangs[Tried + 1]}
      BY <1>1, <3>1, FirstIsFound, Zenon
    <3> QED
      BY <1>3, <3>2
  <2>3. kind = "files" =>
          IF Installed = {} THEN install = NoText
          ELSE \E l \in Installed : install = dirs["install"][l]
    BY <1>1, <1>2, <1>14 DEF ToolLeftAlone
  <2>4. kind # "files" => install = NoText
    BY <1>1 DEF ToolPhases
  <2>5. build' = IF kind = "files" THEN dirs["build"][lang] ELSE ToolResources[lang]
    BY <1>5, <1>14
  <2> QED
    BY <1>2, <2>2, <2>3, <2>4, <2>5 DEF Tool!UsersChoice, Installed, Offered
<1>15. ToolLeftAlone'
  <2>1. ASSUME installs = 0, ~Tool!Opens(lang) PROVE tool' = "build"
    BY <1>2, <2>1
  <2> QED
    BY <1>1, <1>2, <1>7, <1>11, <1>13, <1>14 DEF ToolLeftAlone
<1> QED
  BY <1>8, <1>9, <1>10, <1>15 DEF ToolInv

LEMMA ToolNoneBuilt ==
    ASSUME Tool!ToolAssumption, ToolInv, Tool!NoneBuilt
    PROVE  ToolInv'
<1>1. ToolTypeOK /\ ToolWalk /\ ToolPhases /\ Tool!OwnSerialOnly /\ ToolLeftAlone
      /\ UserLangs \in Seq(ToolLangs)
  BY DEF ToolInv, Tool!ToolAssumption
<1>2. /\ tool = "build" /\ langs = <<>> /\ tool' = "ready"
      /\ UNCHANGED <<kind, dirs, install, build, linked, langs, installs>>
  BY DEF Tool!NoneBuilt
<1>3. build = NoText /\ (install = NoText \/ install.culture = NoToolCulture)
  BY <1>1, <1>2 DEF ToolPhases
<1>4. ToolTypeOK' /\ ToolPhases' /\ Tool!OwnSerialOnly' /\ ToolWalk'
  BY <1>1, <1>2, <1>3 DEF ToolTypeOK, ToolPhases, Tool!OwnSerialOnly, ToolWalk, Tried
<1>5. 1 .. Tried = DOMAIN UserLangs
  BY <1>1, <1>2 DEF Tried
<1>6. ASSUME installs = 0
      PROVE  Tool!UsersChoice'
  <2>1. Tool!FirstOf(Offered) = {}
    BY <1>1, <1>2, <1>5, <1>6, NoneIsFound DEF ToolLeftAlone
  <2>2. kind = "files" =>
          IF Installed = {} THEN install = NoText
          ELSE \E l \in Installed : install = dirs["install"][l]
    BY <1>1, <1>2, <1>6 DEF ToolLeftAlone
  <2>3. kind # "files" => install = NoText
    BY <1>1 DEF ToolPhases
  <2> QED
    BY <1>2, <1>3, <2>1, <2>2, <2>3 DEF Tool!UsersChoice, Installed, Offered
<1>7. ToolLeftAlone'
  BY <1>1, <1>2, <1>6 DEF ToolLeftAlone, Installed, Offered
<1> QED
  BY <1>4, <1>7 DEF ToolInv

LEMMA ToolStep ==
    ASSUME Tool!ToolAssumption, ToolInv, [Tool!Next]_(Tool!vars)
    PROVE  ToolInv'
<1>1. CASE UNCHANGED Tool!vars
  BY <1>1 DEF Tool!vars, ToolInv, ToolTypeOK, ToolWalk, Tried, ToolPhases,
     Tool!OwnSerialOnly, ToolLeftAlone, Installed, Offered, Tool!UsersChoice
<1>2. CASE Tool!Next
  BY <1>2, ToolReplace, ToolStart, ToolTryInstall, ToolNoneInstalled, ToolAdopt,
     ToolTryBuild, ToolNoneBuilt DEF Tool!Next
<1> QED
  BY <1>1, <1>2

(* What the invariant says of a walk in progress is what is promised of its  *)
(* end.                                                                      *)
LEMMA ToolInvImplies ==
    ASSUME Tool!ToolAssumption, ToolInv
    PROVE  Tool!ToolSpeaksOneLanguage
<1>1. Tool!EveryMessageIsThere
  BY DEF ToolInv, ToolTypeOK, Tool!EveryMessageIsThere, Tool!Get, Tool!Has, Tool!Messages,
     Tool!Resource, Tool!ToolAssumption
<1>2. Tool!OneLanguage
  BY DEF ToolInv, ToolTypeOK, ToolPhases, Tool!OneLanguage, Tool!Get, Tool!Has,
     Tool!Messages, Tool!Resource
<1>3. Tool!UsersChoice
  BY DEF ToolInv, ToolLeftAlone, Tool!UsersChoice
<1> QED
  BY <1>1, <1>2, <1>3 DEF ToolInv, Tool!ToolSpeaksOneLanguage

(* While another version of the tool is being installed, all its messages    *)
(* are there, in the language of the user's choice and not in two at once,   *)
(* and none is read by another version's number (lngs.cpp:232-264): for any  *)
(* languages, texts and lists, however many files are replaced.              *)
THEOREM ToolSpeaks ==
    ASSUME Tool!ToolAssumption
    PROVE  Tool!Spec => []ToolSpeaksOneLanguage
<1>1. Tool!Init => ToolInv
  BY ToolInit
<1>2. ToolInv /\ [Tool!Next]_(Tool!vars) => ToolInv'
  BY ToolStep
<1>3. ToolInv => ToolSpeaksOneLanguage
  BY ToolInvImplies DEF ToolSpeaksOneLanguage
<1> QED
  BY <1>1, <1>2, <1>3, PTL DEF Tool!Spec

------------------------------------------------------------------------------
(* Tool: a run of lngs                                                       *)

IdlRecord == [ok : BOOLEAN, new : BOOLEAN]

AllGood(read_from) == \A n \in DOMAIN read_from : read_from[n].ok

(* A source is as somebody has edited it, or half of what freeze has begun   *)
(* to write in its place; what lies whole in the place of an output is good. *)
LngsFiles ==
    /\ files = [path \in {"idl", "po", "names", "out"} |-> files[path]]
    /\ files["idl"] \in {NotThere, Lngs!Part} \cup {Lngs!Whole(<<i>>) : i \in IdlRecord}
    /\ files["po"] \in {NotThere} \cup {Lngs!Whole(<<c>>) : c \in RunCatalogues}
    /\ files["names"] \in {NotThere} \cup {Lngs!Whole(<<l>>) : l \in RunLists}
    /\ Lngs!WholeIsOfGoodSources

(* How far a run has come says what it has read, and that it was good; until *)
(* it opens it, the output is as the run has found it.                       *)
LngsPhases ==
    /\ step \in {"main", "strings", "msgs", "attributes", "year", "new", "open",
                 "write", "done"}
    /\ step # "done" => code = Lngs!Running /\ refused = FALSE
    /\ step \in {"main", "strings", "msgs", "year", "new"} => used = <<>>
    /\ step \in {"msgs", "attributes", "year", "new", "open", "write"} =>
          \E i \in IdlRecord : sourced = Lngs!Whole(<<i>>) /\ i.ok
    /\ step = "attributes" => \E c \in RunCatalogues : used = <<c>> /\ c.ok
    /\ step \in {"open", "write"} => used \in Seq(Lngs!Sources) /\ AllGood(used)
    /\ step \in {"strings", "msgs", "attributes", "year", "new", "open"} =>
          Lngs!Found(cmdline.out) = before
    /\ step = "new" => cmdline.command = "freeze"
    /\ step \notin {"main", "done"} => cmdline.command # "help"
    /\ (/\ step \in {"msgs", "attributes", "year", "open", "write"}
        /\ cmdline.command = "freeze") => Lngs!Taken(sourced)[1].new
    /\ step = "write" => cmdline.out # "nowhere"
    /\ refused \in BOOLEAN

LngsInv ==
    /\ cmdline \in Lngs!Runs
    /\ LngsFiles
    /\ LngsPhases
    /\ Lngs!RefusedChangesNothing

------------------------------------------------------------------------------
(* Reading                                                                   *)

LEMMA LngsInit == Lngs!RunAssumption /\ Lngs!Init => LngsInv
<1> SUFFICES ASSUME Lngs!RunAssumption, Lngs!Init PROVE LngsInv
  OBVIOUS
<1> USE DEF Lngs!RunAssumption, Lngs!Init
<1>1. LngsFiles
  BY DEF LngsFiles, Lngs!WholeIsOfGoodSources, IdlRecord
<1>2. LngsPhases /\ Lngs!RefusedChangesNothing /\ cmdline \in Lngs!Runs
  BY DEF LngsPhases, Lngs!RefusedChangesNothing
<1> QED
  BY <1>1, <1>2 DEF LngsInv

(* A source that is good is one that lies whole.                             *)
LEMMA GoodIdl ==
    ASSUME LngsFiles
    PROVE  Lngs!IsGood(files["idl"]) =>
              \E i \in IdlRecord : files["idl"] = Lngs!Whole(<<i>>) /\ i.ok
BY DEF LngsFiles, Lngs!IsGood, Lngs!Whole, Lngs!Part

LEMMA GoodMsgs ==
    ASSUME LngsFiles
    PROVE  Lngs!IsGood(files["po"]) =>
              \E c \in RunCatalogues : Lngs!Taken(files["po"]) = <<c>> /\ c.ok
BY DEF LngsFiles, Lngs!IsGood, Lngs!Whole, Lngs!Taken

LEMMA GoodNames ==
    ASSUME LngsFiles
    PROVE  Lngs!IsGood(files["names"]) =>
              \E l \in RunLists : Lngs!Taken(files["names"]) = <<l>> /\ l.ok
BY DEF LngsFiles, Lngs!IsGood, Lngs!Whole, Lngs!Taken

(* Where files do not change, neither does what is said of them.             *)
LEMMA FilesStay ==
    ASSUME LngsInv, UNCHANGED <<files, cmdline>>
    PROVE  LngsFiles' /\ Lngs!Found(cmdline.out)' = Lngs!Found(cmdline.out)
           /\ cmdline' \in Lngs!Runs
BY DEF LngsInv, LngsFiles, Lngs!WholeIsOfGoodSources, Lngs!Found

LEMMA LngsCall ==
    ASSUME LngsInv, Lngs!Call
    PROVE  LngsInv'
BY FilesStay DEF LngsInv, Lngs!Call, Lngs!Exit, Lngs!commands, LngsPhases,
   Lngs!RefusedChangesNothing

LEMMA LngsReadStrings ==
    ASSUME LngsInv, Lngs!ReadStrings
    PROVE  LngsInv'
<1>1. LngsFiles' /\ Lngs!Found(cmdline.out)' = Lngs!Found(cmdline.out)
      /\ cmdline' \in Lngs!Runs /\ LngsFiles /\ LngsPhases
  BY FilesStay DEF LngsInv, Lngs!ReadStrings
<1>2. CASE Lngs!IsGood(files["idl"])
  <2>1. \E i \in IdlRecord : sourced' = Lngs!Whole(<<i>>) /\ i.ok
    BY <1>1, <1>2, GoodIdl DEF Lngs!ReadStrings
  <2>2. refused' = FALSE /\ step' = Lngs!AfterStrings /\ code' = code
    BY <1>2 DEF Lngs!ReadStrings
  <2>3. /\ step' \in {"msgs", "year", "new", "open"}
        /\ step' = "new" => cmdline.command = "freeze"
        /\ cmdline.command = "freeze" => step' = "new"
    BY <2>2 DEF Lngs!AfterStrings
  <2>4. used' = <<>> /\ before' = before /\ before = Lngs!Found(cmdline.out)
        /\ code = Lngs!Running
    BY <1>1 DEF Lngs!ReadStrings, LngsPhases
  <2>5. AllGood(<<>>) /\ <<>> \in Seq(Lngs!Sources)
    BY DEF AllGood
  <2> QED
    BY <1>1, <2>1, <2>2, <2>3, <2>4, <2>5
       DEF LngsInv, LngsPhases, Lngs!RefusedChangesNothing, Lngs!ReadStrings
<1>3. CASE ~Lngs!IsGood(files["idl"])
  BY <1>1, <1>3 DEF LngsInv, LngsPhases, Lngs!RefusedChangesNothing, Lngs!ReadStrings,
     Lngs!Exit
<1> QED
  BY <1>2, <1>3

LEMMA LngsLoadMsgs ==
    ASSUME LngsInv, Lngs!LoadMsgs
    PROVE  LngsInv'
<1>1. LngsFiles' /\ Lngs!Found(cmdline.out)' = Lngs!Found(cmdline.out)
      /\ cmdline' \in Lngs!Runs /\ LngsFiles /\ LngsPhases
  BY FilesStay DEF LngsInv, Lngs!LoadMsgs
<1>2. CASE Lngs!IsGood(files["po"])
  BY <1>1, <1>2, GoodMsgs
     DEF LngsInv, LngsPhases, Lngs!RefusedChangesNothing, Lngs!LoadMsgs
<1>3. CASE ~Lngs!IsGood(files["po"])
  BY <1>1, <1>3 DEF LngsInv, LngsPhases, Lngs!RefusedChangesNothing, Lngs!LoadMsgs,
     Lngs!Exit
<1> QED
  BY <1>2, <1>3

LEMMA LngsFixAttributes ==
    ASSUME Lngs!RunAssumption, LngsInv, Lngs!FixAttributes
    PROVE  LngsInv'
<1>1. LngsFiles' /\ Lngs!Found(cmdline.out)' = Lngs!Found(cmdline.out)
      /\ cmdline' \in Lngs!Runs /\ LngsFiles /\ LngsPhases
  BY FilesStay DEF LngsInv, Lngs!FixAttributes
<1>2. PICK c \in RunCatalogues : used = <<c>> /\ c.ok
  BY <1>1 DEF LngsPhases, Lngs!FixAttributes
<1> DEFINE asked == cmdline.list /\ used[1].culture
<1>3. CASE asked /\ ~Lngs!IsGood(files["names"])
  BY <1>1, <1>3 DEF LngsInv, LngsPhases, Lngs!RefusedChangesNothing, Lngs!FixAttributes,
     Lngs!Exit
<1>4. CASE ~(asked /\ ~Lngs!IsGood(files["names"]))
  <2>1. c \in Lngs!Sources
    BY DEF Lngs!RunAssumption, Lngs!Sources
  <2>2. used' \in Seq(Lngs!Sources) /\ AllGood(used')
    <3>1. CASE asked
      <4>1. PICK l \in RunLists : Lngs!Taken(files["names"]) = <<l>> /\ l.ok
        BY <1>1, <1>4, <3>1, GoodNames
      <4>2. used' = <<c>> \o <<l>>
        BY <1>2, <3>1, <4>1 DEF Lngs!FixAttributes
      <4>3. l \in Lngs!Sources
        BY DEF Lngs!RunAssumption, Lngs!Sources
      <4> QED
        BY <1>2, <2>1, <4>1, <4>2, <4>3 DEF AllGood
    <3>2. CASE ~asked
      BY <1>2, <2>1, <3>2 DEF Lngs!FixAttributes, AllGood
    <3> QED
      BY <3>1, <3>2
  <2>3. step' = "open" /\ refused' = FALSE /\ code' = code
    BY <1>4 DEF Lngs!FixAttributes
  <2> QED
    BY <1>1, <2>2, <2>3
       DEF LngsInv, LngsPhases, Lngs!RefusedChangesNothing, Lngs!FixAttributes
<1> QED
  BY <1>3, <1>4

------------------------------------------------------------------------------
(* Writing                                                                   *)

LEMMA LngsYearFromTemplate ==
    ASSUME LngsInv, Lngs!YearFromTemplate
    PROVE  LngsInv'
<1>1. LngsFiles' /\ Lngs!Found(cmdline.out)' = Lngs!Found(cmdline.out)
      /\ cmdline' \in Lngs!Runs
  BY FilesStay DEF Lngs!YearFromTemplate
<1>2. AllGood(<<>>) /\ <<>> \in Seq(Lngs!Sources)
  BY DEF AllGood
<1> QED
  BY <1>1, <1>2 DEF LngsInv, LngsPhases, Lngs!RefusedChangesNothing,
     Lngs!YearFromTemplate, Lngs!history

LEMMA LngsFreezeStrings ==
    ASSUME LngsInv, Lngs!FreezeStrings
    PROVE  LngsInv'
<1>1. LngsFiles' /\ Lngs!Found(cmdline.out)' = Lngs!Found(cmdline.out)
      /\ cmdline' \in Lngs!Runs
  BY FilesStay DEF Lngs!FreezeStrings
<1>2. AllGood(<<>>) /\ <<>> \in Seq(Lngs!Sources)
  BY DEF AllGood
<1> QED
  BY <1>1, <1>2 DEF LngsInv, LngsPhases, Lngs!RefusedChangesNothing,
     Lngs!FreezeStrings, Lngs!history, Lngs!Exit

LEMMA LngsOpenNoFile ==
    ASSUME LngsInv, Lngs!OpenStdout \/ Lngs!OpenFails
    PROVE  LngsInv'
<1>1. LngsFiles' /\ Lngs!Found(cmdline.out)' = Lngs!Found(cmdline.out)
      /\ cmdline' \in Lngs!Runs
  BY FilesStay DEF Lngs!OpenStdout, Lngs!OpenFails
<1>2. CASE Lngs!OpenStdout
  BY <1>1, <1>2 DEF LngsInv, LngsPhases, Lngs!RefusedChangesNothing,
     Lngs!OpenStdout, Lngs!history
<1>3. CASE Lngs!OpenFails
  BY <1>1, <1>3 DEF LngsInv, LngsPhases, Lngs!RefusedChangesNothing,
     Lngs!OpenFails, Lngs!history, Lngs!Exit
<1> QED
  BY <1>2, <1>3

(* Only freeze writes where its source is.                                   *)
LEMMA OutputChanges ==
    ASSUME LngsInv, cmdline.out \in Lngs!Outputs, NEW file,
           cmdline.out = "idl" =>
              file \in {Lngs!Part} \cup {Lngs!Whole(<<i>>) : i \in IdlRecord},
           cmdline.out = "out" => (file # NotThere /\ file.whole => AllGood(file.of)),
           files' = [files EXCEPT ![cmdline.out] = file]
    PROVE  LngsFiles'
<1>1. CASE cmdline.out = "idl"
  BY <1>1 DEF LngsInv, LngsFiles, Lngs!WholeIsOfGoodSources
<1>2. CASE cmdline.out = "out"
  BY <1>2 DEF LngsInv, LngsFiles, Lngs!WholeIsOfGoodSources, AllGood
<1> QED
  BY <1>1, <1>2 DEF Lngs!Outputs

LEMMA LngsOpenOutput ==
    ASSUME LngsInv, Lngs!OpenOutput
    PROVE  LngsInv'
<1>1. LngsFiles'
  BY OutputChanges DEF Lngs!OpenOutput, Lngs!Part
<1> QED
  BY <1>1 DEF LngsInv, LngsPhases, Lngs!RefusedChangesNothing, Lngs!OpenOutput,
     Lngs!Outputs, Lngs!history

(* What is written is of good sources, and a frozen .idl is an .idl.         *)
LEMMA TextIsGood ==
    ASSUME Lngs!RunAssumption, LngsInv, step = "write"
    PROVE  /\ Lngs!Text \in [whole : BOOLEAN, of : Seq(Lngs!Sources)]
           /\ AllGood(Lngs!Text.of)
           /\ cmdline.template \in Templates => Lngs!Text.whole
           /\ cmdline.command = "freeze" =>
                 Lngs!Text \in {Lngs!Part} \cup {Lngs!Whole(<<i>>) : i \in IdlRecord}
<1>1. PICK i \in IdlRecord : sourced = Lngs!Whole(<<i>>) /\ i.ok
  BY DEF LngsInv, LngsPhases
<1>2. Lngs!Taken(sourced) = <<i>>
  <2>1. i \in Lngs!Sources
    BY DEF Lngs!Sources, IdlRecord
  <2>2. <<i>> \in Seq(Lngs!Sources)
    BY <2>1
  <2>3. sourced # NotThere
    <3>1. Lngs!Whole(<<i>>) \in [whole : BOOLEAN, of : Seq(Lngs!Sources)]
      <4> DEFINE S == Seq(Lngs!Sources)
                 s == <<i>>
      <4>1. s \in S
        BY <2>2
      <4> HIDE DEF S, s
      <4>2. [whole |-> TRUE, of |-> s] \in [whole : BOOLEAN, of : S]
        BY <4>1
      <4> QED
        BY <4>2 DEF S, s, Lngs!Whole
    <3>2. NotThere \notin [whole : BOOLEAN, of : Seq(Lngs!Sources)]
      BY DEF Lngs!RunAssumption
    <3> QED
      BY <1>1, <3>1, <3>2, Zenon
  <2> QED
    BY <1>1, <2>3 DEF Lngs!Taken, Lngs!Whole
<1>3. used \in Seq(Lngs!Sources) /\ AllGood(used) /\ i \in Lngs!Sources
  BY DEF LngsInv, LngsPhases, Lngs!Sources, IdlRecord
<1>4. CASE cmdline.template \notin Templates
  BY <1>4 DEF Lngs!Text, Lngs!Part, AllGood
<1>5. CASE cmdline.template \in Templates /\ cmdline.command = "freeze"
  <2> DEFINE frozen == [i EXCEPT !.new = FALSE]
  <2>1. frozen \in IdlRecord /\ frozen.ok /\ frozen \in Lngs!Sources
    BY <1>1 DEF IdlRecord, Lngs!Sources
  <2>2. Lngs!Text = Lngs!Whole(<<frozen>>)
    BY <1>2, <1>5 DEF Lngs!Text
  <2> HIDE DEF frozen
  <2>3. <<frozen>> \in Seq(Lngs!Sources) /\ AllGood(<<frozen>>)
    BY <2>1 DEF AllGood
  <2>4. /\ Lngs!Text.whole /\ Lngs!Text.of = <<frozen>>
        /\ Lngs!Text \in [whole : BOOLEAN, of : Seq(Lngs!Sources)]
    BY <2>2, <2>3 DEF Lngs!Whole
  <2> QED
    BY <2>1, <2>2, <2>3, <2>4, Zenon
<1>6. CASE cmdline.template \in Templates /\ cmdline.command # "freeze"
  <2>1. Lngs!Text = Lngs!Whole(<<i>> \o used)
    BY <1>2, <1>6 DEF Lngs!Text
  <2>2. <<i>> \o used \in Seq(Lngs!Sources) /\ AllGood(<<i>> \o used)
    BY <1>1, <1>3 DEF AllGood
  <2> QED
    BY <1>6, <2>1, <2>2 DEF Lngs!Whole
<1> QED
  BY <1>4, <1>5, <1>6

LEMMA LngsWrite ==
    ASSUME Lngs!RunAssumption, LngsInv, Lngs!Write
    PROVE  LngsInv'
<1> DEFINE file == IF full THEN Lngs!Part ELSE Lngs!Text
<1>1. step = "write"
  BY DEF Lngs!Write
<1>2. LngsFiles'
  <2>1. CASE cmdline.out \notin Lngs!Outputs
    BY <2>1, FilesStay DEF Lngs!Write
  <2>2. CASE cmdline.out \in Lngs!Outputs
    <3>1. cmdline.out = "idl" => cmdline.command = "freeze"
      BY DEF LngsInv, Lngs!Runs
    <3>2. cmdline.out = "idl" =>
             file \in {Lngs!Part} \cup {Lngs!Whole(<<i>>) : i \in IdlRecord}
      BY <1>1, <3>1, TextIsGood
    <3>3. file # NotThere /\ file.whole => AllGood(file.of)
      BY <1>1, TextIsGood DEF Lngs!Part
    <3>4. files' = [files EXCEPT ![cmdline.out] = file]
      BY <2>2 DEF Lngs!Write
    <3> HIDE DEF file
    <3> QED
      BY <2>2, <3>2, <3>3, <3>4, OutputChanges
  <2> QED
    BY <2>1, <2>2
<1>3. refused' = FALSE /\ step' = "done" /\ cmdline' = cmdline
  BY <1>1 DEF Lngs!Write, Lngs!Exit, LngsInv, LngsPhases
<1> QED
  BY <1>2, <1>3 DEF LngsInv, LngsPhases, Lngs!RefusedChangesNothing

------------------------------------------------------------------------------
(* Around the tool                                                           *)

LEMMA LngsEdit ==
    ASSUME LngsInv, NEW path \in {"idl", "po", "names"}, NEW file, Lngs!Edit(path, file),
           path = "idl" => \E i \in IdlRecord : file = Lngs!Whole(<<i>>),
           path = "po" => \E c \in RunCatalogues : file = Lngs!Whole(<<c>>),
           path = "names" => \E l \in RunLists : file = Lngs!Whole(<<l>>)
    PROVE  LngsInv'
<1>1. files' = [files EXCEPT ![path] = file]
      /\ before' = (IF path = cmdline.out THEN file ELSE before)
      /\ UNCHANGED <<cmdline, sourced, used, code, step, refused>>
  BY DEF Lngs!Edit
<1>2. LngsFiles'
  BY <1>1 DEF LngsInv, LngsFiles, Lngs!WholeIsOfGoodSources
<1>3. Lngs!Found(cmdline.out) = before => Lngs!Found(cmdline.out)' = before'
  <2>1. CASE path = cmdline.out
    BY <1>1, <2>1 DEF LngsInv, LngsFiles, Lngs!Found, Lngs!Outputs, Lngs!Runs
  <2>2. CASE path # cmdline.out
    <3>1. cmdline.out \in Lngs!Outputs => files'[cmdline.out] = files[cmdline.out]
      BY <1>1, <2>2 DEF LngsInv, LngsFiles, Lngs!Outputs
    <3> QED
      BY <1>1, <2>2, <3>1 DEF Lngs!Found
  <2> QED
    BY <2>1, <2>2
<1> QED
  BY <1>1, <1>2, <1>3 DEF LngsInv, LngsPhases, Lngs!RefusedChangesNothing

LEMMA LngsRestart ==
    ASSUME LngsInv, NEW next \in Lngs!Runs, Lngs!Restart(next)
    PROVE  LngsInv'
<1>1. LngsFiles'
  BY DEF LngsInv, LngsFiles, Lngs!WholeIsOfGoodSources, Lngs!Restart
<1> QED
  BY <1>1 DEF LngsInv, LngsPhases, Lngs!RefusedChangesNothing, Lngs!Restart

LEMMA LngsStep ==
    ASSUME Lngs!RunAssumption, LngsInv, [Lngs!Next]_(Lngs!vars)
    PROVE  LngsInv'
<1>1. CASE Lngs!Command
  BY <1>1, LngsCall, LngsReadStrings, LngsLoadMsgs, LngsFixAttributes,
     LngsYearFromTemplate, LngsFreezeStrings, LngsOpenNoFile, LngsOpenOutput, LngsWrite
     DEF Lngs!Command
<1>2. ASSUME NEW idl \in Idls, Lngs!Edit("idl", Lngs!Whole(<<idl>>))
      PROVE  LngsInv'
  BY <1>2, LngsEdit DEF Lngs!RunAssumption, IdlRecord
<1>3. ASSUME NEW po \in RunCatalogues, Lngs!Edit("po", Lngs!Whole(<<po>>))
      PROVE  LngsInv'
  BY <1>3, LngsEdit
<1>4. ASSUME NEW names \in RunLists, Lngs!Edit("names", Lngs!Whole(<<names>>))
      PROVE  LngsInv'
  BY <1>4, LngsEdit
<1>5. CASE Lngs!FillOrClear
  <2>1. LngsFiles' /\ Lngs!Found(cmdline.out)' = Lngs!Found(cmdline.out)
        /\ cmdline' \in Lngs!Runs
    BY <1>5, FilesStay DEF Lngs!FillOrClear
  <2> QED
    BY <1>5, <2>1 DEF LngsInv, LngsPhases, Lngs!RefusedChangesNothing,
       Lngs!FillOrClear, Lngs!history
<1>6. ASSUME NEW next \in Lngs!Runs, Lngs!Restart(next)
      PROVE  LngsInv'
  BY <1>6, LngsRestart
<1>7. CASE UNCHANGED Lngs!vars
  <2>1. LngsFiles' /\ Lngs!Found(cmdline.out)' = Lngs!Found(cmdline.out)
        /\ cmdline' \in Lngs!Runs
    BY <1>7, FilesStay DEF Lngs!vars
  <2> QED
    BY <1>7, <2>1 DEF LngsInv, LngsPhases, Lngs!RefusedChangesNothing, Lngs!vars,
       Lngs!history
<1> QED
  BY <1>1, <1>2, <1>3, <1>4, <1>5, <1>6, <1>7 DEF Lngs!Next

(* A run that meets a source it refuses leaves its output alone, and nothing *)
(* that lies whole in the place of an output was made of a refused or a half *)
(* written source (lngs.cpp:56, 359-372): whatever sources there are, and    *)
(* however often the tool is run, killed or runs out of space.               *)
THEOREM GoodSources ==
    ASSUME Lngs!RunAssumption
    PROVE  Lngs!Spec => []OnlyGoodSourcesAreUsed
<1>1. Lngs!Init => LngsInv
  BY LngsInit
<1>2. LngsInv /\ [Lngs!Next]_(Lngs!vars) => LngsInv'
  BY LngsStep
<1>3. LngsInv => OnlyGoodSourcesAreUsed
  BY DEF LngsInv, LngsFiles, OnlyGoodSourcesAreUsed, Lngs!OnlyGoodSourcesAreUsed
<1> QED
  BY <1>1, <1>2, <1>3, PTL DEF Lngs!Spec

(* A run ends where it refuses something, where its output does not open,    *)
(* where freeze has nothing to do, and when it has written.                  *)
LEMMA EndStep ==
    ASSUME Lngs!RunAssumption, LngsInv, Lngs!Next, code = Lngs!Running, code' # Lngs!Running
    PROVE  Lngs!EndedAs
<1>1. code' # code
  OBVIOUS
<1>2. CASE Lngs!Write
  <2>1. /\ step = "write" /\ cmdline.out \in Lngs!Outputs \cup {"-"}
        /\ code' \in {-1, 0} /\ cmdline' = cmdline /\ cmdline.command # "help"
    BY <1>2 DEF Lngs!Write, Lngs!Exit, LngsInv, LngsPhases, Lngs!Runs, Lngs!Outputs
  <2>2. CASE cmdline.out = "-"
    <3>1. cmdline.out \notin Lngs!Outputs
      BY <2>2 DEF Lngs!Outputs
    <3>2. code' = 0
      BY <1>2, <3>1 DEF Lngs!Write, Lngs!Exit
    <3> QED
      BY <2>2, <3>2 DEF Lngs!EndedAs
  <2>3. CASE cmdline.out \in Lngs!Outputs
    <3>1. files' = [files EXCEPT ![cmdline.out] = IF full THEN Lngs!Part ELSE Lngs!Text]
      BY <1>2, <2>3 DEF Lngs!Write
    <3>2. spoiled' <=> full
      BY <1>2, <2>3, Zenon DEF Lngs!Write
    <3>3. code' = -1 => spoiled' /\ cmdline.command = "make"
      BY <1>2 DEF Lngs!Write, Lngs!Exit
    <3>4. files'[cmdline.out] = IF full THEN Lngs!Part ELSE Lngs!Text
      BY <2>3, <3>1 DEF LngsInv, LngsFiles, Lngs!Outputs
    <3>5. Lngs!Left' = IF full THEN Lngs!Part ELSE Lngs!Text
      BY <2>1, <2>3, <3>4 DEF Lngs!Left, Lngs!Found
    <3>6. CASE cmdline.template \notin Templates
      <4>1. Lngs!Text = Lngs!Part
        BY <3>6 DEF Lngs!Text
      <4>2. ~(cmdline.command = "freeze")
        BY <3>6 DEF LngsInv, Lngs!Runs
      <4> QED
        BY <2>1, <3>2, <3>3, <3>5, <3>6, <4>1, <4>2 DEF Lngs!EndedAs
    <3>7. CASE cmdline.template \in Templates
      <4>1. Lngs!Text # NotThere /\ Lngs!Text.whole
        BY <2>1, <3>7, TextIsGood DEF Lngs!RunAssumption
      <4>2. cmdline.command = "freeze" => Lngs!Taken(sourced)[1].new
        BY <2>1 DEF LngsInv, LngsPhases
      <4> QED
        BY <2>1, <3>2, <3>3, <3>5, <3>7, <4>1, <4>2 DEF Lngs!EndedAs
    <3> QED
      BY <3>6, <3>7
  <2> QED
    BY <2>1, <2>2, <2>3
<1>3. CASE Lngs!FreezeStrings
  <2>1. /\ step = "new" /\ code' = 0 /\ UNCHANGED <<files, cmdline, before>>
        /\ ~Lngs!Taken(sourced)[1].new
    BY <1>1, <1>3 DEF Lngs!FreezeStrings, Lngs!Exit, Lngs!history
  <2>2. cmdline.command = "freeze" /\ Lngs!Left = before
    BY <2>1 DEF LngsInv, LngsPhases, Lngs!Left
  <2>3. Lngs!Left' = before'
    BY <2>1, <2>2 DEF Lngs!Left, Lngs!Found
  <2> QED
    BY <2>1, <2>2, <2>3 DEF Lngs!EndedAs
<1>4. CASE Lngs!Call
  <2>1. before' = Lngs!Found(cmdline.out) /\ UNCHANGED <<files, cmdline>>
    BY <1>4 DEF Lngs!Call
  <2>2. Lngs!Left' = before'
    BY <2>1 DEF Lngs!Left, Lngs!Found
  <2>3. CASE cmdline.command = "help"
    <3>1. code' = 0
      BY <1>1, <1>4, <2>3 DEF Lngs!Call, Lngs!Exit
    <3> QED
      BY <1>1, <2>1, <2>2, <2>3, <3>1 DEF Lngs!EndedAs
  <2>4. CASE cmdline.command # "help"
    <3>1. code' = 2
      BY <1>1, <1>4, <2>4 DEF Lngs!Call, Lngs!Exit
    <3> QED
      BY <2>1, <2>2, <3>1 DEF Lngs!EndedAs
  <2> QED
    BY <2>3, <2>4
<1>5. CASE Lngs!ReadStrings \/ Lngs!LoadMsgs \/ Lngs!FixAttributes \/ Lngs!OpenFails
  <2>1. /\ step \in {"strings", "msgs", "attributes", "open"} /\ code' = 1
        /\ UNCHANGED <<files, cmdline, before>>
    BY <1>1, <1>5 DEF Lngs!ReadStrings, Lngs!LoadMsgs, Lngs!FixAttributes,
       Lngs!OpenFails, Lngs!Exit, Lngs!history
  <2>2. Lngs!Left = before
    BY <2>1 DEF LngsInv, LngsPhases, Lngs!Left
  <2>3. Lngs!Left' = before'
    BY <2>1, <2>2 DEF Lngs!Left, Lngs!Found
  <2> QED
    BY <2>1, <2>3 DEF Lngs!EndedAs
<1>6. CASE Lngs!YearFromTemplate \/ Lngs!OpenStdout \/ Lngs!OpenOutput
  BY <1>1, <1>6 DEF Lngs!YearFromTemplate, Lngs!OpenStdout, Lngs!OpenOutput
<1>7. CASE ~Lngs!Command
  BY <1>1, <1>7 DEF Lngs!Next, Lngs!Edit, Lngs!FillOrClear, Lngs!Restart, Lngs!Running
<1> QED
  BY <1>2, <1>3, <1>4, <1>5, <1>6, <1>7 DEF Lngs!Command

(* What a run of lngs says in the end goes with what it has left: after 1    *)
(* and 2 the output as it was, after -1 half a file of make's, and after 0   *)
(* a whole file if the disk has taken all of it, and half of it if not, but  *)
(* for a template that is not found, a freeze with nothing to do and help:   *)
(* with any sources, and whichever runs were killed before it                *)
(* (lngs.cpp:40-65).                                                         *)
THEOREM ResultIsOfWhatIsLeft ==
    ASSUME Lngs!RunAssumption
    PROVE  Lngs!Spec => Lngs!ResultTellsWhatIsLeft
<1>1. Lngs!Init => LngsInv
  BY LngsInit
<1>2. LngsInv /\ [Lngs!Next]_(Lngs!vars) => LngsInv'
  BY LngsStep
<1> DEFINE Ends == code = Lngs!Running /\ code' # Lngs!Running
<1>3. LngsInv /\ [Lngs!Next]_(Lngs!vars) => [Ends => Lngs!EndedAs]_(Lngs!vars)
  BY EndStep
<1>4. Lngs!Spec => [][Ends => Lngs!EndedAs]_(Lngs!vars)
  <2> HIDE DEF Ends, Lngs!EndedAs
  <2> QED
    BY <1>1, <1>2, <1>3, PTL DEF Lngs!Spec
<1> QED
  BY <1>4 DEF Lngs!ResultTellsWhatIsLeft

------------------------------------------------------------------------------
(* GettextMo: the reader of .mo files                                        *)

(* A file that was read has passed all the checks.                           *)
MoInv ==
    /\ mo \in MoInputs
    /\ verdict = "read" =>
          /\ Mo!BlocksInOrder /\ Mo!TablesFit
          /\ Mo!OffsetsValid(Mo!Originals) /\ Mo!OffsetsValid(Mo!Translation)

(* A word of the file is a number, also one that is not there.               *)
LEMMA WordsAreNumbers ==
    ASSUME Mo!MoAssumption, mo \in MoInputs, NEW off \in Nat, NEW reverse
    PROVE  Mo!IntFromOffset(off, reverse) \in Nat
<1> DEFINE bytes == mo.bytes
<1>1. bytes \in Seq(0 .. MoBase - 1) /\ MoBase \in Nat \ {0}
  BY DEF Mo!MoAssumption
<1>2. CASE Len(bytes) - off < 2
  BY <1>2 DEF Mo!IntFromOffset, Mo!Size, Mo!Bytes, Mo!WordSize
<1>3. CASE ~(Len(bytes) - off < 2)
  <2>1. off + 1 \in 1 .. Len(bytes) /\ off + 2 \in 1 .. Len(bytes) /\ off + 1 + 1 = off + 2
    BY <1>1, <1>3
  <2>2. bytes[off + 1] \in 0 .. MoBase - 1 /\ bytes[off + 2] \in 0 .. MoBase - 1
    BY <1>1, <2>1
  <2>3. /\ bytes[off + 1] * MoBase + bytes[off + 2] \in Nat
        /\ bytes[off + 2] * MoBase + bytes[off + 1] \in Nat
    <3>1. ASSUME NEW x \in Nat, NEW y \in Nat, NEW b \in Nat PROVE x * b + y \in Nat
      OBVIOUS
    <3>2. bytes[off + 1] \in Nat /\ bytes[off + 2] \in Nat /\ MoBase \in Nat
      BY <1>1, <2>2
    <3> HIDE DEF bytes
    <3>3. QED
      BY <3>1, <3>2
  <2>4. /\ Mo!ByteAt(off) = bytes[off + 1] /\ Mo!ByteAt(off + 1) = bytes[off + 2]
    BY <2>1 DEF Mo!ByteAt, Mo!Bytes
  <2>5. ~(Mo!Size - off < Mo!WordSize)
    BY <1>3 DEF Mo!Size, Mo!Bytes, Mo!WordSize
  <2> HIDE DEF bytes
  <2>6. QED
    BY <2>3, <2>4, <2>5, Zenon DEF Mo!IntFromOffset
<1>4. QED
  BY <1>2, <1>3

LEMMA MoNumbers ==
    ASSUME Mo!MoAssumption, mo \in MoInputs
    PROVE  /\ Mo!Count \in Nat /\ Mo!Originals \in Nat /\ Mo!Translation \in Nat
           /\ Mo!HashSize \in Nat /\ Mo!HashPos \in Nat /\ Mo!Size \in Nat
           /\ \A table \in Nat, i \in Mo!Entries :
                 Mo!Length(table, i) \in Nat /\ Mo!Offset(table, i) \in Nat
<1>1. \A n \in Nat : Mo!Word(n) \in Nat
  <2>1. \A n \in Nat : n * Mo!WordSize \in Nat
    BY DEF Mo!WordSize
  <2>2. QED
    BY <2>1, WordsAreNumbers DEF Mo!Word
<1>2. Mo!Size \in Nat
  BY DEF Mo!MoAssumption, Mo!Size, Mo!Bytes
<1>3. Mo!Count \in Nat
  BY <1>1 DEF Mo!Count
<1>4. ASSUME NEW table \in Nat, NEW i \in Mo!Entries
      PROVE  Mo!Length(table, i) \in Nat /\ Mo!Offset(table, i) \in Nat
  <2>1. table + i * Mo!Entry \in Nat /\ table + i * Mo!Entry + Mo!WordSize \in Nat
    BY <1>3 DEF Mo!Entries, Mo!Entry, Mo!WordSize
  <2>2. QED
    BY <2>1, WordsAreNumbers DEF Mo!Length, Mo!Offset
<1>5. QED
  BY <1>1, <1>2, <1>3, <1>4
     DEF Mo!Originals, Mo!Translation, Mo!HashSize, Mo!HashPos

LEMMA MoStep == MoInv /\ [Mo!Next]_(Mo!vars) => MoInv'
<1> SUFFICES ASSUME MoInv, [Mo!Next]_(Mo!vars) PROVE MoInv'
  OBVIOUS
<1>1. CASE Mo!NotMo \/ Mo!BlocksOverlap \/ Mo!FileTruncated \/ Mo!StringsInvalid
  BY <1>1 DEF MoInv, Mo!NotMo, Mo!BlocksOverlap, Mo!FileTruncated, Mo!StringsInvalid,
     Mo!Answer
<1> DEFINE Checks == /\ Mo!BlocksInOrder /\ Mo!TablesFit
                     /\ Mo!OffsetsValid(Mo!Originals) /\ Mo!OffsetsValid(Mo!Translation)
<1>2. mo' = mo => (Checks <=> Checks')
  <2> SUFFICES ASSUME mo' = mo PROVE Checks <=> Checks'
    OBVIOUS
  <2>1. /\ Mo!Size' = Mo!Size
        /\ \A off : Mo!ByteAt(off)' = Mo!ByteAt(off)
    BY DEF Mo!Size, Mo!Bytes, Mo!ByteAt
  <2>2. \A off, reverse : Mo!IntFromOffset(off, reverse)' = Mo!IntFromOffset(off, reverse)
    BY <2>1, Zenon DEF Mo!IntFromOffset
  <2>3. \A n : Mo!Word(n)' = Mo!Word(n)
    BY <2>2, Zenon DEF Mo!Word, Mo!Reversed
  <2>4. /\ Mo!Count' = Mo!Count /\ Mo!Originals' = Mo!Originals
        /\ Mo!Translation' = Mo!Translation /\ Mo!HashPos' = Mo!HashPos
        /\ Mo!HashTop' = Mo!HashTop /\ Mo!Entries' = Mo!Entries
    BY <2>3, Zenon DEF Mo!Count, Mo!Originals, Mo!Translation, Mo!HashPos, Mo!HashSize,
       Mo!HashTop, Mo!Entries
  <2>5. \A table, i : /\ Mo!Length(table, i)' = Mo!Length(table, i)
                      /\ Mo!Offset(table, i)' = Mo!Offset(table, i)
    BY <2>2, Zenon DEF Mo!Length, Mo!Offset, Mo!Reversed
  <2>6. \A table : Mo!OffsetsValid(table)' <=> Mo!OffsetsValid(table)
    BY <2>1, <2>4, <2>5, Zenon DEF Mo!OffsetsValid, Mo!Outside, Mo!Truncated, Mo!NotAsciiz
  <2>7. (Mo!BlocksInOrder' <=> Mo!BlocksInOrder) /\ (Mo!TablesFit' <=> Mo!TablesFit)
    BY <2>4, Zenon DEF Mo!BlocksInOrder, Mo!TablesFit
  <2>8. QED
    BY <2>4, <2>6, <2>7, Zenon
<1>3. CASE Mo!Read
  <2>1. Checks /\ mo' = mo
    BY <1>3 DEF Mo!Read, Mo!Whole, Mo!Answer
  <2>2. QED
    BY <1>2, <2>1 DEF MoInv
<1>4. CASE UNCHANGED Mo!vars
  BY <1>2, <1>4 DEF MoInv, Mo!vars
<1>5. QED
  BY <1>1, <1>3, <1>4 DEF Mo!Next

(* The strings of a table that has passed the checks lie behind the hash     *)
(* table and in the file.                                                    *)
LEMMA StringsAreInside ==
    ASSUME Mo!MoAssumption, mo \in MoInputs, NEW table \in Nat, Mo!OffsetsValid(table),
           NEW i \in Mo!Entries
    PROVE  /\ Mo!Offset(table, i) + Mo!Length(table, i) <= Mo!Size
           /\ Mo!Length(table, i) > 0 =>
                 /\ Mo!Offset(table, i) + Mo!Length(table, i) < Mo!Size
                 /\ Mo!ByteAt(Mo!Offset(table, i) + Mo!Length(table, i)) = 0
           /\ ~(Mo!Offset(table, i) < Mo!HashTop)
<1> DEFINE o == Mo!Offset(table, i)
           l == Mo!Length(table, i)
<1>1. o \in Nat /\ l \in Nat /\ Mo!Size \in Nat
  BY MoNumbers
<1>2. ~(o < Mo!HashTop) /\ ~(o > Mo!Size \/ Mo!Size - o < l)
      /\ ~(l > 0 /\ (o + l = Mo!Size \/ Mo!ByteAt(o + l) # 0))
  BY Zenon DEF Mo!OffsetsValid, Mo!Outside, Mo!Truncated, Mo!NotAsciiz
<1> HIDE DEF o, l
<1>3. o + l <= Mo!Size /\ (l > 0 => o + l < Mo!Size /\ Mo!ByteAt(o + l) = 0)
  BY <1>1, <1>2
<1>4. QED
  BY <1>2, <1>3 DEF o, l

LEMMA MoInvImplies ==
    ASSUME Mo!MoAssumption, MoInv
    PROVE  MoStaysInFile
<1>1. ASSUME verdict = "read", NEW s \in Mo!Strings
      PROVE  /\ s[2] + s[1] <= Mo!Size
             /\ s[1] > 0 => s[2] + s[1] < Mo!Size /\ Mo!ByteAt(s[2] + s[1]) = 0
             /\ ~(s[2] < Mo!HashTop) /\ s[2] \in Nat
  <2>1. PICK table \in {Mo!Originals, Mo!Translation}, i \in Mo!Entries :
           s = <<Mo!Length(table, i), Mo!Offset(table, i)>>
    BY <1>1 DEF Mo!Strings
  <2>2. table \in Nat /\ Mo!OffsetsValid(table) /\ mo \in MoInputs
    BY <1>1, MoNumbers DEF MoInv
  <2>3. s[1] = Mo!Length(table, i) /\ s[2] = Mo!Offset(table, i)
    BY <2>1
  <2>4. Mo!Offset(table, i) \in Nat
    BY <2>2, MoNumbers
  <2>5. QED
    BY <2>2, <2>3, <2>4, StringsAreInside
<1>2. Mo!StringsLieInFile
  BY <1>1 DEF Mo!StringsLieInFile
<1>3. ASSUME verdict = "read", 2 * Mo!Count < Mo!Modulus,
             Mo!HashPos + Mo!HashSize < Mo!Modulus
      PROVE  /\ Mo!HeaderSize <= Mo!Originals
             /\ Mo!Originals + Mo!Count * Mo!Entry <= Mo!Translation
             /\ Mo!Translation + Mo!Count * Mo!Entry <= Mo!HashPos
             /\ \A s \in Mo!Strings : Mo!HashPos <= s[2]
  <2>1. /\ Mo!Count \in Nat /\ Mo!Originals \in Nat /\ Mo!Translation \in Nat
        /\ Mo!HashSize \in Nat /\ Mo!HashPos \in Nat
    BY MoNumbers DEF MoInv
  <2>2. Mo!Modulus \in Nat \ {0}
    BY DEF Mo!MoAssumption, Mo!Modulus
  <2>3. ASSUME NEW n \in Nat, NEW m \in Nat \ {0}, n < m PROVE n % m = n
    BY <2>3
  <2>4. /\ (Mo!Count * 2) % Mo!Modulus = Mo!Count * 2
        /\ Mo!HashTop = Mo!HashPos + Mo!HashSize
    <3>1. Mo!Count * 2 \in Nat /\ Mo!Count * 2 < Mo!Modulus
      BY <1>3, <2>1
    <3>2. Mo!HashPos + Mo!HashSize \in Nat
      BY <2>1
    <3>3. QED
      BY <1>3, <2>2, <2>3, <3>1, <3>2 DEF Mo!HashTop
  <2>5. /\ Mo!Translation - Mo!Originals >= Mo!Count * 2 * 2
        /\ Mo!HashPos - Mo!Translation >= Mo!Count * 2 * 2
        /\ Mo!HeaderSize <= Mo!Originals
    BY <1>3, <2>4 DEF MoInv, Mo!TablesFit, Mo!BlocksInOrder, Mo!WordSize
  <2>6. /\ Mo!Originals + Mo!Count * 4 <= Mo!Translation
        /\ Mo!Translation + Mo!Count * 4 <= Mo!HashPos
    BY <2>1, <2>5
  <2>7. Mo!Entry = 4
    BY DEF Mo!Entry, Mo!WordSize
  <2>8. ASSUME NEW s \in Mo!Strings PROVE Mo!HashPos <= s[2]
    BY <1>1, <1>3, <2>1, <2>4, <2>8
  <2>9. QED
    BY <2>5, <2>6, <2>7, <2>8
<1>4. Mo!TablesLieApart
  BY <1>3 DEF Mo!TablesLieApart
<1>5. QED
  BY <1>2, <1>4 DEF MoStaysInFile

(* Whatever bytes a .mo is made of, of a file that is read no string leaves  *)
(* it, each ends with a zero, and its tables lie apart and ahead of the      *)
(* strings (gettext.cpp:136-188): for files of any size, however damaged.    *)
THEOREM MoIsSafe ==
    ASSUME Mo!MoAssumption
    PROVE  Mo!Spec => []MoStaysInFile
<1>1. Mo!Init => MoInv
  BY DEF Mo!Init, MoInv
<1>2. MoInv /\ [Mo!Next]_(Mo!vars) => MoInv'
  BY MoStep
<1>3. MoInv => MoStaysInFile
  BY MoInvImplies
<1>4. QED
  BY <1>1, <1>2, <1>3, PTL DEF Mo!Spec

------------------------------------------------------------------------------
(* SystemLocales: the sources of system_locales, one after the other         *)

Values == Seq(Ranges)
SourceNames == {"LANGUAGE", "all", "messages", "LC_ALL", "LC_MESSAGES", "LANG"}

SysInv ==
    /\ env \in [LANGUAGE : Values, LC_ALL : Values, LC_MESSAGES : Values,
                LC_CTYPE : Values, LANG : Values]
    /\ cats \in [LC_MESSAGES : Values, LC_CTYPE : Values]
    /\ sources \in Seq(SourceNames)
    /\ rest \in Values
    /\ listing \in {"set", "try", "done"}

LEMMA SysInit == Sys!SystemAssumption /\ Sys!Init => SysInv
BY DEF Sys!SystemAssumption, Sys!Init, Sys!Sources, SysInv, Values, SourceNames

(* What setlocale leaves is what it knows, or what was there before.         *)
LEMMA CategoriesAreValues ==
    ASSUME Sys!SystemAssumption, SysInv
    PROVE  Sys!CatsInUse \in [LC_MESSAGES : Values, LC_CTYPE : Values]
<1>1. ASSUME \A category \in DOMAIN cats : Sys!Wanted[category] \in SomeValues
      PROVE  Sys!Wanted \in [LC_MESSAGES : Values, LC_CTYPE : Values]
  <2>1. DOMAIN cats = {"LC_MESSAGES", "LC_CTYPE"}
    BY DEF SysInv
  <2>2. \A v \in SomeValues : v \in Values
    BY DEF Sys!SystemAssumption, Values
  <2>3. DOMAIN Sys!Wanted = {"LC_MESSAGES", "LC_CTYPE"}
    BY <2>1 DEF Sys!Wanted
  <2>4. Sys!Wanted = [c \in {"LC_MESSAGES", "LC_CTYPE"} |-> Sys!Wanted[c]]
    BY <2>1 DEF Sys!Wanted
  <2> HIDE DEF Sys!Wanted
  <2>5. QED
    BY <1>1, <2>1, <2>2, <2>3, <2>4
<1>2. QED
  BY <1>1 DEF Sys!CatsInUse, Sys!AfterSetlocale, SysInv

LEMMA NamesAreLanguages ==
    ASSUME SysInv, NEW source \in SourceNames,
           NEW categories \in [LC_MESSAGES : Values, LC_CTYPE : Values]
    PROVE  Sys!NamesIn(Sys!Value(source, categories)) \in Values
<1>1. <<>> \in Values
  BY EmptySeq DEF Values
<1>2. env[source] \in Values \/ source \in {"all", "messages"}
  BY DEF SysInv, SourceNames
<1>3. QED
  BY <1>1, <1>2 DEF Sys!NamesIn, Sys!Value, Sys!All

(* The operator of the community modules, which the instance has under a     *)
(* name of its own                                                           *)
LEMMA SameFlatten == \A seqs : Sys!FlattenSeq(seqs) = FlattenSeq(seqs)
BY Zenon DEF Sys!FlattenSeq, FlattenSeq

(* The languages of several sources are those of the first and of the rest.  *)
LEMMA LanguagesOneByOne ==
    ASSUME SysInv, NEW list_of \in Seq(SourceNames),
           NEW categories \in [LC_MESSAGES : Values, LC_CTYPE : Values]
    PROVE  /\ Sys!Languages(list_of, categories) \in Values
           /\ list_of = <<>> => Sys!Languages(list_of, categories) = <<>>
           /\ list_of # <<>> =>
                 Sys!Languages(list_of, categories) =
                     Sys!NamesIn(Sys!Value(Head(list_of), categories))
                         \o Sys!Languages(Tail(list_of), categories)
<1> DEFINE names(source) == Sys!NamesIn(Sys!Value(source, categories))
           each(seq) == [n \in DOMAIN seq |-> names(seq[n])]
<1>1. \A source \in SourceNames : names(source) \in Values
  BY NamesAreLanguages
<1>4. \A seq : Sys!Languages(seq, categories) = FlattenSeq(each(seq))
  BY SameFlatten, Zenon DEF Sys!Languages
<1> HIDE DEF names
<1>2. ASSUME NEW seq \in Seq(SourceNames)
      PROVE  each(seq) \in Seq(Values) /\ Len(each(seq)) = Len(seq)
  <2>1. DOMAIN seq = 1 .. Len(seq) /\ Len(seq) \in Nat
        /\ \A n \in 1 .. Len(seq) : seq[n] \in SourceNames
    OBVIOUS
  <2>2. QED
    BY <1>1, <2>1
<1>3. each(list_of) \in Seq(Values) /\ Len(each(list_of)) = Len(list_of)
  BY <1>2
<1>5. FlattenSeq(each(list_of)) \in Values
  BY <1>3, FlattenFacts DEF Values
<1>6. ASSUME list_of = <<>> PROVE FlattenSeq(each(list_of)) = <<>>
  <2>1. each(list_of) = <<>>
    BY <1>6
  <2>2. QED
    BY <2>1 DEF FlattenSeq
<1>7. ASSUME list_of # <<>>
      PROVE  FlattenSeq(each(list_of)) =
                 names(Head(list_of)) \o FlattenSeq(each(Tail(list_of)))
  <2>1. /\ Tail(list_of) \in Seq(SourceNames) /\ Len(list_of) \in Nat \ {0}
        /\ Len(Tail(list_of)) = Len(list_of) - 1 /\ Head(list_of) = list_of[1]
        /\ \A n \in 1 .. Len(list_of) - 1 : Tail(list_of)[n] = list_of[n + 1]
    BY <1>7
  <2>2. each(list_of) # <<>> /\ Head(each(list_of)) = names(Head(list_of))
    BY <1>3, <2>1
  <2>3. Tail(each(list_of)) = each(Tail(list_of))
    <3>1. each(Tail(list_of)) \in Seq(Values)
          /\ Len(each(Tail(list_of))) = Len(list_of) - 1
      BY <1>2, <2>1
    <3>2. Tail(each(list_of)) \in Seq(Values)
          /\ Len(Tail(each(list_of))) = Len(list_of) - 1
          /\ \A n \in 1 .. Len(list_of) - 1 : Tail(each(list_of))[n] = each(list_of)[n + 1]
      BY <1>3, <2>2
    <3>3. ASSUME NEW n \in 1 .. Len(list_of) - 1
          PROVE  each(Tail(list_of))[n] = each(list_of)[n + 1]
      BY <2>1
    <3>4. QED
      BY <3>1, <3>2, <3>3, SeqEqual
  <2> HIDE DEF each
  <2>4. QED
    BY <1>3, <2>2, <2>3, FlattenHead DEF Values
<1> HIDE DEF each
<1>8. QED
  BY <1>4, <1>5, <1>6, <1>7 DEF names

LEMMA SysStep ==
    ASSUME Sys!SystemAssumption, SysInv, [Sys!Next]_(Sys!vars)
    PROVE  SysInv'
<1>1. CASE UNCHANGED Sys!vars
  BY <1>1 DEF Sys!vars, SysInv
<1>2. CASE Sys!InitSetlocale
  <2>1. cats' \in [LC_MESSAGES : Values, LC_CTYPE : Values]
    BY <1>2, CategoriesAreValues DEF Sys!InitSetlocale
  <2>2. QED
    BY <1>2, <2>1 DEF Sys!InitSetlocale, SysInv
<1>3. CASE Sys!Try
  <2>1. Head(sources) \in SourceNames /\ Tail(sources) \in Seq(SourceNames)
    BY <1>3 DEF Sys!Try, SysInv
  <2>2. rest' \in Values
    <3>1. cats \in [LC_MESSAGES : Values, LC_CTYPE : Values]
      BY DEF SysInv
    <3>2. Sys!NamesIn(Sys!Value(Head(sources), cats)) \in Values
      BY <2>1, <3>1, NamesAreLanguages
    <3>3. QED
      BY <1>3, <3>2 DEF Sys!Try
  <2>3. QED
    BY <1>3, <2>1, <2>2 DEF Sys!Try, SysInv
<1>4. CASE Sys!AppendLocale
  BY <1>4 DEF Sys!AppendLocale, SysInv, Values
<1>5. CASE Sys!Return
  BY <1>5 DEF Sys!Return, SysInv
<1>6. QED
  BY <1>1, <1>2, <1>3, <1>4, <1>5 DEF Sys!Next

(* The languages that are still to come, as Locales has them                 *)
Coming == rest \o Sys!Languages(sources, Sys!CatsInUse)

(* The step that sets the locale is the one the mapping has looked ahead to. *)
LEMMA InUseStays ==
    ASSUME [Sys!Next]_(Sys!vars)
    PROVE  /\ Sys!CatsInUse' = Sys!CatsInUse
           /\ \A list_of : Sys!Languages(list_of, Sys!CatsInUse)' =
                               Sys!Languages(list_of, Sys!CatsInUse)
<1>1. env' = env /\ Sys!CatsInUse' = Sys!CatsInUse
  <2>1. CASE Sys!InitSetlocale
    BY <2>1 DEF Sys!InitSetlocale, Sys!CatsInUse
  <2>2. CASE Sys!Try \/ Sys!AppendLocale \/ Sys!Return
    BY <2>2 DEF Sys!Try, Sys!AppendLocale, Sys!Return, Sys!CatsInUse
  <2>3. CASE UNCHANGED Sys!vars
    BY <2>3 DEF Sys!vars, Sys!CatsInUse, Sys!AfterSetlocale, Sys!Wanted,
                Sys!FromEnvironment
  <2>4. QED
    BY <2>1, <2>2, <2>3 DEF Sys!Next
<1>2. QED
  BY <1>1, Zenon DEF Sys!Languages, Sys!NamesIn, Sys!Value, Sys!All

(* Every step is a step of Locales or changes nothing it sees.               *)
LEMMA SysImplements ==
    ASSUME Sys!SystemAssumption, SysInv, [Sys!Next]_(Sys!vars)
    PROVE  [Sys!L!LocalesNext]_(Sys!L!localesVars)
<1> DEFINE Asked == Sys!Languages(Sys!Sources, Sys!CatsInUse)
           Here == IF listing = "done" THEN "done" ELSE "system"
<1>2. /\ Asked' = Asked
      /\ Sys!Languages(sources, Sys!CatsInUse)'
             = Sys!Languages(sources', Sys!CatsInUse)
  BY InUseStays DEF Sys!Sources
<1>3. /\ Sys!CatsInUse \in [LC_MESSAGES : Values, LC_CTYPE : Values]
      /\ sources \in Seq(SourceNames) /\ rest \in Values
  BY CategoriesAreValues DEF SysInv
<1>4. Sys!Languages(sources, Sys!CatsInUse) \in Values
  BY <1>3, LanguagesOneByOne
<1> DEFINE NothingSeen == UNCHANGED << Coming, list, Here, Asked >>
<1>5. NothingSeen => UNCHANGED Sys!L!localesVars
  BY DEF Sys!L!localesVars, Coming
<1>6. CASE Sys!InitSetlocale \/ UNCHANGED Sys!vars
  <2>1. rest' = rest /\ sources' = sources /\ list' = list /\ Here' = Here
    BY <1>6 DEF Sys!InitSetlocale, Sys!vars
  <2>2. QED
    BY <1>2, <1>5, <2>1 DEF Coming
<1>7. CASE Sys!Try
  <2>1. /\ rest = <<>> /\ sources # <<>> /\ sources' = Tail(sources)
        /\ rest' = Sys!NamesIn(Sys!Value(Head(sources), cats))
        /\ list' = list /\ Here' = Here /\ Sys!CatsInUse = cats
    BY <1>7 DEF Sys!Try, Sys!CatsInUse
  <2>2. Sys!Languages(sources, Sys!CatsInUse) =
            rest' \o Sys!Languages(Tail(sources), Sys!CatsInUse)
    BY <1>3, <2>1, LanguagesOneByOne
  <2>3. Coming = Sys!Languages(sources, Sys!CatsInUse)
    <3>1. ASSUME NEW s \in Values PROVE <<>> \o s = s
      BY ConcatEmptySeq DEF Values
    <3>2. QED
      BY <1>4, <2>1, <3>1, Zenon DEF Coming
  <2>4. Coming' = rest' \o Sys!Languages(Tail(sources), Sys!CatsInUse)
    BY <1>2, <2>1 DEF Coming
  <2>5. QED
    BY <1>2, <1>5, <2>1, <2>2, <2>3, <2>4
<1>8. CASE Sys!AppendLocale
  <2>1. /\ rest # <<>> /\ rest' = Tail(rest) /\ sources' = sources
        /\ list' = Sys!L!WithShorter(list, Head(rest))
        /\ listing' = listing /\ listing = "try"
    BY <1>8 DEF Sys!AppendLocale
  <2>2. ASSUME NEW s \in Values, NEW t \in Values, s # <<>>
        PROVE  /\ s \o t # <<>> /\ Head(s \o t) = Head(s)
               /\ Tail(s \o t) = Tail(s) \o t
    BY <2>2 DEF Values
  <2>3. Coming # <<>> /\ Head(Coming) = Head(rest)
        /\ Tail(Coming) = Tail(rest) \o Sys!Languages(sources, Sys!CatsInUse)
    BY <1>3, <1>4, <2>1, <2>2, Zenon DEF Coming
  <2>4. Coming' = Tail(Coming)
    BY <1>2, <2>1, <2>3 DEF Coming
  <2>5. Sys!L!AppendLocale
    BY <1>2, <2>1, <2>3, <2>4 DEF Sys!L!AppendLocale, Coming
  <2>6. QED
    BY <2>5 DEF Sys!L!LocalesNext
<1>9. CASE Sys!Return
  <2>1. /\ rest = <<>> /\ sources = <<>> /\ rest' = rest /\ sources' = sources
        /\ list' = Sys!L!WithShorter(list, LastResort)
        /\ listing = "try" /\ listing' = "done"
    BY <1>9 DEF Sys!Return
  <2>2. Sys!Languages(sources, Sys!CatsInUse) = <<>>
    BY <1>3, <2>1, LanguagesOneByOne
  <2>3. Coming = <<>> /\ Coming' = <<>>
    BY <1>2, <2>1, <2>2 DEF Coming
  <2>4. Sys!L!ReturnSystem
    BY <1>2, <2>1, <2>3 DEF Sys!L!ReturnSystem, Coming
  <2>5. QED
    BY <2>4 DEF Sys!L!LocalesNext
<1>10. QED
  BY <1>6, <1>7, <1>8, <1>9 DEF Sys!Next

LEMMA SysStarts ==
    ASSUME Sys!SystemAssumption, Sys!Init
    PROVE  Sys!L!LocalesInit
<1>1. SysInv
  BY SysInit
<1>2. /\ sources = Sys!Sources /\ rest = <<>> /\ list = <<>> /\ listing = "set"
  BY DEF Sys!Init
<1>3. Sys!Languages(sources, Sys!CatsInUse) \in Values
  <2>1. Sys!CatsInUse \in [LC_MESSAGES : Values, LC_CTYPE : Values]
    BY <1>1, CategoriesAreValues
  <2>2. sources \in Seq(SourceNames)
    BY <1>1 DEF SysInv
  <2>3. QED
    BY <1>1, <2>1, <2>2, LanguagesOneByOne
<1>4. rest \o Sys!Languages(sources, Sys!CatsInUse)
         = Sys!Languages(Sys!Sources, Sys!CatsInUse)
  <2>1. ASSUME NEW s \in Values PROVE <<>> \o s = s
    BY ConcatEmptySeq DEF Values
  <2>2. QED
    BY <1>2, <1>3, <2>1, Zenon
<1>5. QED
  BY <1>2, <1>3, <1>4 DEF Sys!L!LocalesInit, Values

(* system_locales makes its list as Locales says, of the languages of all    *)
(* its sources in their order, whatever setlocale did before it looked at    *)
(* them (lngs_storage.cpp:30-172): for any environment and any locales that  *)
(* are installed.                                                            *)
THEOREM SystemIsLocales ==
    ASSUME Sys!SystemAssumption
    PROVE  Sys!Spec => Sys!ImplementsLocales /\ ImplementsLocales
<1>1. Sys!Init => SysInv /\ Sys!L!LocalesInit
  BY SysInit, SysStarts
<1>2. SysInv /\ [Sys!Next]_(Sys!vars) => SysInv'
  BY SysStep
<1>3. SysInv /\ [Sys!Next]_(Sys!vars) => [Sys!L!LocalesNext]_(Sys!L!localesVars)
  BY SysImplements
<1> DEFINE Step == UNCHANGED Sys!vars \/ Sys!L!LocalesNext
<1>4. [Sys!L!LocalesNext]_(Sys!L!localesVars) => [Step]_(Sys!L!localesVars)
  OBVIOUS
<1>5. Sys!Spec => Sys!L!LocalesSpec /\ Sys!L!LocalesInit /\ [][Step]_(Sys!L!localesVars)
  <2> HIDE DEF Step
  <2>1. QED
    BY <1>1, <1>2, <1>3, <1>4, PTL DEF Sys!Spec, Sys!L!LocalesSpec
<1>6. QED
  BY <1>5 DEF ImplementsLocales, Sys!ImplementsLocales

(* What is proved of Locales holds of the list of system_locales.            *)
ListOf == INSTANCE LocalesProofs WITH
    Subtags <- Sys!Subtags, Headers <- {}, Names <- Seq(Ranges), En <- LastResort,
    header <- <<>>, names <- Coming, locales <- list,
    pc <- IF listing = "done" THEN "done" ELSE "system",
    input <- Sys!Languages(Sys!Sources, Sys!CatsInUse)

LEMMA SystemListsAreLists ==
    ASSUME Sys!SystemAssumption PROVE ListOf!LocalesAssumption
<1>1. ASSUME NEW S, NEW T, S \subseteq T PROVE Seq(S) \subseteq Seq(T)
  BY <1>1
<1>2. Ranges \subseteq ListOf!LanguageRanges
  BY DEF Sys!SystemAssumption, ListOf!LanguageRanges
<1>3. LastResort \in ListOf!LanguageRanges /\ Len(LastResort) = 1
  <2>1. LastResort \in Seq(Sys!Subtags) /\ Len(LastResort) = 1
    BY DEF Sys!SystemAssumption
  <2>2. QED
    BY <2>1 DEF ListOf!LanguageRanges
<1>4. QED
  BY <1>1, <1>2, <1>3

LEMMA SameList ==
    /\ Sys!L!LocalesInit => ListOf!LocalesInit
    /\ [Sys!L!LocalesNext]_(Sys!L!localesVars) => [ListOf!LocalesNext]_(ListOf!localesVars)
<1>1. Sys!L!LocalesInit => ListOf!LocalesInit
  BY DEF Sys!L!LocalesInit, ListOf!LocalesInit, Coming
<1>2. \A given, range : Sys!L!WithShorter(given, range) = ListOf!WithShorter(given, range)
  BY Zenon DEF Sys!L!WithShorter, ListOf!WithShorter, Sys!L!Inside, ListOf!Inside,
               Sys!L!Min, ListOf!Min
<1>3. Sys!L!AppendLocale => ListOf!AppendLocale
  BY <1>2 DEF Sys!L!AppendLocale, ListOf!AppendLocale, Coming
<1>4. Sys!L!ReturnSystem => ListOf!ReturnSystem
  BY <1>2 DEF Sys!L!ReturnSystem, ListOf!ReturnSystem, Coming
<1>5. ~(Sys!L!ReadHeader \/ Sys!L!ExpandList \/ Sys!L!ReturnHeader)
  BY DEF Sys!L!ReadHeader, Sys!L!ExpandList, Sys!L!ReturnHeader
<1>6. UNCHANGED Sys!L!localesVars => UNCHANGED ListOf!localesVars
  BY DEF Sys!L!localesVars, ListOf!localesVars, Coming
<1>7. QED
  BY <1>1, <1>3, <1>4, <1>5, <1>6 DEF Sys!L!LocalesNext, ListOf!LocalesNext

(* The list of system_locales has every language of every source and every   *)
(* shorter version of one, each once, and what is named earlier is earlier,  *)
(* for any environment and any locales that are installed                    *)
(* (lngs_storage.cpp:30-172).                                                *)
THEOREM SystemListIsRight ==
    ASSUME Sys!SystemAssumption
    PROVE  Sys!Spec => [](ListOf!ListIsComplete /\ ListOf!OrderIsKept)
<1>1. ListOf!LocalesSpec => [](ListOf!ListIsComplete /\ ListOf!OrderIsKept)
  <2>1. ListOf!LocalesSpec => []ListOf!ListIsComplete
    BY SystemListsAreLists, ListOf!ListComplete
  <2>2. ListOf!LocalesSpec => []ListOf!OrderIsKept
    BY SystemListsAreLists, ListOf!OrderKept
  <2>3. QED
    BY <2>1, <2>2, PTL
<1>2. Sys!L!LocalesSpec => ListOf!LocalesSpec
  BY SameList, PTL DEF Sys!L!LocalesSpec, ListOf!LocalesSpec
<1>3. QED
  BY <1>1, <1>2, SystemIsLocales DEF Sys!ImplementsLocales


LanguageRanges == Seq(Sys!Subtags) \ {<<>>}

(* The values of the recursive function in Made                              *)
IsMade(made, asked) ==
    made = [n \in 0 .. Len(asked) |->
              IF n = 0 THEN <<>> ELSE Sys!L!WithShorter(made[n - 1], asked[n])]

(* A language is behind what is there already, with its shorter versions, or *)
(* is there already and changes nothing.                                     *)
LEMMA WithShorterKeeps ==
    ASSUME NEW given \in Seq(LanguageRanges), NEW r \in LanguageRanges
    PROVE  /\ Sys!L!WithShorter(given, r) \in Seq(LanguageRanges)
           /\ \A n \in DOMAIN given :
                 /\ n \in DOMAIN Sys!L!WithShorter(given, r)
                 /\ Sys!L!WithShorter(given, r)[n] = given[n]
           /\ Sys!L!Inside(Sys!L!WithShorter(given, r), r)
           /\ Sys!L!Inside(given, r) => Sys!L!WithShorter(given, r) = given
<1> DEFINE R == Len(r)
           candidates == [k \in DOMAIN r |-> SubSeq(r, 1, R + 1 - k)]
           inside == {k \in DOMAIN r : Sys!L!Inside(given, candidates[k])}
           c == IF inside = {} THEN R ELSE Sys!L!Min(inside) - 1
           behind == SubSeq(candidates, 1, c)
           new == Sys!L!WithShorter(given, r)
<1>1. /\ r \in Seq(Sys!Subtags) /\ R \in Nat \ {0} /\ DOMAIN r = 1 .. R
      /\ Len(given) \in Nat /\ DOMAIN given = 1 .. Len(given)
  BY EmptySeq DEF LanguageRanges
<1>2. new = given \o behind
  BY DEF Sys!L!WithShorter
<1>3. candidates \in Seq(LanguageRanges) /\ Len(candidates) = R /\ candidates[1] = r
  <2>1. ASSUME NEW k \in 1 .. R PROVE SubSeq(r, 1, R + 1 - k) \in LanguageRanges
    <3>1. R + 1 - k \in 1 .. R
      BY <1>1
    <3>2. ASSUME NEW m \in 1 .. R
          PROVE  SubSeq(r, 1, m) \in Seq(Sys!Subtags) /\ Len(SubSeq(r, 1, m)) = m
      BY <1>1
    <3>3. SubSeq(r, 1, R + 1 - k) \in Seq(Sys!Subtags) /\ Len(SubSeq(r, 1, R + 1 - k)) > 0
      BY <3>1, <3>2
    <3>4. SubSeq(r, 1, R + 1 - k) # <<>>
      BY <3>3
    <3>5. QED
      BY <3>3, <3>4, Zenon DEF LanguageRanges
  <2>2. SubSeq(r, 1, R) = r
    BY <1>1
  <2>3. candidates[1] = r
    BY <1>1, <2>2
  <2>4. candidates \in [1 .. R -> LanguageRanges]
    BY <1>1, <2>1
  <2>5. QED
    BY <1>1, <2>3, <2>4
<1>4. inside \subseteq 1 .. R /\ (1 \in inside <=> Sys!L!Inside(given, r))
  <2> HIDE DEF candidates
  <2>1. 1 \in DOMAIN r
    BY <1>1
  <2>2. QED
    BY <1>1, <1>3, <2>1, Zenon
<1>5. c \in 0 .. R /\ (1 \in inside => c = 0) /\ (1 \notin inside => c > 0)
  <2> HIDE DEF inside
  <2>1. CASE inside = {}
    BY <1>1, <2>1
  <2>2. CASE inside # {}
    <3>1. IsFiniteSet(1 .. R)
      BY <1>1, FS_Interval
    <3>2. IsFiniteSet(inside) /\ inside \in SUBSET Int
      <4>1. \A k \in 1 .. R : k \in Int
        BY <1>1
      <4>2. QED
        BY <1>4, <3>1, <4>1, FS_Subset
    <3>3. Min(inside) \in inside /\ \A y \in inside : Min(inside) <= y
      BY <2>2, <3>2, MinIsSmallest
    <3>4. Sys!L!Min(inside) = Min(inside)
      BY Zenon DEF Sys!L!Min, Min
    <3>5. PICK m \in 1 .. R : m = Sys!L!Min(inside) /\ m \in inside /\ \A y \in inside : m <= y
      BY <1>4, <3>3, <3>4, Zenon
    <3>6. c = m - 1 /\ (1 \in inside => m <= 1) /\ (1 \notin inside => m # 1)
      BY <2>2, <3>5
    <3>7. QED
      BY <1>1, <3>5, <3>6
  <2>3. QED
    BY <2>1, <2>2
<1> HIDE DEF candidates, inside, c
<1>6. /\ behind \in Seq(LanguageRanges) /\ Len(behind) = c
      /\ \A k \in 1 .. c : behind[k] = candidates[k]
  BY <1>1, <1>3, <1>5
<1> HIDE DEF behind
<1>7. /\ given \o behind \in Seq(LanguageRanges)
      /\ Len(given \o behind) = Len(given) + c
      /\ \A n \in 1 .. Len(given) : (given \o behind)[n] = given[n]
      /\ c > 0 => (given \o behind)[Len(given) + 1] = behind[1]
  BY <1>1, <1>5, <1>6
<1>8. \A n \in DOMAIN given :
         n \in DOMAIN (given \o behind) /\ (given \o behind)[n] = given[n]
  BY <1>1, <1>5, <1>7
<1>9. Sys!L!Inside(given, r) => given \o behind = given
  <2>1. ASSUME c = 0 PROVE behind = <<>>
    BY <1>6, <2>1
  <2>2. given \o <<>> = given
    BY ConcatEmptySeq
  <2>3. QED
    BY <1>4, <1>5, <2>1, <2>2
<1>10. ~Sys!L!Inside(given, r) => Sys!L!Inside(given \o behind, r)
  <2>1. ASSUME c > 0
        PROVE  /\ Len(given) + 1 \in DOMAIN (given \o behind)
               /\ (given \o behind)[Len(given) + 1] = r
    BY <1>1, <1>3, <1>5, <1>6, <1>7, <2>1
  <2>2. QED
    BY <1>4, <1>5, <2>1 DEF Sys!L!Inside
<1> HIDE DEF new
<1>11. QED
  <2>1. Sys!L!Inside(new, r)
    BY <1>2, <1>9, <1>10, Zenon
  <2>2. QED
    BY <1>2, <1>7, <1>8, <1>9, <2>1, Zenon DEF new

LEMMA MadeExists ==
    ASSUME NEW asked \in Seq(LanguageRanges)
    PROVE  \E made : /\ IsMade(made, asked)
                     /\ made \in [0 .. Len(asked) -> Seq(LanguageRanges)]
                     /\ Sys!Made(asked) = made[Len(asked)]
<1> DEFINE S == Seq(LanguageRanges)
           n == Len(asked)
           once == [k \in 1 .. n |-> [x \in S |-> Sys!L!WithShorter(x, asked[k])]]
           made == CHOOSE f : IsMade(f, asked)
<1>1. n \in Nat /\ <<>> \in S /\ \A k \in 1 .. n : asked[k] \in LanguageRanges
  BY EmptySeq
<1>2. once \in [1 .. n -> [S -> S]]
  <2>1. \A k \in 1 .. n : \A x \in S : Sys!L!WithShorter(x, asked[k]) \in S
    BY <1>1, WithShorterKeeps
  <2> HIDE DEF S, n
  <2>2. QED
    BY <2>1
<1>3. PICK f : Iterates(f, S, <<>>, n, once)
  <2> HIDE DEF S, n, once
  <2>1. QED
    BY <1>1, <1>2, RecursionExists
<1>4. IsMade(f, asked)
  <2>1. f \in [0 .. n -> S] /\ f[0] = <<>>
        /\ \A k \in 1 .. n : f[k] = once[k][f[k - 1]]
    BY <1>3, Zenon DEF Iterates
  <2>2. ASSUME NEW k \in 0 .. n
        PROVE  f[k] = IF k = 0 THEN <<>> ELSE Sys!L!WithShorter(f[k - 1], asked[k])
    <3>1. CASE k = 0
      BY <2>1, <3>1
    <3>2. CASE k # 0
      <4>1. k \in 1 .. n /\ k - 1 \in 0 .. n
        BY <1>1, <3>2
      <4>2. f[k - 1] \in S
        BY <2>1, <4>1
      <4>3. once[k][f[k - 1]] = Sys!L!WithShorter(f[k - 1], asked[k])
        <5> HIDE DEF S, n
        <5>1. QED
          BY <4>1, <4>2
      <4>4. QED
        BY <2>1, <3>2, <4>1, <4>3, Zenon
    <3>3. QED
      BY <3>1, <3>2
  <2>3. f = [k \in 0 .. n |-> f[k]]
    BY <2>1
  <2> HIDE DEF once, S
  <2>4. QED
    BY <2>2, <2>3, Zenon DEF IsMade, n
<1>5. IsMade(made, asked)
  BY <1>4, Zenon
<1>6. Sys!Made(asked) = made[Len(asked)]
  BY Zenon DEF Sys!Made, IsMade
<1> HIDE DEF made
<1>7. ASSUME NEW g, IsMade(g, asked) PROVE g \in [0 .. n -> S]
  <2> DEFINE Good == {k \in Nat : k <= n => g[k] \in S}
  <2>1. 0 \in Good
    BY <1>1, <1>7 DEF IsMade
  <2>2. ASSUME NEW k \in Good PROVE k + 1 \in Good
    <3>1. ASSUME k + 1 <= n
          PROVE  g[k + 1] = Sys!L!WithShorter(g[k], asked[k + 1])
      <4>1. k + 1 \in 0 .. Len(asked) /\ k + 1 # 0 /\ (k + 1) - 1 = k
        BY <1>1, <3>1
      <4>2. QED
        BY <1>7, <4>1 DEF IsMade
    <3>2. ASSUME k + 1 <= n PROVE g[k + 1] \in S
      <4>1. g[k] \in S /\ asked[k + 1] \in LanguageRanges
        BY <1>1, <3>2
      <4>2. Sys!L!WithShorter(g[k], asked[k + 1]) \in S
        BY <4>1, WithShorterKeeps
      <4>3. QED
        BY <3>1, <3>2, <4>2, Zenon
    <3>3. QED
      BY <3>2
  <2> HIDE DEF Good
  <2>3. \A k \in Nat : k \in Good
    <3>1. Good \in SUBSET Nat
      BY DEF Good
    <3>2. QED
      BY <2>1, <2>2, <3>1, InductionOverNat
  <2>4. \A k \in 0 .. n : g[k] \in S
    BY <1>1, <2>3 DEF Good
  <2>5. g = [k \in 0 .. n |-> g[k]]
    BY <1>7 DEF IsMade
  <2> HIDE DEF S, n
  <2>6. QED
    BY <2>4, <2>5
<1>8. QED
  BY <1>5, <1>6, <1>7

LEMMA AppendMovesOut ==
    ASSUME NEW S, NEW s \in Seq(S), NEW t \in Seq(S), NEW e \in S
    PROVE  s \o Append(t, e) = Append(s \o t, e) /\ s \o t \in Seq(S)
<1>1. s \o t \in Seq(S) /\ <<e>> \in Seq(S)
  OBVIOUS
<1>2. Append(s \o t, e) = (s \o t) \o <<e>> /\ Append(t, e) = t \o <<e>>
  BY <1>1, AppendIsConcat
<1>3. (s \o t) \o <<e>> = s \o (t \o <<e>>)
  BY <1>1, Joins
<1>4. QED
  BY <1>1, <1>2, <1>3


LEMMA LastApart ==
    ASSUME NEW S, NEW s \in Seq(S), s # <<>>
    PROVE  \E t \in Seq(S), e \in S : s = Append(t, e) /\ Len(t) = Len(s) - 1
<1> DEFINE n == Len(s) - 1
           t == SubSeq(s, 1, n)
<1>1. n \in Nat /\ Len(s) = n + 1 /\ s[n + 1] \in S
  OBVIOUS
<1>2. t \in Seq(S) /\ Len(t) = n /\ \A k \in 1 .. n : t[k] = s[k]
  BY <1>1
<1> HIDE DEF t
<1> DEFINE e == s[n + 1]
           a == Append(t, e)
<1>3. a \in Seq(S) /\ Len(a) = n + 1 /\ \A k \in 1 .. n + 1 : a[k] = s[k]
  <2> HIDE DEF n
  <2>1. e \in S /\ e = s[n + 1]
    BY <1>1
  <2> HIDE DEF e
  <2>2. /\ a \in Seq(S) /\ Len(a) = n + 1 /\ a[n + 1] = e
        /\ \A k \in 1 .. n : a[k] = t[k]
    BY <1>1, <1>2, <2>1
  <2> HIDE DEF a
  <2>3. \A k \in 1 .. n + 1 : k \in 1 .. n \/ k = n + 1
    BY <1>1
  <2>4. QED
    BY <1>2, <2>1, <2>2, <2>3
<1>4. s = a
  <2> HIDE DEF n, a
  <2>1. QED
    BY <1>1, <1>3, SeqEqual
<1>5. QED
  BY <1>1, <1>2, <1>4

LEMMA MadeGrows ==
    /\ Sys!Made(<<>>) = <<>>
    /\ \A asked \in Seq(LanguageRanges) :
         /\ Sys!Made(asked) \in Seq(LanguageRanges)
         /\ \A r \in LanguageRanges :
              Sys!Made(Append(asked, r)) = Sys!L!WithShorter(Sys!Made(asked), r)
<1>1. Sys!Made(<<>>) = <<>>
  <2>1. <<>> \in Seq(LanguageRanges) /\ Len(<<>>) = 0
    BY EmptySeq
  <2>2. PICK made : IsMade(made, <<>>) /\ Sys!Made(<<>>) = made[0]
    BY <2>1, MadeExists
  <2>3. QED
    BY <2>1, <2>2 DEF IsMade
<1>2. ASSUME NEW asked \in Seq(LanguageRanges)
      PROVE  Sys!Made(asked) \in Seq(LanguageRanges)
  <2>1. PICK made : /\ made \in [0 .. Len(asked) -> Seq(LanguageRanges)]
                    /\ Sys!Made(asked) = made[Len(asked)]
    BY MadeExists
  <2>2. Len(asked) \in 0 .. Len(asked)
    OBVIOUS
  <2>3. QED
    BY <2>1, <2>2
<1>3. ASSUME NEW asked \in Seq(LanguageRanges), NEW r \in LanguageRanges
      PROVE  Sys!Made(Append(asked, r)) = Sys!L!WithShorter(Sys!Made(asked), r)
  <2> DEFINE n == Len(asked)
             more == Append(asked, r)
  <2>1. /\ more \in Seq(LanguageRanges) /\ Len(more) = n + 1 /\ n \in Nat
        /\ more[n + 1] = r /\ \A k \in 1 .. n : more[k] = asked[k]
    OBVIOUS
  <2> HIDE DEF n, more
  <2>2. PICK a : IsMade(a, asked) /\ Sys!Made(asked) = a[n]
    BY MadeExists DEF n
  <2>3. PICK b : IsMade(b, more) /\ Sys!Made(more) = b[n + 1]
    BY <2>1, MadeExists
  <2>4. /\ a[0] = <<>>
        /\ \A k \in 1 .. n : a[k] = Sys!L!WithShorter(a[k - 1], asked[k])
    <3>1. 0 \in 0 .. n /\ \A k \in 1 .. n : k \in 0 .. n /\ k # 0
      BY <2>1
    <3>2. QED
      BY <2>2, <3>1 DEF IsMade, n
  <2>5. /\ b[0] = <<>>
        /\ \A k \in 1 .. n + 1 : b[k] = Sys!L!WithShorter(b[k - 1], more[k])
    <3>1. 0 \in 0 .. n + 1 /\ \A k \in 1 .. n + 1 : k \in 0 .. n + 1 /\ k # 0
      BY <2>1
    <3>2. QED
      BY <2>1, <2>3, <3>1 DEF IsMade
  <2> DEFINE Good == {k \in Nat : k <= n => a[k] = b[k]}
  <2>6. 0 \in Good
    BY <2>4, <2>5
  <2>7. ASSUME NEW k \in Good PROVE k + 1 \in Good
    <3>1. ASSUME k + 1 <= n PROVE a[k + 1] = b[k + 1]
      <4>1. k + 1 \in 1 .. n /\ k + 1 \in 1 .. n + 1 /\ (k + 1) - 1 = k
        BY <2>1, <3>1
      <4>2. a[k] = b[k] /\ more[k + 1] = asked[k + 1]
        BY <2>1, <3>1, <4>1
      <4>3. /\ a[k + 1] = Sys!L!WithShorter(a[k], asked[k + 1])
            /\ b[k + 1] = Sys!L!WithShorter(b[k], more[k + 1])
        BY <2>4, <2>5, <4>1
      <4>4. QED
        BY <4>2, <4>3, Zenon
    <3>2. QED
      BY <3>1
  <2>8. n \in Good
    <3>1. Good \in SUBSET Nat
      OBVIOUS
    <3> HIDE DEF Good
    <3>2. QED
      BY <2>1, <2>6, <2>7, <3>1, InductionOverNat
  <2>9. a[n] = b[n]
    BY <2>1, <2>8
  <2>10. n + 1 \in 1 .. n + 1 /\ (n + 1) - 1 = n
    BY <2>1
  <2>11. b[n + 1] = Sys!L!WithShorter(b[n], r)
    BY <2>1, <2>5, <2>10
  <2>12. QED
    BY <2>2, <2>3, <2>9, <2>11, Zenon DEF more
<1>4. QED
  BY <1>1, <1>2, <1>3

(* What is appended is in the list from then on.                             *)
LEMMA MadeHasAll ==
    ASSUME NEW asked \in Seq(LanguageRanges), NEW k \in 1 .. Len(asked)
    PROVE  Sys!L!Inside(Sys!Made(asked), asked[k])
<1> DEFINE S == Seq(LanguageRanges)
           Good == {n \in Nat : \A s \in S : Len(s) = n =>
                      \A i \in 1 .. Len(s) : Sys!L!Inside(Sys!Made(s), s[i])}
<1>1. 0 \in Good
  OBVIOUS
<1>2. ASSUME NEW n \in Good PROVE n + 1 \in Good
  <2>1. ASSUME NEW s \in S, Len(s) = n + 1, NEW i \in 1 .. Len(s)
        PROVE  Sys!L!Inside(Sys!Made(s), s[i])
    <3>1. s # <<>>
      BY <2>1
    <3>2. PICK t \in S, e \in LanguageRanges : s = Append(t, e) /\ Len(t) = Len(s) - 1
      BY <3>1, LastApart
    <3>3. Sys!Made(s) = Sys!L!WithShorter(Sys!Made(t), e) /\ Sys!Made(t) \in S
      BY <3>2, MadeGrows
    <3>4. CASE i = n + 1
      <4>1. s[i] = e
        BY <2>1, <3>2, <3>4
      <4>2. Sys!L!Inside(Sys!L!WithShorter(Sys!Made(t), e), e)
        BY <3>3, WithShorterKeeps
      <4>3. QED
        BY <3>3, <4>1, <4>2, Zenon
    <3>5. CASE i # n + 1
      <4>1. i \in 1 .. Len(t) /\ Len(t) = n /\ s[i] = t[i]
        BY <2>1, <3>2, <3>5
      <4>2. Sys!L!Inside(Sys!Made(t), t[i])
        BY <1>2, <4>1
      <4>3. PICK m \in DOMAIN Sys!Made(t) : Sys!Made(t)[m] = t[i]
        BY <4>2 DEF Sys!L!Inside
      <4>4. m \in DOMAIN Sys!Made(s) /\ Sys!Made(s)[m] = t[i]
        <5>1. \A d \in DOMAIN Sys!Made(t) :
                 /\ d \in DOMAIN Sys!L!WithShorter(Sys!Made(t), e)
                 /\ Sys!L!WithShorter(Sys!Made(t), e)[d] = Sys!Made(t)[d]
          BY <3>3, WithShorterKeeps, Zenon
        <5>2. QED
          BY <3>3, <4>3, <5>1, Zenon
      <4>5. QED
        BY <4>1, <4>4, Zenon DEF Sys!L!Inside
    <3>6. QED
      BY <3>4, <3>5
  <2>2. n + 1 \in Nat
    OBVIOUS
  <2>3. QED
    BY <2>1, <2>2
<1> HIDE DEF Good
<1>3. \A n \in Nat : n \in Good
  <2>1. Good \in SUBSET Nat
    BY DEF Good
  <2>2. QED
    BY <1>1, <1>2, <2>1, InductionOverNat
<1>4. Len(asked) \in Nat
  OBVIOUS
<1>5. QED
  BY <1>3, <1>4, Zenon DEF Good

(* Languages that are in a list already do not change it.                    *)
LEMMA MadeAbsorbs ==
    ASSUME NEW s \in Seq(LanguageRanges), NEW t \in Seq(LanguageRanges),
           \A k \in 1 .. Len(t) : \E i \in 1 .. Len(s) : t[k] = s[i]
    PROVE  Sys!Made(s \o t) = Sys!Made(s)
<1> DEFINE S == Seq(LanguageRanges)
           Among(u) == \A k \in 1 .. Len(u) : \E i \in 1 .. Len(s) : u[k] = s[i]
           Good == {n \in Nat : \A u \in S : Len(u) = n /\ Among(u) =>
                      Sys!Made(s \o u) = Sys!Made(s)}
<1>1. 0 \in Good
  <2>1. ASSUME NEW u \in S, Len(u) = 0 PROVE s \o u = s
    <3>1. u = <<>>
      BY <2>1
    <3>2. QED
      BY <3>1, ConcatEmptySeq
  <2>2. QED
    BY <2>1
<1>2. ASSUME NEW n \in Good PROVE n + 1 \in Good
  <2>1. ASSUME NEW u \in S, Len(u) = n + 1, Among(u)
        PROVE  Sys!Made(s \o u) = Sys!Made(s)
    <3>1. u # <<>>
      BY <2>1
    <3>2. PICK v \in S, e \in LanguageRanges : u = Append(v, e) /\ Len(v) = Len(u) - 1
      BY <3>1, LastApart
    <3>3. /\ Len(v) = n /\ u[n + 1] = e /\ n + 1 \in 1 .. Len(u)
          /\ \A k \in 1 .. Len(v) : k \in 1 .. Len(u) /\ v[k] = u[k]
      BY <2>1, <3>2
    <3>4. Among(v)
      BY <2>1, <3>3
    <3>5. PICK i \in 1 .. Len(s) : e = s[i]
      BY <2>1, <3>3
    <3> HIDE DEF Among
    <3>6. Sys!Made(s \o v) = Sys!Made(s)
      BY <1>2, <3>3, <3>4
    <3>7. s \o u = Append(s \o v, e) /\ s \o v \in S
      <4>1. s \o Append(v, e) = Append(s \o v, e) /\ s \o v \in S
        BY <3>2, AppendMovesOut
      <4>2. QED
        BY <3>2, <4>1
    <3>8. Sys!Made(Append(s \o v, e)) = Sys!L!WithShorter(Sys!Made(s \o v), e)
      BY <3>2, <3>7, MadeGrows
    <3>9. Sys!L!Inside(Sys!Made(s), e) /\ Sys!Made(s) \in S
      BY <3>5, MadeHasAll, MadeGrows
    <3>10. Sys!L!WithShorter(Sys!Made(s), e) = Sys!Made(s)
      BY <3>2, <3>9, WithShorterKeeps
    <3>11. QED
      BY <3>6, <3>7, <3>8, <3>10, Zenon
  <2>2. n + 1 \in Nat
    OBVIOUS
  <2> HIDE DEF Among
  <2>3. QED
    BY <2>1, <2>2
<1> HIDE DEF Good
<1>3. \A n \in Nat : n \in Good
  <2>1. Good \in SUBSET Nat
    BY DEF Good
  <2>2. QED
    BY <1>1, <1>2, <2>1, InductionOverNat
<1>4. Len(t) \in Nat /\ Among(t)
  OBVIOUS
<1> HIDE DEF Among
<1>5. QED
  BY <1>3, <1>4, Zenon DEF Good

(* What comes later is appended to one list as to the other.                 *)
LEMMA MadeGoesOn ==
    ASSUME NEW s \in Seq(LanguageRanges), NEW t \in Seq(LanguageRanges),
           NEW u \in Seq(LanguageRanges), Sys!Made(s) = Sys!Made(t)
    PROVE  Sys!Made(s \o u) = Sys!Made(t \o u)
<1> DEFINE S == Seq(LanguageRanges)
           Good == {n \in Nat : \A v \in S : Len(v) = n =>
                      Sys!Made(s \o v) = Sys!Made(t \o v)}
<1>1. 0 \in Good
  <2>1. ASSUME NEW v \in S, Len(v) = 0 PROVE s \o v = s /\ t \o v = t
    <3>1. v = <<>>
      BY <2>1
    <3>2. QED
      BY <3>1, ConcatEmptySeq
  <2>2. QED
    BY <2>1
<1>2. ASSUME NEW n \in Good PROVE n + 1 \in Good
  <2>1. ASSUME NEW v \in S, Len(v) = n + 1
        PROVE  Sys!Made(s \o v) = Sys!Made(t \o v)
    <3>1. v # <<>>
      BY <2>1
    <3>2. PICK w \in S, e \in LanguageRanges : v = Append(w, e) /\ Len(w) = Len(v) - 1
      BY <3>1, LastApart
    <3>3. Len(w) = n
      BY <2>1, <3>2
    <3>4. Sys!Made(s \o w) = Sys!Made(t \o w)
      BY <1>2, <3>3
    <3>5. /\ s \o Append(w, e) = Append(s \o w, e) /\ s \o w \in S
          /\ t \o Append(w, e) = Append(t \o w, e) /\ t \o w \in S
      BY <3>2, AppendMovesOut
    <3>6. /\ Sys!Made(Append(s \o w, e)) = Sys!L!WithShorter(Sys!Made(s \o w), e)
          /\ Sys!Made(Append(t \o w, e)) = Sys!L!WithShorter(Sys!Made(t \o w), e)
      BY <3>2, <3>5, MadeGrows
    <3>7. QED
      BY <3>2, <3>4, <3>5, <3>6, Zenon
  <2>2. n + 1 \in Nat
    OBVIOUS
  <2>3. QED
    BY <2>1, <2>2
<1> HIDE DEF Good
<1>3. \A n \in Nat : n \in Good
  <2>1. Good \in SUBSET Nat
    BY DEF Good
  <2>2. QED
    BY <1>1, <1>2, <2>1, InductionOverNat
<1>4. Len(u) \in Nat
  OBVIOUS
<1>5. QED
  BY <1>3, <1>4, Zenon DEF Good


LEMMA RangesJoin ==
    \A s, t, u \in Seq(LanguageRanges) : (s \o t) \o u = s \o (t \o u)
<1>1. ASSUME NEW s \in Seq(LanguageRanges), NEW t \in Seq(LanguageRanges),
             NEW u \in Seq(LanguageRanges)
      PROVE  (s \o t) \o u = s \o (t \o u)
  BY Joins
<1>2. QED
  BY <1>1

(* A source that says again what another has said changes nothing, whichever *)
(* of them comes first: M are the languages of the category of messages, X   *)
(* those of all categories, the others those of variables.                   *)
LEMMA SaidTwice ==
    ASSUME NEW G \in Seq(LanguageRanges), NEW X \in Seq(LanguageRanges),
           NEW M \in Seq(LanguageRanges), NEW A \in Seq(LanguageRanges),
           NEW B \in Seq(LanguageRanges), NEW D \in Seq(LanguageRanges),
           X = <<>> \/ X = M,
           \/ M = <<>> \/ M = A
           \/ A = <<>> /\ M = B
           \/ A = <<>> /\ B = <<>> /\ M = D
    PROVE  Sys!Made(G \o (X \o (M \o (A \o (B \o D)))))
             = Sys!Made(G \o (A \o (B \o (D \o (X \o M)))))
<1> DEFINE S == Seq(LanguageRanges)
<1>1. \A s, t \in S : s \o t \in S
  OBVIOUS
<1>2. \A s, t, u \in S : (s \o t) \o u = s \o (t \o u)
  BY RangesJoin, Zenon
<1>3. \A s \in S : <<>> \o s = s /\ s \o <<>> = s
  BY ConcatEmptySeq
<1>4. <<>> \in S
  BY EmptySeq
<1>5. \A s, t, u \in S : Sys!Made(((s \o t) \o u) \o t) = Sys!Made((s \o t) \o u)
  <2>1. ASSUME NEW s \in S, NEW t \in S, NEW u \in S
        PROVE  Sys!Made(((s \o t) \o u) \o t) = Sys!Made((s \o t) \o u)
    <3> DEFINE all == (s \o t) \o u
    <3>1. /\ all \in S /\ Len(all) = Len(s) + Len(t) + Len(u)
          /\ Len(s) \in Nat /\ Len(t) \in Nat /\ Len(u) \in Nat
          /\ \A k \in 1 .. Len(t) : all[Len(s) + k] = t[k]
      OBVIOUS
    <3> HIDE DEF all
    <3>2. ASSUME NEW k \in 1 .. Len(t) PROVE \E i \in 1 .. Len(all) : t[k] = all[i]
      <4>1. Len(s) + k \in 1 .. Len(all)
        BY <3>1
      <4>2. QED
        BY <3>1, <4>1
    <3>3. Sys!Made(all \o t) = Sys!Made(all)
      BY <3>1, <3>2, MadeAbsorbs
    <3>4. QED
      BY <3>3 DEF all
  <2>2. QED
    BY <2>1
<1>6. \A s, t \in S : Sys!Made((s \o t) \o t) = Sys!Made(s \o t)
  <2>1. ASSUME NEW s \in S, NEW t \in S
        PROVE  Sys!Made((s \o t) \o t) = Sys!Made(s \o t)
    <3> DEFINE all == s \o t
    <3>1. /\ all \in S /\ Len(all) = Len(s) + Len(t)
          /\ Len(s) \in Nat /\ Len(t) \in Nat
          /\ \A k \in 1 .. Len(t) : all[Len(s) + k] = t[k]
      OBVIOUS
    <3> HIDE DEF all
    <3>2. ASSUME NEW k \in 1 .. Len(t) PROVE \E i \in 1 .. Len(all) : t[k] = all[i]
      <4>1. Len(s) + k \in 1 .. Len(all)
        BY <3>1
      <4>2. QED
        BY <3>1, <4>1
    <3>3. Sys!Made(all \o t) = Sys!Made(all)
      BY <3>1, <3>2, MadeAbsorbs
    <3>4. QED
      BY <3>3 DEF all
  <2> HIDE DEF S
  <2>2. QED
    BY <2>1
<1>7. \A s, t, u \in S : Sys!Made(s) = Sys!Made(t) => Sys!Made(s \o u) = Sys!Made(t \o u)
  BY MadeGoesOn
<1> DEFINE R == A \o (B \o D)
<1> HIDE DEF S
<1>8. /\ G \in S /\ X \in S /\ M \in S /\ A \in S /\ B \in S /\ D \in S /\ B \o D \in S
      /\ R \in S /\ G \o M \in S /\ M \o R \in S /\ G \o R \in S /\ (G \o M) \o M \in S
      /\ X \o M \in S /\ D \o (X \o M) \in S /\ (G \o R) \o X \in S
  BY <1>1 DEF S
(* Once is as good as twice.                                                 *)
<1>9. ASSUME NEW m \in S, NEW u \in S
      PROVE  Sys!Made((G \o m) \o (m \o u)) = Sys!Made(G \o (m \o u))
  <2>1. G \o m \in S /\ (G \o m) \o m \in S
    BY <1>1, <1>8
  <2>2. (G \o m) \o (m \o u) = ((G \o m) \o m) \o u
    <3>1. G \o m \in S /\ m \in S /\ u \in S
      BY <1>8, <2>1
    <3>2. QED
      BY <1>2, <3>1, ZenonT(30)
  <2>3. (G \o m) \o u = G \o (m \o u)
    <3>1. G \in S /\ m \in S /\ u \in S
      BY <1>8
    <3>2. QED
      BY <1>2, <3>1, ZenonT(30)
  <2>4. Sys!Made((G \o m) \o m) = Sys!Made(G \o m)
    BY <1>6, <1>8
  <2>5. Sys!Made(((G \o m) \o m) \o u) = Sys!Made((G \o m) \o u)
    BY <1>7, <2>1, <2>4
  <2>6. QED
    BY <2>2, <2>3, <2>5, Zenon
<1>10. Sys!Made(G \o (X \o (M \o R))) = Sys!Made(G \o (M \o R))
  <2>1. CASE X = <<>>
    <3>1. X \o (M \o R) = M \o R
      BY <1>3, <1>8, <2>1
    <3>2. QED
      BY <3>1, Zenon
  <2>2. CASE X = M
    <3>1. G \o (M \o (M \o R)) = (G \o M) \o (M \o R)
      <4>1. G \in S /\ M \in S /\ M \o R \in S
        BY <1>8
      <4>2. QED
        BY <1>2, <4>1, ZenonT(30)
    <3>2. Sys!Made((G \o M) \o (M \o R)) = Sys!Made(G \o (M \o R))
      BY <1>8, <1>9
    <3>3. QED
      BY <2>2, <3>1, <3>2, Zenon
  <2>3. QED
    BY <2>1, <2>2
<1>11. Sys!Made(G \o (M \o R)) = Sys!Made(G \o R)
  <2>1. G \o (M \o R) = (G \o M) \o R
    <3>1. G \in S /\ M \in S /\ R \in S
      BY <1>8
    <3>2. QED
      BY <1>2, <3>1, ZenonT(30)
  <2>2. CASE M = <<>>
    <3>1. M \o R = R
      BY <1>3, <1>8, <2>2
    <3>2. QED
      BY <3>1, Zenon
  <2>3. CASE M = A
    <3>1. Sys!Made((G \o A) \o (A \o (B \o D))) = Sys!Made(G \o (A \o (B \o D)))
      BY <1>8, <1>9
    <3>2. QED
      BY <2>1, <2>3, <3>1, Zenon
  <2>4. CASE A = <<>> /\ M = B
    <3>1. R = B \o D
      BY <1>3, <1>8, <2>4
    <3>2. Sys!Made((G \o B) \o (B \o D)) = Sys!Made(G \o (B \o D))
      BY <1>8, <1>9
    <3> HIDE DEF R
    <3>3. QED
      BY <2>1, <2>4, <3>1, <3>2, Zenon
  <2>5. CASE A = <<>> /\ B = <<>> /\ M = D
    <3>1. R = D \o <<>>
      <4>1. B \o D = D /\ A \o D = D /\ D \o <<>> = D
        BY <1>3, <1>8, <2>5
      <4>2. QED
        BY <4>1, Zenon
    <3>2. Sys!Made((G \o D) \o (D \o <<>>)) = Sys!Made(G \o (D \o <<>>))
      BY <1>4, <1>8, <1>9 DEF S
    <3> HIDE DEF R
    <3>3. QED
      BY <2>1, <2>5, <3>1, <3>2, Zenon
  <2>6. QED
    BY <2>2, <2>3, <2>4, <2>5
<1>12. Sys!Made((G \o R) \o M) = Sys!Made(G \o R)
  <2>1. G \o A \in S /\ G \o (A \o B) \in S /\ A \o B \in S
    BY <1>1, <1>8
  <2>2. /\ G \o R = (G \o A) \o (B \o D)
        /\ G \o R = ((G \o A) \o B) \o D
    <3>1. G \o R = (G \o A) \o (B \o D)
      <4>1. G \in S /\ A \in S /\ B \o D \in S
        BY <1>8
      <4>2. QED
        BY <1>2, <4>1, ZenonT(30) DEF R
    <3>2. (G \o A) \o (B \o D) = ((G \o A) \o B) \o D
      <4>1. G \o A \in S /\ B \in S /\ D \in S
        BY <1>8, <2>1
      <4>2. QED
        BY <1>2, <4>1, ZenonT(30)
    <3>3. QED
      BY <3>1, <3>2, Zenon
  <2> HIDE DEF R
  <2>3. CASE M = <<>>
    <3>1. (G \o R) \o M = G \o R
      BY <1>3, <1>8, <2>3
    <3>2. QED
      BY <3>1, Zenon
  <2>4. CASE M = A
    <3>1. Sys!Made(((G \o A) \o (B \o D)) \o A) = Sys!Made((G \o A) \o (B \o D))
      BY <1>5, <1>8
    <3>2. QED
      BY <2>2, <2>4, <3>1, Zenon
  <2>5. CASE M = B
    <3>1. Sys!Made((((G \o A) \o B) \o D) \o B) = Sys!Made(((G \o A) \o B) \o D)
      BY <1>5, <1>8, <2>1
    <3>2. QED
      BY <2>2, <2>5, <3>1, Zenon
  <2>6. CASE M = D
    <3>1. (G \o A) \o B \in S
      BY <1>1, <1>8, <2>1
    <3>2. Sys!Made((((G \o A) \o B) \o D) \o D) = Sys!Made(((G \o A) \o B) \o D)
      BY <1>6, <1>8, <3>1
    <3>3. QED
      BY <2>2, <2>6, <3>2, Zenon
  <2>7. QED
    BY <2>3, <2>4, <2>5, <2>6
<1>13. Sys!Made((G \o R) \o (X \o M)) = Sys!Made(G \o R)
  <2>1. (G \o R) \o (X \o M) = ((G \o R) \o X) \o M
    <3>1. G \o R \in S /\ X \in S /\ M \in S
      BY <1>8
    <3>2. QED
      BY <1>2, <3>1, ZenonT(30)
  <2>2. CASE X = <<>>
    <3>1. (G \o R) \o X = G \o R
      BY <1>3, <1>8, <2>2
    <3>2. QED
      BY <1>12, <2>1, <3>1, Zenon
  <2>3. CASE X = M
    <3>1. Sys!Made((G \o R) \o X) = Sys!Made(G \o R)
      BY <1>12, <2>3, Zenon
    <3>2. Sys!Made(((G \o R) \o X) \o M) = Sys!Made((G \o R) \o M)
      BY <1>7, <1>8, <3>1
    <3>3. QED
      BY <1>12, <2>1, <3>2, Zenon
  <2>4. QED
    BY <2>2, <2>3
<1>14. G \o (A \o (B \o (D \o (X \o M)))) = (G \o R) \o (X \o M)
  <2>1. B \o (D \o (X \o M)) = (B \o D) \o (X \o M)
    <3>1. B \in S /\ D \in S /\ X \o M \in S
      BY <1>8
    <3>2. QED
      BY <1>2, <3>1, ZenonT(30)
  <2>2. A \o ((B \o D) \o (X \o M)) = R \o (X \o M)
    <3>1. A \in S /\ B \o D \in S /\ X \o M \in S
      BY <1>8
    <3>2. QED
      BY <1>2, <3>1, ZenonT(30) DEF R
  <2>3. G \o (R \o (X \o M)) = (G \o R) \o (X \o M)
    <3>1. G \in S /\ R \in S /\ X \o M \in S
      BY <1>8
    <3>2. QED
      BY <1>2, <3>1, ZenonT(30)
  <2>4. QED
    BY <2>1, <2>2, <2>3, Zenon
<1>15. QED
  BY <1>10, <1>11, <1>13, <1>14, Zenon

Says(source, categories) == Sys!NamesIn(Sys!Value(source, categories))

LEMMA LanguagesOfSix ==
    ASSUME SysInv, NEW six \in [1 .. 6 -> SourceNames],
           NEW categories \in [LC_MESSAGES : Values, LC_CTYPE : Values]
    PROVE  Sys!Languages(six, categories) =
             Says(six[1], categories) \o (Says(six[2], categories) \o
               (Says(six[3], categories) \o (Says(six[4], categories) \o
                 (Says(six[5], categories) \o Says(six[6], categories)))))
<1> DEFINE s1 == six[1]
           s2 == six[2]
           s3 == six[3]
           s4 == six[4]
           s5 == six[5]
           s6 == six[6]
<1>0. /\ s1 \in SourceNames /\ s2 \in SourceNames /\ s3 \in SourceNames
      /\ s4 \in SourceNames /\ s5 \in SourceNames /\ s6 \in SourceNames
      /\ six = <<s1, s2, s3, s4, s5, s6>>
  OBVIOUS
<1> HIDE DEF s1, s2, s3, s4, s5, s6
<1> DEFINE named(source) == Says(source, categories)
           langsOf(list_of) == Sys!Languages(list_of, categories)
<1>1. \A list_of \in Seq(SourceNames) :
         /\ list_of = <<>> => langsOf(list_of) = <<>>
         /\ list_of # <<>> => langsOf(list_of) = named(Head(list_of)) \o langsOf(Tail(list_of))
  BY LanguagesOneByOne DEF Says
<1>2. named(s6) \in Values
  BY <1>0, NamesAreLanguages DEF Says
<1> HIDE DEF named, langsOf
<1>3. langsOf(<<s6>>) = named(s6)
  <2>1. /\ <<s6>> \in Seq(SourceNames) /\ <<s6>> # <<>> /\ Head(<<s6>>) = s6
        /\ Tail(<<s6>>) = <<>> /\ <<>> \in Seq(SourceNames)
    BY <1>0
  <2>2. langsOf(<<s6>>) = named(s6) \o <<>>
    BY <1>1, <2>1, Zenon
  <2>3. QED
    BY <1>2, <2>2, ConcatEmptySeq DEF Values
<1>4. langsOf(<<s5, s6>>) = named(s5) \o langsOf(<<s6>>)
  <2>1. /\ <<s5, s6>> \in Seq(SourceNames) /\ <<s5, s6>> # <<>>
        /\ Head(<<s5, s6>>) = s5 /\ Tail(<<s5, s6>>) = <<s6>>
    BY <1>0
  <2>2. QED
    BY <1>1, <2>1, Zenon
<1>5. langsOf(<<s4, s5, s6>>) = named(s4) \o langsOf(<<s5, s6>>)
  <2>1. /\ <<s4, s5, s6>> \in Seq(SourceNames) /\ <<s4, s5, s6>> # <<>>
        /\ Head(<<s4, s5, s6>>) = s4 /\ Tail(<<s4, s5, s6>>) = <<s5, s6>>
    BY <1>0
  <2>2. QED
    BY <1>1, <2>1, Zenon
<1>6. langsOf(<<s3, s4, s5, s6>>) = named(s3) \o langsOf(<<s4, s5, s6>>)
  <2>1. /\ <<s3, s4, s5, s6>> \in Seq(SourceNames) /\ <<s3, s4, s5, s6>> # <<>>
        /\ Head(<<s3, s4, s5, s6>>) = s3 /\ Tail(<<s3, s4, s5, s6>>) = <<s4, s5, s6>>
    BY <1>0
  <2>2. QED
    BY <1>1, <2>1, Zenon
<1>7. langsOf(<<s2, s3, s4, s5, s6>>) = named(s2) \o langsOf(<<s3, s4, s5, s6>>)
  <2>1. /\ <<s2, s3, s4, s5, s6>> \in Seq(SourceNames) /\ <<s2, s3, s4, s5, s6>> # <<>>
        /\ Head(<<s2, s3, s4, s5, s6>>) = s2
        /\ Tail(<<s2, s3, s4, s5, s6>>) = <<s3, s4, s5, s6>>
    BY <1>0
  <2>2. QED
    BY <1>1, <2>1, Zenon
<1>8. langsOf(<<s1, s2, s3, s4, s5, s6>>) = named(s1) \o langsOf(<<s2, s3, s4, s5, s6>>)
  <2>1. /\ <<s1, s2, s3, s4, s5, s6>> \in Seq(SourceNames)
        /\ <<s1, s2, s3, s4, s5, s6>> # <<>> /\ Head(<<s1, s2, s3, s4, s5, s6>>) = s1
        /\ Tail(<<s1, s2, s3, s4, s5, s6>>) = <<s2, s3, s4, s5, s6>>
    BY <1>0
  <2>2. QED
    BY <1>1, <2>1, Zenon
<1>9. QED
  BY <1>0, <1>3, <1>4, <1>5, <1>6, <1>7, <1>8, Zenon
     DEF named, langsOf, s1, s2, s3, s4, s5, s6


(* The variable that decides is the first that is set.                       *)
LEMMA FirstOfFour ==
    ASSUME NEW v1, NEW v2, NEW v3, NEW v4, v4 # <<>>
    PROVE  Sys!FirstSet(<<v1, v2, v3, v4>>) =
             IF v1 # <<>> THEN v1 ELSE IF v2 # <<>> THEN v2
             ELSE IF v3 # <<>> THEN v3 ELSE v4
<1> DEFINE four == <<v1, v2, v3, v4>>
           set == {n \in DOMAIN four : four[n] # <<>>}
           m == Sys!Min(set)
<1>1. /\ DOMAIN four = 1 .. 4
      /\ four[1] = v1 /\ four[2] = v2 /\ four[3] = v3 /\ four[4] = v4
  OBVIOUS
<1>2. Sys!FirstSet(four) = four[m]
  BY DEF Sys!FirstSet
<1> HIDE DEF four
<1>3. m \in set /\ \A y \in set : m <= y
  <2>1. IsFiniteSet(1 .. 4) /\ \A k \in 1 .. 4 : k \in Int
    <3>1. 1 \in Int /\ 4 \in Int
      OBVIOUS
    <3>2. IsFiniteSet(1 .. 4)
      BY <3>1, FS_Interval, Zenon
    <3>3. QED
      BY <3>2
  <2>2. set \subseteq 1 .. 4 /\ 4 \in set
    BY <1>1
  <2> HIDE DEF set, m
  <2>3. IsFiniteSet(set) /\ set \in SUBSET Int /\ set # {}
    <3>1. IsFiniteSet(set)
      BY <2>1, <2>2, FS_Subset, Zenon
    <3>2. QED
      BY <2>1, <2>2, <3>1, Zenon
  <2>4. Min(set) \in set /\ \A y \in set : Min(set) <= y
    BY <2>3, MinIsSmallest
  <2>5. Sys!Min(set) = Min(set)
    BY Zenon DEF Sys!Min, Min
  <2>6. QED
    BY <2>4, <2>5, Zenon DEF m
<1> HIDE DEF m
<1>4. /\ m \in 1 .. 4 /\ four[m] # <<>>
      /\ \A y \in 1 .. 4 : four[y] # <<>> => m <= y
  BY <1>1, <1>3
<1> HIDE DEF set
<1>5. /\ v1 # <<>> => m <= 1
      /\ v2 # <<>> => m <= 2
      /\ v3 # <<>> => m <= 3
  BY <1>1, <1>4
<1>6. m = 1 \/ m = 2 \/ m = 3 \/ m = 4
  BY <1>4
<1>7. /\ m = 1 => four[m] = v1 /\ v1 # <<>>
      /\ m = 2 => four[m] = v2 /\ v2 # <<>>
      /\ m = 3 => four[m] = v3 /\ v3 # <<>>
      /\ m = 4 => four[m] = v4
  BY <1>1, <1>4
<1>8. four[m] = IF v1 # <<>> THEN v1 ELSE IF v2 # <<>> THEN v2
                ELSE IF v3 # <<>> THEN v3 ELSE v4
  BY <1>5, <1>6, <1>7
<1>9. QED
  BY <1>2, <1>8, Zenon DEF four

(* What there is to hear of, and how far that has come                       *)
Heard == Sys!Languages(Sys!Sources, Sys!CatsInUse)

HeardInv ==
    /\ Heard \in Values /\ Coming \in Values
    /\ listing = "done" => list = Sys!L!WithShorter(Sys!Made(Heard), LastResort)
    /\ listing # "done" =>
          \E d \in Values : Heard = d \o Coming /\ list = Sys!Made(d)

LEMMA ValuesAreOfRanges ==
    ASSUME Sys!SystemAssumption PROVE \A v \in Values : v \in Seq(LanguageRanges)
<1>1. Ranges \subseteq LanguageRanges
  BY DEF Sys!SystemAssumption, LanguageRanges
<1>2. QED
  BY <1>1 DEF Values

LEMMA HeardInit == Sys!SystemAssumption /\ Sys!L!LocalesInit => HeardInv
<1> SUFFICES ASSUME Sys!SystemAssumption, Sys!L!LocalesInit PROVE HeardInv
  OBVIOUS
<1>1. /\ list = <<>> /\ Coming \in Values /\ listing # "done" /\ Heard = Coming
  BY DEF Sys!L!LocalesInit, Coming, Heard, Values
<1>2. <<>> \in Values /\ <<>> \o Coming = Coming
  BY <1>1, EmptySeq, ConcatEmptySeq DEF Values
<1>3. QED
  BY <1>1, <1>2, MadeGrows DEF HeardInv

LEMMA HeardStep ==
    ASSUME Sys!SystemAssumption, HeardInv, [Sys!L!LocalesNext]_(Sys!L!localesVars)
    PROVE  HeardInv'
<1>1. CASE UNCHANGED Sys!L!localesVars
  <2>1. /\ Heard' = Heard /\ Coming' = Coming /\ list' = list
        /\ listing' = "done" <=> listing = "done"
    BY <1>1 DEF Sys!L!localesVars, Heard, Coming
  <2>2. QED
    BY <2>1 DEF HeardInv
<1>2. CASE Sys!L!AppendLocale
  <2>1. /\ listing # "done" /\ listing' # "done" /\ Coming # <<>>
        /\ list' = Sys!L!WithShorter(list, Head(Coming))
        /\ Coming' = Tail(Coming) /\ Heard' = Heard
    BY <1>2 DEF Sys!L!AppendLocale, Heard, Coming
  <2>2. PICK d \in Values : Heard = d \o Coming /\ list = Sys!Made(d)
    BY <2>1 DEF HeardInv
  <2>3. /\ Head(Coming) \in Ranges /\ Tail(Coming) \in Values
        /\ Append(d, Head(Coming)) \in Values
        /\ Append(d, Head(Coming)) \o Tail(Coming) = d \o Coming
    <3>1. d \in Seq(Ranges) /\ Coming \in Seq(Ranges)
      BY DEF HeardInv, Values
    <3>2. QED
      BY <2>1, <3>1, HeadMovesOver DEF Values
  <2>4. Sys!Made(Append(d, Head(Coming))) = list'
    <3>1. d \in Seq(LanguageRanges)
      BY ValuesAreOfRanges
    <3>2. Head(Coming) \in LanguageRanges
      BY <2>3 DEF Sys!SystemAssumption, LanguageRanges
    <3>3. QED
      BY <2>1, <2>2, <3>1, <3>2, MadeGrows
  <2>5. QED
    BY <2>1, <2>2, <2>3, <2>4 DEF HeardInv
<1>3. CASE Sys!L!ReturnSystem
  <2>1. /\ listing # "done" /\ listing' = "done" /\ Coming = <<>>
        /\ list' = Sys!L!WithShorter(list, LastResort)
        /\ Coming' = Coming /\ Heard' = Heard
    BY <1>3 DEF Sys!L!ReturnSystem, Heard, Coming
  <2>2. PICK d \in Values : Heard = d \o Coming /\ list = Sys!Made(d)
    BY <2>1 DEF HeardInv
  <2>3. d \o <<>> = d
    BY ConcatEmptySeq DEF Values
  <2>4. Heard = d
    BY <2>1, <2>2, <2>3, Zenon
  <2>5. QED
    BY <2>1, <2>2, <2>4 DEF HeardInv
<1>4. ~(Sys!L!ReadHeader \/ Sys!L!ExpandList \/ Sys!L!ReturnHeader)
  BY DEF Sys!L!ReadHeader, Sys!L!ExpandList, Sys!L!ReturnHeader
<1>5. QED
  BY <1>1, <1>2, <1>3, <1>4 DEF Sys!L!LocalesNext

(* What setlocale makes of the variables says again what one of them says.   *)
LEMMA HeardInOrder ==
    ASSUME Sys!SystemAssumption, SysInv, HeardInv
    PROVE  Sys!FollowsTheEnvironment
<1> SUFFICES ASSUME listing = "done",
                    cats \in {Sys!Wanted, [category \in DOMAIN cats |-> ValueC]}
             PROVE  list = Sys!L!WithShorter(
                             Sys!Made(Sys!Languages(Sys!Documented, cats)), LastResort)
  BY DEF Sys!FollowsTheEnvironment
<1> DEFINE G == Says("LANGUAGE", cats)
           X == Says("all", cats)
           M == Says("messages", cats)
           A == Says("LC_ALL", cats)
           B == Says("LC_MESSAGES", cats)
           D == Says("LANG", cats)
<1>1. Sys!CatsInUse = cats
  BY DEF Sys!CatsInUse
<1>2. cats \in [LC_MESSAGES : Values, LC_CTYPE : Values]
  BY DEF SysInv
<1>3. /\ "LANGUAGE" \in SourceNames /\ "all" \in SourceNames /\ "messages" \in SourceNames
      /\ "LC_ALL" \in SourceNames /\ "LC_MESSAGES" \in SourceNames /\ "LANG" \in SourceNames
  BY DEF SourceNames
<1>4. \A source \in SourceNames : Says(source, cats) \in Seq(LanguageRanges)
  BY <1>2, NamesAreLanguages, ValuesAreOfRanges DEF Says
<1>5. /\ Sys!Languages(Sys!Sources, cats) = G \o (X \o (M \o (A \o (B \o D))))
      /\ Sys!Languages(Sys!Documented, cats) = G \o (A \o (B \o (D \o (X \o M))))
  <2>1. Sys!Languages(Sys!Sources, cats) = G \o (X \o (M \o (A \o (B \o D))))
    <3>1. /\ Sys!Sources \in [1 .. 6 -> SourceNames]
          /\ Sys!Sources[1] = "LANGUAGE" /\ Sys!Sources[2] = "all"
          /\ Sys!Sources[3] = "messages" /\ Sys!Sources[4] = "LC_ALL"
          /\ Sys!Sources[5] = "LC_MESSAGES" /\ Sys!Sources[6] = "LANG"
      BY <1>3 DEF Sys!Sources
    <3>2. Sys!Languages(Sys!Sources, cats) =
            Says(Sys!Sources[1], cats) \o (Says(Sys!Sources[2], cats) \o
              (Says(Sys!Sources[3], cats) \o (Says(Sys!Sources[4], cats) \o
                (Says(Sys!Sources[5], cats) \o Says(Sys!Sources[6], cats)))))
      BY <1>2, <3>1, LanguagesOfSix, Zenon
    <3>3. QED
      BY <3>1, <3>2, Zenon
  <2>2. Sys!Languages(Sys!Documented, cats) = G \o (A \o (B \o (D \o (X \o M))))
    <3>1. /\ Sys!Documented \in [1 .. 6 -> SourceNames]
          /\ Sys!Documented[1] = "LANGUAGE" /\ Sys!Documented[2] = "LC_ALL"
          /\ Sys!Documented[3] = "LC_MESSAGES" /\ Sys!Documented[4] = "LANG"
          /\ Sys!Documented[5] = "all" /\ Sys!Documented[6] = "messages"
      BY <1>3 DEF Sys!Documented
    <3>2. Sys!Languages(Sys!Documented, cats) =
            Says(Sys!Documented[1], cats) \o (Says(Sys!Documented[2], cats) \o
              (Says(Sys!Documented[3], cats) \o (Says(Sys!Documented[4], cats) \o
                (Says(Sys!Documented[5], cats) \o Says(Sys!Documented[6], cats)))))
      BY <1>2, <3>1, LanguagesOfSix, Zenon
    <3>3. QED
      BY <3>1, <3>2, Zenon
  <2>3. QED
    BY <2>1, <2>2
<1>6. /\ X = Sys!NamesIn(Sys!All(cats)) /\ M = Sys!NamesIn(cats.LC_MESSAGES)
      /\ A = Sys!NamesIn(env.LC_ALL) /\ B = Sys!NamesIn(env.LC_MESSAGES)
      /\ D = Sys!NamesIn(env.LANG)
  BY DEF Says, Sys!Value
<1>7. Sys!NamesIn(ValueC) = <<>> /\ Sys!NamesIn(Composite) = <<>> /\ Sys!NamesIn(<<>>) = <<>>
  BY DEF Sys!NamesIn
<1> HIDE DEF G, X, M, A, B, D
<1>8. X = <<>> \/ X = M
  BY <1>6, <1>7 DEF Sys!All
<1>9. \/ M = <<>> \/ M = A
      \/ A = <<>> /\ M = B
      \/ A = <<>> /\ B = <<>> /\ M = D
  <2>1. DOMAIN cats = {"LC_MESSAGES", "LC_CTYPE"}
    BY <1>2
  <2>2. CASE cats = [category \in DOMAIN cats |-> ValueC]
    <3>1. cats.LC_MESSAGES = ValueC
      BY <2>1, <2>2
    <3>2. QED
      BY <1>6, <1>7, <3>1
  <2>3. CASE cats = Sys!Wanted
    <3>1. cats.LC_MESSAGES = Sys!FirstSet(<<env.LC_ALL, env.LC_MESSAGES, env.LANG, ValueC>>)
      BY <2>1, <2>3 DEF Sys!Wanted, Sys!FromEnvironment
    <3>2. ValueC # <<>>
      BY DEF Sys!SystemAssumption
    <3>3. Sys!FirstSet(<<env.LC_ALL, env.LC_MESSAGES, env.LANG, ValueC>>) =
            IF env.LC_ALL # <<>> THEN env.LC_ALL
            ELSE IF env.LC_MESSAGES # <<>> THEN env.LC_MESSAGES
            ELSE IF env.LANG # <<>> THEN env.LANG ELSE ValueC
      BY <3>2, FirstOfFour
    <3>4. cats.LC_MESSAGES =
            IF env.LC_ALL # <<>> THEN env.LC_ALL
            ELSE IF env.LC_MESSAGES # <<>> THEN env.LC_MESSAGES
            ELSE IF env.LANG # <<>> THEN env.LANG ELSE ValueC
      BY <3>1, <3>3
    <3>5. QED
      BY <1>6, <1>7, <3>4
  <2>4. QED
    BY <2>2, <2>3
<1>10. Sys!Made(G \o (X \o (M \o (A \o (B \o D)))))
          = Sys!Made(G \o (A \o (B \o (D \o (X \o M)))))
  <2>1. /\ G \in Seq(LanguageRanges) /\ X \in Seq(LanguageRanges)
        /\ M \in Seq(LanguageRanges) /\ A \in Seq(LanguageRanges)
        /\ B \in Seq(LanguageRanges) /\ D \in Seq(LanguageRanges)
    BY <1>3, <1>4, Zenon DEF G, X, M, A, B, D
  <2>2. QED
    BY <1>8, <1>9, <2>1, SaidTwice
<1>11. list = Sys!L!WithShorter(Sys!Made(Heard), LastResort)
  BY DEF HeardInv
<1>12. QED
  BY <1>1, <1>5, <1>10, <1>11, Zenon DEF Heard

(* A program that lets system_locales set its locale is offered the          *)
(* languages of the environment in the documented order, then those of the   *)
(* categories, whether setlocale knew the locale or not                      *)
(* (lngs_storage.cpp:136-149): for any environment and any locales that are  *)
(* installed.                                                                *)
THEOREM SystemFollowsEnvironment ==
    ASSUME Sys!SystemAssumption
    PROVE  Sys!Spec => []Sys!FollowsTheEnvironment
<1>1. Sys!Init => SysInv /\ HeardInv
  BY SysInit, SysStarts, HeardInit
<1>2. SysInv /\ [Sys!Next]_(Sys!vars) => SysInv'
  BY SysStep
<1>3. SysInv /\ HeardInv /\ [Sys!Next]_(Sys!vars) => HeardInv'
  BY SysImplements, HeardStep
<1>4. SysInv /\ HeardInv => Sys!FollowsTheEnvironment
  BY HeardInOrder
<1>5. QED
  BY <1>1, <1>2, <1>3, <1>4, PTL DEF Sys!Spec


===============================================================================
