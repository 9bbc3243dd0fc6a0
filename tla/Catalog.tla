------------------------------- MODULE Catalog --------------------------------
(***************************************************************************)
(* The life of a string catalogue: the .idl file a developer edits, the    *)
(* identifiers read_strings gives its new strings, `lngs freeze`, which    *)
(* writes them into the file, and the two artefacts of a release, the      *)
(* header (`lngs enums`) compiled into the program and the .lng file       *)
(* (`lngs make`) the program opens, tied to each other by a serial alone.  *)
(*                                                                         *)
(* Edits, builds and releases follow docs/flow.md; the version control     *)
(* they go through is not part of the repository.                          *)
(***************************************************************************)
EXTENDS Integers, Sequences, SequencesExt, FiniteSetsExt

CONSTANTS
    Keys,       (* the names of the strings                                  *)
    LastBase,   (* identifiers start after it: 1000 in the code              *)
    MaxSerial,  (* bound: serials a catalogue goes through                   *)
    Damaged,    (* contents that are not a catalogue                         *)
    Nothing     (* no artefact yet, no freeze running                        *)

New == -1

(* What a file may hold, and what is released.                               *)
Catalogs ==
    [serial : 0 .. MaxSerial,
     strings : Seq([key : Keys, id : {New} \cup Nat])]

Artefacts == [serial : 0 .. MaxSerial, strings : SUBSET [key : Keys, id : Nat]]

ASSUME CatalogAssumption ==
    /\ LastBase \in Nat /\ MaxSerial \in Nat
    /\ Damaged \notin Catalogs
    /\ Nothing \notin Catalogs \cup Artefacts

VARIABLES
    idl,        (* what the .idl file holds: [serial, strings], or Damaged   *)
    committed,  (* the version of it under version control                   *)
    freezing,   (* what a running `lngs freeze` has read, or Nothing         *)
    header,     (* the header the released program was compiled with         *)
    lng         (* the .lng file released for it                             *)

catalogVars == <<idl, committed, freezing, header, lng>>

------------------------------------------------------------------------------
(* Reading a catalogue.  Every string has an id, positive once it is final.  *)

IsNew(str) == str.id <= 0

(* Mutant: only the strings ahead of the first new one are searched.         *)
HighestId_StopsAtNew(strings) ==
    Max({LastBase} \cup
        {strings[n].id : n \in {m \in DOMAIN strings :
                                  \A k \in 1 .. m : ~IsNew(strings[k])}})

HighestId(strings) ==
    Max({LastBase} \cup
        {strings[n].id : n \in {m \in DOMAIN strings : ~IsNew(strings[m])}})

(* The identifier of the n-th string: its own, or, for a new one, the next   *)
(* above all that are final, in the order of the file.                       *)
NumberOf(strings, n) ==
    IF IsNew(strings[n])
      THEN HighestId(strings)
             + Cardinality({m \in 1 .. n : IsNew(strings[m])})
      ELSE strings[n].id

HasNew(file) == \E n \in DOMAIN file.strings : IsNew(file.strings[n])

(* read_strings: the catalogue with the identifiers every command works with *)
ReadStrings(file) ==
    [serial |-> file.serial,
     strings |-> [n \in DOMAIN file.strings |->
                    [key |-> file.strings[n].key,
                     id  |-> NumberOf(file.strings, n)]]]

(* Mutant: the serial is left as it was.                                     *)
Freeze_SameSerial(file) == ReadStrings(file)

(* Mutant: the number that was read is written, not the one assigned.        *)
Freeze_OriginalIds(file) == [file EXCEPT !.serial = @ + 1]

(* Mutant: the serial is counted up twice.                                   *)
Freeze_TwiceSerial(file) == [ReadStrings(file) EXCEPT !.serial = @ + 2]

(* freeze: what is written for a catalogue that has new strings.             *)
Freeze(file) == [ReadStrings(file) EXCEPT !.serial = @ + 1]

KeysOf(file) == {file.strings[n].key : n \in DOMAIN file.strings}

------------------------------------------------------------------------------
CatalogInit ==
    /\ idl = [serial |-> 0, strings |-> <<>>]
    /\ committed = idl
    /\ freezing = Nothing
    /\ header = Nothing
    /\ lng = Nothing

------------------------------------------------------------------------------
(* The developer: a new string is given id(-1), wherever it is put.          *)

AddString(key, n) ==
    /\ idl # Damaged /\ key \notin KeysOf(idl)
    /\ n \in 1 .. Len(idl.strings) + 1
    /\ idl' = [idl EXCEPT !.strings =
                 InsertAt(@, n, [key |-> key, id |-> New])]
    /\ UNCHANGED <<committed, freezing, header, lng>>

DeleteString(n) ==
    /\ idl # Damaged
    /\ n \in DOMAIN idl.strings
    /\ idl' = [idl EXCEPT !.strings = RemoveAt(@, n)]
    /\ UNCHANGED <<committed, freezing, header, lng>>

Commit ==
    /\ idl # Damaged
    /\ committed' = idl
    /\ UNCHANGED <<idl, freezing, header, lng>>

Checkout ==
    /\ freezing = Nothing
    /\ idl' = committed
    /\ UNCHANGED <<committed, freezing, header, lng>>

------------------------------------------------------------------------------
(* lngs freeze on a file that is its own output: the file is read, truncated *)
(* by fopen, and written.  The editor may save between the first two.        *)

FreezeReads ==
    /\ freezing = Nothing
    /\ idl # Damaged
    /\ HasNew(idl) /\ idl.serial < MaxSerial
    /\ freezing' = idl
    /\ UNCHANGED <<idl, committed, header, lng>>

FreezeOpens ==
    /\ freezing # Nothing
    /\ idl # Damaged
    /\ idl' = Damaged
    /\ UNCHANGED <<committed, freezing, header, lng>>

FreezeWrites ==
    /\ freezing # Nothing
    /\ idl = Damaged
    /\ idl' = Freeze(freezing)
    /\ freezing' = Nothing
    /\ UNCHANGED <<committed, header, lng>>

(* The process dies half way, or the disk is full: no write is checked.      *)
FreezeFails ==
    /\ freezing # Nothing
    /\ freezing' = Nothing
    /\ UNCHANGED <<idl, committed, header, lng>>

------------------------------------------------------------------------------
(* A release is built from the version that is committed, once it is frozen. *)

Releasable ==
    /\ idl # Damaged
    /\ idl = committed
    /\ ~HasNew(idl)

Strings(file) == {file.strings[n] : n \in DOMAIN file.strings}

(* lngs enums                                                                *)
ReleaseHeader ==
    /\ Releasable
    /\ header' = [serial |-> idl.serial, strings |-> Strings(ReadStrings(idl))]
    /\ UNCHANGED <<idl, committed, freezing, lng>>

(* lngs make, for the strings a translator has provided.                     *)
ReleaseLng(translated) ==
    /\ Releasable
    /\ lng' = [serial  |-> idl.serial,
               strings |-> {str \in Strings(ReadStrings(idl)) :
                              str.key \in translated}]
    /\ UNCHANGED <<idl, committed, freezing, header>>

------------------------------------------------------------------------------
CatalogNext ==
    \/ \E key \in Keys, n \in 1 .. Cardinality(Keys) : AddString(key, n)
    \/ \E n \in 1 .. Cardinality(Keys) : DeleteString(n)
    \/ Commit
    \/ Checkout
    \/ FreezeReads
    \/ FreezeOpens
    \/ FreezeWrites
    \/ FreezeFails
    \/ ReleaseHeader
    \/ \E translated \in SUBSET Keys : ReleaseLng(translated)

CatalogSpec == CatalogInit /\ [][CatalogNext]_catalogVars

------------------------------------------------------------------------------
(* Properties *)

CatalogTypeOK ==
    /\ idl \in Catalogs \cup {Damaged}
    /\ committed \in Catalogs
    /\ freezing \in Catalogs \cup {Nothing}
    /\ header \in Artefacts \cup {Nothing}
    /\ lng \in Artefacts \cup {Nothing}

(* id(-1) guarantees that all identifiers are unique (docs/syntax.md:138):   *)
(* whatever was added, deleted, frozen and lost before, no two strings of a  *)
(* catalogue are numbered alike.                                             *)
IdsAreUnique ==
    idl # Damaged =>
        LET strings == ReadStrings(idl).strings IN
        \A m, n \in DOMAIN strings :
            strings[m].id = strings[n].id => m = n

(* A program that opens a translation because the serials are the same finds *)
(* under each of its identifiers its own string or none: what was released   *)
(* under one serial never gives one number to two strings, even if one was   *)
(* deleted and its number was the highest.                                   *)
SameSerialAgrees ==
    (header # Nothing /\ lng # Nothing /\ header.serial = lng.serial) =>
        \A s \in header.strings, t \in lng.strings :
            s.id = t.id => s.key = t.key

(* An identifier means one string: within a catalogue, and between all that  *)
(* was released under one serial.                                            *)
OneMeaning == IdsAreUnique /\ SameSerialAgrees

(* Freezing changes no number a build from the same file was made with: the  *)
(* file freeze leaves behind reads as the one it read, a serial later.       *)
FreezeKeepsNumbers ==
    [][(idl = Damaged /\ idl' # Damaged /\ freezing # Nothing) =>
          /\ ReadStrings(idl').strings = ReadStrings(freezing).strings
          /\ idl'.serial = freezing.serial + 1
          /\ ~HasNew(idl')]_catalogVars

==============================================================================
