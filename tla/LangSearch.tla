------------------------------ MODULE LangSearch ------------------------------
(***************************************************************************)
(* search(coll, key) of app/src/lang_codes.inl: the binary search lngs     *)
(* make looks the subtags of a locale up with.  It runs on the tables of   *)
(* lang_codes.cpp, which iana-reg.py has sorted; keys are numbers here,    *)
(* ordered as the strings of the code.                                     *)
(*                                                                         *)
(* lo and hi are positions, not pointers: hi may be one below the table.   *)
(***************************************************************************)
EXTENDS Integers

CONSTANTS
    Length,   (* of the table, which is never empty                          *)
    coll,     (* the table: its keys, by position                            *)
    Keys      (* what may be looked for                                      *)

Positions == 0 .. Length - 1

(* What iana-reg.py guarantees with sorted(): no key comes twice, none       *)
(* behind a greater one.                                                     *)
ASSUME SearchAssumption ==
    /\ Length \in Nat \ {0}
    /\ Keys \subseteq Int
    /\ coll \in [Positions -> Int]
    /\ \A i, j \in Positions : i < j => coll[i] < coll[j]

VARIABLES
    key,      (* what is looked for                                          *)
    lo, hi,   (* the part of the table that is left                          *)
    found,    (* where it is, or nullptr                                     *)
    pc        (* "searching" or "done"                                       *)

vars == <<key, lo, hi, found, pc>>

nullptr == -1

Init ==
    /\ key \in Keys
    /\ lo = 0 /\ hi = Length - 1
    /\ found = nullptr
    /\ pc = "searching"

mid == lo + (hi - lo) \div 2

Hit ==
    /\ pc = "searching" /\ hi >= lo
    /\ key = coll[mid]
    /\ found' = mid
    /\ pc' = "done"
    /\ UNCHANGED <<key, lo, hi>>

(* Mutant: the key that was looked at is kept in.                            *)
Lower_KeepsMid ==
    /\ pc = "searching" /\ hi >= lo
    /\ key < coll[mid]
    /\ hi' = mid
    /\ UNCHANGED <<key, lo, found, pc>>

Lower ==
    /\ pc = "searching" /\ hi >= lo
    /\ key < coll[mid]
    /\ hi' = mid - 1
    /\ UNCHANGED <<key, lo, found, pc>>

(* Mutant: one key too many is left out.                                     *)
Upper_SkipsOne ==
    /\ pc = "searching" /\ hi >= lo
    /\ key > coll[mid]
    /\ lo' = mid + 2
    /\ UNCHANGED <<key, hi, found, pc>>

Upper ==
    /\ pc = "searching" /\ hi >= lo
    /\ key > coll[mid]
    /\ lo' = mid + 1
    /\ UNCHANGED <<key, hi, found, pc>>

Miss ==
    /\ pc = "searching" /\ hi < lo
    /\ pc' = "done"
    /\ UNCHANGED <<key, lo, hi, found>>

Next == Hit \/ Lower \/ Upper \/ Miss

Spec == Init /\ [][Next]_vars

(* The loop is a loop: it goes on as long as it can.                         *)
FairSpec == Spec /\ WF_vars(Next)

------------------------------------------------------------------------------
(* Properties *)

TypeOK ==
    /\ key \in Keys
    /\ lo \in 0 .. Length
    /\ hi \in -1 .. Length - 1
    /\ found \in Positions \cup {nullptr}
    /\ pc \in {"searching", "done"}

(* Where the key is, it has not been left out.                               *)
Bracketed ==
    pc = "searching" =>
        /\ found = nullptr
        /\ \A i \in Positions : coll[i] = key => lo <= i /\ i <= hi

(* The search answers with the position of its key, and with nullptr only if *)
(* the key is not in the table: no name of a language or a region is missed, *)
(* and none is taken for another.                                            *)
FindsWhatIsThere ==
    pc = "done" =>
        IF found = nullptr THEN \A i \in Positions : coll[i] # key
        ELSE found \in Positions /\ coll[found] = key

(* Nothing outside of the table is compared.                                 *)
LooksInside == (pc = "searching" /\ lo <= hi) => mid \in Positions

(* The part that is left gets smaller with every step, and the search ends.  *)
Narrows ==
    [][pc' = "searching" => hi' - lo' < hi - lo]_vars

SearchEnds == <>(pc = "done")

==============================================================================
