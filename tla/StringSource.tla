----------------------------- MODULE StringSource -----------------------------
(***************************************************************************)
(* What a program may expect of a source of strings, whatever happens to   *)
(* its files and whoever calls it from where: it is asked for a file and a *)
(* serial, answers once, with a whole text that fits or not at all, and    *)
(* from then on serves that very text until it is asked again.             *)
(***************************************************************************)
CONSTANTS
    Paths,     (* the files                                                  *)
    NoPath,    (* before the first question                                  *)
    Texts,     (* what a file may hold: [valid, serial, ...]                 *)
    Serials, UseAny

VARIABLES
    asked,     (* the last question: [path, serial]                          *)
    pending,   (* it is not answered yet                                     *)
    served     (* what strings are taken from: {}, or {[path, text]}         *)

vars == <<asked, pending, served>>

Init ==
    /\ asked = [path |-> NoPath, serial |-> UseAny]
    /\ pending = FALSE
    /\ served = {}

Ask(path, serial) ==
    /\ ~pending
    /\ asked' = [path |-> path, serial |-> serial]
    /\ pending' = TRUE
    /\ served' = {}

Answer(text) ==
    /\ pending
    /\ text.valid
    /\ asked.serial \in {UseAny, text.serial}
    /\ served' = {[path |-> asked.path, text |-> text]}
    /\ pending' = FALSE
    /\ UNCHANGED asked

Refuse ==
    /\ pending
    /\ pending' = FALSE
    /\ UNCHANGED <<asked, served>>

Next ==
    \/ \E path \in Paths, serial \in Serials \cup {UseAny} : Ask(path, serial)
    \/ \E text \in Texts : Answer(text)
    \/ Refuse

Spec == Init /\ [][Next]_vars

==============================================================================
