--------------------------------- MODULE Lite ---------------------------------
(***************************************************************************)
(* The C interface (libs/liblngs_lite/lite.cpp) and the Python module on   *)
(* top of it (extras/py-lngs/py-lngs.cc): handles that own the contents of *)
(* a language file, read by their owners and closed once, by the host      *)
(* program or by the Python object made for them.                          *)
(*                                                                         *)
(* The collector runs an object's finalizer and frees it; of the Python    *)
(* runtime only that, and that an object may not be had, is assumed.       *)
(***************************************************************************)
EXTENDS Integers, Sequences, FiniteSets

CONSTANTS
    Handles,    (* what an HSTRINGS points to                                *)
    NoHandle,   (* the null handle                                           *)
    Paths,
    Texts,      (* what a file may be: [valid, rule, forms], forms telling   *)
                (* for every string its plural forms                         *)
    Ids, Counts, (* the numbers a caller passes                              *)
    Null        (* the null pointer, None in Python                          *)

LiteAssumption ==
    /\ NoHandle \notin Handles
    /\ Null \notin Texts
    /\ \A t \in Texts : /\ DOMAIN t.forms \subseteq Ids
                        /\ DOMAIN t.rule = Counts
                        /\ \A id \in DOMAIN t.forms :
                              /\ 1 \in DOMAIN t.forms[id]
                              /\ \A form \in DOMAIN t.forms[id] : t.forms[id][form] # Null

VARIABLES
    disk,       (* the file at every path                                    *)
    heap,       (* the DllTranslation behind every handle, or Null           *)
    host,       (* the handles a C program holds                             *)
    objects,    (* the handles inside Python objects                         *)
    wrapping,   (* the handle strings::open has and has no object for yet    *)
    answer      (* history: the last answer, [call, text, args, is]          *)

vars == <<disk, heap, host, objects, wrapping, answer>>

NoAnswer == [call |-> "none", text |-> Null, args |-> <<>>, is |-> Null]

Live == {h \in Handles : heap[h] # Null}

------------------------------------------------------------------------------
(* lang_file::get_string of an identifier, and with a count.                 *)

(* Mutant: an empty string is taken for none.                                *)
Singular_Empty(text, id) ==
    IF id \in DOMAIN text.forms /\ text.forms[id][1] # ""
      THEN text.forms[id][1] ELSE Null

Singular(text, id) ==
    IF id \in DOMAIN text.forms THEN text.forms[id][1] ELSE Null

Plural(text, id, count) ==
    LET form == text.rule[count] + 1 IN
    IF id \in DOMAIN text.forms /\ form \in DOMAIN text.forms[id]
      THEN text.forms[id][form] ELSE Singular(text, id)

------------------------------------------------------------------------------
Init ==
    /\ disk \in [Paths -> Texts]
    /\ heap = [h \in Handles |-> Null]
    /\ host = {} /\ objects = {}
    /\ wrapping = NoHandle
    /\ answer = NoAnswer

WriteFile(path, text) ==
    /\ disk' = [disk EXCEPT ![path] = text]
    /\ UNCHANGED <<heap, host, objects, wrapping, answer>>

(* DllTranslation::open: a file that does not open leaves nothing.           *)
Opened(h, path) ==
    /\ heap[h] = Null
    /\ disk[path].valid
    /\ heap' = [heap EXCEPT ![h] = disk[path]]

OpenStrings(path) ==
    /\ wrapping = NoHandle
    /\ \E h \in Handles : Opened(h, path) /\ host' = host \cup {h}
    /\ UNCHANGED <<disk, objects, wrapping, answer>>

Closed(h) == heap' = [heap EXCEPT ![h] = Null]

CloseStrings(h) ==
    /\ wrapping = NoHandle
    /\ h \in host
    /\ Closed(h)
    /\ host' = host \ {h}
    /\ UNCHANGED <<disk, objects, wrapping, answer>>

(* ReadString, and ReadStringPl: the null handle has no strings.             *)
Reads(h, call, args, is) ==
    /\ answer' = [call |-> call, text |-> IF h = NoHandle THEN Null ELSE heap[h],
                  args |-> args, is |-> IF h = NoHandle THEN Null ELSE is]
    /\ UNCHANGED <<disk, heap, host, objects, wrapping>>

ReadString(h, id) ==
    /\ wrapping = NoHandle
    /\ h \in host \cup {NoHandle}
    /\ Reads(h, "c", <<id>>, Singular(heap[h], id))

ReadStringPl(h, id, count) ==
    /\ wrapping = NoHandle
    /\ h \in host \cup {NoHandle}
    /\ Reads(h, "c", <<id, count>>, Plural(heap[h], id, count))

------------------------------------------------------------------------------
(* The module strings in Python, which holds its lock until it returns.      *)

PyOpen(path) ==
    /\ wrapping = NoHandle
    /\ \E h \in Handles : Opened(h, path) /\ wrapping' = h
    /\ UNCHANGED <<disk, host, objects, answer>>

PyOpened ==
    /\ wrapping # NoHandle
    /\ objects' = objects \cup {wrapping}
    /\ wrapping' = NoHandle
    /\ UNCHANGED <<disk, heap, host, answer>>

(* Mutant: the handle is forgotten.                                          *)
PyOpenFails_Leaks ==
    /\ wrapping # NoHandle
    /\ wrapping' = NoHandle
    /\ UNCHANGED <<disk, heap, host, objects, answer>>

PyOpenFails ==
    /\ wrapping # NoHandle
    /\ Closed(wrapping)
    /\ wrapping' = NoHandle
    /\ UNCHANGED <<disk, host, objects, answer>>

(* PyLangFile::get: two numbers are a count and an identifier.               *)
PyGet(h, args) ==
    /\ wrapping = NoHandle
    /\ h \in objects
    /\ Reads(h, "py", args,
             IF Len(args) = 2 THEN Plural(heap[h], args[2], args[1])
             ELSE Singular(heap[h], args[1]))

(* The last reference goes.                                                  *)
PyCollect(h) ==
    /\ wrapping = NoHandle
    /\ h \in objects
    /\ Closed(h)
    /\ objects' = objects \ {h}
    /\ UNCHANGED <<disk, host, wrapping, answer>>

------------------------------------------------------------------------------
Args == [1 .. 1 -> Ids] \cup [1 .. 2 -> Ids \cap Counts]

Next ==
    \/ \E path \in Paths, text \in Texts : WriteFile(path, text)
    \/ \E path \in Paths : OpenStrings(path) \/ PyOpen(path)
    \/ PyOpened \/ PyOpenFails
    \/ \E h \in Handles \cup {NoHandle}, id \in Ids : ReadString(h, id)
    \/ \E h \in Handles \cup {NoHandle}, id \in Ids, count \in Counts :
          ReadStringPl(h, id, count)
    \/ \E h \in Handles : CloseStrings(h) \/ PyCollect(h)
    \/ \E h \in Handles, args \in Args : PyGet(h, args)

Spec == Init /\ [][Next]_vars

------------------------------------------------------------------------------
(* Properties *)

(* Whatever fails on the way to a Python object, every open translation has  *)
(* exactly one owner, who will close it: none leaks, none is closed twice    *)
(* (py-lngs.cc:73-79).                                                       *)
HandlesAreOwned ==
    /\ Live = host \cup objects \cup ({wrapping} \ {NoHandle})
    /\ host \cap objects = {}
    /\ wrapping \notin host \cup objects

(* The identifier a call takes its arguments to name.                         *)
LookedUp(a) ==
    IF a.call = "py" /\ Len(a.args) = 2 THEN a.args[2] ELSE a.args[1]

(* A null pointer, or None, says that the file has no such string: a string  *)
(* that is there and empty is the empty string (lite.cpp:40-46, py-lngs.cc:  *)
(* 40-43).                                                                   *)
NullMeansMissing ==
    answer.text # Null =>
        (answer.is = Null <=> LookedUp(answer) \notin DOMAIN answer.text.forms)

(* Both of these, of every history of opens, reads and collections.          *)
HandlesAndStringsAreKept == HandlesAreOwned /\ NullMeansMissing

(* Either get(id) or get(id, count), for strings with plural (py-lngs.cc:    *)
(* 24): the first number is the identifier.                                  *)
GetTakesTheIdFirst ==
    (answer.call = "py" /\ Len(answer.args) = 2) =>
        answer.is = Plural(answer.text, answer.args[1], answer.args[2])

==============================================================================
