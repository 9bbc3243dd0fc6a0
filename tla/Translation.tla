----------------------------- MODULE Translation -----------------------------
(***************************************************************************)
(* One lngs::translation object (libs/liblngs/src/translation.cpp) with    *)
(* the lang_file it owns, driven by an application thread, while other     *)
(* programs (a "make" that regenerates the .lng, a package manager)        *)
(* rewrite and delete the language files under it.                         *)
(*                                                                         *)
(* translation::open is a sequence of steps: resolve the path and sample   *)
(* its modification time, read the file in blocks, parse it, compare the   *)
(* serial, then call every listener of a copy of the listener map.  The    *)
(* environment may act between any two of them, and a listener is free to  *)
(* call back into the object, open() included, so that calls nest.         *)
(***************************************************************************)
EXTENDS Integers, FiniteSets

CONSTANTS
    Langs,       (* the language names passed to open                        *)
    Paths,       (* the files the path manager can name                      *)
    Expand,      (* path_manager::expand: the file a language is stored in   *)
    Texts,       (* what a file may hold: [valid, serial, rule]              *)
    Serials,     (* the serial numbers a program may be compiled with        *)
    UseAny,      (* SerialNumber::UseAny: do not compare serials             *)
    Rules,       (* plural rules an ATTR_PLURALS attribute may describe      *)
    Default,     (* the rule used when there is no such attribute            *)
    NoLex,       (* an unset plurals::lexical                                *)
    TokenMod,    (* number of values of the token counter: 2^32 in the code  *)
    FirstToken,  (* its initial value: 0xba5e0000 in the code                *)
    MaxClock,    (* bound: last timestamp the file system gives              *)
    MaxOpens,    (* bound: calls of open                                     *)
    MaxAdds,     (* bound: calls of add_onupdate                             *)
    MaxDepth     (* bound: open calls nested in one another by listeners     *)

ASSUME TranslationAssumption ==
    /\ Expand \in [Langs -> Paths]
    /\ Texts \subseteq [valid : BOOLEAN, serial : Serials,
                        rule : Rules \cup {Default}]
    /\ Texts # {}
    /\ UseAny \notin Serials
    /\ NoLex \notin Rules \cup {Default}
    /\ TokenMod \in Nat /\ TokenMod >= 2
    /\ FirstToken \in 1 .. TokenMod - 1
    /\ MaxClock \in Nat /\ MaxOpens \in Nat /\ MaxAdds \in Nat
    /\ MaxDepth \in Nat

VARIABLES
    fs,            (* the file system: what every path holds                 *)
    clock,         (* its latest timestamp                                   *)
    m_path,        (* the file of the last open, or NoPath                   *)
    m_mtime,       (* its timestamp as sampled by the last open              *)
    m_data,        (* the block of memory last read                          *)
    m_file,        (* the block the lang_file's sections point into          *)
    lex,           (* lang_file::lex, the compiled plural rule               *)
    listeners,     (* m_updatelisteners: the token of every registration     *)
    m_nextupdate,  (* the token counter                                      *)
    pc,            (* where the thread is; "app": outside of open proper     *)
    want,          (* the serial argument of the open in progress            *)
    head,          (* what was under m_path when it was opened for reading   *)
    depth,         (* how many open calls are announcing themselves          *)
    copy,          (* per nested open: listeners its onupdate still calls    *)
    opens,         (* history: number of calls of open so far                *)
    adds,          (* history: number of calls of add_onupdate so far        *)
    since,         (* history: value of opens when a listener was added      *)
    seen           (* history: value of opens when a listener last ran       *)

file_vars     == <<fs, clock>>
block_vars    == <<m_path, m_mtime, m_data, m_file, want, head>>
listener_vars == <<listeners, m_nextupdate, adds, since>>
call_vars     == <<pc, depth, copy, opens, seen>>
vars          == <<file_vars, block_vars, lex, listener_vars, call_vars>>

------------------------------------------------------------------------------
(* Files and blocks *)

NoPath == "no path"

Stamps == 1 .. MaxClock

(* A missing file; 0 stands for the value-initialised file_time_type.        *)
NoFile == [mtime |-> 0, text |-> CHOOSE t \in Texts : TRUE]

Files == {NoFile} \cup [mtime : Stamps, text : Texts]

Exists(file) == file.mtime # 0

FileAt(path) == IF path = NoPath THEN NoFile ELSE fs[path]

(* translation::mtime: an error reads as the value-initialised time.         *)
MTime(path) == FileAt(path).mtime

(* A block of memory: which open read it, from which path, the timestamps    *)
(* the file had while its bytes were copied, and what the bytes parse as.    *)
Blocks ==
    [id : 1 .. MaxOpens, path : Paths, stamps : SUBSET Stamps, text : Texts]

(* memory_block{}                                                            *)
Empty == [id |-> 0, path |-> NoPath, stamps |-> {},
          text |-> CHOOSE t \in Texts : TRUE]

(* lang_file with every section closed                                       *)
Closed == 0

fresh == MTime(m_path) = m_mtime

(* A registration in m_updatelisteners; reg tells two listeners apart.       *)
Tokens    == 0 .. TokenMod - 1
Regs      == 1 .. MaxAdds
Listeners == [token : Tokens, reg : Regs]

------------------------------------------------------------------------------
Init ==
    /\ fs \in [Paths -> Files]
    /\ clock = 1
    /\ \A p \in Paths : fs[p].mtime <= clock
    /\ m_path = NoPath
    /\ m_mtime = 0
    /\ m_data = Empty
    /\ m_file = Closed
    /\ lex = NoLex
    /\ listeners = {}
    /\ m_nextupdate = FirstToken
    /\ pc = "app"
    /\ want = UseAny
    /\ head = NoFile
    /\ depth = 0
    /\ copy = [d \in 1 .. MaxDepth |-> {}]
    /\ opens = 0
    /\ adds = 0
    /\ since = [r \in Regs |-> 0]
    /\ seen = [r \in Regs |-> 0]

------------------------------------------------------------------------------
(* The environment.  A writer truncates a file and fills it again: both are  *)
(* writes here, the first of a text that is not valid.  Two writes may get   *)
(* the same timestamp, the clock of the file system being coarse.            *)

WriteFile(path, text) ==
    /\ \E now \in {clock, clock + 1} :
        /\ now <= MaxClock
        /\ clock' = now
        /\ fs' = [fs EXCEPT ![path] = [mtime |-> now, text |-> text]]
    /\ UNCHANGED <<block_vars, lex, listener_vars, call_vars>>

DeleteFile(path) ==
    /\ Exists(fs[path])
    /\ fs' = [fs EXCEPT ![path] = NoFile]
    /\ UNCHANGED <<clock, block_vars, lex, listener_vars, call_vars>>

------------------------------------------------------------------------------
(* translation::open.  Called by the application, or by a listener that is   *)
(* being called (depth > 0).                                                 *)

Open(lng, serial) ==
    /\ pc = "app"
    /\ opens < MaxOpens /\ depth < MaxDepth
    /\ m_path' = Expand[lng]
    /\ m_mtime' = MTime(Expand[lng])
    /\ m_file' = Closed
    /\ want' = serial
    /\ opens' = opens + 1
    /\ pc' = "fopen"
    /\ UNCHANGED <<file_vars, m_data, head, lex, listener_vars, depth, copy,
                   seen>>

(* onupdate of the open that ends: the map is copied, the calls follow.      *)
StartUpdate ==
    /\ depth' = depth + 1
    /\ copy' = [copy EXCEPT ![depth + 1] = listeners]
    /\ pc' = "onupdate"
    /\ UNCHANGED <<listener_vars, opens, seen>>

(* Mutant: a file that parsed and is refused for its serial is not closed.   *)
OpenFails_LeavesOpen ==
    /\ m_data' = Empty
    /\ m_file' = opens
    /\ m_mtime' = 0
    /\ StartUpdate

(* Mutant: an open that fails does not call onupdate.                        *)
OpenFails_Silent ==
    /\ m_data' = Empty
    /\ m_file' = Closed
    /\ m_mtime' = 0
    /\ pc' = "app"
    /\ UNCHANGED <<listener_vars, depth, copy, opens, seen>>

OpenFails ==
    /\ m_data' = Empty
    /\ m_file' = Closed
    /\ m_mtime' = 0
    /\ StartUpdate

(* open_file: fopen, and fread of a first block of bytes.  When fopen fails  *)
(* there is nothing to parse.                                                *)
OpenFile ==
    /\ pc = "fopen"
    /\ head' = FileAt(m_path)
    /\ \/ /\ Exists(FileAt(m_path))
          /\ pc' = "fread"
          /\ UNCHANGED <<m_mtime, m_data, m_file, depth, copy, opens, seen,
                         listener_vars>>
       \/ ~Exists(FileAt(m_path)) /\ OpenFails
    /\ UNCHANGED <<file_vars, m_path, want, lex>>

(* What the bytes parse as: the text found by fopen, or, when the file       *)
(* changed while it was copied, a mixture that may parse as anything.        *)
TextsRead ==
    LET now == FileAt(m_path) IN
    {[text |-> head.text, stamps |-> {head.mtime}]} \cup
    IF Exists(now) /\ now # head
      THEN {[text |-> t, stamps |-> {head.mtime, now.mtime}] : t \in Texts}
      ELSE {}

(* Mutant: the serial is not compared.                                       *)
Accepted_AnySerial(text) == text.valid

(* lang_file::open succeeds and the serial is the one asked for.             *)
Accepted(text) == text.valid /\ (want # UseAny => text.serial = want)

(* Mutant: the timestamp is sampled once the file is loaded.                 *)
OpenSucceeds_SamplesLate(read) ==
    /\ Accepted(read.text)
    /\ m_data' = [id |-> opens, path |-> m_path, stamps |-> read.stamps,
                  text |-> read.text]
    /\ m_file' = opens
    /\ m_mtime' = MTime(m_path)
    /\ StartUpdate

OpenSucceeds(read) ==
    /\ Accepted(read.text)
    /\ m_data' = [id |-> opens, path |-> m_path, stamps |-> read.stamps,
                  text |-> read.text]
    /\ m_file' = opens
    /\ UNCHANGED m_mtime
    /\ StartUpdate

(* The rest of the reads, lang_file::open and the comparison of serials.  A  *)
(* failing fread leaves an empty block, as a file of the wrong kind does.    *)
ReadFile ==
    /\ pc = "fread"
    /\ \/ \E read \in TextsRead : OpenSucceeds(read)
       \/ OpenFails
    /\ head' = NoFile
    /\ UNCHANGED <<file_vars, m_path, want, lex>>

------------------------------------------------------------------------------
(* translation::onupdate, one step per listener, in the order of std::map    *)

NextListener ==
    CHOOSE l \in copy[depth] : \A k \in copy[depth] : l.token <= k.token

(* Mutant: a listener that ran stays in the copy.                            *)
CallListener_Again ==
    /\ pc = "onupdate"
    /\ copy[depth] # {}
    /\ seen' = [seen EXCEPT ![NextListener.reg] = opens]
    /\ pc' = "app"
    /\ UNCHANGED <<file_vars, block_vars, lex, listener_vars, depth, copy,
                   opens>>

CallListener ==
    /\ pc = "onupdate"
    /\ copy[depth] # {}
    /\ seen' = [seen EXCEPT ![NextListener.reg] = opens]
    /\ copy' = [copy EXCEPT ![depth] = @ \ {NextListener}]
    /\ pc' = "app"
    /\ UNCHANGED <<file_vars, block_vars, lex, listener_vars, depth, opens>>

ListenerReturns ==
    /\ pc = "app" /\ depth > 0
    /\ pc' = "onupdate"
    /\ UNCHANGED <<file_vars, block_vars, lex, listener_vars, depth, copy,
                   opens, seen>>

(* Mutant: the calls stop before the copy is exhausted.                      *)
OpenReturns_Early ==
    /\ pc = "onupdate"
    /\ depth' = depth - 1
    /\ pc' = "app"
    /\ UNCHANGED <<file_vars, block_vars, lex, listener_vars, copy, opens,
                   seen>>

(* onupdate is done: open returns to whoever called it, the application or   *)
(* the listener that is one level up.                                        *)
OpenReturns ==
    /\ pc = "onupdate"
    /\ copy[depth] = {}
    /\ depth' = depth - 1
    /\ pc' = "app"
    /\ UNCHANGED <<file_vars, block_vars, lex, listener_vars, copy, opens,
                   seen>>

------------------------------------------------------------------------------
(* The rest of the interface, for the application and for its listeners      *)

(* Mutant: the counter wraps around to 0.                                    *)
NextToken_Zero == (m_nextupdate + 1) % TokenMod

(* Mutant: the token is the size of the map, which shrinks again.            *)
NextToken_Size == (Cardinality(listeners) % (TokenMod - 1)) + 1

(* ++m_nextupdate on an unsigned that skips 0, the answer for "no listener". *)
NextToken ==
    IF m_nextupdate + 1 = TokenMod THEN 1 ELSE m_nextupdate + 1

AddOnUpdate ==
    /\ pc = "app"
    /\ adds < MaxAdds
    /\ m_nextupdate' = NextToken
    /\ adds' = adds + 1
    /\ listeners' = {l \in listeners : l.token # NextToken}
                      \cup {[token |-> NextToken, reg |-> adds + 1]}
    /\ since' = [since EXCEPT ![adds + 1] = opens]
    /\ UNCHANGED <<file_vars, block_vars, lex, call_vars>>

RemoveOnUpdate(token) ==
    /\ pc = "app"
    /\ listeners' = {l \in listeners : l.token # token}
    /\ UNCHANGED <<file_vars, block_vars, lex, m_nextupdate, adds, since,
                   call_vars>>

(* lang_file::calc_substring, under get_string(id, count).  A string that is *)
(* not there is returned before any rule is looked at.                       *)
GetStringPlural ==
    /\ pc = "app"
    /\ m_file # Closed
    /\ lex' = IF lex = NoLex THEN m_data.text.rule ELSE lex
    /\ UNCHANGED <<file_vars, block_vars, listener_vars, call_vars>>

------------------------------------------------------------------------------
Environment ==
    \E path \in Paths : DeleteFile(path) \/ \E t \in Texts : WriteFile(path, t)

Application ==
    \/ \E lng \in Langs, serial \in Serials \cup {UseAny} : Open(lng, serial)
    \/ AddOnUpdate
    \/ \E token \in Tokens : RemoveOnUpdate(token)
    \/ GetStringPlural

(* The steps open takes by itself once called.                               *)
Running ==
    \/ OpenFile \/ ReadFile
    \/ CallListener \/ ListenerReturns \/ OpenReturns

Next == Environment \/ Application \/ Running

Spec == Init /\ [][Next]_vars

(* open runs to its end once called, if the listeners it calls return.       *)
FairSpec == Spec /\ WF_vars(Running)

------------------------------------------------------------------------------
(* Properties *)

(* The state has its type: every token fits the counter, 0 is never one.     *)
TypeOK ==
    /\ fs \in [Paths -> Files]
    /\ clock \in Nat
    /\ m_path \in Paths \cup {NoPath}
    /\ m_mtime \in Nat
    /\ m_data \in Blocks \cup {Empty}
    /\ m_file \in 0 .. MaxOpens
    /\ lex \in Rules \cup {Default, NoLex}
    /\ listeners \subseteq Listeners
    /\ m_nextupdate \in Tokens \ {0}
    /\ pc \in {"app", "fopen", "fread", "onupdate"}
    /\ want \in Serials \cup {UseAny}
    /\ head \in Files
    /\ depth \in 0 .. MaxDepth
    /\ copy \in [1 .. MaxDepth -> SUBSET Listeners]
    /\ opens \in 0 .. MaxOpens
    /\ adds \in 0 .. MaxAdds
    /\ since \in [Regs -> 0 .. MaxOpens]
    /\ seen \in [Regs -> 0 .. MaxOpens]

(* Whenever the application or a listener can call a getter, the sections of *)
(* m_file point into the block m_data owns, and are closed exactly when it   *)
(* owns none: no getter reads the memory of an earlier file, or of one that  *)
(* was turned down (translation.cpp:85-94).                                  *)
ViewsAreLive == pc \in {"app", "onupdate"} => m_file = m_data.id

(* Strings are only ever served from a file of the language last asked for   *)
(* that parsed as a whole and carries the serial that call asked for, however*)
(* the calls of open nested and whatever was written meanwhile.              *)
ServedAsRequested ==
    m_file # Closed =>
        /\ m_data.path = m_path
        /\ m_data.text.valid
        /\ want \in {UseAny, m_data.text.serial}

(* fresh() never calls outdated strings fresh: when it holds and the file    *)
(* exists, the strings served were copied from that file, and every byte of  *)
(* them at the timestamp it has now, even when a writer was active between   *)
(* the sampling of the timestamp and the reads (translation.cpp:82,86).      *)
FreshIsCurrent ==
    (pc \in {"app", "onupdate"} /\ fresh /\ Exists(FileAt(m_path))) =>
        /\ m_file # Closed
        /\ m_data.path = m_path
        /\ m_data.stamps = {FileAt(m_path).mtime}

(* When control is back in the application, a listener that was there before *)
(* the last open has run since that open loaded its file, although listeners *)
(* add, remove and open while they are called and onupdate walks a copy.     *)
ListenersCaughtUp ==
    (pc = "app" /\ depth = 0) =>
        \A l \in listeners : since[l.reg] < opens => seen[l.reg] = opens

(* A new registration takes a token no other listener holds, so it replaces  *)
(* none, until the counter has gone round once (translation.cpp:154-160).    *)
AddReplacesNone ==
    [][(adds' # adds /\ adds' < TokenMod) => listeners \subseteq listeners']_vars

(* Listener r was there when the last open began and has not run since.      *)
Lags(r) == \E l \in listeners : l.reg = r /\ since[r] < opens /\ seen[r] < opens

(* A listener registered when an open begins is told of that open or of a    *)
(* later one, unless it is removed first.                                    *)
ListenersAreTold == \A r \in Regs : Lags(r) ~> ~Lags(r)

(* The abstract view of a translation: a source of strings.                  *)
Source == INSTANCE StringSource WITH
    asked   <- [path |-> m_path, serial |-> want],
    pending <- pc \in {"fopen", "fread"},
    served  <- IF m_file = Closed THEN {}
               ELSE {[path |-> m_data.path, text |-> m_data.text]}

(* A translation is a source of strings: the steps of open, listeners that   *)
(* call back and writers at work come down to one question and one answer    *)
(* each, and nothing but another open changes what is served.                *)
ImplementsSource == Source!Spec

------------------------------------------------------------------------------
(* Two statements of docs/usage.md that the code does not keep               *)

(* Plural forms are chosen by the rule of the language that is open.         *)
PluralRuleIsOfOpenFile ==
    (pc = "app" /\ m_file # Closed /\ lex # NoLex) => lex = m_data.text.rule

(* remove_onupdate removes the callable: it is not called any more.          *)
RemovedIsNotCalled ==
    [][\A r \in Regs :
        seen'[r] # seen[r] => \E l \in listeners : l.reg = r]_vars

==============================================================================
