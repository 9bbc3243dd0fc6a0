-------------------------- MODULE TranslationProofs ---------------------------
(***************************************************************************)
(* Proofs about Translation, for any number of languages, files, listeners *)
(* and nested calls, and any width of the token counter.                   *)
(***************************************************************************)
EXTENDS Translation, TLAPS

(* What the type invariant needs to be inductive: how far open has got.      *)
PhaseOK ==
    /\ clock >= 1
    /\ (pc # "app" \/ depth > 0) => m_path \in Paths /\ opens >= 1
    /\ pc \in {"fopen", "fread"} => depth < MaxDepth
    /\ pc = "fread" => Exists(head)
    /\ pc = "onupdate" => depth >= 1

TInv == TypeOK /\ PhaseOK

------------------------------------------------------------------------------
(* The text a record without a file carries is a text.                       *)
LEMMA SomeText == (CHOOSE t \in Texts : TRUE) \in Texts
  BY TranslationAssumption

(* What is found under a path has the type of a file, and one that exists    *)
(* has a timestamp of its own.                                               *)
LEMMA FileAtType ==
    ASSUME TypeOK, NEW p
    PROVE  p \in Paths \cup {NoPath} =>
             /\ FileAt(p) \in Files
             /\ FileAt(p).mtime \in Nat
             /\ Exists(FileAt(p)) => FileAt(p).mtime \in Stamps /\ p \in Paths
  <1>1. NoFile \in Files /\ NoFile.mtime = 0
    BY DEF NoFile, Files
  <1>2. \A f \in Files : /\ f.mtime \in Nat
                         /\ f.mtime # 0 => f.mtime \in Stamps
    BY TranslationAssumption DEF NoFile, Files, Stamps
  <1>3. ASSUME p \in Paths, p # NoPath
        PROVE  FileAt(p) \in Files
    BY <1>3 DEF FileAt, TypeOK
  <1> QED
    BY <1>1, <1>2, <1>3 DEF FileAt, Exists

(* Announcing an open keeps the type of the listener bookkeeping.            *)
LEMMA StartUpdateType ==
    ASSUME TInv, pc \in {"fopen", "fread"}, StartUpdate
    PROVE  /\ depth' \in 1 .. MaxDepth
           /\ copy' \in [1 .. MaxDepth -> SUBSET Listeners]
           /\ pc' = "onupdate"
           /\ UNCHANGED <<listener_vars, opens, seen>>
  BY TranslationAssumption
  DEF TInv, TypeOK, PhaseOK, StartUpdate, listener_vars

(* What the blocks read from a file make of it is a text, and the timestamps *)
(* they were copied at are timestamps, one at least.                         *)
LEMMA TextsReadType ==
    ASSUME TInv, pc = "fread", NEW read \in TextsRead
    PROVE  /\ read.text \in Texts
           /\ read.stamps \in SUBSET Stamps
           /\ read.stamps # {}
  <1>1. head.text \in Texts /\ head.mtime \in Stamps
    BY SomeText DEF TInv, TypeOK, PhaseOK, Files, NoFile, Exists
  <1>2. CASE read = [text |-> head.text, stamps |-> {head.mtime}]
    BY <1>1, <1>2
  <1>3. CASE \E t \in Texts :
               /\ read = [text |-> t,
                          stamps |-> {head.mtime, FileAt(m_path).mtime}]
               /\ Exists(FileAt(m_path))
    BY <1>1, <1>3, FileAtType DEF TInv, TypeOK
  <1> QED
    BY <1>2, <1>3 DEF TextsRead

(* The type invariant and the phases of open hold at first and are kept by   *)
(* every step.                                                               *)
LEMMA TypeInit == Init => TInv
  <1> SUFFICES ASSUME Init PROVE TInv
    OBVIOUS
  <1>1. NoFile \in Files /\ Empty \in Blocks \cup {Empty}
    BY DEF Files
  <1>2. FirstToken \in Tokens \ {0} /\ 0 \in 0 .. MaxOpens
        /\ 0 \in 0 .. MaxDepth /\ 0 \in 0 .. MaxAdds
    BY TranslationAssumption DEF Tokens
  <1> QED
    BY <1>1, <1>2, TranslationAssumption
    DEF Init, TInv, TypeOK, PhaseOK, Closed

LEMMA TypeStep == TInv /\ [Next]_vars => TInv'
  <1> SUFFICES ASSUME TInv, [Next]_vars PROVE TInv'
    OBVIOUS
  <1> USE TranslationAssumption
  <1>1. ASSUME NEW path \in Paths, NEW text \in Texts, WriteFile(path, text)
        PROVE  TInv'
    <2>1. PICK now \in {clock, clock + 1} :
              /\ now <= MaxClock
              /\ clock' = now
              /\ fs' = [fs EXCEPT ![path] = [mtime |-> now, text |-> text]]
      BY <1>1 DEF WriteFile
    <2>2. clock' \in Nat /\ clock' >= 1
      BY <2>1 DEF TInv, TypeOK, PhaseOK
    <2>3. fs' \in [Paths -> Files]
      BY <1>1, <2>1 DEF TInv, TypeOK, PhaseOK, Files, Stamps
    <2> QED
      BY <1>1, <2>2, <2>3
      DEF TInv, TypeOK, PhaseOK, WriteFile, block_vars, listener_vars,
          call_vars
  <1>2. ASSUME NEW path \in Paths, DeleteFile(path)
        PROVE  TInv'
    <2>1. fs' \in [Paths -> Files]
      BY <1>2 DEF DeleteFile, TInv, TypeOK, Files
    <2> QED
      BY <1>2, <2>1
      DEF TInv, TypeOK, PhaseOK, DeleteFile, block_vars, listener_vars,
          call_vars
  <1>3. ASSUME NEW lng \in Langs, NEW serial \in Serials \cup {UseAny},
               Open(lng, serial)
        PROVE  TInv'
    <2>1. Expand[lng] \in Paths
      OBVIOUS
    <2>2. MTime(Expand[lng]) \in Nat
      BY <2>1, FileAtType DEF MTime, TInv
    <2> QED
      BY <1>3, <2>1, <2>2
      DEF TInv, TypeOK, PhaseOK, Open, Closed, file_vars, listener_vars
  <1>4. CASE OpenFile
    <2>1. FileAt(m_path) \in Files
      BY <1>4, FileAtType DEF TInv, TypeOK
    <2>2. CASE Exists(FileAt(m_path)) /\ pc' = "fread" /\
               UNCHANGED <<m_mtime, m_data, m_file, depth, copy, opens, seen,
                           listener_vars>>
      BY <1>4, <2>1, <2>2
      DEF TInv, TypeOK, PhaseOK, OpenFile, file_vars, listener_vars
    <2>3. CASE OpenFails
      <3>1. pc \in {"fopen", "fread"} /\ StartUpdate
        BY <1>4, <2>3 DEF OpenFile, OpenFails
      <3> QED
        BY <1>4, <2>1, <2>3, <3>1, StartUpdateType
        DEF TInv, TypeOK, PhaseOK, OpenFile, OpenFails, Closed, file_vars,
            listener_vars
    <2> QED
      BY <1>4, <2>2, <2>3 DEF OpenFile
  <1>5. CASE ReadFile
    <2>1. NoFile \in Files /\ pc \in {"fopen", "fread"}
      BY <1>5 DEF Files, ReadFile
    <2>2. ASSUME NEW read \in TextsRead, OpenSucceeds(read)
          PROVE  TInv'
      <3>1. m_data' \in Blocks /\ m_file' \in 0 .. MaxOpens
        BY <1>5, <2>2, TextsReadType
        DEF OpenSucceeds, Blocks, TInv, TypeOK, PhaseOK, ReadFile
      <3>2. StartUpdate
        BY <2>2 DEF OpenSucceeds
      <3> QED
        BY <1>5, <2>1, <2>2, <3>1, <3>2, StartUpdateType
        DEF TInv, TypeOK, PhaseOK, ReadFile, OpenSucceeds, file_vars,
            listener_vars
    <2>3. CASE OpenFails
      <3>1. StartUpdate
        BY <2>3 DEF OpenFails
      <3> QED
        BY <1>5, <2>1, <2>3, <3>1, StartUpdateType
        DEF TInv, TypeOK, PhaseOK, ReadFile, OpenFails, Closed, file_vars,
            listener_vars
    <2> QED
      BY <1>5, <2>2, <2>3 DEF ReadFile
  <1>6. CASE CallListener
    BY <1>6
    DEF TInv, TypeOK, PhaseOK, CallListener, file_vars, block_vars,
        listener_vars
  <1>7. CASE ListenerReturns
    BY <1>7
    DEF TInv, TypeOK, PhaseOK, ListenerReturns, file_vars, block_vars,
        listener_vars
  <1>8. CASE OpenReturns
    BY <1>8
    DEF TInv, TypeOK, PhaseOK, OpenReturns, file_vars, block_vars,
        listener_vars
  <1>9. CASE AddOnUpdate
    <2>1. NextToken \in Tokens \ {0} /\ adds + 1 \in Regs
      BY <1>9 DEF NextToken, Tokens, Regs, TInv, TypeOK, AddOnUpdate
    <2> QED
      BY <1>9, <2>1
      DEF TInv, TypeOK, PhaseOK, AddOnUpdate, Listeners, Regs, file_vars,
          block_vars, call_vars
  <1>10. ASSUME NEW token \in Tokens, RemoveOnUpdate(token)
         PROVE  TInv'
    BY <1>10
    DEF TInv, TypeOK, PhaseOK, RemoveOnUpdate, file_vars, block_vars,
        call_vars
  <1>11. CASE GetStringPlural
    <2>1. m_data.text.rule \in Rules \cup {Default}
      BY SomeText DEF TInv, TypeOK, Blocks, Empty
    <2> QED
      BY <1>11, <2>1
      DEF TInv, TypeOK, PhaseOK, GetStringPlural, file_vars, block_vars,
          listener_vars, call_vars
  <1>12. CASE UNCHANGED vars
    BY <1>12
    DEF TInv, TypeOK, PhaseOK, vars, file_vars, block_vars, listener_vars,
        call_vars
  <1> QED
    BY <1>1, <1>2, <1>3, <1>4, <1>5, <1>6, <1>7, <1>8, <1>9, <1>10, <1>11,
       <1>12
    DEF Next, Environment, Application, Running

(* Every reachable state of a translation has its type.                      *)
THEOREM TypeCorrect == Spec => []TypeOK
  <1>1. TInv => TypeOK
    BY DEF TInv
  <1> QED
    BY <1>1, TypeInit, TypeStep, PTL DEF Spec

------------------------------------------------------------------------------
(* Loading.  A getter can run exactly when control is with the application   *)
(* or onupdate; the timestamps involved are then in order: the one sampled   *)
(* first, those under which the bytes were read, the one the file has now.   *)

(* No file is from the future.                                               *)
ClockInv == m_mtime <= clock /\ \A p \in Paths : fs[p].mtime <= clock

(* While open is at work the sections are closed, and what it has found so   *)
(* far is no older than the sampled timestamp.                               *)
ReadingInv ==
    /\ pc \in {"fopen", "fread"} =>
         /\ m_file = Closed
         /\ Exists(FileAt(m_path)) => m_mtime <= FileAt(m_path).mtime
    /\ pc = "fread" =>
         /\ m_mtime <= head.mtime /\ head.mtime <= clock
         /\ Exists(FileAt(m_path)) => head.mtime <= FileAt(m_path).mtime

(* Afterwards either nothing is served and no timestamp is kept, or a block  *)
(* of the right file is.                                                     *)
LoadedInv ==
    pc \in {"app", "onupdate"} =>
      /\ m_file = m_data.id
      /\ m_file = Closed => m_mtime = 0
      /\ m_file # Closed =>
           /\ m_data.path = m_path
           /\ m_data.stamps # {}
           /\ \A s \in m_data.stamps :
                /\ m_mtime <= s /\ s <= clock
                /\ Exists(FileAt(m_path)) => s <= FileAt(m_path).mtime

LoadInv == ClockInv /\ ReadingInv /\ LoadedInv /\ ServedAsRequested

(* The timestamp of what is under a path is no later than the clock.         *)
LEMMA FileAtClock ==
    ASSUME TInv, ClockInv, NEW p \in Paths \cup {NoPath}
    PROVE  FileAt(p).mtime \in Nat /\ FileAt(p).mtime <= clock
  <1>1. NoFile.mtime = 0 /\ clock \in Nat
    BY DEF NoFile, TInv, TypeOK
  <1> QED
    BY <1>1, FileAtType DEF FileAt, ClockInv, TInv

LEMMA LoadInit == Init => LoadInv
  <1> SUFFICES ASSUME Init PROVE LoadInv
    OBVIOUS
  <1>1. Empty.id = 0
    BY DEF Empty
  <1> QED
    BY <1>1
    DEF Init, LoadInv, ClockInv, ReadingInv, LoadedInv, ServedAsRequested,
        Closed

(* A step of the environment leaves a later timestamp under a path, or none. *)
LEMMA EnvironmentLater ==
    ASSUME TInv, ClockInv, Environment
    PROVE  /\ ClockInv' /\ clock <= clock'
           /\ UNCHANGED <<block_vars, pc>>
           /\ \A p \in Paths \cup {NoPath} : Exists(FileAt(p))' =>
                \/ Exists(FileAt(p)) /\ FileAt(p)' = FileAt(p)
                \/ clock <= FileAt(p).mtime'
  <1>1. NoFile.mtime = 0
    BY DEF NoFile
  <1>2. ASSUME NEW path \in Paths, DeleteFile(path)
        PROVE  /\ fs' = [fs EXCEPT ![path] = NoFile]
               /\ UNCHANGED <<clock, block_vars, pc>>
    BY <1>2 DEF DeleteFile, call_vars
  <1>3. ASSUME NEW path \in Paths, NEW text \in Texts, WriteFile(path, text)
        PROVE  /\ fs' = [fs EXCEPT ![path] = [mtime |-> clock', text |-> text]]
               /\ clock' \in {clock, clock + 1}
               /\ UNCHANGED <<block_vars, pc>>
    BY <1>3 DEF WriteFile, call_vars
  <1>4. fs \in [Paths -> Files] /\ clock \in Nat /\ m_mtime \in Nat
        /\ \A p \in Paths : fs[p].mtime \in Nat
    <2>1. \A p \in Paths : fs[p] \in Files
      BY DEF TInv, TypeOK
    <2>2. \A f \in Files : f.mtime \in Nat
      BY TranslationAssumption DEF Files, NoFile, Stamps
    <2> QED
      BY <2>1, <2>2 DEF TInv, TypeOK
  <1>5. PICK path \in Paths :
            DeleteFile(path) \/ \E text \in Texts : WriteFile(path, text)
    BY DEF Environment
  <1>6. CASE DeleteFile(path)
    BY <1>1, <1>2, <1>4, <1>6 DEF ClockInv, FileAt, Exists, block_vars
  <1>7. ASSUME NEW text \in Texts, WriteFile(path, text)
        PROVE  /\ ClockInv' /\ clock <= clock'
               /\ UNCHANGED <<block_vars, pc>>
               /\ \A p \in Paths \cup {NoPath} : Exists(FileAt(p))' =>
                    \/ Exists(FileAt(p)) /\ FileAt(p)' = FileAt(p)
                    \/ clock <= FileAt(p).mtime'
    BY <1>1, <1>3, <1>4, <1>7 DEF ClockInv, FileAt, Exists, block_vars
  <1> QED
    BY <1>5, <1>6, <1>7

(* A step that leaves the files and the blocks alone and does not move       *)
(* between reading and serving keeps what is known of them.                  *)
LEMMA LoadKept ==
    ASSUME LoadInv, UNCHANGED <<file_vars, block_vars>>,
           pc \in {"app", "onupdate"}, pc' \in {"app", "onupdate"}
    PROVE  LoadInv'
  BY DEF LoadInv, ClockInv, ReadingInv, LoadedInv, ServedAsRequested, FileAt,
         file_vars, block_vars

(* An open that fails leaves nothing to serve.                               *)
LEMMA LoadFails ==
    ASSUME TInv, LoadInv, OpenFails, UNCHANGED file_vars
    PROVE  LoadInv'
  <1>1. /\ pc' = "onupdate" /\ m_data' = Empty /\ Empty.id = 0
        /\ m_file' = Closed /\ m_mtime' = 0
    BY DEF OpenFails, StartUpdate, Empty
  <1> QED
    BY <1>1
    DEF LoadInv, ClockInv, ReadingInv, LoadedInv, ServedAsRequested, TInv,
        TypeOK, file_vars, Closed

LEMMA LoadStep == TInv /\ LoadInv /\ [Next]_vars => LoadInv'
  <1> SUFFICES ASSUME TInv, LoadInv, [Next]_vars PROVE LoadInv'
    OBVIOUS
  <1>1. CASE Environment
    <2>1. m_path \in Paths \cup {NoPath} /\ clock \in Nat /\ clock' \in Nat
          /\ m_mtime \in Nat /\ head.mtime \in Nat
          /\ FileAt(m_path).mtime' \in Nat
      <3>1. TInv'
        BY TypeStep
      <3>2. \A f \in Files : f.mtime \in Nat
        BY TranslationAssumption DEF Files, NoFile, Stamps
      <3>3. FileAt(m_path)' \in Files
        BY <3>1 DEF FileAt, TInv, TypeOK, Files
      <3> QED
        BY <3>1, <3>2, <3>3 DEF TInv, TypeOK
    <2>2. ClockInv
      BY DEF LoadInv
    <2>3. /\ ClockInv' /\ clock <= clock' /\ UNCHANGED <<block_vars, pc>>
          /\ Exists(FileAt(m_path))' =>
               \/ Exists(FileAt(m_path)) /\ FileAt(m_path)' = FileAt(m_path)
               \/ clock <= FileAt(m_path).mtime'
      BY <1>1, <2>1, <2>2, EnvironmentLater DEF block_vars, FileAt, Exists
    <2>4. ReadingInv'
      BY <2>1, <2>3 DEF LoadInv, ReadingInv, ClockInv, block_vars
    <2>5. LoadedInv'
      <3>1. \A s \in m_data.stamps : m_data.id # 0 => s \in Nat
        BY DEF TInv, TypeOK, Blocks, Stamps, Empty
      <3> QED
        BY <2>1, <2>3, <3>1 DEF LoadInv, LoadedInv, Closed, block_vars
    <2> QED
      BY <2>3, <2>4, <2>5 DEF LoadInv, ServedAsRequested, block_vars
  <1>2. ASSUME NEW lng \in Langs, NEW serial \in Serials \cup {UseAny},
               Open(lng, serial)
        PROVE  LoadInv'
    <2>1. Expand[lng] \in Paths /\ ClockInv
      BY TranslationAssumption DEF LoadInv
    <2>2. MTime(Expand[lng]) \in Nat /\ MTime(Expand[lng]) <= clock
      BY <2>1, FileAtClock DEF MTime
    <2> QED
      BY <1>2, <2>1, <2>2
      DEF Open, LoadInv, ClockInv, ReadingInv, LoadedInv, ServedAsRequested,
          MTime, FileAt, file_vars
  <1>3. CASE OpenFile
    <2>1. CASE OpenFails
      BY <1>3, <2>1, LoadFails DEF OpenFile
    <2>2. CASE Exists(FileAt(m_path)) /\ pc' = "fread" /\
               UNCHANGED <<m_mtime, m_data, m_file>>
      <3>1. FileAt(m_path).mtime \in Nat /\ FileAt(m_path).mtime <= clock
        BY <1>3, FileAtClock DEF LoadInv, TInv, TypeOK
      <3> QED
        BY <1>3, <2>2, <3>1
        DEF OpenFile, LoadInv, ClockInv, ReadingInv, LoadedInv,
            ServedAsRequested, FileAt, file_vars
    <2> QED
      BY <1>3, <2>1, <2>2 DEF OpenFile
  <1>4. CASE ReadFile
    <2>1. CASE OpenFails
      BY <1>4, <2>1, LoadFails DEF ReadFile
    <2>2. ASSUME NEW read \in TextsRead, OpenSucceeds(read)
          PROVE  LoadInv'
      <3>1. /\ head.mtime \in Nat /\ clock \in Nat /\ m_mtime \in Nat
            /\ FileAt(m_path).mtime \in Nat /\ FileAt(m_path).mtime <= clock
        <4>1. \A f \in Files : f.mtime \in Nat
          BY TranslationAssumption DEF Files, NoFile, Stamps
        <4> QED
          BY <4>1, FileAtClock DEF LoadInv, TInv, TypeOK
      <3>2. read.stamps # {}
        BY <1>4, TextsReadType DEF ReadFile
      <3>3. \A s \in read.stamps :
               \/ s = head.mtime
               \/ Exists(FileAt(m_path)) /\ s = FileAt(m_path).mtime
        BY DEF TextsRead
      <3>4. /\ pc = "fread" /\ pc' = "onupdate"
            /\ UNCHANGED <<fs, clock, m_path, m_mtime, want>>
        BY <1>4, <2>2 DEF ReadFile, OpenSucceeds, StartUpdate, file_vars
      <3>5. /\ m_data'.id = opens /\ m_file' = opens
            /\ m_data'.path = m_path /\ m_data'.stamps = read.stamps
            /\ m_data'.text = read.text
        BY <2>2 DEF OpenSucceeds
      <3>6. ClockInv' /\ ReadingInv'
        BY <3>4 DEF LoadInv, ClockInv, ReadingInv
      <3>7. LoadedInv'
        <4>1. \A s \in read.stamps :
                /\ m_mtime <= s /\ s <= clock
                /\ Exists(FileAt(m_path)) => s <= FileAt(m_path).mtime
          BY <3>1, <3>3, <3>4 DEF LoadInv, ReadingInv
        <4>2. opens # Closed
          BY <3>4 DEF TInv, TypeOK, PhaseOK, Closed
        <4> QED
          BY <3>2, <3>4, <3>5, <4>1, <4>2 DEF LoadedInv, FileAt
      <3>8. ServedAsRequested'
        BY <2>2, <3>4, <3>5 DEF ServedAsRequested, OpenSucceeds, Accepted
      <3> QED
        BY <3>6, <3>7, <3>8 DEF LoadInv
    <2> QED
      BY <1>4, <2>1, <2>2 DEF ReadFile
  <1>5. CASE CallListener \/ ListenerReturns \/ OpenReturns
    BY <1>5, LoadKept DEF CallListener, ListenerReturns, OpenReturns
  <1>6. CASE AddOnUpdate \/ GetStringPlural \/
             \E token \in Tokens : RemoveOnUpdate(token)
    BY <1>6, LoadKept
    DEF AddOnUpdate, GetStringPlural, RemoveOnUpdate, call_vars
  <1>7. CASE UNCHANGED vars
    BY <1>7
    DEF vars, file_vars, block_vars, call_vars, LoadInv, ClockInv, ReadingInv,
        LoadedInv, ServedAsRequested, FileAt
  <1> QED
    BY <1>1, <1>2, <1>3, <1>4, <1>5, <1>6, <1>7
    DEF Next, Application, Running

(* What the loading invariant says to the user of fresh(): the sampled       *)
(* timestamp bounds those of the bytes from below, the file's from above.    *)
LEMMA LoadImplies ==
    ASSUME TInv, LoadInv
    PROVE  ViewsAreLive /\ ServedAsRequested /\ FreshIsCurrent
  <1>1. ViewsAreLive /\ ServedAsRequested
    BY DEF LoadInv, LoadedInv, ViewsAreLive
  <1>2. ASSUME pc \in {"app", "onupdate"}, fresh, Exists(FileAt(m_path))
        PROVE  /\ m_file # Closed
               /\ m_data.path = m_path
               /\ m_data.stamps = {FileAt(m_path).mtime}
    <2>1. m_mtime = FileAt(m_path).mtime /\ m_mtime # 0 /\ m_mtime \in Nat
      BY <1>2 DEF fresh, MTime, Exists, TInv, TypeOK
    <2>2. m_file # Closed
      BY <1>2, <2>1 DEF LoadInv, LoadedInv
    <2>3. \A s \in m_data.stamps : s \in Nat
      BY <1>2, <2>2 DEF LoadInv, LoadedInv, TInv, TypeOK, Blocks, Stamps,
                        Empty, Closed
    <2>4. \A s \in m_data.stamps : s = FileAt(m_path).mtime
      BY <1>2, <2>1, <2>2, <2>3 DEF LoadInv, LoadedInv
    <2> QED
      BY <1>2, <2>2, <2>4 DEF LoadInv, LoadedInv
  <1> QED
    BY <1>1, <1>2 DEF FreshIsCurrent

(* No getter ever reads the memory of a block that was given up.             *)
THEOREM GettersReadLiveMemory == Spec => []ViewsAreLive
  BY TypeInit, TypeStep, LoadInit, LoadStep, LoadImplies, PTL DEF Spec

(* Only a file that parsed, of the language and serial asked for, is served. *)
THEOREM OnlyRequestedIsServed == Spec => []ServedAsRequested
  BY TypeInit, TypeStep, LoadInit, LoadStep, LoadImplies, PTL DEF Spec

(* fresh() is never true of strings older than the file.                     *)
THEOREM FreshIsNeverStale == Spec => []FreshIsCurrent
  BY TypeInit, TypeStep, LoadInit, LoadStep, LoadImplies, PTL DEF Spec

------------------------------------------------------------------------------
(* Notification.  Between two listeners, and inside one, a listener that was *)
(* there before the last open has run since, or one of the nested onupdates  *)
(* still has it in its copy.                                                 *)

Pending(l) == \E d \in 1 .. depth : l \in copy[d]

NotifyInv ==
    pc \in {"app", "onupdate"} =>
      \A l \in listeners :
          since[l.reg] < opens => seen[l.reg] = opens \/ Pending(l)

LEMMA NotifyInit == Init => NotifyInv
  BY DEF Init, NotifyInv

(* The open that loaded its file puts every listener in its copy.            *)
LEMMA NotifyStarts ==
    ASSUME TInv, StartUpdate, pc \in {"fopen", "fread"}
    PROVE  NotifyInv'
  <1>1. depth + 1 \in 1 .. MaxDepth /\ copy \in [1 .. MaxDepth -> SUBSET Listeners]
    BY TranslationAssumption DEF TInv, TypeOK, PhaseOK
  <1>2. depth' = depth + 1 /\ copy'[depth + 1] = listeners
        /\ listeners' = listeners
    BY <1>1 DEF StartUpdate, listener_vars
  <1>3. \A l \in listeners' : Pending(l)'
    BY <1>1, <1>2 DEF Pending
  <1> QED
    BY <1>3 DEF NotifyInv

LEMMA NotifyStep == TInv /\ NotifyInv /\ [Next]_vars => NotifyInv'
  <1> SUFFICES ASSUME TInv, NotifyInv, [Next]_vars PROVE NotifyInv'
    OBVIOUS
  <1>1. CASE Environment
    <2>1. UNCHANGED <<listener_vars, call_vars>>
      BY <1>1 DEF Environment, WriteFile, DeleteFile
    <2> QED
      BY <2>1 DEF NotifyInv, Pending, listener_vars, call_vars
  <1>2. ASSUME NEW lng \in Langs, NEW serial \in Serials \cup {UseAny},
               Open(lng, serial)
        PROVE  NotifyInv'
    BY <1>2 DEF Open, NotifyInv
  <1>3. CASE OpenFile
    <2>1. CASE OpenFails
      BY <1>3, <2>1, NotifyStarts DEF OpenFile, OpenFails
    <2>2. CASE pc' = "fread"
      BY <2>2 DEF NotifyInv
    <2> QED
      BY <1>3, <2>1, <2>2 DEF OpenFile
  <1>4. CASE ReadFile
    <2>1. StartUpdate /\ pc \in {"fopen", "fread"}
      BY <1>4 DEF ReadFile, OpenSucceeds, OpenFails
    <2> QED
      BY <2>1, NotifyStarts
  <1>5. CASE CallListener
    <2> DEFINE called == NextListener
    <2>1. depth \in 1 .. MaxDepth
          /\ copy \in [1 .. MaxDepth -> SUBSET Listeners]
          /\ seen \in [Regs -> 0 .. MaxOpens]
          /\ listeners \subseteq Listeners
      BY <1>5 DEF CallListener, TInv, TypeOK, PhaseOK
    <2>2. /\ pc = "onupdate"
          /\ seen' = [seen EXCEPT ![called.reg] = opens]
          /\ copy' = [copy EXCEPT ![depth] = copy[depth] \ {called}]
          /\ UNCHANGED <<listeners, since, opens, depth>>
      BY <1>5 DEF CallListener, listener_vars
    <2> HIDE DEF called
    <2>3. \A l \in listeners : l.reg \in Regs
      BY <2>1 DEF Listeners
    <2>4. ASSUME NEW l \in listeners, since[l.reg] < opens
          PROVE  seen'[l.reg] = opens \/ Pending(l)'
      <3>1. CASE l.reg = called.reg
        BY <2>1, <2>2, <2>3, <3>1
      <3>2. CASE l.reg # called.reg /\ seen[l.reg] = opens
        BY <2>1, <2>2, <2>3, <3>2
      <3>3. CASE l.reg # called.reg /\ Pending(l)
        <4>1. PICK d \in 1 .. depth : l \in copy[d]
          BY <3>3 DEF Pending
        <4>2. d \in 1 .. MaxDepth /\ l # called
          BY <2>1, <3>3, <4>1, TranslationAssumption
        <4>3. l \in copy'[d]
          BY <2>1, <2>2, <4>1, <4>2
        <4> QED
          BY <2>2, <4>1, <4>3 DEF Pending
      <3> QED
        BY <2>2, <2>4, <3>1, <3>2, <3>3 DEF NotifyInv
    <2> QED
      BY <2>2, <2>4 DEF NotifyInv
  <1>6. CASE ListenerReturns
    BY <1>6 DEF ListenerReturns, NotifyInv, Pending, listener_vars
  <1>7. CASE OpenReturns
    <2>1. depth \in 1 .. MaxDepth /\ depth' = depth - 1 /\ copy[depth] = {}
          /\ UNCHANGED <<copy, listener_vars, opens, seen>> /\ pc = "onupdate"
      BY <1>7 DEF OpenReturns, TInv, TypeOK, PhaseOK
    <2>2. \A l : Pending(l) => Pending(l)'
      BY <2>1 DEF Pending
    <2> QED
      BY <2>1, <2>2 DEF NotifyInv, listener_vars
  <1>8. CASE AddOnUpdate
    <2> DEFINE new == [token |-> NextToken, reg |-> adds + 1]
    <2>1. /\ listeners' \subseteq listeners \cup {new}
          /\ since' = [since EXCEPT ![adds + 1] = opens]
          /\ UNCHANGED <<opens, seen, depth, copy, pc>> /\ pc = "app"
      BY <1>8 DEF AddOnUpdate, call_vars
    <2>2. new.reg = adds + 1 /\ adds + 1 \in Regs
          /\ since \in [Regs -> 0 .. MaxOpens] /\ opens \in Nat
          /\ \A l \in listeners : l.reg \in Regs
      BY <1>8, TranslationAssumption
      DEF AddOnUpdate, TInv, TypeOK, Regs, Listeners
    <2> HIDE DEF new
    <2>3. ASSUME NEW l \in listeners', since'[l.reg] < opens
          PROVE  seen[l.reg] = opens \/ Pending(l)
      <3>1. l.reg # adds + 1
        BY <2>1, <2>2, <2>3
      <3>2. l \in listeners /\ since'[l.reg] = since[l.reg]
        BY <2>1, <2>2, <3>1
      <3> QED
        BY <2>1, <2>3, <3>2 DEF NotifyInv
    <2> QED
      BY <2>1, <2>3 DEF NotifyInv, Pending
  <1>9. ASSUME NEW token \in Tokens, RemoveOnUpdate(token)
        PROVE  NotifyInv'
    BY <1>9 DEF RemoveOnUpdate, NotifyInv, Pending, call_vars
  <1>10. CASE GetStringPlural
    BY <1>10
    DEF GetStringPlural, NotifyInv, Pending, listener_vars, call_vars
  <1>11. CASE UNCHANGED vars
    BY <1>11 DEF vars, NotifyInv, Pending, listener_vars, call_vars
  <1> QED
    BY <1>1, <1>2, <1>3, <1>4, <1>5, <1>6, <1>7, <1>8, <1>9, <1>10, <1>11
    DEF Next, Application, Running

(* Whatever the listeners do while they are called, when the outermost open  *)
(* is over each of them has run since the strings last changed.              *)
THEOREM NoListenerLeftBehind == Spec => []ListenersCaughtUp
  <1>1. TInv /\ NotifyInv => ListenersCaughtUp
    BY DEF NotifyInv, ListenersCaughtUp, Pending
  <1> QED
    BY <1>1, TypeInit, TypeStep, NotifyInit, NotifyStep, PTL DEF Spec

------------------------------------------------------------------------------
(* Tokens.  TokenOf(n) is the token the n-th registration takes: the counter *)
(* runs through 1 .. TokenMod - 1 and starts over.                           *)

TokenOf(n) ==
    IF FirstToken + n < TokenMod THEN FirstToken + n
                                 ELSE FirstToken + n - (TokenMod - 1)

TokenInv ==
    /\ adds < TokenMod => m_nextupdate = TokenOf(adds)
    /\ \A l \in listeners :
         /\ l.reg <= adds
         /\ l.reg < TokenMod => l.token = TokenOf(l.reg)

LEMMA TokenInit == Init => TokenInv
  BY TranslationAssumption DEF Init, TokenInv, TokenOf

(* Within one round of the counter, the next token is that of the next       *)
(* registration and of no earlier one.                                       *)
LEMMA TokenNext ==
    ASSUME TInv, TokenInv, adds + 1 < TokenMod
    PROVE  /\ NextToken = TokenOf(adds + 1)
           /\ \A n \in 1 .. adds : TokenOf(n) # NextToken
  <1>1. /\ adds \in Nat /\ m_nextupdate = TokenOf(adds)
        /\ TokenMod \in Nat /\ FirstToken \in 1 .. TokenMod - 1
    BY TranslationAssumption DEF TInv, TypeOK, TokenInv
  <1> QED
    BY <1>1 DEF NextToken, TokenOf

LEMMA TokenStep == TInv /\ TokenInv /\ [Next]_vars => TokenInv'
  <1> SUFFICES ASSUME TInv, TokenInv, [Next]_vars PROVE TokenInv'
    OBVIOUS
  <1>1. CASE AddOnUpdate
    <2> DEFINE new == [token |-> NextToken, reg |-> adds + 1]
    <2>1. /\ listeners' \subseteq listeners \cup {new}
          /\ adds' = adds + 1 /\ m_nextupdate' = NextToken
          /\ new.reg = adds + 1 /\ new.token = NextToken
      BY <1>1 DEF AddOnUpdate
    <2>2. adds \in Nat /\ TokenMod \in Nat
          /\ \A l \in listeners : l.reg \in Nat
      BY TranslationAssumption DEF TInv, TypeOK, Listeners, Regs
    <2> HIDE DEF new
    <2>3. CASE adds + 1 < TokenMod
      BY <2>1, <2>2, <2>3, TokenNext DEF TokenInv, TokenOf
    <2>4. CASE ~(adds + 1 < TokenMod)
      BY <2>1, <2>2, <2>4 DEF TokenInv, TokenOf
    <2> QED
      BY <2>3, <2>4
  <1>2. ASSUME NEW token \in Tokens, RemoveOnUpdate(token)
        PROVE  TokenInv'
    BY <1>2 DEF RemoveOnUpdate, TokenInv, TokenOf
  <1>3. CASE UNCHANGED listener_vars
    BY <1>3 DEF listener_vars, TokenInv, TokenOf
  <1>4. CASE Environment \/ GetStringPlural \/ UNCHANGED vars
    BY <1>3, <1>4
    DEF Environment, WriteFile, DeleteFile, GetStringPlural, vars
  <1>5. CASE \E lng \in Langs, serial \in Serials \cup {UseAny} :
                Open(lng, serial)
    BY <1>3, <1>5 DEF Open
  <1>6. CASE Running
    BY <1>3, <1>6
    DEF Running, OpenFile, OpenFails, ReadFile, OpenSucceeds, StartUpdate,
        CallListener, ListenerReturns, OpenReturns
  <1> QED
    BY <1>1, <1>2, <1>4, <1>5, <1>6 DEF Next, Application

(* No registration takes a token away from a listener before the counter has *)
(* gone through all its values.                                              *)
THEOREM AddNeverReplaces == Spec => AddReplacesNone
  <1>1. TInv /\ TokenInv /\ [Next]_vars =>
          [(adds' # adds /\ adds' < TokenMod) => listeners \subseteq listeners']_vars
    <2> SUFFICES ASSUME TInv, TokenInv, Next, adds' # adds, adds' < TokenMod
                 PROVE  listeners \subseteq listeners'
      OBVIOUS
    <2>1. AddOnUpdate
      BY DEF Next, Environment, Application, Running, WriteFile, DeleteFile,
             Open, OpenFile, OpenFails, ReadFile, OpenSucceeds, StartUpdate,
             CallListener, ListenerReturns, OpenReturns, RemoveOnUpdate,
             GetStringPlural, listener_vars
    <2>2. adds + 1 < TokenMod /\ adds \in Nat
      BY <2>1 DEF AddOnUpdate, TInv, TypeOK
    <2>3. ASSUME NEW l \in listeners
          PROVE  l.token # NextToken
      <3>1. l.reg \in 1 .. adds /\ l.reg < TokenMod
        BY <2>2, TranslationAssumption
        DEF TokenInv, TInv, TypeOK, Listeners, Regs
      <3> QED
        BY <2>2, <3>1, TokenNext DEF TokenInv
    <2> QED
      BY <2>1, <2>3 DEF AddOnUpdate
  <1> QED
    BY <1>1, TypeInit, TypeStep, TokenInit, TokenStep, PTL
    DEF Spec, AddReplacesNone


------------------------------------------------------------------------------
(* Refinement.  Open is the question, the step that leaves "fopen" or        *)
(* "fread" for the listeners is the answer, and no other step is visible.    *)

(* The initial states are initial states of the abstract specification.      *)
LEMMA SourceInit == Init => Source!Init
  BY DEF Init, Source!Init

(* An open that fails is a question without an answer.                       *)
LEMMA FailureRefuses ==
    ASSUME LoadInv, pc \in {"fopen", "fread"}, OpenFails,
           UNCHANGED <<m_path, want>>
    PROVE  Source!Next
  <1>1. m_file = Closed /\ m_file' = Closed /\ pc' = "onupdate"
    BY DEF LoadInv, ReadingInv, OpenFails, StartUpdate
  <1> QED
    BY <1>1 DEF Source!Next, Source!Refuse

(* Every step is a step of the abstract specification or a stutter.          *)
LEMMA SourceStep ==
    TInv /\ LoadInv /\ [Next]_vars => [Source!Next]_(Source!vars)
  <1> SUFFICES ASSUME TInv, LoadInv, [Next]_vars
               PROVE  Source!Next \/ UNCHANGED Source!vars
    OBVIOUS
  <1>1. ASSUME NEW lng \in Langs, NEW serial \in Serials \cup {UseAny},
               Open(lng, serial)
        PROVE  Source!Next
    <2>1. Expand[lng] \in Paths
      BY TranslationAssumption
    <2>2. Source!Ask(Expand[lng], serial)
      BY <1>1 DEF Open, Source!Ask
    <2> QED
      BY <2>1, <2>2 DEF Source!Next
  <1>2. CASE OpenFile
    <2>1. pc = "fopen" /\ UNCHANGED <<m_path, want>>
      BY <1>2 DEF OpenFile
    <2>2. CASE OpenFails
      BY <2>1, <2>2, FailureRefuses
    <2>3. CASE pc' = "fread" /\ UNCHANGED <<m_data, m_file>>
      BY <2>1, <2>3 DEF Source!vars
    <2> QED
      BY <1>2, <2>2, <2>3 DEF OpenFile
  <1>3. CASE ReadFile
    <2>1. pc = "fread" /\ UNCHANGED <<m_path, want>>
      BY <1>3 DEF ReadFile
    <2>2. CASE OpenFails
      BY <2>1, <2>2, FailureRefuses
    <2>3. ASSUME NEW read \in TextsRead, OpenSucceeds(read)
          PROVE  Source!Answer(read.text) /\ read.text \in Texts
      <3>1. m_file' # Closed /\ m_data'.path = m_path
            /\ m_data'.text = read.text /\ pc' = "onupdate"
        BY <2>1, <2>3
        DEF OpenSucceeds, StartUpdate, Closed, TInv, TypeOK, PhaseOK
      <3>2. read.text.valid /\ want \in {UseAny, read.text.serial}
        BY <2>3 DEF OpenSucceeds, Accepted
      <3>3. read.text \in Texts
        BY <2>1, TextsReadType
      <3> QED
        BY <2>1, <3>1, <3>2, <3>3 DEF Source!Answer
    <2> QED
      BY <1>3, <2>2, <2>3 DEF ReadFile, Source!Next
  <1>4. ASSUME UNCHANGED block_vars,
               (pc \in {"app", "onupdate"} /\ pc' \in {"app", "onupdate"})
                 \/ pc' = pc
        PROVE  UNCHANGED Source!vars
    BY <1>4 DEF Source!vars, block_vars
  <1>5. CASE Environment
    BY <1>4, <1>5
    DEF Environment, WriteFile, DeleteFile, call_vars
  <1>6. CASE CallListener \/ ListenerReturns \/ OpenReturns
    BY <1>4, <1>6 DEF CallListener, ListenerReturns, OpenReturns
  <1>7. CASE \/ AddOnUpdate
             \/ \E token \in Tokens : RemoveOnUpdate(token)
             \/ GetStringPlural
    BY <1>4, <1>7
    DEF AddOnUpdate, RemoveOnUpdate, GetStringPlural, call_vars
  <1>8. CASE UNCHANGED vars
    BY <1>4, <1>8 DEF vars, call_vars
  <1> QED
    BY <1>1, <1>2, <1>3, <1>5, <1>6, <1>7, <1>8
    DEF Next, Application, Running

(* A translation implements the abstract source of strings, for any files,   *)
(* any nesting of its calls and any writers.                                 *)
THEOREM TranslationIsSource == Spec => ImplementsSource
  <1>1. Spec => [](TInv /\ LoadInv)
    BY TypeInit, TypeStep, LoadInit, LoadStep, PTL DEF Spec
  <1>2. Spec => Source!Init /\ [][Source!Next]_(Source!vars)
    BY <1>1, SourceInit, SourceStep, PTL DEF Spec
  <1> QED
    BY <1>2 DEF ImplementsSource, Source!Spec

==============================================================================
