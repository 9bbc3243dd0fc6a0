----------------------------- MODULE StorageProofs ----------------------------
(***************************************************************************)
(* Proofs about Storage, for any languages, lists, files and strings, any  *)
(* number of calls and of changes on disk.                                 *)
(***************************************************************************)
EXTENDS Storage, SequenceTheorems, TLAPS

TypeOK ==
    /\ disk \in [Paths -> Entries]
    /\ asked \in [path : Paths \cup {NoPath}, serial : Serials]
    /\ pending \in BOOLEAN
    /\ served = {} \/ \E path \in Paths, text \in Texts :
                         served = {[path |-> path, text |-> text]}
    /\ lex \in Rules \cup {NoLex}
    /\ builtin \in BOOLEAN
    /\ todo \in Seq(Langs) /\ tried \in Seq(Langs)
    /\ pc \in {"app", "walk", "open", "told"}
    /\ inner \in BOOLEAN /\ answer \in BOOLEAN /\ meddled \in BOOLEAN
    /\ calls \in 0 .. MaxCalls /\ writes \in 0 .. MaxWrites

(* What is open is what was asked for last.                                  *)
ServedAsAsked ==
    /\ pending => pc = "open" /\ ~Open /\ asked.path \in Paths
    /\ Open => /\ OpenText.valid
               /\ asked.serial \in {UseAny, OpenText.serial}

(* A walk goes on only as long as it has opened nothing, and a listener's    *)
(* open leaves a mark on it.                                                 *)
WalkInProgress ==
    /\ inner => meddled /\ pc \in {"open", "told"}
    /\ (pc = "walk" \/ (pc = "open" /\ ~inner)) => ~answer

(* Left alone, a walk has asked for the last language it tried, and says yes *)
(* as soon as that one is open.                                              *)
WalkLeftAlone ==
    (tried # <<>> /\ ~meddled) =>
        /\ asked = [path |-> Expand[tried[Len(tried)]], serial |-> Serial]
        /\ pc # "open" => (answer <=> Open)
        /\ pc = "app" => answer \/ todo = <<>>

IInv == TypeOK /\ ServedAsAsked /\ WalkInProgress /\ WalkLeftAlone

------------------------------------------------------------------------------
(* The types and what an open does *)

(* What a file on disk holds is one of the texts.                            *)
LEMMA FilesHoldTexts ==
    ASSUME NEW entry \in Entries, entry.kind = "file"
    PROVE  entry.text \in Texts
BY DEF Entries, Missing

(* The language that is open is the text its file held.                      *)
LEMMA WhatIsOpen ==
    ASSUME NEW S, NEW path, NEW text, S = {[path |-> path, text |-> text]}
    PROVE  (CHOOSE s \in S : TRUE).text = text
<1>1. (CHOOSE s \in S : TRUE) \in S
  <2>1. \E s \in S : TRUE
    OBVIOUS
  <2>2. QED
    BY <2>1, Zenon
<1>2. (CHOOSE s \in S : TRUE) = [path |-> path, text |-> text]
  BY <1>1
<1>3. QED
  BY <1>2

LEMMA OpenIsAText ==
    ASSUME TypeOK, Open
    PROVE  OpenText \in Texts
BY WhatIsOpen DEF TypeOK, Open, OpenText

(* A step that asks closes what was open; tried and todo aside, the next     *)
(* state is that of a call in progress.                                      *)
LEMMA Asking ==
    ASSUME TypeOK, NEW lang \in Langs, NEW serial \in Serials,
           B1!Ask(Expand[lang], serial)
    PROVE  /\ asked' = [path |-> Expand[lang], serial |-> serial]
           /\ asked' \in [path : Paths \cup {NoPath}, serial : Serials]
           /\ asked'.path \in Paths
           /\ pending' = TRUE /\ served' = {} /\ ~Open'
BY StorageAssumption DEF TypeOK, B1!Ask, Open

------------------------------------------------------------------------------
(* The inductive invariant *)

LEMMA InvInit == Init => IInv
<1> SUFFICES ASSUME Init PROVE IInv
  OBVIOUS
<1>1. asked = [path |-> NoPath, serial |-> UseAny] /\ pending = FALSE /\ served = {}
  BY DEF Init, B1!Init
<1>2. TypeOK
  <2>1. disk \in [Paths -> Entries] /\ calls \in 0 .. MaxCalls /\ writes \in 0 .. MaxWrites
    BY StorageAssumption DEF Init
  <2>2. asked \in [path : Paths \cup {NoPath}, serial : Serials]
    BY <1>1 DEF Serials
  <2>3. QED
    <3>1. <<>> \in Seq(Langs)
      OBVIOUS
    <3>2. QED
      BY <1>1, <2>1, <2>2, <3>1 DEF TypeOK, Init
<1>3. ~Open /\ tried = <<>> /\ ~inner /\ ~answer /\ pc = "app"
  BY <1>1 DEF Init, Open
<1>4. QED
  BY <1>1, <1>2, <1>3 DEF IInv, ServedAsAsked, WalkInProgress, WalkLeftAlone

(* Nothing of the invariant but a type is about the disk, the built-in       *)
(* strings and the rule compiled last.                                       *)
LEMMA AsideOfWalk ==
    ASSUME IInv, TypeOK', UNCHANGED <<source, walk>>
    PROVE  IInv'
BY DEF IInv, TypeOK, ServedAsAsked, WalkInProgress, WalkLeftAlone, source, walk,
       Open, OpenText

LEMMA InvWriteEntry ==
    ASSUME IInv, NEW path \in Paths, NEW entry \in Entries, WriteEntry(path, entry)
    PROVE  IInv'
<1>1. TypeOK /\ UNCHANGED <<source, walk, lex, builtin>>
  BY DEF IInv, WriteEntry
<1>2. writes' \in 0 .. MaxWrites
  BY <1>1, StorageAssumption DEF WriteEntry, TypeOK
<1>3. disk' \in [Paths -> Entries]
  BY <1>1 DEF WriteEntry, TypeOK
<1>4. TypeOK'
  BY <1>1, <1>2, <1>3 DEF TypeOK, source, walk
<1>5. QED
  BY <1>1, <1>4, AsideOfWalk

LEMMA InvInitBuiltin ==
    ASSUME IInv, InitBuiltin
    PROVE  IInv'
<1>1. TypeOK'
  BY DEF IInv, TypeOK, InitBuiltin, files, source, walk
<1>2. QED
  BY <1>1, AsideOfWalk DEF InitBuiltin

LEMMA InvReadPlural ==
    ASSUME IInv, NEW id \in Ids, ReadPlural(id)
    PROVE  IInv'
<1>1. OpenText \in Texts
  BY OpenIsAText DEF IInv, ReadPlural
<1>2. RuleInUse \in Rules
  BY <1>1, StorageAssumption DEF RuleInUse, IInv, TypeOK
<1>3. TypeOK'
  BY <1>2 DEF IInv, TypeOK, ReadPlural, files, source, walk
<1>4. QED
  BY <1>3, AsideOfWalk DEF ReadPlural

LEMMA InvOpenFirstOf ==
    ASSUME IInv, NEW langs \in Lists, OpenFirstOf(langs)
    PROVE  IInv'
<1>1. calls' \in 0 .. MaxCalls
  BY StorageAssumption DEF IInv, TypeOK, OpenFirstOf
<1>2. langs \in Seq(Langs)
  BY StorageAssumption
<1>3. TypeOK'
  <2>1. <<>> \in Seq(Langs)
    OBVIOUS
  <2>2. QED
    BY <1>1, <1>2, <2>1 DEF IInv, TypeOK, OpenFirstOf, files, source
<1>4. ~inner' /\ tried' = <<>> /\ ~answer' /\ pc' = "walk" /\ ~pending'
  BY DEF IInv, OpenFirstOf, WalkInProgress, ServedAsAsked, TypeOK, source
<1>5. ServedAsAsked'
  BY <1>4 DEF IInv, OpenFirstOf, ServedAsAsked, source, Open, OpenText
<1>6. QED
  BY <1>3, <1>4, <1>5 DEF IInv, WalkInProgress, WalkLeftAlone

LEMMA InvTryNext ==
    ASSUME IInv, TryNext
    PROVE  IInv'
<1> DEFINE lang == Head(todo)
<1>1. /\ lang \in Langs /\ Tail(todo) \in Seq(Langs)
      /\ Append(tried, lang) \in Seq(Langs)
      /\ Append(tried, lang)[Len(Append(tried, lang))] = lang
  BY DEF IInv, TypeOK, TryNext
<1>2. Serial \in Serials /\ B1!Ask(Expand[lang], Serial)
  BY DEF TryNext, Serials
<1>3. /\ asked' = [path |-> Expand[lang], serial |-> Serial]
      /\ asked' \in [path : Paths \cup {NoPath}, serial : Serials]
      /\ asked'.path \in Paths
      /\ pending' = TRUE /\ served' = {} /\ ~Open'
  BY <1>1, <1>2, Asking DEF IInv
<1>4. tried' = Append(tried, lang) /\ todo' = Tail(todo) /\ pc' = "open"
  BY DEF TryNext
<1>5. TypeOK'
  BY <1>1, <1>3, <1>4 DEF IInv, TypeOK, TryNext, files
<1>6. ServedAsAsked'
  BY <1>3, <1>4 DEF ServedAsAsked
<1>7. WalkInProgress'
  BY <1>4 DEF IInv, WalkInProgress, TryNext
<1>8. WalkLeftAlone'
  BY <1>1, <1>3, <1>4 DEF WalkLeftAlone
<1>9. QED
  BY <1>5, <1>6, <1>7, <1>8 DEF IInv

LEMMA InvNoneOpened ==
    ASSUME IInv, NoneOpened
    PROVE  IInv'
<1>1. TypeOK'
  BY DEF IInv, TypeOK, NoneOpened, files, source
<1>2. ServedAsAsked'
  BY DEF IInv, ServedAsAsked, NoneOpened, source, Open, OpenText
<1>3. WalkInProgress'
  BY DEF IInv, WalkInProgress, NoneOpened, files
<1>4. WalkLeftAlone'
  BY DEF IInv, WalkInProgress, WalkLeftAlone, NoneOpened, source, Open
<1>5. QED
  BY <1>1, <1>2, <1>3, <1>4 DEF IInv

LEMMA InvListenerOpens ==
    ASSUME IInv, NEW lng \in Langs, ListenerOpens(lng)
    PROVE  IInv'
<1>1. UseAny \in Serials
  BY DEF Serials
<1>2. /\ asked' \in [path : Paths \cup {NoPath}, serial : Serials]
      /\ asked'.path \in Paths
      /\ pending' = TRUE /\ served' = {} /\ ~Open'
  BY <1>1, Asking DEF IInv, ListenerOpens
<1>3. calls' \in 0 .. MaxCalls
  BY StorageAssumption DEF IInv, TypeOK, ListenerOpens
<1>4. inner' /\ meddled' /\ pc' = "open"
  BY DEF ListenerOpens
<1>5. TypeOK'
  BY <1>2, <1>3 DEF IInv, TypeOK, ListenerOpens, files
<1>6. QED
  BY <1>2, <1>4, <1>5 DEF IInv, ServedAsAsked, WalkInProgress, WalkLeftAlone

(* The file answers with what it holds now, or there is nothing.             *)
LEMMA InvOpenAnswers ==
    ASSUME IInv, OpenAnswers
    PROVE  IInv'
<1>1. /\ pc = "open" /\ pc' = "told" /\ pending' = FALSE /\ asked' = asked
      /\ UNCHANGED <<files, lex, builtin, todo, inner, tried, meddled, calls>>
  BY DEF OpenAnswers, B1!Answer, B1!Refuse
<1>2. /\ TypeOK /\ ServedAsAsked /\ WalkInProgress /\ WalkLeftAlone
  BY DEF IInv
<1>3. CASE disk[asked.path].kind = "file" /\ B1!Answer(disk[asked.path].text)
                                          /\ answer' = (inner => answer)
  <2> DEFINE text == disk[asked.path].text
  <2>1. asked.path \in Paths
    BY <1>2, <1>3 DEF ServedAsAsked, B1!Answer
  <2>2. text \in Texts
    BY <1>2, <1>3, <2>1, FilesHoldTexts DEF TypeOK
  <2>3. /\ served' = {[path |-> asked.path, text |-> text]}
        /\ text.valid /\ asked.serial \in {UseAny, text.serial}
    BY <1>3 DEF B1!Answer
  <2>4. Open' /\ OpenText' = text
    <3>1. Open'
      BY <2>3 DEF Open
    <3>2. (CHOOSE s \in served' : TRUE).text = text
      BY <2>3, WhatIsOpen, Zenon
    <3>3. QED
      BY <3>1, <3>2 DEF OpenText
  <2>5. TypeOK'
    <3>1. answer' \in BOOLEAN
      BY <1>3
    <3>2. QED
      BY <1>1, <1>2, <2>1, <2>2, <2>3, <3>1 DEF TypeOK, files
  <2>6. ServedAsAsked'
    BY <1>1, <2>3, <2>4 DEF ServedAsAsked
  <2>7. WalkInProgress'
    BY <1>1, <1>2 DEF WalkInProgress
  <2>8. WalkLeftAlone'
    BY <1>1, <1>2, <1>3, <2>4 DEF WalkLeftAlone, WalkInProgress
  <2>9. QED
    BY <2>5, <2>6, <2>7, <2>8 DEF IInv
<1>4. CASE B1!Refuse /\ answer' = (inner /\ answer)
  <2>1. UNCHANGED served /\ Open' = Open /\ OpenText' = OpenText
    BY <1>4 DEF B1!Refuse, Open, OpenText
  <2>2. TypeOK'
    <3>1. answer' \in BOOLEAN
      BY <1>2, <1>4 DEF TypeOK
    <3>2. QED
      BY <1>1, <1>2, <2>1, <3>1 DEF TypeOK, files
  <2>3. ServedAsAsked'
    BY <1>1, <1>2, <2>1 DEF ServedAsAsked
  <2>4. WalkInProgress'
    BY <1>1, <1>2 DEF WalkInProgress
  <2>5. WalkLeftAlone'
    <3>1. ~Open
      BY <1>2, <1>4 DEF ServedAsAsked, B1!Refuse
    <3>2. QED
      BY <1>1, <1>2, <1>4, <2>1, <3>1 DEF WalkLeftAlone, WalkInProgress
  <2>6. QED
    BY <2>2, <2>3, <2>4, <2>5 DEF IInv
<1>5. QED
  BY <1>3, <1>4 DEF OpenAnswers

LEMMA InvListenerReturns ==
    ASSUME IInv, ListenerReturns
    PROVE  IInv'
<1>1. TypeOK'
  BY DEF IInv, TypeOK, ListenerReturns, files, source
<1>2. ServedAsAsked'
  BY DEF IInv, ServedAsAsked, ListenerReturns, source, Open, OpenText
<1>3. WalkInProgress'
  BY DEF IInv, WalkInProgress, ListenerReturns
<1>4. WalkLeftAlone'
  BY DEF IInv, WalkInProgress, WalkLeftAlone, ListenerReturns, source, Open
<1>5. QED
  BY <1>1, <1>2, <1>3, <1>4 DEF IInv

LEMMA InvStep == IInv /\ [Next]_vars => IInv'
<1> SUFFICES ASSUME IInv, [Next]_vars PROVE IInv'
  OBVIOUS
<1>1. CASE UNCHANGED vars
  <2>1. TypeOK'
    BY <1>1 DEF IInv, TypeOK, vars, files, source, walk
  <2>2. QED
    BY <1>1, <2>1, AsideOfWalk DEF vars
<1>2. CASE Next
  BY <1>2, InvWriteEntry, InvInitBuiltin, InvReadPlural, InvOpenFirstOf,
     InvListenerOpens, InvTryNext, InvNoneOpened, InvOpenAnswers,
     InvListenerReturns DEF Next, Running
<1>3. QED
  BY <1>1, <1>2

------------------------------------------------------------------------------
(* What strings are read *)

(* A string that is there names the text it is from.                         *)
LEMMA StringsAreOfTheirText ==
    ASSUME NEW text, NEW rule, NEW id, NEW count
    PROVE  /\ Singular(text, id) # Nothing => Singular(text, id).text = {text}
           /\ Plural(text, rule, id, count) # Nothing
                 => Plural(text, rule, id, count).text = {text}
BY DEF Singular, Plural

(* Strings fall back on the built-in ones, which answer by their own rule.   *)
LEMMA NothingMissing == IInv => NothingIsMissing
<1> SUFFICES ASSUME IInv, builtin, NEW id \in Ids
             PROVE  /\ Singular(Builtin, id) # Nothing => GetString(id) # Nothing
                    /\ \A count \in Counts :
                          LET string == GetStringPlural(id, count) IN
                          /\ Plural(Builtin, Builtin.rule, id, count) # Nothing
                                => string # Nothing
                          /\ string.text = {Builtin} =>
                                string = Plural(Builtin, Builtin.rule, id, count)
  BY DEF NothingIsMissing
<1>1. Singular(Builtin, id) # Nothing => GetString(id) # Nothing
  BY DEF GetString
<1>2. ASSUME NEW count \in Counts
      PROVE  /\ Plural(Builtin, Builtin.rule, id, count) # Nothing
                   => GetStringPlural(id, count) # Nothing
             /\ GetStringPlural(id, count).text = {Builtin} =>
                   GetStringPlural(id, count) = Plural(Builtin, Builtin.rule, id, count)
  <2>1. CASE B1Plural(id, count) = Nothing
    BY <2>1 DEF GetStringPlural
  <2>2. CASE B1Plural(id, count) # Nothing
    <3>1. Open /\ B1Plural(id, count) = Plural(OpenText, RuleInUse, id, count)
      BY <2>2 DEF B1Plural
    <3>2. B1Plural(id, count).text = {OpenText}
      BY <2>2, <3>1, StringsAreOfTheirText
    <3>3. OpenText \in Texts /\ Builtin \notin Texts
      BY <3>1, OpenIsAText, StorageAssumption DEF IInv
    <3>4. GetStringPlural(id, count) = B1Plural(id, count)
      BY <2>2 DEF GetStringPlural
    <3>5. {OpenText} # {Builtin}
      BY <3>3
    <3>6. QED
      BY <2>2, <3>2, <3>4, <3>5
  <2>3. QED
    BY <2>1, <2>2
<1>3. QED
  BY <1>1, <1>2

(* The keys of a text of the program's serial are those of the built-in one, *)
(* so that a search in either ends at the string the key was read of.        *)
LEMMA KeysLead == IInv => KeysLeadBack
<1> SUFFICES ASSUME IInv, builtin, Open => OpenText.serial = Serial,
                    NEW id \in Ids, GetKey(id) # NoKey
             PROVE  FindKey(GetKey(id)) = {id}
  BY DEF KeysLeadBack
<1> DEFINE key == GetKey(id)
<1>1. Open => \A k \in Ids : OpenText.keys[k] \in {Builtin.keys[k], NoKey}
  BY OpenIsAText, StorageAssumption DEF IInv
<1>2. key = Builtin.keys[id]
  BY <1>1 DEF GetKey, B1GetKey
<1>3. \A k \in Ids : Builtin.keys[k] = key => k = id
  BY <1>2, StorageAssumption
<1>4. FindIn(Builtin, key) = {id}
  BY <1>2, <1>3 DEF FindIn
<1>5. B1FindKey(key) \in {{}, {id}}
  <2>1. CASE ~Open
    BY <2>1 DEF B1FindKey
  <2>2. CASE Open
    <3>1. \A k \in Ids : OpenText.keys[k] = key => k = id
      BY <1>1, <1>3, <2>2
    <3>2. QED
      BY <2>2, <3>1 DEF B1FindKey, FindIn
  <2>3. QED
    BY <2>1, <2>2
<1>6. QED
  BY <1>4, <1>5 DEF FindKey

------------------------------------------------------------------------------
(* The list of languages *)

LEMMA KnownOpens == IInv => KnownCanBeOpened
<1> SUFFICES ASSUME IInv, NEW k \in Known
             PROVE  /\ disk[Expand[k.lang]].kind = "file"
                    /\ disk[Expand[k.lang]].text.valid
                    /\ disk[Expand[k.lang]].text.culture = k.lang
                    /\ \A l \in Known : l.lang = k.lang => l.at = k.at
  BY DEF KnownCanBeOpened
<1>1. ASSUME NEW l \in Known
      PROVE  /\ l.at \in KnownAt /\ l.lang = disk[l.at].text.culture
             /\ Expand[l.lang] = l.at
  BY DEF Known, KnownAt
<1>2. QED
  BY <1>1 DEF KnownAt, Listed

------------------------------------------------------------------------------
(* Theorems *)

LEMMA WalkAnswers == IInv => WalkAnswersForWhatIsOpen
BY StorageAssumption
   DEF IInv, ServedAsAsked, WalkLeftAlone, WalkAnswersForWhatIsOpen

LEMMA InvAlways == Spec => []IInv
BY InvInit, InvStep, PTL DEF Spec

(* Whatever the languages, the files and what becomes of them, whatever is   *)
(* open and whichever rule and keys it has: no built-in string is missing, a *)
(* key leads back to its string, a walk says of itself what is open, and     *)
(* what is known can be opened (lngs_storage.hpp:54-198,                     *)
(* translation.cpp:125-152).                                                 *)
THEOREM StorageKeepsWord == Spec => []StorageKeepsItsWord
<1>1. IInv => StorageKeepsItsWord
  BY NothingMissing, KeysLead, WalkAnswers, KnownOpens DEF StorageKeepsItsWord
<1>2. QED
  BY <1>1, InvAlways, PTL

(* No walk closes the language it has opened: whatever closes one while an   *)
(* answer is on its way is a listener's own call (lngs_storage.hpp:54-61).   *)
THEOREM WalkKeeps == Spec => WalkKeepsWhatItOpened
<1>1. ASSUME IInv, [Next]_vars, pc # "app", answer, Open
      PROVE  Open' \/ inner'
  <2>1. CASE served' = served
    BY <1>1, <2>1 DEF Open
  <2>2. CASE TryNext
    BY <1>1, <2>2 DEF IInv, WalkInProgress, TryNext
  <2>3. CASE \E lng \in Langs : ListenerOpens(lng)
    BY <2>3 DEF ListenerOpens
  <2>4. CASE OpenAnswers
    BY <1>1, <2>4 DEF OpenAnswers, B1!Answer, B1!Refuse, Open
  <2>5. QED
    BY <1>1, <2>1, <2>2, <2>3, <2>4
       DEF Next, Running, WriteEntry, InitBuiltin, ReadPlural, OpenFirstOf,
           NoneOpened, ListenerReturns, vars, source
<1>2. IInv /\ [Next]_vars =>
          [(pc # "app" /\ answer /\ Open) => (Open' \/ inner')]_vars
  BY <1>1
<1>3. QED
  BY <1>2, InvAlways, PTL DEF Spec, WalkKeepsWhatItOpened

==============================================================================
