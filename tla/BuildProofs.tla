----------------------------- MODULE BuildProofs ------------------------------
(***************************************************************************)
(* Proofs about what a program with translations is built from: the search *)
(* in the tables of languages (LangSearch), the templates (Templates),     *)
(* embedded files (Embed) and resources (Resource).  BuildParts names the  *)
(* parameters of all but the first and states what they promise.           *)
(***************************************************************************)
EXTENDS LangSearch, BuildParts, Facts

------------------------------------------------------------------------------
(* LangSearch: the binary search is right on every table that is sorted      *)

(* The inductive invariant: the key is in the part that is left, if it is    *)
(* anywhere, and what has been found is it.                                  *)
SearchInv == TypeOK /\ Bracketed /\ FindsWhatIsThere /\ LooksInside

(* The middle of two positions is between them.                              *)
LEMMA Middle ==
    ASSUME NEW l \in 0 .. Length, NEW h \in -1 .. Length - 1, l <= h
    PROVE  /\ l + (h - l) \div 2 \in Positions
           /\ l <= l + (h - l) \div 2 /\ l + (h - l) \div 2 <= h
BY SearchAssumption DEF Positions

(* The position in the middle of a part that is not empty is within it.      *)
LEMMA MidIsBetween ==
    ASSUME TypeOK, lo <= hi
    PROVE  mid \in Positions /\ lo <= mid /\ mid <= hi
BY Middle DEF TypeOK, mid

LEMMA SearchInit == Init => SearchInv
<1>1. SUFFICES ASSUME Init PROVE SearchInv
  OBVIOUS
<1>2. TypeOK
  BY <1>1, SearchAssumption DEF Init, TypeOK, Positions, nullptr
<1>3. LooksInside
  BY <1>2, MidIsBetween DEF LooksInside
<1>4. QED
  BY <1>1, <1>2, <1>3, SearchAssumption
     DEF Init, SearchInv, Bracketed, FindsWhatIsThere, Positions

(* Each step keeps the invariant: what Lower and Upper leave out is not the  *)
(* key, because the table is sorted.                                         *)
LEMMA SearchStep == SearchInv /\ [Next]_vars => SearchInv'
<1>1. SUFFICES ASSUME TypeOK, Bracketed, FindsWhatIsThere, LooksInside,
                      [Next]_vars
               PROVE  TypeOK' /\ Bracketed' /\ FindsWhatIsThere'
  <2>1. TypeOK' => LooksInside'
    <3>1. ASSUME TypeOK', lo' <= hi' PROVE mid' \in Positions
      <4>1. lo' \in 0 .. Length /\ hi' \in -1 .. Length - 1
        BY <3>1 DEF TypeOK
      <4>2. lo' + (hi' - lo') \div 2 \in Positions
        BY <3>1, <4>1, Middle
      <4>3. QED
        BY <4>2 DEF mid
    <3>2. QED
      BY <3>1 DEF LooksInside
  <2>2. QED
    BY <2>1 DEF SearchInv
<1>2. CASE Hit
  <2>1. mid \in Positions
    BY <1>1, <1>2, MidIsBetween DEF Hit, TypeOK
  <2>2. QED
    BY <1>1, <1>2, <2>1, SearchAssumption
       DEF Hit, TypeOK, Bracketed, FindsWhatIsThere, Positions, nullptr
<1>3. CASE Lower
  <2>1. mid \in Positions /\ lo <= mid /\ mid <= hi
    BY <1>1, <1>3, MidIsBetween DEF Lower
  <2>2. TypeOK'
    BY <1>1, <1>3, <2>1, SearchAssumption DEF Lower, TypeOK, Positions
  <2>3. \A i \in Positions : coll[i] = key => lo <= i /\ i <= mid - 1
    <3>1. TAKE i \in Positions
    <3>2. HAVE coll[i] = key
    <3>3. lo <= i /\ i <= hi
      BY <1>1, <1>3, <3>2 DEF Lower, Bracketed
    <3>4. coll[i] < coll[mid]
      BY <1>3, <3>2 DEF Lower
    <3>5. i < mid
      BY <2>1, <3>4, SearchAssumption DEF Positions
    <3>6. QED
      BY <2>1, <3>3, <3>5 DEF Positions
  <2>4. QED
    BY <1>1, <1>3, <2>2, <2>3 DEF Lower, Bracketed, FindsWhatIsThere
<1>4. CASE Upper
  <2>1. mid \in Positions /\ lo <= mid /\ mid <= hi
    BY <1>1, <1>4, MidIsBetween DEF Upper
  <2>2. TypeOK'
    BY <1>1, <1>4, <2>1, SearchAssumption DEF Upper, TypeOK, Positions
  <2>3. \A i \in Positions : coll[i] = key => mid + 1 <= i /\ i <= hi
    <3>1. TAKE i \in Positions
    <3>2. HAVE coll[i] = key
    <3>3. lo <= i /\ i <= hi
      BY <1>1, <1>4, <3>2 DEF Upper, Bracketed
    <3>4. coll[mid] < coll[i]
      BY <1>4, <3>2, <2>1, <3>1, SearchAssumption DEF Upper
    <3>5. mid < i
      BY <2>1, <3>4, SearchAssumption DEF Positions
    <3>6. QED
      BY <2>1, <3>3, <3>5 DEF Positions
  <2>4. QED
    BY <1>1, <1>4, <2>2, <2>3 DEF Upper, Bracketed, FindsWhatIsThere
<1>5. CASE Miss
  BY <1>1, <1>5, SearchAssumption
     DEF Miss, TypeOK, Bracketed, FindsWhatIsThere, Positions
<1>6. CASE UNCHANGED vars
  BY <1>1, <1>6 DEF vars, TypeOK, Bracketed, FindsWhatIsThere
<1>7. QED
  BY <1>1, <1>2, <1>3, <1>4, <1>5, <1>6 DEF Next

(* On every sorted table, of any length, the search answers with the         *)
(* position of its key, and with nullptr only if the key is not there.       *)
THEOREM SearchIsRight == Spec => []FindsWhatIsThere
<1>1. SearchInv => FindsWhatIsThere
  BY DEF SearchInv
<1>2. QED
  BY SearchInit, SearchStep, <1>1, PTL DEF Spec

(* No comparison is made with what is not in the table.                      *)
THEOREM SearchStaysInside == Spec => []LooksInside
<1>1. SearchInv => LooksInside
  BY DEF SearchInv
<1>2. QED
  BY SearchInit, SearchStep, <1>1, PTL DEF Spec

(* Every step of the loop leaves less to search.                             *)
THEOREM SearchNarrows == Spec => Narrows
<1>1. ASSUME SearchInv, [Next]_vars
      PROVE  [pc' = "searching" => hi' - lo' < hi - lo]_vars
  <2>1. CASE Lower
    BY <1>1, <2>1, MidIsBetween, SearchAssumption
       DEF Lower, SearchInv, TypeOK, Positions
  <2>2. CASE Upper
    BY <1>1, <2>2, MidIsBetween, SearchAssumption
       DEF Upper, SearchInv, TypeOK, Positions
  <2>3. CASE Hit \/ Miss
    BY <2>3 DEF Hit, Miss
  <2>4. QED
    BY <1>1, <2>1, <2>2, <2>3 DEF Next
<1>2. QED
  BY SearchInit, SearchStep, <1>1, PTL DEF Spec, Narrows

------------------------------------------------------------------------------
(* Templates: what one rendering uses                                        *)

Rendered == [name : Names, text : Int]

MustacheTypeOK ==
    /\ clock \in Nat /\ changes \in Nat
    /\ built \in {"linked", "release", "debug"}
    /\ m_additional_templates \in BOOLEAN /\ quiet \in BOOLEAN
    /\ templates \in [Mustache!Dirs -> [Names -> {Mustache!Absent} \cup
                                                 [time : Nat, text : Int]]]
    /\ todo \in Seq(Names)
    /\ cache \in [DOMAIN cache -> Int] /\ output \in Seq(Rendered)
    /\ loading \in {"next", "additional", "installed", "srcdir", "read"}
    /\ seen \in [Mustache!Dirs -> Int]
    /\ place \in Mustache!Dirs \cup {"linked", "none"}

(* Whatever was rendered is in the cache, and nothing is loaded twice.       *)
OutputIsCached ==
    /\ \A n \in DOMAIN output :
          /\ output[n].name \in DOMAIN cache
          /\ output[n].text = cache[output[n].name]
    /\ loading # "next" => todo # <<>> /\ Head(todo) \notin DOMAIN cache

NoneOfOnesOwn ==
    m_additional_templates => ~Mustache!There("additional", Head(todo))

(* As long as nothing changes, what load has seen is so, and the place it    *)
(* has decided for has the text that is expected.                            *)
SeenIsSo ==
    /\ loading = "additional" => m_additional_templates
    /\ loading = "srcdir" => built = "debug"
    /\ (loading \in {"installed", "srcdir"} /\ quiet) => NoneOfOnesOwn
    /\ (loading = "srcdir" /\ quiet) =>
          seen["installed"] = templates["installed"][Head(todo)].time
    /\ (loading = "read" /\ quiet) =>
          Mustache!Text(place, Head(todo)) = Mustache!Expected(Head(todo))

MustacheInv == MustacheTypeOK /\ OutputIsCached /\ SeenIsSo

------------------------------------------------------------------------------
(* The expected template                                                     *)

(* A template is there exactly if it has a time.                             *)
LEMMA FileOfTemplate ==
    ASSUME MustacheTypeOK, NEW dir \in Mustache!Dirs, NEW name \in Names
    PROVE  /\ templates[dir][name].time \in Int /\ templates[dir][name].text \in Int
           /\ Mustache!There(dir, name) <=> templates[dir][name].time # -1
           /\ Mustache!There(dir, name) => templates[dir][name].time >= 0
<1>1. templates[dir][name] \in {Mustache!Absent} \cup [time : Nat, text : Int]
  BY DEF MustacheTypeOK
<1>2. Mustache!Absent.time = -1 /\ Mustache!Absent.text = 0
  BY DEF Mustache!Absent
<1>3. CASE templates[dir][name] = Mustache!Absent
  BY <1>2, <1>3 DEF Mustache!There
<1>4. CASE templates[dir][name] \in [time : Nat, text : Int]
  BY <1>2, <1>4 DEF Mustache!There
<1> QED
  BY <1>1, <1>3, <1>4

(* The installed one, its source if that is newer or there is no other, or   *)
(* nothing.                                                                  *)
LEMMA ExpectedOfTwo ==
    ASSUME MustacheTypeOK, NEW name \in Names, built # "linked",
           ~(m_additional_templates /\ Mustache!There("additional", name))
    PROVE  LET i == templates["installed"][name]
               s == templates["srcdir"][name]
               fallback == Mustache!There("srcdir", name) /\ built = "debug"
           IN  Mustache!Expected(name) =
                  IF Mustache!There("installed", name) /\ ~(fallback /\ i.time < s.time)
                    THEN i.text
                  ELSE IF fallback THEN s.text ELSE Mustache!Empty
<1> DEFINE i == templates["installed"][name]
           s == templates["srcdir"][name]
           fallback == Mustache!There("srcdir", name) /\ built = "debug"
           candidates == {dir \in {"installed", "srcdir"} :
               Mustache!There(dir, name) /\ (dir = "srcdir" => built = "debug")}
           newest == {dir \in candidates : \A other \in candidates :
                          templates[other][name].time <= templates[dir][name].time}
<1>1. Mustache!Expected(name) =
         IF candidates = {} THEN Mustache!Empty
         ELSE templates[IF "installed" \in newest THEN "installed" ELSE "srcdir"][name].text
  BY DEF Mustache!Expected
<1>2. i.time \in Int /\ s.time \in Int
  BY FileOfTemplate DEF Mustache!Dirs
<1>3. /\ "installed" \in candidates <=> Mustache!There("installed", name)
      /\ "srcdir" \in candidates <=> fallback
      /\ candidates \subseteq {"installed", "srcdir"}
  OBVIOUS
<1>4. "installed" \in newest <=>
         Mustache!There("installed", name) /\ ~(fallback /\ i.time < s.time)
  <2> HIDE DEF candidates, fallback
  <2>1. "installed" \in newest <=>
           /\ "installed" \in candidates
           /\ "srcdir" \in candidates => s.time <= i.time
    BY <1>2, <1>3
  <2> QED
    BY <1>2, <1>3, <2>1
<1>5. candidates = {} <=> ~Mustache!There("installed", name) /\ ~fallback
  <2> HIDE DEF candidates, fallback
  <2> QED
    BY <1>3
<1> HIDE DEF candidates, newest, fallback
<1>6. CASE "installed" \in newest
  <2>1. candidates # {}
    BY <1>4, <1>5, <1>6
  <2> QED
    BY <1>1, <1>4, <1>6, <2>1 DEF fallback
<1>7. CASE "installed" \notin newest
  BY <1>1, <1>4, <1>5, <1>7 DEF fallback
<1> QED
  BY <1>6, <1>7

------------------------------------------------------------------------------
(* The steps of a rendering                                                  *)

LEMMA MustacheInit == Mustache!TemplatesAssumption /\ Mustache!Init => MustacheInv
<1> SUFFICES ASSUME Mustache!TemplatesAssumption, Mustache!Init PROVE MustacheInv
  OBVIOUS
<1>1. templates \in [Mustache!Dirs -> [Names -> {Mustache!Absent} \cup
                                                [time : Nat, text : Int]]]
  BY DEF Mustache!Init, Mustache!Absent, Mustache!Linked
<1>2. MustacheTypeOK
  BY <1>1 DEF MustacheTypeOK, Mustache!Init, Mustache!TemplatesAssumption, Mustache!Nothing
<1> QED
  BY <1>2 DEF MustacheInv, OutputIsCached, SeenIsSo, Mustache!Init

(* A change of a file ends the quiet: nothing is promised of what was seen.  *)
LEMMA MustacheChange ==
    ASSUME MustacheInv, NEW dir \in Mustache!Dirs, NEW name \in Names,
           NEW other \in {Mustache!Absent} \cup [time : Nat, text : Int],
           Mustache!Change(dir, name, other)
    PROVE  MustacheInv'
<1>1. templates' \in [Mustache!Dirs -> [Names -> {Mustache!Absent} \cup
                                                 [time : Nat, text : Int]]]
  BY DEF MustacheInv, MustacheTypeOK, Mustache!Change
<1>2. /\ changes' \in Nat /\ quiet' = FALSE
      /\ UNCHANGED <<clock, built, m_additional_templates, todo, cache, loading, seen,
                     place, output>>
  <2>1. /\ changes' = changes + 1 /\ quiet' = FALSE
        /\ UNCHANGED <<clock, built, m_additional_templates, todo, cache, loading, seen,
                       place, output>>
    BY DEF Mustache!Change
  <2>2. changes \in Nat
    BY DEF MustacheInv, MustacheTypeOK
  <2> QED
    BY <2>1, <2>2
<1>3. MustacheTypeOK' /\ OutputIsCached'
  BY <1>1, <1>2 DEF MustacheInv, MustacheTypeOK, OutputIsCached
<1>4. SeenIsSo'
  BY <1>2 DEF MustacheInv, SeenIsSo
<1> QED
  BY <1>3, <1>4 DEF MustacheInv

LEMMA MustacheEdit ==
    ASSUME MustacheInv, NEW dir \in Mustache!Dirs, NEW name \in Names,
           Mustache!Edit(dir, name)
    PROVE  MustacheInv'
<1>1. /\ [time |-> clock, text |-> changes + 1] \in [time : Nat, text : Int]
      /\ [time |-> clock, text |-> Mustache!Empty] \in [time : Nat, text : Int]
  BY DEF MustacheInv, MustacheTypeOK, Mustache!Empty
<1> QED
  BY <1>1, MustacheChange DEF Mustache!Edit, Mustache!Save, Mustache!StartSave,
     Mustache!Remove

(* What is expected depends on the files only.                               *)
LEMMA ExpectationStays ==
    ASSUME UNCHANGED <<built, m_additional_templates, templates>>, NEW name
    PROVE  /\ Mustache!Expected(name)' = Mustache!Expected(name)
           /\ \A dir : /\ Mustache!There(dir, name)' <=> Mustache!There(dir, name)
                       /\ Mustache!Text(dir, name)' = Mustache!Text(dir, name)
BY DEF Mustache!Expected, Mustache!There, Mustache!Text

LEMMA MustacheTick ==
    ASSUME MustacheInv, Mustache!Tick
    PROVE  MustacheInv'
<1>1. MustacheTypeOK' /\ OutputIsCached'
  BY DEF MustacheInv, MustacheTypeOK, OutputIsCached, Mustache!Tick
<1>2. SeenIsSo'
  BY ExpectationStays DEF MustacheInv, SeenIsSo, NoneOfOnesOwn, Mustache!Tick
<1> QED
  BY <1>1, <1>2 DEF MustacheInv

LEMMA MustacheUse ==
    ASSUME MustacheInv, Mustache!Use
    PROVE  MustacheInv'
<1> DEFINE name == Head(todo)
           shown == [name |-> name, text |-> cache[name]]
<1>1. /\ loading = "next" /\ todo # <<>> /\ name \in DOMAIN cache
      /\ output' = Append(output, shown) /\ todo' = Tail(todo)
      /\ UNCHANGED <<clock, changes, built, m_additional_templates, templates, cache,
                     loading, seen, place, quiet>>
  BY DEF Mustache!Use, Mustache!Cached, Mustache!files
<1>2. name \in Names /\ Tail(todo) \in Seq(Names)
  BY <1>1 DEF MustacheInv, MustacheTypeOK
<1>3. shown \in Rendered
  BY <1>1, <1>2 DEF MustacheInv, MustacheTypeOK, Rendered
<1>4. output \in Seq(Rendered)
  BY DEF MustacheInv, MustacheTypeOK
<1>5. MustacheTypeOK'
  <2> HIDE DEF shown
  <2>1. output' \in Seq(Rendered)
    BY <1>1, <1>3, <1>4
  <2> QED
    BY <1>1, <1>2, <2>1 DEF MustacheInv, MustacheTypeOK
<1>6. OutputIsCached'
  <2>1. ASSUME NEW n \in DOMAIN output'
        PROVE  output'[n].name \in DOMAIN cache /\ output'[n].text = cache[output'[n].name]
    <3>1. n \in 1 .. Len(output) + 1 /\ Len(output) \in Nat
      BY <1>1, <1>3, <1>4, <2>1
    <3>2. CASE n = Len(output) + 1
      BY <1>1, <1>3, <1>4, <3>2
    <3>3. CASE n \in 1 .. Len(output)
      <4>1. output'[n] = output[n] /\ n \in DOMAIN output
        BY <1>1, <1>3, <1>4, <3>3
      <4> QED
        BY <4>1 DEF MustacheInv, OutputIsCached
    <3> QED
      BY <3>1, <3>2, <3>3
  <2> QED
    BY <1>1, <2>1 DEF OutputIsCached
<1>7. SeenIsSo'
  BY <1>1 DEF SeenIsSo
<1> QED
  BY <1>5, <1>6, <1>7 DEF MustacheInv

LEMMA MustacheLoad ==
    ASSUME MustacheInv, Mustache!Load
    PROVE  MustacheInv'
<1>1. /\ loading = "next" /\ todo # <<>> /\ Head(todo) \notin DOMAIN cache
      /\ loading' = IF m_additional_templates THEN "additional" ELSE "installed"
      /\ seen' = Mustache!Nothing /\ place' = "none" /\ quiet'
      /\ UNCHANGED <<clock, changes, built, m_additional_templates, templates, todo,
                     cache, output>>
  BY DEF Mustache!Load, Mustache!Cached, Mustache!need_update, Mustache!files
<1>2. quiet' \in BOOLEAN /\ seen' \in [Mustache!Dirs -> Int]
  BY <1>1 DEF Mustache!Load, Mustache!Nothing
<1>3. MustacheTypeOK' /\ OutputIsCached'
  BY <1>1, <1>2 DEF MustacheInv, MustacheTypeOK, OutputIsCached
<1>4. SeenIsSo'
  BY <1>1 DEF SeenIsSo, NoneOfOnesOwn
<1> QED
  BY <1>3, <1>4 DEF MustacheInv

(* What stat finds is what is there, and nothing changes by it.              *)
LEMMA StatFinds ==
    ASSUME MustacheInv, NEW dir \in Mustache!Dirs, Mustache!Stat(dir),
           loading # "next"
    PROVE  /\ Head(todo) \in Names
           /\ seen' \in [Mustache!Dirs -> Int]
           /\ seen'[dir] = templates[dir][Head(todo)].time
           /\ \A other \in Mustache!Dirs \ {dir} : seen'[other] = seen[other]
           /\ Mustache!There(dir, Head(todo)) <=> seen'[dir] # -1
<1>1. Head(todo) \in Names
  BY DEF MustacheInv, MustacheTypeOK, OutputIsCached
<1>2. templates[dir][Head(todo)].time \in Int
      /\ (Mustache!There(dir, Head(todo)) <=> templates[dir][Head(todo)].time # -1)
  BY <1>1, FileOfTemplate DEF MustacheInv
<1> QED
  BY <1>1, <1>2 DEF MustacheInv, MustacheTypeOK, Mustache!Stat

LEMMA MustacheStatAdditional ==
    ASSUME MustacheInv, Mustache!StatAdditional
    PROVE  MustacheInv'
<1>1. /\ loading = "additional" /\ Mustache!Stat("additional")
      /\ UNCHANGED <<clock, changes, built, m_additional_templates, templates, todo,
                     cache, output, quiet>>
  BY DEF Mustache!StatAdditional, Mustache!files
<1>2. /\ seen' \in [Mustache!Dirs -> Int]
      /\ Mustache!There("additional", Head(todo)) <=> seen'["additional"] # -1
  BY <1>1, StatFinds DEF Mustache!Dirs
<1>3. m_additional_templates
  BY <1>1 DEF MustacheInv, SeenIsSo
<1>4. CASE seen'["additional"] # -1
  <2>1. place' = "additional" /\ loading' = "read"
    BY <1>4 DEF Mustache!StatAdditional, Mustache!Found
  <2>2. Mustache!Text("additional", Head(todo)) = Mustache!Expected(Head(todo))
    BY <1>2, <1>3, <1>4 DEF Mustache!Text, Mustache!Expected
  <2>3. SeenIsSo'
    BY <1>1, <2>1, <2>2, ExpectationStays DEF SeenIsSo
  <2> QED
    BY <1>1, <1>2, <2>1, <2>3
       DEF MustacheInv, MustacheTypeOK, OutputIsCached, Mustache!Dirs
<1>5. CASE seen'["additional"] = -1
  <2>1. place' = place /\ loading' = "installed"
    BY <1>5 DEF Mustache!StatAdditional
  <2>2. SeenIsSo'
    BY <1>1, <1>2, <1>5, <2>1, ExpectationStays DEF SeenIsSo, NoneOfOnesOwn
  <2> QED
    BY <1>1, <1>2, <2>1, <2>2 DEF MustacheInv, MustacheTypeOK, OutputIsCached
<1> QED
  BY <1>4, <1>5

LEMMA MustacheStatInstalled ==
    ASSUME MustacheInv, Mustache!StatInstalled
    PROVE  MustacheInv'
<1>1. /\ loading = "installed"
      /\ UNCHANGED <<clock, changes, built, m_additional_templates, templates, todo,
                     cache, output, quiet>>
  BY DEF Mustache!StatInstalled, Mustache!files
<1>2. Head(todo) \in Names /\ (quiet => NoneOfOnesOwn)
  BY <1>1 DEF MustacheInv, MustacheTypeOK, OutputIsCached, SeenIsSo
<1>3. CASE built = "linked"
  <2>1. place' = "linked" /\ loading' = "read" /\ seen' = seen
    BY <1>3 DEF Mustache!StatInstalled, Mustache!Found
  <2>2. quiet => Mustache!Text("linked", Head(todo)) = Mustache!Expected(Head(todo))
    BY <1>2, <1>3 DEF Mustache!Text, Mustache!Expected, NoneOfOnesOwn
  <2>3. SeenIsSo'
    BY <1>1, <2>1, <2>2, ExpectationStays DEF SeenIsSo
  <2> QED
    BY <1>1, <2>1, <2>3 DEF MustacheInv, MustacheTypeOK, OutputIsCached
<1>4. CASE built # "linked"
  <2>1. Mustache!Stat("installed")
    BY <1>4 DEF Mustache!StatInstalled
  <2>2. /\ seen' \in [Mustache!Dirs -> Int]
        /\ seen'["installed"] = templates["installed"][Head(todo)].time
        /\ Mustache!There("installed", Head(todo)) <=> seen'["installed"] # -1
    BY <1>1, <2>1, StatFinds DEF Mustache!Dirs
  <2>3. CASE built = "debug"
    <3>1. loading' = "srcdir" /\ place' = place
      BY <1>4, <2>3 DEF Mustache!StatInstalled
    <3>2. NoneOfOnesOwn' <=> NoneOfOnesOwn
      BY <1>1, ExpectationStays DEF NoneOfOnesOwn
    <3>3. SeenIsSo'
      BY <1>1, <1>2, <2>2, <2>3, <3>1, <3>2 DEF SeenIsSo
    <3> QED
      BY <1>1, <2>2, <3>1, <3>3 DEF MustacheInv, MustacheTypeOK, OutputIsCached
  <2>4. CASE built # "debug"
    <3>1. /\ place' = IF seen'["installed"] # -1 THEN "installed" ELSE "none"
          /\ loading' = "read"
      BY <1>4, <2>4 DEF Mustache!StatInstalled, Mustache!Found
    <3>2. ASSUME quiet
          PROVE  Mustache!Expected(Head(todo)) =
                   IF Mustache!There("installed", Head(todo))
                     THEN templates["installed"][Head(todo)].text ELSE Mustache!Empty
      BY <1>2, <1>4, <2>4, <3>2, ExpectedOfTwo DEF MustacheInv, NoneOfOnesOwn
    <3>3. quiet => Mustache!Text(place', Head(todo)) = Mustache!Expected(Head(todo))
      BY <2>2, <3>1, <3>2 DEF Mustache!Text
    <3>4. SeenIsSo'
      BY <1>1, <3>1, <3>3, ExpectationStays DEF SeenIsSo
    <3> QED
      BY <1>1, <2>2, <3>1, <3>4
         DEF MustacheInv, MustacheTypeOK, OutputIsCached, Mustache!Dirs
  <2> QED
    BY <2>3, <2>4
<1> QED
  BY <1>3, <1>4

LEMMA MustacheStatSrcdir ==
    ASSUME MustacheInv, Mustache!StatSrcdir
    PROVE  MustacheInv'
<1> DEFINE i == templates["installed"][Head(todo)]
           s == templates["srcdir"][Head(todo)]
<1>1. /\ loading = "srcdir" /\ loading' = "read" /\ Mustache!Stat("srcdir")
      /\ UNCHANGED <<clock, changes, built, m_additional_templates, templates, todo,
                     cache, output, quiet>>
  BY DEF Mustache!StatSrcdir, Mustache!Found, Mustache!files
<1>2. Head(todo) \in Names
      /\ built = "debug" /\ (quiet => NoneOfOnesOwn /\ seen["installed"] = i.time)
  BY <1>1 DEF MustacheInv, MustacheTypeOK, OutputIsCached, SeenIsSo
<1>3. /\ seen' \in [Mustache!Dirs -> Int]
      /\ seen'["srcdir"] = s.time
      /\ seen'["installed"] = seen["installed"]
      /\ Mustache!There("srcdir", Head(todo)) <=> seen'["srcdir"] # -1
  BY <1>1, StatFinds DEF Mustache!Dirs
<1>4. place' = IF \/ seen'["installed"] = -1
                  \/ (IF seen'["installed"] = -1 THEN 0 ELSE seen'["installed"])
                       < (IF seen'["srcdir"] = -1 THEN 0 ELSE seen'["srcdir"])
                 THEN IF seen'["srcdir"] # -1 THEN "srcdir" ELSE "none"
                 ELSE "installed"
  BY DEF Mustache!StatSrcdir, Mustache!Found, Mustache!Time
<1>5. /\ i.time \in Int /\ s.time \in Int
      /\ Mustache!There("installed", Head(todo)) <=> i.time # -1
      /\ Mustache!There("installed", Head(todo)) => i.time >= 0
      /\ Mustache!There("srcdir", Head(todo)) <=> s.time # -1
      /\ Mustache!There("srcdir", Head(todo)) => s.time >= 0
  BY <1>2, FileOfTemplate DEF MustacheInv, Mustache!Dirs
<1>6. ASSUME quiet
      PROVE  Mustache!Text(place', Head(todo)) = Mustache!Expected(Head(todo))
  <2> DEFINE fallback == Mustache!There("srcdir", Head(todo))
  <2>1. Mustache!Expected(Head(todo)) =
           IF Mustache!There("installed", Head(todo)) /\ ~(fallback /\ i.time < s.time)
             THEN i.text
           ELSE IF fallback THEN s.text ELSE Mustache!Empty
    BY <1>2, <1>6, ExpectedOfTwo DEF MustacheInv, NoneOfOnesOwn
  <2>2. place' = IF Mustache!There("installed", Head(todo)) /\ ~(fallback /\ i.time < s.time)
                   THEN "installed"
                 ELSE IF fallback THEN "srcdir" ELSE "none"
    <3> HIDE DEF i, s
    <3> QED
      BY <1>2, <1>3, <1>4, <1>5, <1>6
  <2> HIDE DEF fallback
  <2> QED
    BY <2>1, <2>2 DEF Mustache!Text
<1>7. place' \in Mustache!Dirs \cup {"none"}
  BY <1>4 DEF Mustache!Dirs
<1>8. SeenIsSo'
  BY <1>1, <1>6, ExpectationStays DEF SeenIsSo
<1> QED
  BY <1>1, <1>3, <1>7, <1>8 DEF MustacheInv, MustacheTypeOK, OutputIsCached

LEMMA MustacheRead ==
    ASSUME MustacheInv, Mustache!Read
    PROVE  /\ MustacheInv'
           /\ quiet => cache'[Head(todo)] = Mustache!Expected(Head(todo))
<1> DEFINE name == Head(todo)
           text == Mustache!Text(place, name)
           shown == [name |-> name, text |-> text]
<1>1. /\ loading = "read" /\ loading' = "next"
      /\ cache' = [n \in DOMAIN cache \cup {name} |-> IF n = name THEN text ELSE cache[n]]
      /\ output' = Append(output, shown) /\ todo' = Tail(todo)
      /\ UNCHANGED <<clock, changes, built, m_additional_templates, templates, seen,
                     place, quiet>>
  BY DEF Mustache!Read, Mustache!files
<1>2. /\ todo # <<>> /\ name \in Names /\ name \notin DOMAIN cache
      /\ Tail(todo) \in Seq(Names) /\ output \in Seq(Rendered)
  BY <1>1 DEF MustacheInv, MustacheTypeOK, OutputIsCached
<1>3. text \in Int
  <2>1. place \in Mustache!Dirs \cup {"linked", "none"}
    BY DEF MustacheInv, MustacheTypeOK
  <2>2. place \in Mustache!Dirs => templates[place][name].text \in Int
    BY <1>2, FileOfTemplate DEF MustacheInv
  <2> QED
    BY <2>1, <2>2 DEF Mustache!Text, Mustache!Linked, Mustache!Empty
<1> HIDE DEF text
<1>4. shown \in Rendered
  BY <1>2, <1>3 DEF Rendered
<1>5. /\ DOMAIN cache' = DOMAIN cache \cup {name}
      /\ cache'[name] = text
      /\ \A n \in DOMAIN cache : cache'[n] = cache[n]
      /\ cache' \in [DOMAIN cache' -> Int]
  BY <1>1, <1>2, <1>3 DEF MustacheInv, MustacheTypeOK
<1>6. MustacheTypeOK'
  <2> HIDE DEF shown
  <2>1. output' \in Seq(Rendered)
    BY <1>1, <1>2, <1>4
  <2> QED
    BY <1>1, <1>2, <1>5, <2>1 DEF MustacheInv, MustacheTypeOK
<1>7. OutputIsCached'
  <2>1. ASSUME NEW n \in DOMAIN output'
        PROVE  /\ output'[n].name \in DOMAIN cache'
               /\ output'[n].text = cache'[output'[n].name]
    <3>1. n \in 1 .. Len(output) + 1 /\ Len(output) \in Nat
      BY <1>1, <1>2, <1>4, <2>1
    <3>2. CASE n = Len(output) + 1
      <4>1. output'[n] = shown
        BY <1>1, <1>2, <1>4, <3>2
      <4> QED
        BY <1>5, <4>1
    <3>3. CASE n \in 1 .. Len(output)
      <4>1. output'[n] = output[n] /\ n \in DOMAIN output
        BY <1>1, <1>2, <1>4, <3>3
      <4>2. output[n].name \in DOMAIN cache /\ output[n].text = cache[output[n].name]
        BY <4>1 DEF MustacheInv, OutputIsCached
      <4> QED
        BY <1>5, <4>1, <4>2
    <3> QED
      BY <3>1, <3>2, <3>3
  <2> QED
    BY <1>1, <2>1 DEF OutputIsCached
<1>8. SeenIsSo'
  BY <1>1 DEF SeenIsSo
<1>9. quiet => text = Mustache!Expected(name)
  BY <1>1 DEF MustacheInv, SeenIsSo, text
<1> QED
  BY <1>5, <1>6, <1>7, <1>8, <1>9 DEF MustacheInv

LEMMA MustacheStep ==
    ASSUME MustacheInv, [Mustache!Next]_(Mustache!vars)
    PROVE  MustacheInv'
<1>1. CASE UNCHANGED Mustache!vars
  <2>1. MustacheTypeOK' /\ OutputIsCached'
    BY <1>1 DEF Mustache!vars, Mustache!files, MustacheInv, MustacheTypeOK, OutputIsCached
  <2>2. SeenIsSo'
    BY <1>1, ExpectationStays
       DEF Mustache!vars, Mustache!files, MustacheInv, SeenIsSo, NoneOfOnesOwn
  <2> QED
    BY <2>1, <2>2 DEF MustacheInv
<1>2. CASE Mustache!Next
  BY <1>2, MustacheTick, MustacheEdit, MustacheUse, MustacheLoad, MustacheStatAdditional,
     MustacheStatInstalled, MustacheStatSrcdir, MustacheRead
     DEF Mustache!Next, Mustache!Render
<1> QED
  BY <1>1, <1>2

(* A rendering uses one text of a template throughout, and of two places it  *)
(* takes the one that was newer when it looked, whatever is saved, installed *)
(* or removed meanwhile (mstch_engine.cpp:37-102): for any templates, any    *)
(* order of their use and any number of changes.                             *)
THEOREM TemplatesStay ==
    ASSUME Mustache!TemplatesAssumption
    PROVE  Mustache!Spec => TemplatesStayTheSame
<1>1. Mustache!Init => MustacheInv
  BY MustacheInit
<1>2. MustacheInv /\ [Mustache!Next]_(Mustache!vars) => MustacheInv'
  BY MustacheStep
<1>3. MustacheInv => Mustache!OneTextThroughout
  BY DEF MustacheInv, OutputIsCached, Mustache!OneTextThroughout
<1> DEFINE Newest == Mustache!Read /\ quiet =>
                        cache'[Head(todo)] = Mustache!Expected(Head(todo))
<1>4. MustacheInv => [Newest]_(Mustache!vars)
  BY MustacheRead
<1>5. Mustache!Spec => [][Newest]_(Mustache!vars) /\ []Mustache!OneTextThroughout
  <2> HIDE DEF Newest
  <2> QED
    BY <1>1, <1>2, <1>3, <1>4, PTL DEF Mustache!Spec
<1> QED
  BY <1>5 DEF TemplatesStayTheSame, Mustache!TemplatesStayTheSame, Mustache!NewestIsRead

------------------------------------------------------------------------------
(* Table: rows and the bytes in them                                         *)

(* A row may begin only behind the end of another, and each begun is ended   *)
(* within its width ...                                                      *)
OpensInTurn(text) ==
    \A i \in DOMAIN text : text[i] = Quote <=> (i = 1 \/ text[i - 1] = EndQuote)

RowEnds(text, i) ==
    \E j \in i + 1 .. i + row_width + 1 : j \in DOMAIN text /\ text[j] = EndQuote

(* ... but for the last, if it has n bytes so far.                           *)
Between(text) ==
    /\ text \in Seq(Int) /\ OpensInTurn(text)
    /\ text = <<>> \/ text[Len(text)] = EndQuote
    /\ \A i \in DOMAIN text : text[i] = Quote => RowEnds(text, i)

Within(text, n) ==
    /\ text \in Seq(Int) /\ OpensInTurn(text)
    /\ text # <<>> /\ text[Len(text)] # EndQuote
    /\ \A i \in DOMAIN text :
         text[i] = Quote => RowEnds(text, i) \/ Len(text) = i + n

TextOf(text, n) ==
    IF n % row_width = 0 THEN Between(text) ELSE Within(text, n % row_width)

(* One character more leaves the ones before alone.                          *)
LEMMA Appended ==
    ASSUME NEW text \in Seq(Int), NEW c \in Int
    PROVE  /\ Append(text, c) \in Seq(Int) /\ Append(text, c) # <<>>
           /\ Len(Append(text, c)) = Len(text) + 1
           /\ DOMAIN Append(text, c) = 1 .. Len(text) + 1
           /\ DOMAIN text = 1 .. Len(text)
           /\ \A i \in 1 .. Len(text) : Append(text, c)[i] = text[i]
           /\ Append(text, c)[Len(text) + 1] = c
           /\ Len(text) \in Nat
           /\ text = <<>> <=> Len(text) = 0
OBVIOUS

LEMMA AppendedOpens ==
    ASSUME NEW text \in Seq(Int), OpensInTurn(text), NEW c \in Int,
           c = Quote <=> (text = <<>> \/ text[Len(text)] = EndQuote)
    PROVE  OpensInTurn(Append(text, c))
<1> DEFINE more == Append(text, c)
<1>1. SUFFICES ASSUME NEW i \in DOMAIN more
               PROVE  more[i] = Quote <=> (i = 1 \/ more[i - 1] = EndQuote)
  BY DEF OpensInTurn
<1>2. CASE i \in 1 .. Len(text)
  <2>1. /\ more[i] = text[i] /\ i \in DOMAIN text
        /\ i # 1 => more[i - 1] = text[i - 1]
    BY <1>2, Appended
  <2> HIDE DEF more
  <2>2. QED
    BY <2>1 DEF OpensInTurn
<1>3. CASE i = Len(text) + 1
  <2>1. /\ more[i] = c /\ Len(text) \in Nat
        /\ i # 1 => more[i - 1] = text[Len(text)]
        /\ text = <<>> <=> i = 1
    BY <1>3, Appended
  <2> HIDE DEF more
  <2>2. QED
    BY <2>1
<1>4. QED
  BY <1>2, <1>3, Appended

LEMMA AppendedEnds ==
    ASSUME NEW text \in Seq(Int), NEW c \in Int, NEW i \in DOMAIN text,
           RowEnds(text, i)
    PROVE  RowEnds(Append(text, c), i)
BY Appended DEF RowEnds

LEMMA RowBegins ==
    ASSUME TableAssumption, NEW text, Between(text)
    PROVE  Within(Append(text, Quote), 0)
<1> DEFINE more == Append(text, Quote)
<1>1. text \in Seq(Int) /\ Quote \in Int /\ Quote # EndQuote
  BY DEF Between, Quote, EndQuote
<1>2. OpensInTurn(more)
  BY <1>1, AppendedOpens DEF Between
<1>3. ASSUME NEW i \in DOMAIN more, more[i] = Quote
      PROVE  RowEnds(more, i) \/ Len(more) = i + 0
  <2>1. CASE i \in DOMAIN text
    <3>1. text[i] = Quote
      BY <1>1, <1>3, <2>1, Appended
    <3>2. QED
      BY <1>1, <2>1, <3>1, AppendedEnds DEF Between
  <2>2. CASE i = Len(text) + 1
    BY <1>1, <2>2, Appended
  <2>3. QED
    BY <1>1, <2>1, <2>2, Appended
<1>4. more \in Seq(Int) /\ more # <<>> /\ more[Len(more)] # EndQuote
  BY <1>1, Appended
<1>5. QED
  BY <1>2, <1>3, <1>4 DEF Within

LEMMA RowGrows ==
    ASSUME TableAssumption, NEW n \in Nat, NEW text, Within(text, n), NEW b \in Nat
    PROVE  Within(Append(text, b), n + 1)
<1> DEFINE more == Append(text, b)
<1>1. text \in Seq(Int) /\ b \in Int /\ b # Quote /\ b # EndQuote
  BY DEF Within, Quote, EndQuote
<1>2. OpensInTurn(more)
  BY <1>1, AppendedOpens DEF Within
<1>3. ASSUME NEW i \in DOMAIN more, more[i] = Quote
      PROVE  RowEnds(more, i) \/ Len(more) = i + (n + 1)
  <2>1. i \in DOMAIN text /\ text[i] = Quote
    BY <1>1, <1>3, Appended
  <2>2. RowEnds(text, i) \/ Len(text) = i + n
    BY <2>1 DEF Within
  <2>3. CASE RowEnds(text, i)
    BY <1>1, <2>1, <2>3, AppendedEnds
  <2>4. CASE Len(text) = i + n
    BY <1>1, <2>1, <2>4, Appended
  <2>5. QED
    BY <2>2, <2>3, <2>4
<1>4. more \in Seq(Int) /\ more # <<>> /\ more[Len(more)] # EndQuote
  BY <1>1, Appended
<1>5. QED
  BY <1>2, <1>3, <1>4 DEF Within

LEMMA RowIsEnded ==
    ASSUME TableAssumption, NEW n \in Nat, n <= row_width, NEW text, Within(text, n)
    PROVE  Between(Append(text, EndQuote))
<1> DEFINE more == Append(text, EndQuote)
<1>1. text \in Seq(Int) /\ EndQuote \in Int /\ EndQuote # Quote /\ row_width \in Nat
  BY DEF Within, Quote, EndQuote, TableAssumption
<1>2. OpensInTurn(more)
  BY <1>1, AppendedOpens DEF Within
<1>3. ASSUME NEW i \in DOMAIN more, more[i] = Quote
      PROVE  RowEnds(more, i)
  <2>1. i \in DOMAIN text /\ text[i] = Quote
    BY <1>1, <1>3, Appended
  <2>2. RowEnds(text, i) \/ Len(text) = i + n
    BY <2>1 DEF Within
  <2>3. CASE RowEnds(text, i)
    BY <1>1, <2>1, <2>3, AppendedEnds
  <2>4. CASE Len(text) = i + n
    <3>1. /\ Len(text) + 1 \in DOMAIN more /\ more[Len(text) + 1] = EndQuote
          /\ i \in Nat
      BY <1>1, <2>1, Appended
    <3>2. Len(text) + 1 \in i + 1 .. i + row_width + 1
      BY <1>1, <2>4, <3>1
    <3>3. QED
      BY <3>1, <3>2 DEF RowEnds
  <2>5. QED
    BY <2>2, <2>3, <2>4
<1>4. more \in Seq(Int) /\ more # <<>> /\ more[Len(more)] = EndQuote
  BY <1>1, Appended
<1>5. QED
  BY <1>2, <1>3, <1>4 DEF Between

LEMMA IntJoins ==
    /\ \A s \in Seq(Int), t \in Seq(Int), u \in Seq(Int) :
         (s \o t) \o u = s \o (t \o u)
    /\ \A s \in Seq(Int), t \in Seq(Int), e \in Int :
         Append(s \o t, e) = s \o Append(t, e)
<1>1. ASSUME NEW s \in Seq(Int), NEW t \in Seq(Int), NEW u \in Seq(Int)
      PROVE  (s \o t) \o u = s \o (t \o u)
  BY Joins
<1>2. ASSUME NEW s \in Seq(Int), NEW t \in Seq(Int), NEW e \in Int
      PROVE  Append(s \o t, e) = s \o Append(t, e)
  <2>1. s \o t \in Seq(Int) /\ <<e>> \in Seq(Int)
    OBVIOUS
  <2>2. Append(s \o t, e) = (s \o t) \o <<e>> /\ Append(t, e) = t \o <<e>>
    BY <2>1, AppendIsConcat
  <2>3. QED
    BY <1>1, <2>1, <2>2
<1>3. QED
  BY <1>1, <1>2

(* A byte in the text, and the rows of one byte more                         *)
Encoded(b, n) ==
    (IF n % row_width = 0 THEN <<Quote>> ELSE <<>>)
    \o <<b>>
    \o (IF (n + 1) % row_width = 0 THEN <<EndQuote>> ELSE <<>>)

LEMMA EncodedTypes ==
    ASSUME NEW b \in Nat, NEW n
    PROVE  Encoded(b, n) \in Seq(Int)
<1>1. Quote \in Int /\ EndQuote \in Int
  BY DEF Quote, EndQuote
<1>2. QED
  BY <1>1 DEF Encoded

LEMMA RowsAreEncoded ==
    ASSUME NEW data \in Seq(Nat), NEW n \in Nat
    PROVE  /\ Rows(data, n) = FlattenSeq([i \in DOMAIN data |-> Encoded(data[i], n + i - 1)])
           /\ [i \in DOMAIN data |-> Encoded(data[i], n + i - 1)] \in Seq(Seq(Int))
           /\ Rows(data, n) \in Seq(Int)
<1> DEFINE rows == [i \in DOMAIN data |-> Encoded(data[i], n + i - 1)]
<1>1. \A i \in DOMAIN data : i \in Nat /\ n + i - 1 + 1 = n + i /\ data[i] \in Nat
  OBVIOUS
<1>2. rows = [i \in DOMAIN data |->
        (IF (n + i - 1) % row_width = 0 THEN <<Quote>> ELSE <<>>)
        \o <<data[i]>>
        \o (IF (n + i) % row_width = 0 THEN <<EndQuote>> ELSE <<>>)]
  BY <1>1, Zenon DEF Encoded
<1>3. Rows(data, n) = FlattenSeq(rows)
  BY <1>2, Zenon DEF Rows
<1>4. rows \in Seq(Seq(Int))
  <2>1. \A i \in DOMAIN data : Encoded(data[i], n + i - 1) \in Seq(Int)
    BY <1>1, EncodedTypes
  <2>2. DOMAIN data = 1 .. Len(data) /\ Len(data) \in Nat
    OBVIOUS
  <2>3. QED
    BY <2>1, <2>2
<1>5. FlattenSeq(rows) \in Seq(Int)
  BY <1>4, FlattenFacts
<1>6. QED
  BY <1>3, <1>4, <1>5

LEMMA RowsOfMore ==
    ASSUME NEW data \in Seq(Nat), NEW b \in Nat, NEW n \in Nat
    PROVE  Rows(Append(data, b), n) = Rows(data, n) \o Encoded(b, n + Len(data))
<1> DEFINE more == Append(data, b)
           rows(d) == [i \in DOMAIN d |-> Encoded(d[i], n + i - 1)]
           last == Encoded(b, n + Len(data))
<1>1. more \in Seq(Nat) /\ Len(more) = Len(data) + 1 /\ Len(data) \in Nat
  OBVIOUS
<1>2. rows(data) \in Seq(Seq(Int)) /\ rows(more) \in Seq(Seq(Int)) /\ last \in Seq(Int)
  BY <1>1, RowsAreEncoded, EncodedTypes
<1>3. rows(more) = rows(data) \o <<last>>
  <2>1. DOMAIN more = 1 .. Len(data) + 1 /\ DOMAIN data = 1 .. Len(data)
    BY <1>1
  <2>2. \A i \in 1 .. Len(data) : rows(more)[i] = rows(data)[i]
    BY <1>1, <2>1
  <2>3. rows(more)[Len(data) + 1] = last
    <3>1. n + (Len(data) + 1) - 1 = n + Len(data) /\ more[Len(data) + 1] = b
      BY <1>1
    <3>2. QED
      BY <1>1, <2>1, <3>1
  <2>4. Len(rows(more)) = Len(data) + 1 /\ Len(rows(data)) = Len(data)
    BY <1>1, <1>2, <2>1
  <2> HIDE DEF rows, last, more
  <2>5. ASSUME NEW S, NEW s \in Seq(S), NEW e \in S, NEW t \in Seq(S),
               Len(t) = Len(s) + 1, \A i \in 1 .. Len(s) : t[i] = s[i],
               t[Len(s) + 1] = e
        PROVE  t = s \o <<e>>
    <3>1. s \o <<e>> \in Seq(S) /\ Len(s \o <<e>>) = Len(s) + 1
      OBVIOUS
    <3>2. \A i \in 1 .. Len(t) : t[i] = (s \o <<e>>)[i]
      BY <2>5
    <3>3. QED
      BY <2>5, <3>1, <3>2, SeqEqual
  <2>6. QED
    BY <1>2, <2>2, <2>3, <2>4, <2>5
<1>4. /\ Rows(more, n) = FlattenSeq(rows(more))
      /\ Rows(data, n) = FlattenSeq(rows(data))
  BY <1>1, RowsAreEncoded
<1>5. <<last>> \in Seq(Seq(Int)) /\ FlattenSeq(<<last>>) = last
  BY <1>2, FlattenOne
<1> HIDE DEF rows, last, more
<1>6. FlattenSeq(rows(more)) = FlattenSeq(rows(data)) \o last
  BY <1>2, <1>3, <1>5, FlattenConcat
<1>7. QED
  BY <1>4, <1>6 DEF last, more

LEMMA RowsOfNone == \A n : Rows(<<>>, n) = <<>>
<1>1. TAKE n
<1>2. [i \in DOMAIN <<>> |->
        (IF (n + i - 1) % row_width = 0 THEN <<Quote>> ELSE <<>>)
        \o << <<>>[i] >>
        \o (IF (n + i) % row_width = 0 THEN <<EndQuote>> ELSE <<>>)] = <<>>
  OBVIOUS
<1>3. QED
  BY <1>2, FlattenNone DEF Rows

(* What the compiler takes out of a text is what is in its parts.            *)
LEMMA BytesOfJoined ==
    ASSUME NEW s \in Seq(Int), NEW t \in Seq(Int)
    PROVE  /\ Bytes(s \o t) = Bytes(s) \o Bytes(t)
           /\ Bytes(s) \in Seq(Int)
<1> DEFINE byte(c) == IF c \in {Quote, EndQuote} THEN <<>> ELSE <<c>>
           bytes(u) == [i \in DOMAIN u |-> byte(u[i])]
<1>1. \A c \in Int : byte(c) \in Seq(Int)
  OBVIOUS
<1>2. ASSUME NEW u \in Seq(Int)
      PROVE  bytes(u) \in Seq(Seq(Int)) /\ Len(bytes(u)) = Len(u)
  <2>1. DOMAIN u = 1 .. Len(u) /\ Len(u) \in Nat /\ \A i \in 1 .. Len(u) : u[i] \in Int
    OBVIOUS
  <2> HIDE DEF byte
  <2>2. \A i \in 1 .. Len(u) : byte(u[i]) \in Seq(Int)
    BY <1>1, <2>1
  <2>3. QED
    BY <2>1, <2>2
<1>3. bytes(s \o t) = bytes(s) \o bytes(t)
  <2>1. s \o t \in Seq(Int) /\ Len(s \o t) = Len(s) + Len(t)
        /\ \A i \in 1 .. Len(s) + Len(t) :
             (s \o t)[i] = IF i <= Len(s) THEN s[i] ELSE t[i - Len(s)]
    OBVIOUS
  <2>2. \A i \in 1 .. Len(s) + Len(t) :
          bytes(s \o t)[i] = (bytes(s) \o bytes(t))[i]
    <3> SUFFICES ASSUME NEW i \in 1 .. Len(s) + Len(t)
                 PROVE  bytes(s \o t)[i] = (bytes(s) \o bytes(t))[i]
      OBVIOUS
    <3>1. bytes(s \o t)[i] = byte((s \o t)[i])
      BY <2>1
    <3>2. (bytes(s) \o bytes(t))[i] =
             IF i <= Len(s) THEN bytes(s)[i] ELSE bytes(t)[i - Len(s)]
      <4> HIDE DEF bytes
      <4>1. QED
        BY <1>2
    <3>3. /\ i <= Len(s) => bytes(s)[i] = byte(s[i])
          /\ ~(i <= Len(s)) => bytes(t)[i - Len(s)] = byte(t[i - Len(s)])
      <4>1. /\ i <= Len(s) => i \in DOMAIN s
            /\ ~(i <= Len(s)) => i - Len(s) \in DOMAIN t
        OBVIOUS
      <4>2. QED
        BY <4>1
    <3> HIDE DEF bytes, byte
    <3>4. QED
      BY <2>1, <3>1, <3>2, <3>3
  <2>3. /\ bytes(s \o t) \in Seq(Seq(Int)) /\ Len(bytes(s \o t)) = Len(s) + Len(t)
        /\ bytes(s) \o bytes(t) \in Seq(Seq(Int))
        /\ Len(bytes(s) \o bytes(t)) = Len(s) + Len(t)
    <3>1. ASSUME NEW S, NEW u \in Seq(S), NEW v \in Seq(S)
          PROVE  u \o v \in Seq(S) /\ Len(u \o v) = Len(u) + Len(v)
      OBVIOUS
    <3> HIDE DEF bytes
    <3>2. Len(bytes(s)) = Len(s) /\ Len(bytes(t)) = Len(t)
          /\ bytes(s) \in Seq(Seq(Int)) /\ bytes(t) \in Seq(Seq(Int))
      BY <1>2
    <3>3. bytes(s \o t) \in Seq(Seq(Int)) /\ Len(bytes(s \o t)) = Len(s \o t)
      BY <1>2, <2>1, Zenon
    <3>4. /\ bytes(s) \o bytes(t) \in Seq(Seq(Int))
          /\ Len(bytes(s) \o bytes(t)) = Len(bytes(s)) + Len(bytes(t))
      BY <3>1, <3>2, Zenon
    <3>5. QED
      BY <2>1, <3>2, <3>3, <3>4
  <2> HIDE DEF bytes
  <2>4. QED
    BY <2>2, <2>3, SeqEqual
<1>4. \A u : Bytes(u) = FlattenSeq(bytes(u))
  BY Zenon DEF Bytes
<1>5. FlattenSeq(bytes(s)) \in Seq(Int)
  BY <1>2, FlattenFacts
<1>6. FlattenSeq(bytes(s) \o bytes(t)) = FlattenSeq(bytes(s)) \o FlattenSeq(bytes(t))
  BY <1>2, FlattenConcat
<1> HIDE DEF bytes
<1>7. QED
  BY <1>3, <1>4, <1>5, <1>6

LEMMA BytesOfOne ==
    ASSUME NEW c \in Int
    PROVE  Bytes(<<c>>) = IF c \in {Quote, EndQuote} THEN <<>> ELSE <<c>>
<1> DEFINE byte == IF c \in {Quote, EndQuote} THEN <<>> ELSE <<c>>
<1>1. [i \in DOMAIN <<c>> |-> IF <<c>>[i] \in {Quote, EndQuote} THEN <<>> ELSE << <<c>>[i] >>]
         = <<byte>>
  OBVIOUS
<1>2. byte \in Seq(Int)
  OBVIOUS
<1>3. FlattenSeq(<<byte>>) = byte
  <2> HIDE DEF byte
  <2>1. QED
    BY <1>2, FlattenOne
<1> HIDE DEF byte
<1>4. Bytes(<<c>>) = FlattenSeq(<<byte>>)
  BY <1>1, Zenon DEF Bytes
<1>5. QED
  BY <1>3, <1>4 DEF byte

LEMMA BytesOfNone == Bytes(<<>>) = <<>>
<1>1. [i \in DOMAIN <<>> |-> IF <<>>[i] \in {Quote, EndQuote} THEN <<>> ELSE << <<>>[i] >>]
         = <<>>
  OBVIOUS
<1>2. QED
  BY <1>1, FlattenNone DEF Bytes


LEMMA NextInRow ==
    ASSUME TableAssumption, NEW n \in Nat
    PROVE  /\ n % row_width \in 0 .. row_width - 1
           /\ (n + 1) % row_width =
                 IF (n % row_width) + 1 = row_width THEN 0 ELSE (n % row_width) + 1
<1>1. row_width \in Nat \ {0}
  BY DEF TableAssumption
<1>2. PICK q \in Nat, r \in 0 .. row_width - 1 : n = q * row_width + r
  BY <1>1, Division
<1>3. \A x \in Nat, d \in 0 .. row_width - 1 : (x * row_width + d) % row_width = d
  BY <1>1, LastDigit
<1> n % row_width = r
  BY <1>2, <1>3
<1>4. CASE r + 1 = row_width
  <2>1. n + 1 = (q + 1) * row_width + 0
    <3>1. ASSUME NEW w \in Nat, NEW x \in Nat PROVE x * w + w = (x + 1) * w + 0 /\ x * w \in Nat
      OBVIOUS
    <3>2. q * row_width \in Nat /\ n + 1 = q * row_width + row_width
      <4>1. ASSUME NEW x \in Nat, n = x + r PROVE n + 1 = x + row_width
        BY <1>1, <1>2, <1>4, <4>1
      <4>2. q * row_width \in Nat
        BY <1>1, <3>1
      <4>3. QED
        BY <1>2, <4>1, <4>2
    <3>3. QED
      BY <1>1, <1>2, <3>1, <3>2
  <2>2. q + 1 \in Nat /\ 0 \in 0 .. row_width - 1
    BY <1>1
  <2>3. (n + 1) % row_width = 0
    BY <1>3, <2>1, <2>2, Zenon
  <2>4. QED
    BY <1>4, <2>3
<1>5. CASE r + 1 # row_width
  <2>1. r + 1 \in 0 .. row_width - 1
    BY <1>1, <1>5
  <2>2. n + 1 = q * row_width + (r + 1)
    <3>1. q * row_width \in Nat
      BY <1>1, LastDigit
    <3>2. ASSUME NEW x \in Nat, n = x + r PROVE n + 1 = x + (r + 1)
      BY <3>2
    <3>3. QED
      BY <1>2, <3>1, <3>2
  <2>3. (n + 1) % row_width = r + 1
    BY <1>3, <2>1, <2>2, Zenon
  <2>4. QED
    BY <1>5, <2>3
<1>6. QED
  BY <1>4, <1>5

(* A byte is put into the row that is begun, or into a new one.              *)
LEMMA ByteIsAdded ==
    ASSUME TableAssumption, NEW n \in Nat, NEW text, TextOf(text, n), NEW b \in Nat
    PROVE  /\ TextOf(text \o Encoded(b, n), n + 1)
           /\ Bytes(text \o Encoded(b, n)) = Append(Bytes(text), b)
<1> DEFINE r == n % row_width
           begun == IF r = 0 THEN Append(text, Quote) ELSE text
           grown == Append(begun, b)
           ended == IF (n + 1) % row_width = 0 THEN Append(grown, EndQuote) ELSE grown
<1>1. /\ r \in 0 .. row_width - 1 /\ row_width \in Nat \ {0}
      /\ (n + 1) % row_width = IF r + 1 = row_width THEN 0 ELSE r + 1
  BY NextInRow DEF TableAssumption
<1>2. text \in Seq(Int) /\ Quote \in Int /\ EndQuote \in Int /\ b \in Int
      /\ b \notin {Quote, EndQuote}
  BY DEF TextOf, Between, Within, Quote, EndQuote
<1>3. begun \in Seq(Int) /\ grown \in Seq(Int) /\ ended \in Seq(Int)
  BY <1>2, Appended
<1>4. text \o Encoded(b, n) = ended
  <2>1. ASSUME NEW s \in Seq(Int), NEW e \in Int
        PROVE  Append(s, e) = s \o <<e>>
    BY <2>1, AppendIsConcat
  <2> DEFINE x == IF r = 0 THEN <<Quote>> ELSE <<>>
             z == IF (n + 1) % row_width = 0 THEN <<EndQuote>> ELSE <<>>
  <2>2. x \in Seq(Int) /\ <<b>> \in Seq(Int) /\ z \in Seq(Int)
    BY <1>2
  <2>3. text \o x = begun
    BY <1>2, <2>1, ConcatEmptySeq
  <2>4. begun \o <<b>> = grown
    BY <1>2, <1>3, <2>1
  <2>5. grown \o z = ended
    BY <1>2, <1>3, <2>1, ConcatEmptySeq
  <2>6. Encoded(b, n) = (x \o <<b>>) \o z
    BY DEF Encoded
  <2> HIDE DEF x, z, begun, grown, ended
  <2>7. text \o ((x \o <<b>>) \o z) = ((text \o x) \o <<b>>) \o z
    <3> DEFINE y == <<b>>
    <3>1. x \in Seq(Int) /\ y \in Seq(Int) /\ z \in Seq(Int)
      BY <2>2
    <3> HIDE DEF y
    <3>2. x \o y \in Seq(Int)
      BY <3>1
    <3>3. (text \o (x \o y)) \o z = text \o ((x \o y) \o z)
      BY <1>2, <3>1, <3>2, IntJoins, ZenonT(60)
    <3>4. (text \o x) \o y = text \o (x \o y)
      BY <1>2, <3>1, IntJoins, ZenonT(60)
    <3>5. QED
      BY <3>3, <3>4, Zenon DEF y
  <2>8. QED
    BY <2>3, <2>4, <2>5, <2>6, <2>7, Zenon
<1>5. Within(begun, r)
  BY RowBegins DEF TextOf
<1>6. Within(grown, r + 1)
  <2> HIDE DEF begun, r
  <2>1. QED
    BY <1>1, <1>5, RowGrows
<1>7. TextOf(ended, n + 1)
  <2>1. CASE (n + 1) % row_width = 0
    <3>1. r + 1 \in Nat /\ r + 1 <= row_width
      BY <1>1
    <3>2. Between(Append(grown, EndQuote))
      <4> HIDE DEF grown, r
      <4>1. QED
        BY <1>6, <3>1, RowIsEnded
    <3>3. QED
      BY <2>1, <3>2 DEF TextOf
  <2>2. CASE (n + 1) % row_width # 0
    <3>1. (n + 1) % row_width = r + 1
      BY <1>1, <2>2
    <3> HIDE DEF grown, r
    <3>2. QED
      BY <1>6, <2>2, <3>1 DEF TextOf
  <2>3. QED
    BY <2>1, <2>2
<1>8. ASSUME NEW s \in Seq(Int), NEW c \in Int
      PROVE  Bytes(Append(s, c)) = IF c \in {Quote, EndQuote} THEN Bytes(s)
                                   ELSE Append(Bytes(s), c)
  <2>1. Append(s, c) = s \o <<c>> /\ <<c>> \in Seq(Int)
    BY AppendIsConcat
  <2>2. Bytes(Append(s, c)) = Bytes(s) \o Bytes(<<c>>) /\ Bytes(s) \in Seq(Int)
    BY <2>1, BytesOfJoined
  <2>3. Bytes(s) \o <<>> = Bytes(s) /\ Bytes(s) \o <<c>> = Append(Bytes(s), c)
    BY <2>2, ConcatEmptySeq, AppendIsConcat
  <2>4. QED
    BY <2>2, <2>3, BytesOfOne
<1>9. Bytes(ended) = Append(Bytes(text), b)
  <2>1. Bytes(begun) = Bytes(text)
    BY <1>2, <1>8
  <2>2. Bytes(grown) = Append(Bytes(begun), b)
    BY <1>2, <1>3, <1>8
  <2>3. Bytes(ended) = Bytes(grown)
    BY <1>2, <1>3, <1>8
  <2>4. QED
    BY <2>1, <2>2, <2>3
<1>10. QED
  BY <1>4, <1>7, <1>9

(* So are any number of bytes, and what is taken out of the text is what was *)
(* put in.                                                                   *)
LEMMA BytesAreAdded ==
    ASSUME TableAssumption, NEW n \in Nat, NEW text, TextOf(text, n),
           NEW data \in Seq(Nat)
    PROVE  /\ TextOf(text \o Rows(data, n), n + Len(data))
           /\ Bytes(text \o Rows(data, n)) = Bytes(text) \o data
<1> DEFINE Added(d) == /\ TextOf(text \o Rows(d, n), n + Len(d))
                       /\ Bytes(text \o Rows(d, n)) = Bytes(text) \o d
           Good == {k \in Nat : \A d \in Seq(Nat) : Len(d) = k => Added(d)}
<1>1. text \in Seq(Int) /\ Bytes(text) \in Seq(Int)
  <2>1. text \in Seq(Int)
    BY DEF TextOf, Between, Within
  <2>2. QED
    BY <2>1, BytesOfJoined
<1>2. 0 \in Good
  <2>1. ASSUME NEW d \in Seq(Nat), Len(d) = 0 PROVE Added(d)
    <3>1. d = <<>> /\ n + Len(d) = n
      BY <2>1
    <3>2. text \o Rows(d, n) = text /\ Bytes(text) \o d = Bytes(text)
      BY <1>1, <3>1, RowsOfNone, ConcatEmptySeq
    <3>3. QED
      BY <3>1, <3>2
  <2>2. QED
    BY <2>1
<1>3. ASSUME NEW k \in Good PROVE k + 1 \in Good
  <2>1. ASSUME NEW d \in Seq(Nat), Len(d) = k + 1 PROVE Added(d)
    <3> DEFINE less == Front(d)
               b == d[Len(d)]
               rows == text \o Rows(less, n)
    <3>1. less \in Seq(Nat) /\ Len(less) = k /\ b \in Nat /\ d = Append(less, b)
      <4>1. Len(d) \in Nat /\ Len(d) - 1 = k /\ Len(d) # 0 /\ k \in Nat
        BY <2>1
      <4>2. less = SubSeq(d, 1, Len(d) - 1)
        BY DEF Front
      <4>3. less \in Seq(Nat) /\ Len(less) = k /\ b \in Nat
        BY <4>1, <4>2
      <4>4. \A i \in 1 .. k : less[i] = d[i]
        BY <4>1, <4>2
      <4> HIDE DEF less
      <4>5. Append(less, b) \in Seq(Nat) /\ Len(Append(less, b)) = k + 1
            /\ \A i \in 1 .. k + 1 : Append(less, b)[i] = IF i = k + 1 THEN b ELSE less[i]
        BY <4>3
      <4>6. \A i \in 1 .. Len(d) : d[i] = Append(less, b)[i]
        BY <2>1, <4>1, <4>4, <4>5
      <4>7. QED
        BY <2>1, <4>3, <4>5, <4>6, SeqEqual
    <3> HIDE DEF less, b
    <3>2. Added(less)
      BY <3>1
    <3>3. n + k \in Nat /\ k \in Nat /\ n + Len(d) = (n + k) + 1
      BY <2>1
    <3>4. Rows(d, n) = Rows(less, n) \o Encoded(b, n + k) /\ Rows(less, n) \in Seq(Int)
          /\ Encoded(b, n + k) \in Seq(Int)
      BY <3>1, RowsOfMore, RowsAreEncoded, EncodedTypes
    <3>5. text \o Rows(d, n) = rows \o Encoded(b, n + k)
      <4>1. (text \o Rows(less, n)) \o Encoded(b, n + k)
               = text \o (Rows(less, n) \o Encoded(b, n + k))
        BY <1>1, <3>4, IntJoins, Zenon
      <4>2. QED
        BY <3>4, <4>1
    <3>6. TextOf(rows, n + k) /\ Bytes(rows) = Bytes(text) \o less
      BY <3>1, <3>2
    <3> HIDE DEF rows
    <3>7. /\ TextOf(rows \o Encoded(b, n + k), (n + k) + 1)
          /\ Bytes(rows \o Encoded(b, n + k)) = Append(Bytes(rows), b)
      BY <3>1, <3>3, <3>6, ByteIsAdded
    <3>8. Append(Bytes(text) \o less, b) = Bytes(text) \o d
      <4>1. less \in Seq(Int) /\ b \in Int
        BY <3>1
      <4>2. QED
        BY <1>1, <3>1, <4>1, IntJoins, Zenon
    <3>9. QED
      BY <3>3, <3>5, <3>6, <3>7, <3>8
  <2>2. QED
    BY <2>1
<1>4. Good \in SUBSET Nat
  OBVIOUS
<1> HIDE DEF Good, Added
<1>5. \A k \in Nat : k \in Good
  BY <1>2, <1>3, <1>4, InductionOverNat
<1>6. Len(data) \in Good
  BY <1>5
<1>7. Added(data)
  BY <1>6 DEF Good
<1>8. QED
  BY <1>7 DEF Added

LEMMA EndedIsText ==
    ASSUME TableAssumption, NEW n \in Nat, NEW text, TextOf(text, n)
    PROVE  /\ Between(Ended(text, n)) /\ IsText(Ended(text, n))
           /\ Bytes(Ended(text, n)) = Bytes(text)
<1>1. n % row_width \in 0 .. row_width - 1 /\ row_width \in Nat
  BY NextInRow DEF TableAssumption
<1>2. text \in Seq(Int) /\ EndQuote \in Int
  BY DEF TextOf, Between, Within, EndQuote
<1>3. Between(Ended(text, n))
  <2>1. CASE n % row_width = 0
    BY <2>1 DEF TextOf, Ended
  <2>2. CASE n % row_width # 0
    <3>1. Within(text, n % row_width)
      BY <2>2 DEF TextOf
    <3>2. n % row_width \in Nat /\ n % row_width <= row_width
      BY <1>1
    <3>3. Between(Append(text, EndQuote))
      BY <3>1, <3>2, RowIsEnded
    <3>4. QED
      BY <2>2, <3>3 DEF Ended
  <2>3. QED
    BY <2>1, <2>2
<1>4. IsText(Ended(text, n))
  BY <1>3 DEF Between, OpensInTurn, IsText, Last
<1>5. Bytes(Append(text, EndQuote)) = Bytes(text)
  <2>1. Append(text, EndQuote) = text \o <<EndQuote>> /\ <<EndQuote>> \in Seq(Int)
    BY <1>2, AppendIsConcat
  <2>2. Bytes(text) \in Seq(Int) /\ Bytes(text) \o <<>> = Bytes(text)
    BY <1>2, BytesOfJoined, ConcatEmptySeq
  <2>3. Bytes(<<EndQuote>>) = <<>>
    BY <1>2, BytesOfOne
  <2>4. Bytes(text \o <<EndQuote>>) = Bytes(text) \o Bytes(<<EndQuote>>)
    BY <1>2, <2>1, BytesOfJoined
  <2>5. QED
    BY <2>1, <2>2, <2>3, <2>4, Zenon
<1>6. QED
  BY <1>3, <1>4, <1>5 DEF Ended

LEMMA NothingIsText == TableAssumption => TextOf(<<>>, 0)
<1>1. ASSUME NEW w \in Nat \ {0} PROVE 0 % w = 0
  OBVIOUS
<1>2. Between(<<>>)
  BY DEF Between, OpensInTurn
<1>3. QED
  BY <1>1, <1>2 DEF TableAssumption, TextOf


------------------------------------------------------------------------------
(* Resource: the operators it has of Table and of LngFile                    *)

LEMMA SameFlatten == \A seqs : Resources!FlattenSeq(seqs) = FlattenSeq(seqs)
BY Zenon DEF Resources!FlattenSeq, FlattenSeq

LEMMA SameTable ==
    /\ Resources!TableAssumption <=> TableAssumption
    /\ \A data, n : Resources!Rows(data, n) = Rows(data, n)
    /\ \A text, n : Resources!Ended(text, n) = Ended(text, n)
    /\ \A text : Resources!IsText(text) <=> IsText(text)
    /\ \A text : Resources!Bytes(text) = Bytes(text)
<1>1. Resources!Quote = Quote /\ Resources!EndQuote = EndQuote
  BY DEF Resources!Quote, Quote, Resources!EndQuote, EndQuote
<1>2. Resources!TableAssumption <=> TableAssumption
  BY DEF Resources!TableAssumption, TableAssumption
<1>3. \A data, n : Resources!Rows(data, n) = Rows(data, n)
  BY <1>1, SameFlatten, Zenon DEF Resources!Rows, Rows
<1>4. \A text, n : Resources!Ended(text, n) = Ended(text, n)
  BY <1>1, Zenon DEF Resources!Ended, Ended
<1>5. \A text : Resources!IsText(text) <=> IsText(text)
  BY <1>1, Zenon DEF Resources!IsText, IsText, Resources!Last, Last
<1>6. \A text : Resources!Bytes(text) = Bytes(text)
  BY <1>1, SameFlatten, Zenon DEF Resources!Bytes, Bytes
<1>7. QED
  BY <1>2, <1>3, <1>4, <1>5, <1>6

(* The reader and writer of Resource are those the theorems about LngFile    *)
(* are about.                                                                *)
Built == INSTANCE LngFileProofs WITH Catalogs <- Resources!Catalogs, disk <- image

LEMMA SameWords ==
    /\ \A seqs : Resources!L!FlattenSeq(seqs) = Built!FlattenSeq(seqs)
    /\ \A entry : Resources!L!Value(entry) = Built!Value(entry)
    /\ \A block, n : Resources!L!Offset(block, n) = Built!Offset(block, n)
    /\ \A bytes : Resources!L!Pack(bytes) = Built!Pack(bytes)
    /\ \A f : Resources!L!Words(f) = Built!Words(f)
<1>1. \A seqs : Resources!L!FlattenSeq(seqs) = Built!FlattenSeq(seqs)
  BY Zenon DEF Resources!L!FlattenSeq, Built!FlattenSeq
<1>2. \A entry : Resources!L!Value(entry) = Built!Value(entry)
  BY <1>1, Zenon DEF Resources!L!Value, Built!Value, Resources!L!Nul, Built!Nul
<1>3. \A block, n : Resources!L!Offset(block, n) = Built!Offset(block, n)
  BY <1>2, Zenon DEF Resources!L!Offset, Built!Offset
<1>4. \A bytes, n : Resources!L!Padded(bytes, n) = Built!Padded(bytes, n)
  BY Zenon DEF Resources!L!Padded, Built!Padded, Resources!L!Nul, Built!Nul
<1>5. \A bytes, w : Resources!L!Word(bytes, w) = Built!Word(bytes, w)
  BY <1>4, Zenon DEF Resources!L!Word, Built!Word
<1>6. \A bytes : Resources!L!Pack(bytes) = Built!Pack(bytes)
  BY <1>5, Zenon DEF Resources!L!Pack, Built!Pack
<1>7. \A block : Resources!L!Data(block) = Built!Data(block)
  BY <1>1, <1>2, Zenon DEF Resources!L!Data, Built!Data, Resources!L!Nul, Built!Nul
<1>8. \A block : Resources!L!List(block) = Built!List(block)
  BY <1>1, <1>2, <1>3, Zenon DEF Resources!L!List, Built!List
<1>9. \A id, block : Resources!L!Section(id, block) = Built!Section(id, block)
  BY <1>6, <1>7, <1>8, Zenon DEF Resources!L!Section, Built!Section
<1>10. \A f : Resources!L!Words(f) = Built!Words(f)
  BY <1>9, Zenon DEF Resources!L!Words, Built!Words
<1>11. QED
  BY <1>1, <1>2, <1>3, <1>6, <1>10

LEMMA SameReads ==
    /\ \A word, n : Resources!L!Byte(word, n) = Built!Byte(word, n)
    /\ \A section, n : Resources!L!Key(section, n) = Built!Key(section, n)
    /\ \A at : Resources!L!SectionAt(at) = Built!SectionAt(at)
    /\ \A at : Resources!L!ReadStrings(at) <=> Built!ReadStrings(at)
    /\ \A at, left : Resources!L!Verdicts(at, left) = Built!Verdicts(at, left)
    /\ \A at, left : Resources!L!SectionRead(at, left) = Built!SectionRead(at, left)
<1>1. \A word, n : Resources!L!Byte(word, n) = Built!Byte(word, n)
  BY Zenon DEF Resources!L!Byte, Built!Byte
<1>2. \A section, n : Resources!L!Key(section, n) = Built!Key(section, n)
  BY Zenon DEF Resources!L!Key, Built!Key
<1>3. \A at : Resources!L!SectionAt(at) = Built!SectionAt(at)
  BY Zenon DEF Resources!L!SectionAt, Built!SectionAt
<1>4. \A at : Resources!L!ReadStrings(at) <=> Built!ReadStrings(at)
  BY <1>1, <1>2, <1>3, Zenon
     DEF Resources!L!ReadStrings, Built!ReadStrings, Resources!L!Nul, Built!Nul
<1>5. \A at, left : Resources!L!Whole(at, left) <=> Built!Whole(at, left)
  BY Zenon DEF Resources!L!Whole, Built!Whole
<1>6. \A at, left : Resources!L!Verdicts(at, left) = Built!Verdicts(at, left)
  BY <1>4, <1>5, Zenon DEF Resources!L!Verdicts, Built!Verdicts
<1>7. \A at, left : Resources!L!SectionRead(at, left) = Built!SectionRead(at, left)
  BY <1>3, <1>5, Zenon
     DEF Resources!L!SectionRead, Built!SectionRead, Resources!L!Unknown, Built!Unknown
<1>8. QED
  BY <1>1, <1>2, <1>3, <1>4, <1>6, <1>7

LEMMA SameSteps ==
    /\ Resources!L!Init => Built!Init
    /\ [Resources!L!Next]_(Resources!L!vars) => [Built!Next]_(Built!vars)
<1>1. Resources!L!Init => Built!Init
  BY DEF Resources!L!Init, Built!Init, Resources!L!Closed, Built!Closed
<1>2. \A catalog : Resources!L!StartWrite(catalog) => Built!StartWrite(catalog)
  BY DEF Resources!L!StartWrite, Built!StartWrite, Resources!L!lang_file, Built!lang_file
<1>3. Resources!L!WriteWord => Built!WriteWord
  BY SameWords, Zenon
     DEF Resources!L!WriteWord, Built!WriteWord, Resources!L!lang_file, Built!lang_file
<1>4. Resources!L!Open => Built!Open
  BY DEF Resources!L!Open, Built!Open, Resources!L!HeaderIsRead, Built!HeaderIsRead,
         Resources!L!CloseSections, Built!CloseSections, Resources!L!Closed, Built!Closed,
         Resources!L!writer_vars, Built!writer_vars

<1>5. Resources!L!OpenFails => Built!OpenFails
  BY DEF Resources!L!OpenFails, Built!OpenFails, Resources!L!CloseSections,
         Built!CloseSections, Resources!L!Closed, Built!Closed
<1>6. \A at, left :
        Resources!L!EnterSection(at, left) => Built!EnterSection(at, left)
  <2> SUFFICES ASSUME NEW at, NEW left, Resources!L!EnterSection(at, left)
               PROVE  Built!EnterSection(at, left)
    OBVIOUS
  <2>1. CASE view[at] \notin {attrtext_tag, strstext_tag, keystext_tag}
    BY <2>1, Zenon DEF Resources!L!EnterSection, Built!EnterSection
  <2>2. CASE view[at] \in {attrtext_tag, strstext_tag, keystext_tag}
    <3>1. PICK ok \in Resources!L!Verdicts(at, left) :
            IF ~ok THEN Resources!L!OpenFails
            ELSE LET section == Resources!L!SectionRead(at, left) IN
                 /\ uints' = at /\ ints' = left
                 /\ attrs' = IF view[at] = attrtext_tag THEN section ELSE attrs
                 /\ strings' = IF view[at] = strstext_tag THEN section ELSE strings
                 /\ keys' = IF view[at] = keystext_tag THEN section ELSE keys
                 /\ UNCHANGED <<view, rpc>>
      BY <2>2, Zenon DEF Resources!L!EnterSection
    <3>2. ok \in Built!Verdicts(at, left)
      BY <3>1, SameReads, Zenon
    <3>3. Resources!L!SectionRead(at, left) = Built!SectionRead(at, left)
      BY SameReads, Zenon
    <3>4. IF ~ok THEN Built!OpenFails
          ELSE LET section == Built!SectionRead(at, left) IN
               /\ uints' = at /\ ints' = left
               /\ attrs' = IF view[at] = attrtext_tag THEN section ELSE attrs
               /\ strings' = IF view[at] = strstext_tag THEN section ELSE strings
               /\ keys' = IF view[at] = keystext_tag THEN section ELSE keys
               /\ UNCHANGED <<view, rpc>>
      BY <3>1, <3>3, <1>5, Zenon
    <3>5. QED
      BY <2>2, <3>2, <3>4, Zenon DEF Built!EnterSection
  <2>3. QED
    BY <2>1, <2>2, Zenon
<1>7. Resources!L!NextSection => Built!NextSection
  BY <1>5, <1>6, Zenon
     DEF Resources!L!NextSection, Built!NextSection, Resources!L!writer_vars,
         Built!writer_vars
<1>8. Resources!L!LastSection => Built!LastSection
  BY DEF Resources!L!LastSection, Built!LastSection, Resources!L!writer_vars,
         Built!writer_vars, Resources!L!lang_file, Built!lang_file
<1>9. Resources!L!Next => Built!Next
  BY <1>2, <1>3, <1>4, <1>7, <1>8, Zenon DEF Resources!L!Next, Built!Next
<1>10. [Resources!L!Next]_(Resources!L!vars) => [Built!Next]_(Built!vars)
  <2>1. CASE Resources!L!Next
    BY <2>1, <1>9, Zenon
  <2>2. CASE UNCHANGED Resources!L!vars
    BY <2>2 DEF Resources!L!vars, Built!vars, Resources!L!writer_vars,
                Built!writer_vars, Resources!L!lang_file, Built!lang_file
  <2>3. QED
    BY <2>1, <2>2
<1>11. QED
  BY <1>1, <1>10, Zenon


(* The bytes of words, next to each other                                    *)
FlatBytes(words) == FlattenSeq([w \in DOMAIN words |-> Resources!BytesOf(words[w])])

LEMMA SameAssumption ==
    Resources!L!LngFileAssumption => Built!LngFileAssumption
<1>1. Resources!L!Tags = Built!Tags
  BY DEF Resources!L!Tags, Built!Tags
<1>2. Resources!L!Blocks = Built!Blocks
  BY DEF Resources!L!Blocks, Built!Blocks, Resources!L!Entries, Built!Entries
<1>3. Resources!L!Cardinality(Built!Tags) = Built!Cardinality(Built!Tags)
  BY Zenon DEF Resources!L!Cardinality, Built!Cardinality
<1>4. QED
  BY <1>1, <1>2, <1>3, Zenon DEF Resources!L!LngFileAssumption, Built!LngFileAssumption

LEMMA BytesOfTypes ==
    ASSUME Resources!L!LngFileAssumption, NEW word \in Nat
    PROVE  /\ Resources!BytesOf(word) \in Seq(0 .. Base - 1)
           /\ Len(Resources!BytesOf(word)) = WordSize
           /\ \A k \in 1 .. WordSize :
                Resources!BytesOf(word)[k] = Built!Remaining(word, k - 1) % Base
           /\ Resources!Rest(word, WordSize) = Built!Remaining(word, WordSize)
<1>1. Built!LngFileAssumption /\ WordSize \in Nat \ {0} /\ Base \in Nat \ {0}
  BY SameAssumption DEF Built!LngFileAssumption
<1>2. \A n : Resources!Rest(word, n) = Built!Remaining(word, n)
  BY Zenon DEF Resources!Rest, Built!Remaining
<1>3. ASSUME NEW k \in 1 .. WordSize
      PROVE  Built!Remaining(word, k - 1) % Base \in 0 .. Base - 1
  <2>1. k - 1 \in Nat
    BY <1>1
  <2>2. Built!Remaining(word, k - 1) \in Nat
    BY <1>1, <2>1, Built!RemainingSteps
  <2>3. QED
    BY <1>1, <2>2, Division
<1>4. Resources!BytesOf(word) = [k \in 1 .. WordSize |-> Built!Remaining(word, k - 1) % Base]
  BY <1>2, Zenon DEF Resources!BytesOf
<1>5. QED
  BY <1>1, <1>2, <1>3, <1>4

(* What the compiler puts together is what was taken apart.                  *)
LEMMA PackOfBytes ==
    ASSUME Resources!L!LngFileAssumption, NEW words \in Seq(Resources!WordValues)
    PROVE  /\ FlatBytes(words) \in Seq(Nat)
           /\ Len(FlatBytes(words)) = Len(words) * WordSize
           /\ Resources!L!Pack(FlatBytes(words)) = words
<1> DEFINE bytes == [w \in DOMAIN words |-> Resources!BytesOf(words[w])]
           flat == FlatBytes(words)
<1>1. Built!LngFileAssumption /\ WordSize \in Nat \ {0} /\ Base \in Nat \ {0}
  BY SameAssumption DEF Built!LngFileAssumption
<1>2. /\ Len(words) \in Nat /\ DOMAIN words = 1 .. Len(words)
      /\ \A w \in 1 .. Len(words) :
           words[w] \in Nat /\ Resources!Rest(words[w], WordSize) = 0
  BY DEF Resources!WordValues
<1>3. words \in Seq(Nat)
  BY <1>2
<1>4. \A w \in 1 .. Len(words) :
        /\ bytes[w] \in Seq(Built!ByteValues) /\ Len(bytes[w]) = WordSize
        /\ \A k \in 1 .. WordSize : bytes[w][k] = Built!Remaining(words[w], k - 1) % Base
        /\ Built!Remaining(words[w], WordSize) = 0
  BY <1>2, BytesOfTypes DEF Built!ByteValues
<1>5. bytes \in Seq(Seq(Built!ByteValues)) /\ Len(bytes) = Len(words)
  <2>1. bytes = [w \in 1 .. Len(words) |-> bytes[w]]
    BY <1>2
  <2> HIDE DEF bytes
  <2>2. QED
    BY <1>2, <1>4, <2>1
<1>6. flat = FlattenSeq(bytes)
  BY DEF FlatBytes
<1> HIDE DEF bytes, flat
<1>7. /\ flat \in Seq(Built!ByteValues) /\ Len(flat) = Len(words) * WordSize
      /\ \A w \in 1 .. Len(words) : \A k \in 1 .. WordSize :
           flat[(w - 1) * WordSize + k] = bytes[w][k]
  <2>1. \A w \in 1 .. Len(bytes) : Len(bytes[w]) = WordSize
    BY <1>4, <1>5
  <2>2. /\ FlattenSeq(bytes) \in Seq(Built!ByteValues)
        /\ InSteps(bytes, WordSize, FlattenSeq(bytes))
    BY <1>1, <1>5, <2>1, FlattenEven
  <2>3. QED
    BY <1>5, <1>6, <2>2 DEF InSteps
<1>8. \A w \in 1 .. Len(words) :
        /\ Built!Remaining(words[w], WordSize) = 0
        /\ \A k \in 1 .. WordSize :
             flat[(w - 1) * WordSize + k] = Built!Remaining(words[w], k - 1) % Base
  BY <1>4, <1>7
<1>9. Built!Pack(flat) = words
  BY <1>1, <1>3, <1>7, <1>8, Built!PackOfDigits
<1>10. flat \in Seq(Nat)
  <2>1. Built!ByteValues \subseteq Nat
    BY <1>1 DEF Built!ByteValues
  <2>2. Len(flat) \in Nat /\ \A i \in 1 .. Len(flat) : flat[i] \in Nat
    BY <1>7, <2>1, ElementOfSeq, LenProperties
  <2>3. flat = [i \in 1 .. Len(flat) |-> flat[i]]
    BY <1>7
  <2>4. QED
    BY <2>2, <2>3
<1>11. QED
  BY <1>7, <1>9, <1>10, SameWords DEF flat

(* One word more                                                             *)
LEMMA FlatOfMore ==
    ASSUME Resources!L!LngFileAssumption, NEW words \in Seq(Nat), NEW word \in Nat
    PROVE  FlatBytes(Append(words, word)) = FlatBytes(words) \o Resources!BytesOf(word)
<1> DEFINE more == Append(words, word)
           bytes(ws) == [w \in DOMAIN ws |-> Resources!BytesOf(ws[w])]
           one == Resources!BytesOf(word)
           Values == 0 .. Base - 1
<1>1. /\ DOMAIN words = 1 .. Len(words) /\ Len(words) \in Nat
      /\ DOMAIN more = 1 .. Len(words) + 1 /\ more \in Seq(Nat)
      /\ \A w \in 1 .. Len(words) : more[w] = words[w]
      /\ more[Len(words) + 1] = word
  OBVIOUS
<1>2. \A w \in DOMAIN words : Resources!BytesOf(words[w]) \in Seq(Values)
  BY BytesOfTypes
<1>3. one \in Seq(Values)
  BY BytesOfTypes
<1> HIDE DEF one, Values
<1>4. bytes(words) \in Seq(Seq(Values)) /\ Len(bytes(words)) = Len(words)
  BY <1>1, <1>2
<1>5. bytes(more) = bytes(words) \o <<one>>
  <2>1. bytes(more) = Append(bytes(words), one)
    <3>1. Append(bytes(words), one) = [w \in 1 .. Len(words) + 1 |->
             IF w = Len(words) + 1 THEN one ELSE bytes(words)[w]]
      BY <1>1, <1>3, <1>4
    <3>2. \A w \in 1 .. Len(words) + 1 : Resources!BytesOf(more[w]) =
             IF w = Len(words) + 1 THEN one ELSE bytes(words)[w]
      BY <1>1 DEF one
    <3>3. bytes(more) = [w \in 1 .. Len(words) + 1 |-> Resources!BytesOf(more[w])]
      BY <1>1
    <3> HIDE DEF bytes, more
    <3>4. QED
      BY <3>1, <3>2, <3>3
  <2> HIDE DEF bytes, more
  <2>2. QED
    BY <1>3, <1>4, <2>1, AppendIsConcat
<1>6. FlattenSeq(<<one>>) = one /\ <<one>> \in Seq(Seq(Values))
  BY <1>3, FlattenOne
<1>7. FlatBytes(more) = FlattenSeq(bytes(more)) /\ FlatBytes(words) = FlattenSeq(bytes(words))
  BY DEF FlatBytes
<1> HIDE DEF bytes, more
<1>8. FlatBytes(more) = FlatBytes(words) \o one
  <2>1. FlattenSeq(bytes(words) \o <<one>>)
           = FlattenSeq(bytes(words)) \o FlattenSeq(<<one>>)
    <3>1. bytes(words) \in Seq(Seq(Values)) /\ <<one>> \in Seq(Seq(Values))
      BY <1>4, <1>6
    <3>2. QED
      BY <3>1, FlattenConcat
  <2>2. QED
    BY <1>5, <1>6, <1>7, <2>1
<1>9. QED
  BY <1>8 DEF one, more


(* The inductive invariant: the text of the table has the words that have    *)
(* been written so far, and no other byte.                                   *)
ResInv ==
    /\ defs \in Inputs /\ options \in Resources!Options
    /\ file = Resources!make_resource(defs, options)
    /\ image \in Seq(Resources!WordValues)
    /\ offset = Len(image) * WordSize
    /\ TextOf(content, offset)
    /\ Bytes(content) = FlatBytes(image)

LEMMA WordsAreWords ==
    ASSUME Resources!ResourceAssumption, NEW strs \in Inputs,
           NEW opt \in Resources!Options
    PROVE  /\ Resources!make_resource(strs, opt) \in Resources!Catalogs
           /\ Resources!L!Words(Resources!make_resource(strs, opt))
                \in Seq(Resources!WordValues)
<1>1. Resources!make_resource(strs, opt) \in Resources!Catalogs
  BY DEF Resources!Catalogs
<1>2. QED
  BY <1>1, Zenon DEF Resources!ResourceAssumption

LEMMA NothingIsWritten ==
    ASSUME Resources!ResourceAssumption, NEW strs \in Inputs, NEW opt \in Resources!Options,
           defs = strs, options = opt, file = Resources!make_resource(strs, opt),
           image = <<>>, content = <<>>, offset = 0
    PROVE  ResInv
<1>1. TableAssumption /\ WordSize \in Nat
  BY SameTable DEF Resources!ResourceAssumption, Resources!L!LngFileAssumption
<1>2. TextOf(content, offset)
  BY <1>1, NothingIsText
<1>3. [w \in DOMAIN <<>> |-> Resources!BytesOf(<<>>[w])] = <<>>
  OBVIOUS
<1>4. Bytes(content) = FlatBytes(image)
  BY <1>3, BytesOfNone, FlattenNone DEF FlatBytes
<1>5. image \in Seq(Resources!WordValues) /\ offset = Len(image) * WordSize
  BY <1>1
<1>6. QED
  BY <1>2, <1>4, <1>5, Zenon DEF ResInv

LEMMA ResInit ==
    ASSUME Resources!ResourceAssumption, Resources!Init
    PROVE  ResInv
<1>1. PICK strs \in Inputs, opt \in Resources!Options :
         defs = strs /\ options = opt /\ file = Resources!make_resource(strs, opt)
  BY Zenon DEF Resources!Init
<1>2. image = <<>> /\ content = <<>> /\ offset = 0
  BY DEF Resources!Init, Resources!L!Init
<1>3. QED
  BY <1>1, <1>2, NothingIsWritten

LEMMA GenerateKeeps ==
    ASSUME Resources!ResourceAssumption, NEW strs \in Inputs,
           NEW opt \in Resources!Options, Resources!Generate(strs, opt)
    PROVE  ResInv'
<1>1. /\ defs' = strs /\ options' = opt /\ file' = Resources!make_resource(strs, opt)
      /\ image' = <<>> /\ content' = <<>> /\ offset' = 0
  BY DEF Resources!Generate, Resources!L!StartWrite
<1>2. TableAssumption /\ WordSize \in Nat
  BY SameTable DEF Resources!ResourceAssumption, Resources!L!LngFileAssumption
<1>3. TextOf(content', offset')
  BY <1>1, <1>2, NothingIsText
<1>4. [w \in DOMAIN <<>> |-> Resources!BytesOf(<<>>[w])] = <<>>
  OBVIOUS
<1>5. Bytes(content') = FlatBytes(image')
  BY <1>1, <1>4, BytesOfNone, FlattenNone DEF FlatBytes
<1>6. image' \in Seq(Resources!WordValues) /\ offset' = Len(image') * WordSize
  BY <1>1, <1>2
<1>7. defs' \in Inputs /\ options' \in Resources!Options
      /\ file' = Resources!make_resource(defs', options')
  BY <1>1, Zenon
<1>8. QED
  BY <1>3, <1>5, <1>6, <1>7 DEF ResInv

LEMMA WriteTableKeeps ==
    ASSUME Resources!ResourceAssumption, ResInv, Resources!WriteTable
    PROVE  ResInv'
<1> DEFINE word == Resources!L!Words(file)[Len(image) + 1]
           data == Resources!BytesOf(word)
<1>1. /\ TableAssumption /\ WordSize \in Nat \ {0} /\ Base \in Nat \ {0}
      /\ Resources!L!LngFileAssumption
  BY SameTable DEF Resources!ResourceAssumption, Resources!L!LngFileAssumption
<1>2. Resources!L!Words(file) \in Seq(Resources!WordValues)
  BY WordsAreWords DEF ResInv
<1>3. /\ Len(image) < Len(Resources!L!Words(file)) /\ image' = Append(image, word)
      /\ UNCHANGED <<file, defs, options>>
      /\ content' = content \o Resources!Rows(Resources!BytesOf(Resources!Last(image')), offset)
      /\ offset' = offset + Len(Resources!BytesOf(Resources!Last(image')))
  BY DEF Resources!WriteTable, Resources!L!WriteWord, Resources!Write
<1>4. image \in Seq(Resources!WordValues) /\ Len(image) \in Nat
  BY DEF ResInv
<1>5. word \in Resources!WordValues /\ word \in Nat
  <2>1. Len(image) + 1 \in 1 .. Len(Resources!L!Words(file))
    BY <1>2, <1>3, <1>4
  <2>2. word \in Resources!WordValues
    BY <1>2, <2>1, ElementOfSeq
  <2>3. QED
    BY <2>2 DEF Resources!WordValues
<1> HIDE DEF word
<1>6. /\ image' \in Seq(Resources!WordValues) /\ Len(image') = Len(image) + 1
      /\ Resources!Last(image') = word
  <2>1. /\ Append(image, word) \in Seq(Resources!WordValues)
        /\ Len(Append(image, word)) = Len(image) + 1
        /\ Append(image, word)[Len(image) + 1] = word
    BY <1>4, <1>5
  <2>2. QED
    BY <1>3, <2>1 DEF Resources!Last
<1>7. data \in Seq(0 .. Base - 1) /\ Len(data) = WordSize
  BY <1>1, <1>5, BytesOfTypes
<1>8. data \in Seq(Nat)
  <2> HIDE DEF data
  <2>1. Len(data) \in Nat /\ \A i \in 1 .. Len(data) : data[i] \in Nat
    BY <1>1, <1>7
  <2>2. data = [i \in 1 .. Len(data) |-> data[i]]
    BY <1>7
  <2>3. QED
    BY <2>1, <2>2
<1>9. content' = content \o Rows(data, offset) /\ offset' = offset + Len(data)
  BY <1>3, <1>6, SameTable, Zenon
<1> HIDE DEF data
<1>10. offset = Len(image) * WordSize /\ offset \in Nat
  <2>1. offset = Len(image) * WordSize
    BY DEF ResInv
  <2>2. QED
    BY <1>1, <1>4, <2>1
<1>11. offset' = Len(image') * WordSize
  <2>1. \A n \in Nat : (n + 1) * WordSize = n * WordSize + WordSize
    BY <1>1
  <2>2. QED
    BY <1>4, <1>6, <1>7, <1>9, <1>10, <2>1
<1>12. TextOf(content, offset) /\ Bytes(content) = FlatBytes(image)
  BY DEF ResInv
<1>13. /\ TextOf(content', offset')
       /\ Bytes(content') = Bytes(content) \o data
  BY <1>1, <1>8, <1>9, <1>10, <1>12, BytesAreAdded
<1>14. image \in Seq(Nat)
  <2>1. Len(image) \in Nat /\ \A i \in 1 .. Len(image) : image[i] \in Nat
    BY <1>4 DEF Resources!WordValues
  <2>2. image = [i \in 1 .. Len(image) |-> image[i]]
    BY <1>4
  <2>3. QED
    BY <2>1, <2>2
<1>15. FlatBytes(image') = FlatBytes(image) \o data
  BY <1>1, <1>3, <1>5, <1>14, FlatOfMore DEF data
<1>16. /\ defs' \in Inputs /\ options' \in Resources!Options
       /\ file' = Resources!make_resource(defs', options')
  <2>1. /\ defs \in Inputs /\ options \in Resources!Options
        /\ file = Resources!make_resource(defs, options)
    BY DEF ResInv
  <2>2. file' = file /\ defs' = defs /\ options' = options
    BY <1>3
  <2>3. QED
    BY <2>1, <2>2, Zenon
<1>17. Bytes(content') = FlatBytes(image')
  BY <1>12, <1>13, <1>15, Zenon
<1>18. QED
  BY <1>6, <1>11, <1>13, <1>16, <1>17, Zenon DEF ResInv

LEMMA ResUnchanged ==
    ASSUME ResInv, UNCHANGED <<file, image, defs, options, content, offset>>
    PROVE  ResInv'
<1>1. /\ file' = file /\ image' = image /\ defs' = defs /\ options' = options
      /\ content' = content /\ offset' = offset
  OBVIOUS
<1>2. QED
  BY <1>1, Zenon DEF ResInv

LEMMA ResStep ==
    ASSUME Resources!ResourceAssumption, ResInv, [Resources!Next]_(Resources!vars)
    PROVE  ResInv'
<1>1. ASSUME NEW strs \in Inputs, NEW opt \in Resources!Options,
             Resources!Generate(strs, opt)
      PROVE  ResInv'
  BY <1>1, GenerateKeeps
<1>2. CASE Resources!WriteTable
  BY <1>2, WriteTableKeeps
<1>3. CASE Resources!InitBuiltin
  <2>1. UNCHANGED <<file, image, defs, options, content, offset>>
    BY <1>3 DEF Resources!InitBuiltin, Resources!app_vars, Resources!Builtin!Open,
                Resources!Builtin!writer_vars
  <2>2. QED
    BY <2>1, ResUnchanged
<1>4. CASE Resources!InitSection
  <2>1. UNCHANGED <<file, image, defs, options, content, offset>>
    BY <1>4 DEF Resources!InitSection, Resources!app_vars, Resources!L!NextSection,
                Resources!L!LastSection, Resources!L!writer_vars
  <2>2. QED
    BY <2>1, ResUnchanged
<1>5. CASE UNCHANGED Resources!vars
  <2>1. UNCHANGED <<file, image, defs, options, content, offset>>
    BY <1>5 DEF Resources!vars, Resources!app_vars
  <2>2. QED
    BY <2>1, ResUnchanged
<1>6. QED
  BY <1>1, <1>2, <1>3, <1>4, <1>5, Zenon DEF Resources!Next

(* What is compiled is what was written, as far as that goes.                *)
LEMMA CompiledIsWritten ==
    ASSUME Resources!ResourceAssumption, ResInv
    PROVE  /\ Resources!Compiled(Resources!finalize) = image
           /\ Resources!finalize = Ended(content, offset)
           /\ Between(Ended(content, offset)) /\ IsText(Ended(content, offset))
           /\ TableAssumption /\ offset \in Nat
<1> DEFINE text == Ended(content, offset)
<1>1. /\ TableAssumption /\ WordSize \in Nat \ {0} /\ Resources!L!LngFileAssumption
  BY SameTable DEF Resources!ResourceAssumption, Resources!L!LngFileAssumption
<1>2. offset \in Nat /\ TextOf(content, offset) /\ Bytes(content) = FlatBytes(image)
  <2>1. image \in Seq(Resources!WordValues) /\ offset = Len(image) * WordSize
    BY DEF ResInv
  <2>2. QED
    BY <1>1, <2>1 DEF ResInv
<1>3. Resources!finalize = text
  BY SameTable, Zenon DEF Resources!finalize
<1>4. Between(text) /\ IsText(text) /\ Bytes(text) = Bytes(content)
  BY <1>1, <1>2, EndedIsText
<1> HIDE DEF text
<1>5. Resources!IsText(text) /\ Resources!Bytes(text) = FlatBytes(image)
  BY <1>2, <1>4, SameTable, Zenon
<1>6. Resources!L!Pack(FlatBytes(image)) = image
  BY <1>1, PackOfBytes DEF ResInv
<1>7. QED
  BY <1>1, <1>2, <1>3, <1>4, <1>5, <1>6, Zenon DEF Resources!Compiled, text

(* Opening the table in memory is opening the file.                          *)
LEMMA InitBuiltinOpens ==
    ASSUME Resources!ResourceAssumption, ResInv, Resources!InitBuiltin
    PROVE  Resources!L!Open
<1>1. Resources!Compiled(Resources!finalize) = image
  BY CompiledIsWritten
<1> DEFINE text == Resources!Compiled(Resources!finalize)
<1>2. Resources!Builtin!Open /\ image' = image /\ file' = file
  BY DEF Resources!InitBuiltin, Resources!Builtin!Open, Resources!Builtin!writer_vars
<1>3. /\ rpc # "sections" /\ origin' = file
      /\ Resources!L!CloseSections
  BY <1>2 DEF Resources!Builtin!Open, Resources!Builtin!CloseSections,
              Resources!L!CloseSections, Resources!Builtin!Closed, Resources!L!Closed
<1>4. Resources!Builtin!HeaderIsRead <=> Resources!L!HeaderIsRead
  BY <1>1, Zenon DEF Resources!Builtin!HeaderIsRead, Resources!L!HeaderIsRead
<1>5. IF Resources!L!HeaderIsRead
        THEN /\ view' = image /\ serial' = image[5] /\ rpc' = "sections"
             /\ uints' = 2 /\ ints' = Len(image) - 1
        ELSE /\ view' = <<>> /\ rpc' = "closed"
             /\ UNCHANGED <<serial, uints, ints>>
  BY <1>1, <1>2, <1>4, Zenon DEF Resources!Builtin!Open
<1>6. QED
  BY <1>2, <1>3, <1>5, Zenon DEF Resources!L!Open, Resources!L!writer_vars

LEMMA ResourceStepIsLngFile ==
    ASSUME Resources!ResourceAssumption, ResInv, [Resources!Next]_(Resources!vars)
    PROVE  [Resources!L!Next]_(Resources!L!vars)
<1>1. ASSUME NEW strs \in Inputs, NEW opt \in Resources!Options,
             Resources!Generate(strs, opt)
      PROVE  Resources!L!Next
  <2>1. Resources!L!StartWrite(Resources!make_resource(strs, opt))
    BY <1>1 DEF Resources!Generate
  <2>2. Resources!make_resource(strs, opt) \in Resources!Catalogs
    BY WordsAreWords
  <2>3. QED
    BY <2>1, <2>2, Zenon DEF Resources!L!Next
<1>2. CASE Resources!WriteTable
  BY <1>2 DEF Resources!WriteTable, Resources!L!Next
<1>3. CASE Resources!InitBuiltin
  BY <1>3, InitBuiltinOpens DEF Resources!L!Next
<1>4. CASE Resources!InitSection
  BY <1>4 DEF Resources!InitSection, Resources!L!Next
<1>5. CASE UNCHANGED Resources!vars
  BY <1>5 DEF Resources!vars, Resources!L!vars, Resources!L!writer_vars,
              Resources!L!lang_file
<1>6. QED
  BY <1>1, <1>2, <1>3, <1>4, <1>5, Zenon DEF Resources!Next

(* Whatever the strings: the table of lngs res, compiled, is the file that   *)
(* lngs make would have written of them, and opens as it would               *)
(* (cmd_write_res.cpp:22-87 against languages.cpp and lang_file.cpp).        *)
THEOREM ResourceIsLngFile ==
    ASSUME Resources!ResourceAssumption
    PROVE  Resources!Spec => ImplementsLngFile
<1> DEFINE Body == UNCHANGED Resources!L!vars \/ Resources!L!Next
<1>1. Resources!Init => ResInv /\ Resources!L!Init
  BY ResInit DEF Resources!Init
<1>2. ResInv /\ [Resources!Next]_(Resources!vars) => ResInv'
  BY ResStep
<1>3. ResInv /\ [Resources!Next]_(Resources!vars) => [Body]_(Resources!L!vars)
  BY ResourceStepIsLngFile
<1>4. ImplementsLngFile <=> Resources!L!Init /\ [][Body]_(Resources!L!vars)
  BY PTL DEF ImplementsLngFile, Resources!ImplementsLngFile
<1> HIDE DEF Body
<1>5. QED
  BY <1>1, <1>2, <1>3, <1>4, PTL DEF Resources!Spec


LEMMA ResourceTableIsText ==
    ASSUME Resources!ResourceAssumption, ResInv
    PROVE  Resources!TableIsText
<1> DEFINE text == Ended(content, offset)
<1>1. Resources!finalize = text /\ Between(text) /\ IsText(text) /\ offset \in Nat
  BY CompiledIsWritten
<1>2. Resources!Quote = Quote /\ Resources!EndQuote = EndQuote
  BY DEF Resources!Quote, Quote, Resources!EndQuote, EndQuote
<1>3. ASSUME NEW i \in DOMAIN content
      PROVE  i \in DOMAIN text /\ text[i] = content[i]
  <2>1. content \in Seq(Int) /\ EndQuote \in Int
    BY DEF ResInv, TextOf, Between, Within, EndQuote
  <2>2. DOMAIN content = 1 .. Len(content)
    BY <2>1
  <2>3. /\ i \in DOMAIN Append(content, EndQuote)
        /\ Append(content, EndQuote)[i] = content[i]
    BY <1>3, <2>1, <2>2, Appended
  <2>4. QED
    BY <1>3, <2>3 DEF Ended
<1> HIDE DEF text
<1>4. ASSUME NEW i \in DOMAIN content, content[i] = Quote
      PROVE  \E j \in i + 1 .. i + row_width + 1 : j \in DOMAIN text /\ text[j] = EndQuote
  <2>1. i \in DOMAIN text /\ text[i] = Quote
    BY <1>3, <1>4
  <2>2. QED
    BY <1>1, <2>1, Zenon DEF Between, RowEnds
<1>5. QED
  BY <1>1, <1>2, <1>4, SameTable, Zenon DEF Resources!TableIsText

LEMMA SameGetters ==
    /\ \A section, id : Resources!L!String(section, id) = Built!String(section, id)
    /\ \A str, sub : Resources!L!Form(str, sub) = Built!Form(str, sub)
    /\ \A text : Resources!L!FindKey(text) = Built!FindKey(text)
<1>1. \A section, n : Resources!L!Text(section, n) = Built!Text(section, n)
  BY SameReads, Zenon DEF Resources!L!Text, Built!Text
<1>2. \A section, id : Resources!L!Matches(section, id) = Built!Matches(section, id)
  BY SameReads, Zenon DEF Resources!L!Matches, Built!Matches
<1>3. \A S : Resources!L!Min(S) = Built!Min(S)
  BY Zenon DEF Resources!L!Min, Built!Min
<1>4. \A section, id : Resources!L!String(section, id) = Built!String(section, id)
  BY <1>1, <1>2, <1>3, Zenon
     DEF Resources!L!String, Built!String, Resources!L!NoString, Built!NoString
<1>5. \A str, sub : Resources!L!Form(str, sub) = Built!Form(str, sub)
  BY ZenonT(40) DEF Resources!L!Form, Built!Form, Resources!L!UpToZero, Built!UpToZero,
         Resources!L!Zeros, Built!Zeros, Resources!L!Nul, Built!Nul,
         Resources!L!Min, Built!Min, Resources!L!Cardinality, Built!Cardinality
<1>6. \A text : Resources!L!FindKey(text) = Built!FindKey(text)
  BY <1>1, <1>3, SameReads, Zenon DEF Resources!L!FindKey, Built!FindKey
<1>7. QED
  BY <1>4, <1>5, <1>6, Zenon

(* A string that is no plural is stored as it is.                            *)
LEMMA ValueOfOne ==
    ASSUME NEW id, NEW text \in Seq(Nat)
    PROVE  Built!Value([id |-> id, forms |-> <<text>>]) = text
<1> DEFINE forms == <<text>>
<1>1. [n \in DOMAIN forms |-> IF n = 1 THEN forms[n] ELSE <<Built!Nul>> \o forms[n]] = forms
  OBVIOUS
<1>2. FlattenSeq(forms) = text
  BY FlattenOne
<1>3. Built!FlattenSeq(forms) = FlattenSeq(forms)
  BY Zenon DEF Built!FlattenSeq, FlattenSeq
<1> HIDE DEF forms
<1>4. Built!Value([id |-> id, forms |-> forms]) = Built!FlattenSeq(forms)
  BY <1>1 DEF Built!Value
<1>5. QED
  BY <1>2, <1>3, <1>4 DEF forms

(* What the catalogue of some strings has                                    *)
LEMMA ResourceCatalog ==
    ASSUME NEW strs, NEW opt
    PROVE  LET f == Resources!make_resource(strs, opt) IN
           /\ f.serial = defs_serial
           /\ Resources!HasPlurals(strs) =>
                f.attrs = << [id |-> Resources!ATTR_PLURALS, forms |-> <<PluralRule>>] >>
           /\ DOMAIN f.strings = DOMAIN strs
           /\ \A n \in DOMAIN strs :
                /\ f.strings[n].id = strs[n].id
                /\ f.strings[n].forms = Resources!Forms(strs[n], opt)
           /\ ~opt.keys => f.keys = <<>>
           /\ opt.keys => /\ DOMAIN f.keys = DOMAIN strs
                          /\ \A n \in DOMAIN strs :
                               f.keys[n] = [id |-> strs[n].id, forms |-> <<strs[n].key>>]
BY DEF Resources!make_resource

LEMMA ResourceKeys ==
    ASSUME Resources!ResourceAssumption, ResInv, Built!IInv, rpc = "open",
           origin = Resources!make_resource(defs, options), NEW n \in DOMAIN defs
    PROVE  Built!FindKey(defs[n].key) = IF options.keys THEN defs[n].id ELSE -1
<1> DEFINE text(m) == Built!Value(origin.keys[m])
<1>1. Built!LngFileAssumption
  BY SameAssumption DEF Resources!ResourceAssumption
<1>2. /\ origin.keys \in Built!Blocks
      /\ Built!IsBlock(keys, origin.keys)
  BY <1>1, Built!OpenSections
<1>3. \A m \in DOMAIN defs :
        /\ defs[m].key # <<>>
        /\ n # m => defs[n].key # defs[m].key
  BY DEF ResInv, Resources!ResourceAssumption
<1>4. CASE options.keys
  <2>1. /\ DOMAIN origin.keys = DOMAIN defs
        /\ \A m \in DOMAIN defs :
             origin.keys[m] = [id |-> defs[m].id, forms |-> <<defs[m].key>>]
    BY <1>4, ResourceCatalog
  <2>2. ASSUME NEW m \in DOMAIN defs
        PROVE  origin.keys[m].id = defs[m].id /\ origin.keys[m].forms = <<defs[m].key>>
    <3>1. origin.keys[m] = [id |-> defs[m].id, forms |-> <<defs[m].key>>]
      BY <2>1, Zenon
    <3>2. QED
      BY <3>1
  <2>3. ASSUME NEW m \in DOMAIN defs PROVE text(m) = defs[m].key
    <3>1. origin.keys[m] \in Built!Entries
      BY <1>2, <2>1 DEF Built!Blocks
    <3>2. <<defs[m].key>> \in Seq(Seq(1 .. Base - 1))
      <4>1. origin.keys[m].forms = <<defs[m].key>>
        BY <2>2
      <4>2. QED
        BY <3>1, <4>1 DEF Built!Entries
    <3>3. defs[m].key \in Seq(Nat)
      <4>1. defs[m].key \in Seq(1 .. Base - 1)
        BY <3>2
      <4>2. Base \in Nat
        BY <1>1 DEF Built!LngFileAssumption
      <4>3. Len(defs[m].key) \in Nat
            /\ \A i \in 1 .. Len(defs[m].key) : defs[m].key[i] \in Nat
        BY <4>1, <4>2
      <4>4. defs[m].key = [i \in 1 .. Len(defs[m].key) |-> defs[m].key[i]]
        BY <4>1
      <4>5. QED
        BY <4>3, <4>4
    <3>4. QED
      BY <2>1, <3>3, ValueOfOne
  <2>4. \A m \in 1 .. n - 1 : m \in DOMAIN defs /\ m # n
    <3>1. DOMAIN defs = 1 .. Len(origin.keys) /\ Len(origin.keys) \in Nat
      BY <1>2, <2>1 DEF Built!Blocks
    <3>2. QED
      BY <3>1
  <2>5. Built!KeysAreFound
    BY <1>1, Built!InvKeysAreFound
  <2> HIDE DEF text
  <2>6. text(n) # <<>> /\ (\A m \in 1 .. n - 1 : text(m) # text(n))
    BY <1>3, <2>3, <2>4
  <2>7. Built!FindKey(text(n)) = origin.keys[n].id
    BY <2>1, <2>5, <2>6, Zenon DEF Built!KeysAreFound, text
  <2>8. QED
    BY <1>4, <2>2, <2>3, <2>7
<1>5. CASE ~options.keys
  <2>1. origin.keys = <<>>
    BY <1>5, ResourceCatalog
  <2>2. keys.count = 0
    BY <1>2, <2>1 DEF Built!IsBlock
  <2>3. {m \in 1 .. keys.count : Built!Text(keys, m) = defs[n].key} = {}
    BY <2>2
  <2>4. QED
    BY <1>5, <2>3, Zenon DEF Built!FindKey
<1>6. QED
  BY <1>4, <1>5

LEMMA ResourceForms ==
    ASSUME Resources!ResourceAssumption, ResInv, Built!IInv, rpc = "open",
           origin = Resources!make_resource(defs, options), NEW n \in DOMAIN defs
    PROVE  LET str == defs[n]
               read == Built!String(strings, str.id)
           IN /\ Built!Form(read, 0) = Resources!Warped(str.value, options)
              /\ str.plural # <<>> =>
                    Built!Form(read, 1) = Resources!Warped(str.plural, options)
<1> DEFINE forms == Resources!Forms(defs[n], options)
<1>1. Built!LngFileAssumption
  BY SameAssumption DEF Resources!ResourceAssumption
<1>2. /\ DOMAIN origin.strings = DOMAIN defs
      /\ \A m \in DOMAIN defs : origin.strings[m].id = defs[m].id
      /\ origin.strings[n].forms = forms
  BY ResourceCatalog
<1>3. origin.strings \in Built!Blocks
  BY <1>1, Built!OpenSections
<1>4. \A m \in DOMAIN defs : n # m => defs[n].id # defs[m].id
  BY DEF ResInv, Resources!ResourceAssumption
<1>5. Built!IsFirst(origin.strings, n)
  <2>1. DOMAIN defs = 1 .. Len(origin.strings) /\ Len(origin.strings) \in Nat
    BY <1>2, <1>3 DEF Built!Blocks
  <2>2. \A m \in 1 .. n - 1 : m \in DOMAIN defs /\ m # n
    BY <2>1
  <2>3. QED
    BY <1>2, <1>4, <2>2 DEF Built!IsFirst
<1>6. Built!IndexFindsForm
  BY <1>1, Built!InvIndexFindsForm
<1> HIDE DEF forms
<1>7. \A sub \in -1 .. 3 :
         Built!Form(Built!String(strings, defs[n].id), sub) =
             IF sub \in 0 .. Len(forms) - 1 THEN forms[sub + 1] ELSE forms[1]
  <2>1. n \in DOMAIN origin.strings /\ origin.strings[n].id = defs[n].id
    BY <1>2
  <2>2. QED
    BY <1>2, <1>5, <1>6, <2>1, Zenon DEF Built!IndexFindsForm
<1>8. Built!Form(Built!String(strings, defs[n].id), 0) = forms[1]
  BY <1>7
<1>9. Len(forms) = 2 => Built!Form(Built!String(strings, defs[n].id), 1) = forms[2]
  BY <1>7
<1>10. /\ forms[1] = Resources!Warped(defs[n].value, options)
       /\ defs[n].plural # <<>> =>
            Len(forms) = 2 /\ forms[2] = Resources!Warped(defs[n].plural, options)
  BY DEF forms, Resources!Forms
<1>11. QED
  BY <1>8, <1>9, <1>10

LEMMA ResourceRule ==
    ASSUME Resources!ResourceAssumption, ResInv, Built!IInv, rpc = "open",
           origin = Resources!make_resource(defs, options), NEW n \in DOMAIN defs,
           defs[n].plural # <<>>
    PROVE  Built!String(attrs, Resources!ATTR_PLURALS) = PluralRule
<1> DEFINE entry == [id |-> Resources!ATTR_PLURALS, forms |-> <<PluralRule>>]
<1>1. Built!LngFileAssumption
  BY SameAssumption DEF Resources!ResourceAssumption
<1>2. Resources!HasPlurals(defs)
  BY DEF Resources!HasPlurals
<1>3. origin.attrs = <<entry>>
  BY <1>2, ResourceCatalog
<1>4. origin.attrs \in Built!Blocks
  BY <1>1, Built!OpenSections
<1>5. PluralRule \in Seq(Nat)
  <2>1. entry \in Built!Entries
    BY <1>3, <1>4 DEF Built!Blocks
  <2>2. <<PluralRule>> \in Seq(Seq(1 .. Base - 1))
    BY <2>1 DEF Built!Entries
  <2>3. PluralRule \in Seq(1 .. Base - 1) /\ Base \in Nat
    BY <1>1, <2>2 DEF Built!LngFileAssumption
  <2>4. Len(PluralRule) \in Nat /\ \A i \in 1 .. Len(PluralRule) : PluralRule[i] \in Nat
    BY <2>3
  <2>5. PluralRule = [i \in 1 .. Len(PluralRule) |-> PluralRule[i]]
    BY <2>3
  <2>6. QED
    BY <2>4, <2>5
<1>6. Built!Value(entry) = PluralRule
  BY <1>5, ValueOfOne
<1>7. Built!Holds(attrs, origin.attrs)
  BY <1>1, Built!InvReadsWhat DEF Built!ReadsWhatWasWritten
<1>8. entry.id = Resources!ATTR_PLURALS
  OBVIOUS
<1> HIDE DEF entry
<1>9. 1 \in DOMAIN origin.attrs /\ origin.attrs[1] = entry
  BY <1>3
<1>10. Built!IsFirst(origin.attrs, 1)
  BY DEF Built!IsFirst
<1>11. Built!String(attrs, origin.attrs[1].id) = Built!Value(origin.attrs[1])
  BY <1>7, <1>9, <1>10, Zenon DEF Built!Holds
<1>12. QED
  BY <1>6, <1>8, <1>9, <1>11, Zenon

LEMMA ResourceAnswersAll ==
    ASSUME Resources!ResourceAssumption, ResInv, Built!IInv
    PROVE  Resources!ResourceAnswers
<1> SUFFICES ASSUME rpc = "open", origin = Resources!make_resource(defs, options)
             PROVE  /\ serial = defs_serial
                    /\ \A n \in DOMAIN defs :
                        LET str == defs[n]
                            read == Resources!L!String(strings, str.id)
                        IN /\ Resources!L!Form(read, 0) = Resources!Warped(str.value, options)
                           /\ str.plural # <<>> =>
                                /\ Resources!L!Form(read, 1) = Resources!Warped(str.plural, options)
                                /\ Resources!L!String(attrs, Resources!ATTR_PLURALS) = PluralRule
                           /\ Resources!L!FindKey(str.key) = IF options.keys THEN str.id ELSE -1
  BY Zenon DEF Resources!ResourceAnswers, Resources!BuiltinIsOpen
<1>1. Built!LngFileAssumption
  BY SameAssumption DEF Resources!ResourceAssumption
<1>2. serial = defs_serial
  <2>1. serial = origin.serial
    BY <1>1, Built!OpenSections
  <2>2. QED
    BY <2>1, ResourceCatalog
<1>3. ASSUME NEW n \in DOMAIN defs
      PROVE  LET str == defs[n]
                 read == Resources!L!String(strings, str.id)
             IN /\ Resources!L!Form(read, 0) = Resources!Warped(str.value, options)
                /\ str.plural # <<>> =>
                     /\ Resources!L!Form(read, 1) = Resources!Warped(str.plural, options)
                     /\ Resources!L!String(attrs, Resources!ATTR_PLURALS) = PluralRule
                /\ Resources!L!FindKey(str.key) = IF options.keys THEN str.id ELSE -1
  <2>1. LET str == defs[n]
            read == Built!String(strings, str.id)
        IN /\ Built!Form(read, 0) = Resources!Warped(str.value, options)
           /\ str.plural # <<>> =>
                Built!Form(read, 1) = Resources!Warped(str.plural, options)
    BY ResourceForms
  <2>2. defs[n].plural # <<>> =>
          Built!String(attrs, Resources!ATTR_PLURALS) = PluralRule
    BY ResourceRule
  <2>3. Built!FindKey(defs[n].key) = IF options.keys THEN defs[n].id ELSE -1
    BY ResourceKeys
  <2>4. QED
    BY <2>1, <2>2, <2>3, SameGetters, Zenon
<1>4. QED
  BY <1>2, <1>3

(* Whatever the strings: the table is C++ however far it was written, and a  *)
(* program that was built with it answers with what it was given             *)
(* (table_outstream and Builtin of cmd_write_res.cpp).                       *)
THEOREM ResourceIsRight ==
    ASSUME Resources!ResourceAssumption
    PROVE  Resources!Spec => [](Resources!TableIsText /\ Resources!ResourceAnswers)
<1>1. Resources!Init => ResInv /\ Built!IInv
  <2>1. Resources!Init => Built!Init
    BY SameSteps DEF Resources!Init
  <2>2. QED
    BY <2>1, ResInit, SameAssumption, Built!InvInit DEF Resources!ResourceAssumption
<1>2. ResInv /\ Built!IInv /\ [Resources!Next]_(Resources!vars) => ResInv' /\ Built!IInv'
  <2> SUFFICES ASSUME ResInv, Built!IInv, [Resources!Next]_(Resources!vars)
               PROVE  ResInv' /\ Built!IInv'
    OBVIOUS
  <2>1. [Built!Next]_(Built!vars)
    BY ResourceStepIsLngFile, SameSteps, Zenon
  <2>2. Built!LngFileAssumption
    BY SameAssumption DEF Resources!ResourceAssumption
  <2>3. Built!IInv'
    BY <2>1, <2>2, Built!InvStep
  <2>4. QED
    BY <2>3, ResStep
<1>3. ResInv /\ Built!IInv => Resources!TableIsText /\ Resources!ResourceAnswers
  BY ResourceTableIsText, ResourceAnswersAll
<1>4. QED
  BY <1>1, <1>2, <1>3, PTL DEF Resources!Spec


------------------------------------------------------------------------------
(* Embed                                                                     *)

LEMMA SameArrays ==
    /\ Embedding!TableAssumption <=> TableAssumption
    /\ \A data, n : Embedding!Rows(data, n) = Rows(data, n)
    /\ \A text, n : Embedding!Ended(text, n) = Ended(text, n)
    /\ \A text : Embedding!Bytes(text) = Bytes(text)
<1>1. Embedding!Quote = Quote /\ Embedding!EndQuote = EndQuote
  BY DEF Embedding!Quote, Quote, Embedding!EndQuote, EndQuote
<1>2. \A seqs : Embedding!FlattenSeq(seqs) = FlattenSeq(seqs)
  BY Zenon DEF Embedding!FlattenSeq, FlattenSeq
<1>3. Embedding!TableAssumption <=> TableAssumption
  BY DEF Embedding!TableAssumption, TableAssumption
<1>4. \A data, n : Embedding!Rows(data, n) = Rows(data, n)
  BY <1>1, <1>2, Zenon DEF Embedding!Rows, Rows
<1>5. \A text, n : Embedding!Ended(text, n) = Ended(text, n)
  BY <1>1, Zenon DEF Embedding!Ended, Ended
<1>6. \A text : Embedding!Bytes(text) = Bytes(text)
  BY <1>1, <1>2, Zenon DEF Embedding!Bytes, Bytes
<1>7. QED
  BY <1>3, <1>4, <1>5, <1>6

(* A file comes out of its array as it was put in.                           *)
LEMMA ArrayIsFile ==
    ASSUME TableAssumption, NEW data \in Seq(Nat)
    PROVE  Embedding!Bytes(Embedding!Array(data)) = data
<1> DEFINE text == Rows(data, 0)
<1>1. TextOf(<<>>, 0) /\ Bytes(<<>>) = <<>> /\ 0 \in Nat /\ Len(data) \in Nat
  BY NothingIsText, BytesOfNone
<1>2. /\ TextOf(<<>> \o text, 0 + Len(data))
      /\ Bytes(<<>> \o text) = Bytes(<<>>) \o data
  BY <1>1, BytesAreAdded
<1>3. text \in Seq(Int)
  BY <1>1, RowsAreEncoded
<1> HIDE DEF text
<1>4. <<>> \o text = text /\ 0 + Len(data) = Len(data) /\ <<>> \o data = data
  BY <1>1, <1>3, ConcatEmptySeq
<1>5. TextOf(text, Len(data)) /\ Bytes(text) = data
  BY <1>1, <1>2, <1>4
<1>6. Bytes(Ended(text, Len(data))) = data
  BY <1>1, <1>5, EndedIsText
<1>7. Embedding!Array(data) = Ended(text, Len(data))
  BY SameArrays, Zenon DEF Embedding!Array, text
<1>8. QED
  BY <1>6, <1>7, SameArrays, Zenon

(* What the script writes of some lists                                      *)
SomeLists == Lists \cup {<<>>}

BlobsOf(list) ==
    [n \in DOMAIN list |->
        [key |-> Embedding!Key(list[n]), ident |-> Embedding!Ident(list[n])]]

ArrayOf(path, bytes) ==
    [ident |-> Embedding!Ident(path), text |-> Embedding!Array(bytes),
     path |-> path, content |-> bytes]

FileArrays == {ArrayOf(path, bytes) : path \in Embedding!AllPaths, bytes \in Contents}

ArraysOf(arrays, list) ==
    /\ arrays \in Seq(FileArrays) /\ Len(arrays) <= Len(list)
    /\ \A n \in 1 .. Len(arrays) : arrays[n].path = list[n]

IsHeader(h) ==
    \E whole \in BOOLEAN, list \in SomeLists :
        h = [whole |-> whole, blobs |-> BlobsOf(list)]

IsSource(s) ==
    \E whole \in BOOLEAN, list \in SomeLists, arrays \in Seq(FileArrays) :
        /\ s = [whole |-> whole, arrays |-> arrays]
        /\ ArraysOf(arrays, list)
        /\ whole => Len(arrays) = Len(list)

(* A program that was built: each struct of the header has its array.        *)
IsProgram(p) ==
    \E list \in SomeLists, other \in SomeLists :
        /\ p.header.blobs = BlobsOf(list)
        /\ ArraysOf(p.source.arrays, other)
        /\ Len(p.source.arrays) = Len(other)
        /\ Embedding!IsInjective(Embedding!IdentsOf(list))
        /\ Embedding!IsInjective(Embedding!IdentsOf(other))
        /\ Embedding!ToSet(Embedding!IdentsOf(list))
             = Embedding!ToSet(Embedding!IdentsOf(other))

EmbedTypes ==
    /\ disk \in [Embedding!AllPaths -> Contents]
    /\ inputs \in SomeLists
    /\ embedding \in {"idle", "start", "open", "source", "copy source",
                      "copy header", "failed"}

(* The inductive invariant                                                   *)
EmbedInv ==
    /\ EmbedTypes
    /\ IsHeader(header) /\ IsSource(source)
    /\ embedded = [header |-> embedded.header, source |-> embedded.source]
    /\ IsHeader(embedded.header) /\ IsSource(embedded.source)
    /\ embedding \in {"open", "source"} => header.whole
    /\ embedding = "source" => ~source.whole /\ ArraysOf(source.arrays, inputs)
    /\ embedding = "copy header" => embedded.source = source
    /\ embedding = "idle" => embedded = [header |-> header, source |-> source]
    /\ IsProgram(program)

LEMMA ListFactsOf ==
    ASSUME Embedding!EmbedAssumption, NEW list \in SomeLists
    PROVE  /\ list \in Seq(Embedding!AllPaths) /\ Len(list) \in Nat
           /\ DOMAIN list = 1 .. Len(list)
<1>1. Lists \subseteq Seq(Embedding!AllPaths)
  BY DEF Embedding!EmbedAssumption
<1>2. list \in Seq(Embedding!AllPaths)
  <2>1. CASE list \in Lists
    BY <1>1, <2>1
  <2>2. CASE list = <<>>
    BY <2>2
  <2>3. QED
    BY <2>1, <2>2 DEF SomeLists
<1>3. QED
  BY <1>2

LEMMA FileArrayFacts ==
    ASSUME NEW array \in FileArrays
    PROVE  /\ array.path \in Embedding!AllPaths /\ array.content \in Contents
           /\ array.ident = Embedding!Ident(array.path)
           /\ array.text = Embedding!Array(array.content)
<1>1. PICK path \in Embedding!AllPaths, bytes \in Contents : array = ArrayOf(path, bytes)
  BY DEF FileArrays
<1>2. /\ array.path = path /\ array.content = bytes
      /\ array.ident = Embedding!Ident(path) /\ array.text = Embedding!Array(bytes)
  BY <1>1 DEF ArrayOf
<1>3. QED
  BY <1>2

LEMMA NothingIsEmbedded ==
    /\ BlobsOf(<<>>) = <<>> /\ ArraysOf(<<>>, <<>>)
    /\ IsHeader([whole |-> FALSE, blobs |-> <<>>])
    /\ IsSource([whole |-> FALSE, arrays |-> <<>>])
    /\ \A p : p.header.blobs = <<>> /\ p.source.arrays = <<>> => IsProgram(p)
<1>1. BlobsOf(<<>>) = <<>> /\ Embedding!IdentsOf(<<>>) = <<>>
  BY DEF BlobsOf, Embedding!IdentsOf
<1>2. ArraysOf(<<>>, <<>>) /\ <<>> \in Seq(FileArrays) /\ Len(<<>>) = 0
  BY DEF ArraysOf
<1>3. <<>> \in SomeLists
  BY DEF SomeLists
<1>4. IsHeader([whole |-> FALSE, blobs |-> <<>>])
  BY <1>1, <1>3, Zenon DEF IsHeader
<1>5. IsSource([whole |-> FALSE, arrays |-> <<>>])
  BY <1>2, <1>3, Zenon DEF IsSource
<1>6. Embedding!IsInjective(<<>>)
  BY DEF Embedding!IsInjective
<1>7. ASSUME NEW p, p.header.blobs = <<>>, p.source.arrays = <<>> PROVE IsProgram(p)
  BY <1>1, <1>2, <1>3, <1>6, <1>7, Zenon DEF IsProgram
<1>8. QED
  BY <1>1, <1>2, <1>4, <1>5, <1>7

LEMMA EmbedInit ==
    ASSUME Embedding!Init
    PROVE  EmbedInv
<1>1. /\ disk \in [Embedding!AllPaths -> Contents] /\ inputs = <<>>
      /\ embedding = "idle"
      /\ header = [whole |-> FALSE, blobs |-> <<>>]
      /\ source = [whole |-> FALSE, arrays |-> <<>>]
      /\ embedded = [header |-> header, source |-> source]
      /\ program = embedded
  BY DEF Embedding!Init
<1>2. EmbedTypes
  BY <1>1 DEF EmbedTypes, SomeLists
<1>3. IsHeader(header) /\ IsSource(source)
  BY <1>1, NothingIsEmbedded, Zenon
<1>4. embedded.header = header /\ embedded.source = source
  BY <1>1
<1>5. program.header.blobs = <<>> /\ program.source.arrays = <<>>
  BY <1>1
<1>6. IsProgram(program)
  BY <1>5, NothingIsEmbedded, Zenon
<1>7. IsHeader(embedded.header) /\ IsSource(embedded.source)
  BY <1>3, <1>4, Zenon
<1>8. QED
  BY <1>1, <1>2, <1>3, <1>4, <1>6, <1>7 DEF EmbedInv

(* What a step does not touch stays as it was.                               *)
LEMMA FilesStay ==
    ASSUME EmbedInv, EmbedTypes', UNCHANGED <<header, source, embedded, program>>,
           embedding' \in {"open", "source"} => header.whole,
           embedding' = "source" => ~source.whole /\ ArraysOf(source.arrays, inputs'),
           embedding' = "copy header" => embedded.source = source,
           embedding' = "idle" => embedding = "idle"
    PROVE  EmbedInv'
<1>1. /\ header' = header /\ source' = source /\ embedded' = embedded
      /\ program' = program
  OBVIOUS
<1>2. /\ IsHeader(header') /\ IsSource(source')
      /\ IsHeader((embedded').header) /\ IsSource((embedded').source)
      /\ IsProgram(program')
      /\ embedded' = [header |-> (embedded').header, source |-> (embedded').source]
  BY <1>1, Zenon DEF EmbedInv
<1>3. embedding' = "source" => ~(source').whole /\ ArraysOf((source').arrays, inputs')
  BY <1>1, Zenon
<1>4. embedding' = "idle" => embedded' = [header |-> header', source |-> source']
  BY <1>1, Zenon DEF EmbedInv
<1>5. /\ embedding' \in {"open", "source"} => (header').whole
      /\ embedding' = "copy header" => (embedded').source = source'
  BY <1>1, Zenon
<1>6. QED
  BY <1>2, <1>3, <1>4, <1>5, Zenon DEF EmbedInv

LEMMA WriteFileKeeps ==
    ASSUME EmbedInv, NEW path \in Embedding!AllPaths, NEW bytes \in Contents,
           Embedding!WriteFile(path, bytes)
    PROVE  EmbedInv'
<1>1. /\ disk' = [disk EXCEPT ![path] = bytes]
      /\ inputs' = inputs /\ embedding' = embedding
      /\ UNCHANGED <<header, source, embedded, program>>
  BY DEF Embedding!WriteFile
<1>2. EmbedTypes'
  BY <1>1 DEF EmbedInv, EmbedTypes
<1>3. /\ embedding' \in {"open", "source"} => header.whole
      /\ embedding' = "source" => ~source.whole /\ ArraysOf(source.arrays, inputs')
      /\ embedding' = "copy header" => embedded.source = source
      /\ embedding' = "idle" => embedding = "idle"
  BY <1>1, Zenon DEF EmbedInv
<1>4. QED
  BY <1>1, <1>2, <1>3, FilesStay

LEMMA StartKeeps ==
    ASSUME EmbedInv, NEW list \in Lists, Embedding!Start(list)
    PROVE  EmbedInv'
<1>1. /\ inputs' = list /\ embedding' = "start" /\ disk' = disk
      /\ UNCHANGED <<header, source, embedded, program>>
  BY DEF Embedding!Start
<1>2. EmbedTypes'
  BY <1>1 DEF EmbedInv, EmbedTypes, SomeLists
<1>3. QED
  BY <1>1, <1>2, FilesStay

LEMMA WriteHeaderKeeps ==
    ASSUME EmbedInv, Embedding!WriteHeader
    PROVE  EmbedInv'
<1>1. /\ UNCHANGED <<disk, inputs, source, embedded, program>>
      /\ \/ /\ embedding' = "open"
            /\ header' = [whole |-> TRUE, blobs |-> BlobsOf(inputs)]
         \/ /\ embedding' = "failed"
            /\ header' = [whole |-> FALSE, blobs |-> <<>>]
  BY DEF Embedding!WriteHeader, BlobsOf
<1>2. /\ disk' = disk /\ inputs' = inputs /\ source' = source /\ embedded' = embedded
      /\ program' = program
  BY <1>1
<1>3. EmbedTypes'
  BY <1>1 DEF EmbedInv, EmbedTypes
<1>4. IsHeader(header')
  <2>1. inputs \in SomeLists
    BY DEF EmbedInv, EmbedTypes
  <2>2. CASE header' = [whole |-> TRUE, blobs |-> BlobsOf(inputs)]
    BY <2>1, <2>2, Zenon DEF IsHeader
  <2>3. CASE header' = [whole |-> FALSE, blobs |-> <<>>]
    BY <2>3, NothingIsEmbedded, Zenon
  <2>4. QED
    BY <1>1, <2>2, <2>3, Zenon
<1>5. embedding' = "open" => (header').whole
  BY <1>1
<1>6. embedding' \in {"open", "failed"}
  BY <1>1
<1>7. /\ IsSource(source')
      /\ IsHeader((embedded').header) /\ IsSource((embedded').source)
      /\ IsProgram(program')
      /\ embedded' = [header |-> (embedded').header, source |-> (embedded').source]
  BY <1>2, Zenon DEF EmbedInv
<1>8. QED
  BY <1>3, <1>4, <1>5, <1>6, <1>7 DEF EmbedInv

LEMMA OpenSourceKeeps ==
    ASSUME Embedding!EmbedAssumption, EmbedInv, Embedding!OpenSource
    PROVE  EmbedInv'
<1>1. /\ embedding = "open" /\ embedding' = "source"
      /\ source' = [whole |-> FALSE, arrays |-> <<>>]
      /\ disk' = disk /\ inputs' = inputs /\ header' = header /\ embedded' = embedded
      /\ program' = program
  BY DEF Embedding!OpenSource
<1>2. EmbedTypes'
  BY <1>1 DEF EmbedInv, EmbedTypes
<1>3. ArraysOf(<<>>, inputs)
  <2>1. Len(inputs) \in Nat
    BY ListFactsOf DEF EmbedInv, EmbedTypes
  <2>2. QED
    BY <2>1 DEF ArraysOf
<1>4. ~(source').whole /\ ArraysOf((source').arrays, inputs')
  BY <1>1, <1>3
<1>5. IsSource(source') /\ IsHeader(header') /\ (header').whole
  BY <1>1, NothingIsEmbedded, Zenon DEF EmbedInv
<1>6. /\ IsHeader((embedded').header) /\ IsSource((embedded').source)
      /\ IsProgram(program')
      /\ embedded' = [header |-> (embedded').header, source |-> (embedded').source]
  BY <1>1, Zenon DEF EmbedInv
<1>7. embedding' # "copy header" /\ embedding' # "idle"
  BY <1>1
<1>8. QED
  BY <1>2, <1>4, <1>5, <1>6, <1>7, Zenon DEF EmbedInv

LEMMA SourceFields ==
    ASSUME NEW s, IsSource(s)
    PROVE  /\ s = [whole |-> s.whole, arrays |-> s.arrays]
           /\ s.whole \in BOOLEAN /\ s.arrays \in Seq(FileArrays)
           /\ \A w : [s EXCEPT !.whole = w] = [whole |-> w, arrays |-> s.arrays]
           /\ \A a : [s EXCEPT !.arrays = a] = [whole |-> s.whole, arrays |-> a]
BY DEF IsSource

LEMMA WriteArrayKeeps ==
    ASSUME Embedding!EmbedAssumption, EmbedInv, Embedding!WriteArray
    PROVE  EmbedInv'
<1> DEFINE n == Len(source.arrays) + 1
           path == inputs[n]
           entry == ArrayOf(path, disk[path])
           more == Append(source.arrays, entry)
<1>1. /\ embedding = "source" /\ embedding' = "source" /\ n - 1 < Len(inputs)
      /\ source' = [source EXCEPT !.arrays = more]
      /\ disk' = disk /\ inputs' = inputs /\ header' = header /\ embedded' = embedded
      /\ program' = program
  BY DEF Embedding!WriteArray, ArrayOf
<1>2. /\ ArraysOf(source.arrays, inputs) /\ ~source.whole /\ IsSource(source)
      /\ inputs \in SomeLists /\ disk \in [Embedding!AllPaths -> Contents]
  BY <1>1 DEF EmbedInv, EmbedTypes
<1>3. /\ source.arrays \in Seq(FileArrays) /\ Len(source.arrays) <= Len(inputs)
      /\ \A m \in 1 .. Len(source.arrays) : source.arrays[m].path = inputs[m]
  BY <1>2 DEF ArraysOf
<1>4. /\ inputs \in Seq(Embedding!AllPaths) /\ Len(inputs) \in Nat
      /\ DOMAIN inputs = 1 .. Len(inputs)
  BY <1>2, ListFactsOf
<1>5. entry \in FileArrays /\ entry.path = inputs[n]
  <2>1. path \in Embedding!AllPaths
    BY <1>1, <1>3, <1>4
  <2>2. disk[path] \in Contents
    BY <1>2, <2>1
  <2>3. QED
    BY <2>1, <2>2 DEF FileArrays, ArrayOf
<1>6. ArraysOf(more, inputs)
  <2> HIDE DEF entry
  <2>1. /\ more \in Seq(FileArrays) /\ Len(more) = n
        /\ more[n] = entry /\ \A m \in 1 .. Len(source.arrays) : more[m] = source.arrays[m]
    BY <1>3, <1>5
  <2>2. \A m \in 1 .. n : m = n \/ m \in 1 .. Len(source.arrays)
    BY <1>3
  <2> HIDE DEF more
  <2>3. Len(more) <= Len(inputs)
    BY <1>1, <1>3, <1>4, <2>1
  <2>4. ASSUME NEW m \in 1 .. Len(more) PROVE more[m].path = inputs[m]
    <3>1. CASE m = n
      BY <3>1, <2>1, <1>5
    <3>2. CASE m \in 1 .. Len(source.arrays)
      BY <3>2, <2>1, <1>3
    <3>3. QED
      BY <2>1, <2>2, <2>4, <3>1, <3>2
  <2>5. QED
    BY <2>1, <2>3, <2>4 DEF ArraysOf
<1> HIDE DEF more
<1>7. source' = [whole |-> source.whole, arrays |-> more]
  BY <1>1, <1>2, SourceFields, Zenon
<1>8. /\ (source').arrays = more /\ (source').whole = source.whole
  BY <1>7
<1>9. IsSource(source')
  <2>1. source.whole \in BOOLEAN
    BY <1>2, SourceFields
  <2>2. more \in Seq(FileArrays)
    BY <1>6 DEF ArraysOf
  <2>3. QED
    BY <1>2, <1>6, <1>7, <2>1, <2>2, Zenon DEF IsSource
<1>10. ~(source').whole /\ ArraysOf((source').arrays, inputs')
  BY <1>1, <1>2, <1>6, <1>8, Zenon
<1>11. EmbedTypes'
  BY <1>1 DEF EmbedInv, EmbedTypes
<1>12. IsHeader(header') /\ (header').whole
  BY <1>1, Zenon DEF EmbedInv
<1>13. /\ IsHeader((embedded').header) /\ IsSource((embedded').source)
       /\ IsProgram(program')
       /\ embedded' = [header |-> (embedded').header, source |-> (embedded').source]
  BY <1>1, Zenon DEF EmbedInv
<1>14. embedding' # "copy header" /\ embedding' # "idle"
  BY <1>1
<1>15. QED
  BY <1>9, <1>10, <1>11, <1>12, <1>13, <1>14, Zenon DEF EmbedInv

LEMMA EndSourceKeeps ==
    ASSUME Embedding!EmbedAssumption, EmbedInv, Embedding!EndSource
    PROVE  EmbedInv'
<1>1. /\ embedding = "source" /\ embedding' = "copy source"
      /\ Len(source.arrays) = Len(inputs)
      /\ source' = [source EXCEPT !.whole = TRUE]
      /\ disk' = disk /\ inputs' = inputs /\ header' = header /\ embedded' = embedded
      /\ program' = program
  BY DEF Embedding!EndSource
<1>2. /\ ArraysOf(source.arrays, inputs) /\ IsSource(source) /\ inputs \in SomeLists
  BY <1>1 DEF EmbedInv, EmbedTypes
<1>3. source' = [whole |-> TRUE, arrays |-> source.arrays]
  BY <1>1, <1>2, SourceFields, Zenon
<1>4. IsSource(source')
  <2>1. source.arrays \in Seq(FileArrays)
    BY <1>2, SourceFields
  <2>2. QED
    BY <1>1, <1>2, <1>3, <2>1, Zenon DEF IsSource
<1>5. EmbedTypes'
  BY <1>1 DEF EmbedInv, EmbedTypes
<1>6. /\ IsHeader(header')
      /\ IsHeader((embedded').header) /\ IsSource((embedded').source)
      /\ IsProgram(program')
      /\ embedded' = [header |-> (embedded').header, source |-> (embedded').source]
  BY <1>1, Zenon DEF EmbedInv
<1>7. embedding' \notin {"open", "source", "copy header", "idle"}
  BY <1>1
<1>8. QED
  BY <1>4, <1>5, <1>6, <1>7 DEF EmbedInv

LEMMA EmbeddedChanges ==
    ASSUME EmbedInv, UNCHANGED <<disk, inputs, header, source, program>>,
           NEW h, NEW s, embedded' = [header |-> h, source |-> s],
           IsHeader(h), IsSource(s),
           embedding' \in {"idle", "copy header", "failed"},
           embedding' = "copy header" => s = source,
           embedding' = "idle" => h = header /\ s = source
    PROVE  EmbedInv'
<1>1. /\ disk' = disk /\ inputs' = inputs /\ header' = header /\ source' = source
      /\ program' = program
  OBVIOUS
<1>2. /\ (embedded').header = h /\ (embedded').source = s
      /\ embedded' = [header |-> (embedded').header, source |-> (embedded').source]
  OBVIOUS
<1>3. EmbedTypes'
  BY <1>1 DEF EmbedInv, EmbedTypes
<1>4. /\ IsHeader(header') /\ IsSource(source') /\ IsProgram(program')
      /\ IsHeader((embedded').header) /\ IsSource((embedded').source)
  BY <1>1, <1>2, Zenon DEF EmbedInv
<1>5. /\ embedding' = "copy header" => (embedded').source = source'
      /\ embedding' = "idle" => embedded' = [header |-> header', source |-> source']
  BY <1>1, <1>2, Zenon
<1>6. embedding' \notin {"open", "source"}
  OBVIOUS
<1>7. QED
  BY <1>2, <1>3, <1>4, <1>5, <1>6 DEF EmbedInv

LEMMA UpdateKeeps ==
    ASSUME EmbedInv, Embedding!UpdateSource \/ Embedding!UpdateHeader
    PROVE  EmbedInv'
<1> DEFINE h == embedded.header
           s == embedded.source
<1>1. /\ embedded = [header |-> h, source |-> s]
      /\ IsHeader(h) /\ IsSource(s) /\ IsHeader(header) /\ IsSource(source)
      /\ embedding = "copy header" => s = source
  BY DEF EmbedInv
<1>2. \A old, new : Embedding!Copied(old, new) = new
  BY DEF Embedding!Copied
<1>3. CASE Embedding!UpdateSource
  <2>1. /\ embedded' = [embedded EXCEPT !.source = source]
        /\ embedding' = "copy header"
        /\ UNCHANGED <<disk, inputs, header, source, program>>
    BY <1>2, <1>3 DEF Embedding!UpdateSource
  <2>2. embedded' = [header |-> h, source |-> source]
    <3> HIDE DEF h, s
    <3>1. QED
      BY <1>1, <2>1
  <2> HIDE DEF h, s
  <2>3. QED
    BY <1>1, <2>1, <2>2, EmbeddedChanges
<1>4. CASE Embedding!UpdateHeader
  <2>1. /\ embedded' = [embedded EXCEPT !.header = header]
        /\ embedding = "copy header" /\ embedding' = "idle"
        /\ UNCHANGED <<disk, inputs, header, source, program>>
    BY <1>2, <1>4 DEF Embedding!UpdateHeader
  <2>2. embedded' = [header |-> header, source |-> s]
    <3> HIDE DEF h, s
    <3>1. QED
      BY <1>1, <2>1
  <2> HIDE DEF h, s
  <2>3. QED
    BY <1>1, <2>1, <2>2, EmbeddedChanges
<1>5. QED
  BY <1>3, <1>4

LEMMA CutShort ==
    /\ \A s : IsSource(s) => IsSource([s EXCEPT !.whole = FALSE])
    /\ \A h : IsHeader(h) => IsHeader([h EXCEPT !.whole = FALSE])
<1>1. ASSUME NEW s, IsSource(s) PROVE IsSource([s EXCEPT !.whole = FALSE])
  <2>1. PICK whole \in BOOLEAN, list \in SomeLists, arrays \in Seq(FileArrays) :
           s = [whole |-> whole, arrays |-> arrays] /\ ArraysOf(arrays, list)
    BY <1>1, Zenon DEF IsSource
  <2>2. [s EXCEPT !.whole = FALSE] = [whole |-> FALSE, arrays |-> arrays]
    <3>1. [s EXCEPT !.whole = FALSE] = [whole |-> FALSE, arrays |-> s.arrays]
      BY <1>1, SourceFields, Zenon
    <3>2. s.arrays = arrays
      BY <2>1
    <3>3. QED
      BY <3>1, <3>2, Zenon
  <2>3. QED
    BY <2>1, <2>2, Zenon DEF IsSource
<1>2. ASSUME NEW h, IsHeader(h) PROVE IsHeader([h EXCEPT !.whole = FALSE])
  <2>1. PICK whole \in BOOLEAN, list \in SomeLists :
           h = [whole |-> whole, blobs |-> BlobsOf(list)]
    BY <1>2, Zenon DEF IsHeader
  <2>2. [h EXCEPT !.whole = FALSE] = [whole |-> FALSE, blobs |-> BlobsOf(list)]
    <3> DEFINE blobs == BlobsOf(list)
    <3>1. h = [whole |-> whole, blobs |-> blobs]
      BY <2>1, Zenon
    <3> HIDE DEF blobs
    <3>2. \A w : [h EXCEPT !.whole = w] = [whole |-> w, blobs |-> blobs]
      BY <3>1
    <3>3. QED
      BY <3>2, Zenon DEF blobs
  <2>3. QED
    BY <2>1, <2>2, Zenon DEF IsHeader
<1>3. QED
  BY <1>1, <1>2

LEMMA InterruptKeeps ==
    ASSUME EmbedInv, Embedding!Interrupt
    PROVE  EmbedInv'
<1> DEFINE h == embedded.header
           s == embedded.source
           cut == [source EXCEPT !.whole = FALSE]
           short == [header EXCEPT !.whole = FALSE]
<1>1. /\ embedded = [header |-> h, source |-> s]
      /\ IsHeader(h) /\ IsSource(s) /\ IsHeader(header) /\ IsSource(source)
  BY DEF EmbedInv
<1>2. IsSource(cut) /\ IsHeader(short)
  BY <1>1, CutShort, Zenon
<1>3. /\ embedding' = "failed"
      /\ UNCHANGED <<disk, inputs, header, source, program>>
      /\ \/ embedded' = embedded
         \/ embedded' = [embedded EXCEPT !.source = cut]
         \/ embedded' = [embedded EXCEPT !.header = short]
  BY DEF Embedding!Interrupt
<1> HIDE DEF h, s, cut, short
<1>4. CASE embedded' = embedded
  BY <1>1, <1>3, <1>4, EmbeddedChanges
<1>5. CASE embedded' = [embedded EXCEPT !.source = cut]
  <2>1. embedded' = [header |-> h, source |-> cut]
    BY <1>1, <1>5
  <2>2. QED
    BY <1>1, <1>2, <1>3, <2>1, EmbeddedChanges
<1>6. CASE embedded' = [embedded EXCEPT !.header = short]
  <2>1. embedded' = [header |-> short, source |-> s]
    BY <1>1, <1>6
  <2>2. QED
    BY <1>1, <1>2, <1>3, <2>1, EmbeddedChanges
<1>7. QED
  BY <1>3, <1>4, <1>5, <1>6

(* The identifiers in a header and in a source are those of their lists.     *)
LEMMA IdentsAreOfLists ==
    ASSUME Embedding!EmbedAssumption, NEW list \in SomeLists
    PROVE  /\ Embedding!Idents(BlobsOf(list)) = Embedding!IdentsOf(list)
           /\ \A arrays : ArraysOf(arrays, list) /\ Len(arrays) = Len(list) =>
                 Embedding!Idents(arrays) = Embedding!IdentsOf(list)
<1>1. Embedding!Idents(BlobsOf(list)) = Embedding!IdentsOf(list)
  <2> DEFINE blob(n) == [key |-> Embedding!Key(list[n]), ident |-> Embedding!Ident(list[n])]
  <2>1. \A n : blob(n).ident = Embedding!Ident(list[n])
    OBVIOUS
  <2> HIDE DEF blob
  <2>2. BlobsOf(list) = [n \in DOMAIN list |-> blob(n)]
    BY DEF BlobsOf, blob
  <2>3. QED
    BY <2>1, <2>2 DEF Embedding!Idents, Embedding!IdentsOf
<1>2. ASSUME NEW arrays, ArraysOf(arrays, list), Len(arrays) = Len(list)
      PROVE  Embedding!Idents(arrays) = Embedding!IdentsOf(list)
  <2>1. arrays \in Seq(FileArrays) /\ \A n \in 1 .. Len(arrays) : arrays[n].path = list[n]
    BY <1>2 DEF ArraysOf
  <2>2. DOMAIN arrays = 1 .. Len(list) /\ DOMAIN list = 1 .. Len(list)
    BY <1>2, <2>1, ListFactsOf
  <2>3. ASSUME NEW n \in 1 .. Len(list)
        PROVE  arrays[n].ident = Embedding!Ident(list[n])
    <3>1. arrays[n] \in FileArrays /\ arrays[n].path = list[n]
      BY <1>2, <2>1, <2>2
    <3>2. QED
      BY <3>1, FileArrayFacts
  <2>4. QED
    BY <2>2, <2>3 DEF Embedding!Idents, Embedding!IdentsOf
<1>3. QED
  BY <1>1, <1>2

LEMMA BuildKeeps ==
    ASSUME Embedding!EmbedAssumption, EmbedInv, Embedding!Build
    PROVE  EmbedInv'
<1>1. /\ Embedding!Builds /\ program' = embedded
      /\ disk' = disk /\ inputs' = inputs /\ embedding' = embedding
      /\ header' = header /\ source' = source /\ embedded' = embedded
  BY DEF Embedding!Build
<1>2. IsHeader(embedded.header) /\ IsSource(embedded.source)
  BY DEF EmbedInv
<1>3. PICK list \in SomeLists : embedded.header.blobs = BlobsOf(list)
  BY <1>2 DEF IsHeader
<1>4. /\ embedded.header.whole /\ embedded.source.whole
      /\ Embedding!IsInjective(Embedding!Idents(embedded.header.blobs))
      /\ Embedding!IsInjective(Embedding!Idents(embedded.source.arrays))
      /\ Embedding!ToSet(Embedding!Idents(embedded.header.blobs))
           = Embedding!ToSet(Embedding!Idents(embedded.source.arrays))
  BY <1>1, Zenon DEF Embedding!Builds, Embedding!Structs
<1>5. PICK other \in SomeLists :
         ArraysOf(embedded.source.arrays, other)
         /\ Len(embedded.source.arrays) = Len(other)
  <2>1. PICK whole \in BOOLEAN, other \in SomeLists, arrays \in Seq(FileArrays) :
           /\ embedded.source = [whole |-> whole, arrays |-> arrays]
           /\ ArraysOf(arrays, other)
           /\ whole => Len(arrays) = Len(other)
    BY <1>2, Zenon DEF IsSource
  <2>2. embedded.source = [whole |-> whole, arrays |-> arrays]
    BY <2>1, Zenon
  <2>3. embedded.source.arrays = arrays /\ embedded.source.whole = whole
    BY <2>2
  <2>4. Len(arrays) = Len(other)
    BY <1>4, <2>1, <2>3, Zenon
  <2>5. QED
    BY <2>1, <2>3, <2>4, Zenon
<1>6. /\ Embedding!Idents(embedded.header.blobs) = Embedding!IdentsOf(list)
      /\ Embedding!Idents(embedded.source.arrays) = Embedding!IdentsOf(other)
  BY <1>3, <1>5, IdentsAreOfLists
<1>7. IsProgram(embedded)
  BY <1>3, <1>4, <1>5, <1>6, Zenon DEF IsProgram
<1>8. IsProgram(program')
  BY <1>1, <1>7, Zenon
<1>9. EmbedTypes'
  BY <1>1 DEF EmbedInv, EmbedTypes
<1>10. /\ IsHeader(header') /\ IsSource(source')
       /\ IsHeader((embedded').header) /\ IsSource((embedded').source)
       /\ embedded' = [header |-> (embedded').header, source |-> (embedded').source]
       /\ embedding' \in {"open", "source"} => (header').whole
       /\ embedding' = "source" => ~(source').whole /\ ArraysOf((source').arrays, inputs')
       /\ embedding' = "copy header" => (embedded').source = source'
       /\ embedding' = "idle" => embedded' = [header |-> header', source |-> source']
  BY <1>1, Zenon DEF EmbedInv
<1>11. QED
  BY <1>8, <1>9, <1>10, Zenon DEF EmbedInv

LEMMA EmbedStep ==
    ASSUME Embedding!EmbedAssumption, EmbedInv, [Embedding!Next]_(Embedding!vars)
    PROVE  EmbedInv'
<1>1. ASSUME NEW path \in Embedding!AllPaths, NEW bytes \in Contents,
             Embedding!WriteFile(path, bytes)
      PROVE  EmbedInv'
  BY <1>1, WriteFileKeeps
<1>2. ASSUME NEW list \in Lists, Embedding!Start(list) PROVE EmbedInv'
  BY <1>2, StartKeeps
<1>3. CASE Embedding!WriteHeader
  BY <1>3, WriteHeaderKeeps
<1>4. CASE Embedding!OpenSource
  BY <1>4, OpenSourceKeeps
<1>5. CASE Embedding!WriteArray
  BY <1>5, WriteArrayKeeps
<1>6. CASE Embedding!EndSource
  BY <1>6, EndSourceKeeps
<1>7. CASE Embedding!UpdateSource \/ Embedding!UpdateHeader
  BY <1>7, UpdateKeeps
<1>8. CASE Embedding!Interrupt
  BY <1>8, InterruptKeeps
<1>9. CASE Embedding!Build
  BY <1>9, BuildKeeps
<1>10. CASE UNCHANGED Embedding!vars
  <2>1. /\ UNCHANGED <<header, source, embedded, program>>
        /\ embedding' = embedding /\ inputs' = inputs /\ disk' = disk
    BY <1>10 DEF Embedding!vars
  <2>2. EmbedTypes'
    BY <2>1 DEF EmbedInv, EmbedTypes
  <2>3. /\ embedding' \in {"open", "source"} => header.whole
        /\ embedding' = "source" => ~source.whole /\ ArraysOf(source.arrays, inputs')
        /\ embedding' = "copy header" => embedded.source = source
        /\ embedding' = "idle" => embedding = "idle"
    BY <2>1, Zenon DEF EmbedInv
  <2>4. QED
    BY <2>1, <2>2, <2>3, FilesStay
<1>11. QED
  BY <1>1, <1>2, <1>3, <1>4, <1>5, <1>6, <1>7, <1>8, <1>9, <1>10, Zenon
     DEF Embedding!Next

------------------------------------------------------------------------------

LEMMA EmbedTypeCorrect ==
    ASSUME Embedding!EmbedAssumption, EmbedInv
    PROVE  Embedding!TypeOK
<1>1. /\ disk \in [Embedding!AllPaths -> Contents] /\ inputs \in Lists \cup {<<>>}
      /\ embedding \in {"idle", "start", "open", "source", "copy source",
                        "copy header", "failed"}
  BY DEF EmbedInv, EmbedTypes, SomeLists
<1>2. header.whole \in BOOLEAN /\ source.whole \in BOOLEAN
  <2>1. source.whole \in BOOLEAN
    BY SourceFields DEF EmbedInv
  <2>2. PICK whole \in BOOLEAN, list \in SomeLists :
           header = [whole |-> whole, blobs |-> BlobsOf(list)]
    BY Zenon DEF EmbedInv, IsHeader
  <2>3. header.whole = whole
    BY <2>2
  <2>4. QED
    BY <2>1, <2>2, <2>3
<1>3. ASSUME embedding = "source"
      PROVE  /\ ~source.whole /\ header.whole
             /\ Embedding!IsPrefix([n \in DOMAIN source.arrays |-> source.arrays[n].path],
                                   inputs)
  <2> DEFINE paths == [n \in DOMAIN source.arrays |-> source.arrays[n].path]
  <2>1. ArraysOf(source.arrays, inputs) /\ ~source.whole /\ header.whole
    BY <1>3 DEF EmbedInv
  <2>2. /\ source.arrays \in Seq(FileArrays) /\ Len(source.arrays) <= Len(inputs)
        /\ \A m \in 1 .. Len(source.arrays) : source.arrays[m].path = inputs[m]
    BY <2>1 DEF ArraysOf
  <2>3. inputs \in Seq(Embedding!AllPaths) /\ Len(inputs) \in Nat
    BY ListFactsOf DEF EmbedInv, EmbedTypes
  <2>4. /\ DOMAIN source.arrays = 1 .. Len(source.arrays) /\ Len(source.arrays) \in Nat
        /\ \A m \in 1 .. Len(source.arrays) :
             inputs[m] \in Embedding!AllPaths
    BY <2>2, <2>3
  <2>5. /\ paths \in Seq(Embedding!AllPaths) /\ Len(paths) = Len(source.arrays)
        /\ \A m \in 1 .. Len(paths) : paths[m] = inputs[m]
    BY <2>2, <2>4
  <2> HIDE DEF paths
  <2>6. IsPrefix(paths, inputs)
    BY <2>2, <2>3, <2>5, PrefixFacts
  <2>7. Embedding!IsPrefix(paths, inputs)
    BY <2>6, Zenon DEF Embedding!IsPrefix, IsPrefix
  <2>8. QED
    BY <2>1, <2>7 DEF paths
<1>4. QED
  BY <1>1, <1>2, <1>3, Zenon DEF Embedding!TypeOK

(* In a program, whichever two runs its header and its source are of, a name *)
(* in the one is the name of the same identifier in the other.               *)
LEMMA NamesMeet ==
    ASSUME Embedding!EmbedAssumption, NEW list \in SomeLists, NEW other \in SomeLists,
           Embedding!IsInjective(Embedding!IdentsOf(list)),
           Embedding!IsInjective(Embedding!IdentsOf(other)),
           Embedding!ToSet(Embedding!IdentsOf(list))
             = Embedding!ToSet(Embedding!IdentsOf(other))
    PROVE  /\ \A n \in DOMAIN list, m \in DOMAIN list :
                list[n].name = list[m].name => n = m
           /\ \A n \in DOMAIN other, m \in DOMAIN other :
                Embedding!Ident(other[n]) = Embedding!Ident(other[m]) => n = m
           /\ \A n \in DOMAIN list : \E m \in DOMAIN other :
                /\ list[n].name = other[m].name
                /\ Embedding!Ident(list[n]) = Embedding!Ident(other[m])
           /\ \A m \in DOMAIN other : \E n \in DOMAIN list :
                /\ list[n].name = other[m].name
                /\ Embedding!Ident(list[n]) = Embedding!Ident(other[m])
<1> DEFINE ids(l) == Embedding!IdentsOf(l)
<1>1. \A l : ids(l) = [n \in DOMAIN l |-> Embedding!Ident(l[n])]
  BY DEF Embedding!IdentsOf
<1>2. \A l : DOMAIN ids(l) = DOMAIN l /\ \A n \in DOMAIN l : ids(l)[n] = Embedding!Ident(l[n])
  BY <1>1
<1> HIDE DEF ids
<1>3. /\ \A n, m \in DOMAIN ids(list) : ids(list)[n] = ids(list)[m] => n = m
      /\ \A n, m \in DOMAIN ids(other) : ids(other)[n] = ids(other)[m] => n = m
  BY Zenon DEF Embedding!IsInjective, ids
<1>4. /\ \A n \in DOMAIN list : \E m \in DOMAIN other : ids(list)[n] = ids(other)[m]
      /\ \A m \in DOMAIN other : \E n \in DOMAIN list : ids(list)[n] = ids(other)[m]
  <2>1. {ids(list)[n] : n \in DOMAIN ids(list)} = {ids(other)[m] : m \in DOMAIN ids(other)}
    BY Zenon DEF Embedding!ToSet, ids
  <2>2. DOMAIN ids(list) = DOMAIN list /\ DOMAIN ids(other) = DOMAIN other
    BY <1>2, Zenon
  <2>3. ASSUME NEW n \in DOMAIN list
        PROVE  \E m \in DOMAIN other : ids(list)[n] = ids(other)[m]
    <3>1. ids(list)[n] \in {ids(other)[m] : m \in DOMAIN ids(other)}
      BY <2>1, <2>2, Zenon
    <3>2. QED
      BY <2>2, <3>1, Zenon
  <2>4. ASSUME NEW m \in DOMAIN other
        PROVE  \E n \in DOMAIN list : ids(list)[n] = ids(other)[m]
    <3>1. ids(other)[m] \in {ids(list)[n] : n \in DOMAIN ids(list)}
      BY <2>1, <2>2, Zenon
    <3>2. QED
      BY <2>2, <3>1, Zenon
  <2>5. QED
    BY <2>3, <2>4, Zenon
<1>5. ASSUME NEW n \in DOMAIN list, NEW m \in DOMAIN other,
             Embedding!Ident(list[n]) = Embedding!Ident(other[m])
      PROVE  list[n].name = other[m].name
  <2>1. list \in Lists /\ other \in Lists
    BY DEF SomeLists
  <2>2. list[n] \in Embedding!ToSet(list) /\ other[m] \in Embedding!ToSet(other)
    BY DEF Embedding!ToSet
  <2>3. \A path \in Embedding!ToSet(list), same \in Embedding!ToSet(other) :
           Embedding!Ident(path) = Embedding!Ident(same) => path.name = same.name
    BY <2>1 DEF Embedding!EmbedAssumption
  <2>4. QED
    BY <1>5, <2>2, <2>3, Zenon
<1>6. ASSUME NEW n \in DOMAIN list, NEW m \in DOMAIN list, list[n].name = list[m].name
      PROVE  n = m
  <2>1. Embedding!Ident(list[n]) = Embedding!Ident(list[m])
    BY <1>6, Zenon DEF Embedding!Ident
  <2>2. QED
    BY <1>2, <1>3, <2>1
<1>7. \A n \in DOMAIN other, m \in DOMAIN other :
         Embedding!Ident(other[n]) = Embedding!Ident(other[m]) => n = m
  BY <1>2, <1>3
<1>8. ASSUME NEW n \in DOMAIN list
      PROVE  \E m \in DOMAIN other : /\ list[n].name = other[m].name
                                     /\ Embedding!Ident(list[n]) = Embedding!Ident(other[m])
  <2>1. PICK m \in DOMAIN other : ids(list)[n] = ids(other)[m]
    BY <1>4
  <2>2. Embedding!Ident(list[n]) = Embedding!Ident(other[m])
    BY <1>2, <2>1
  <2>3. QED
    BY <1>5, <2>2
<1>9. ASSUME NEW m \in DOMAIN other
      PROVE  \E n \in DOMAIN list : /\ list[n].name = other[m].name
                                    /\ Embedding!Ident(list[n]) = Embedding!Ident(other[m])
  <2>1. PICK n \in DOMAIN list : ids(list)[n] = ids(other)[m]
    BY <1>4
  <2>2. Embedding!Ident(list[n]) = Embedding!Ident(other[m])
    BY <1>2, <2>1
  <2>3. QED
    BY <1>5, <2>2
<1>10. QED
  BY <1>6, <1>7, <1>8, <1>9, Zenon


LEMMA MinOfOne ==
    ASSUME NEW n \in Nat
    PROVE  Embedding!Min({n}) = n
BY DEF Embedding!Min

LEMMA EmbedAnswers ==
    ASSUME Embedding!EmbedAssumption, EmbedInv
    PROVE  Embedding!AnswersForEveryFile
<1> DEFINE blobs == program.header.blobs
           arrays == program.source.arrays
           named(key_) == {n \in DOMAIN blobs : blobs[n].key = key_}
<1>1. TableAssumption /\ Contents \subseteq Seq(Nat)
  BY SameArrays DEF Embedding!EmbedAssumption
<1>2. PICK list \in SomeLists, other \in SomeLists :
        /\ blobs = BlobsOf(list)
        /\ ArraysOf(arrays, other) /\ Len(arrays) = Len(other)
        /\ Embedding!IsInjective(Embedding!IdentsOf(list))
        /\ Embedding!IsInjective(Embedding!IdentsOf(other))
        /\ Embedding!ToSet(Embedding!IdentsOf(list))
             = Embedding!ToSet(Embedding!IdentsOf(other))
  BY Zenon DEF EmbedInv, IsProgram
<1>3. /\ \A n \in DOMAIN list, m \in DOMAIN list :
              list[n].name = list[m].name => n = m
      /\ \A n \in DOMAIN other, m \in DOMAIN other :
              Embedding!Ident(other[n]) = Embedding!Ident(other[m]) => n = m
      /\ \A n \in DOMAIN list : \E m \in DOMAIN other :
              /\ list[n].name = other[m].name
              /\ Embedding!Ident(list[n]) = Embedding!Ident(other[m])
      /\ \A m \in DOMAIN other : \E n \in DOMAIN list :
              /\ list[n].name = other[m].name
              /\ Embedding!Ident(list[n]) = Embedding!Ident(other[m])
  BY <1>2, NamesMeet
<1>4. /\ DOMAIN list = 1 .. Len(list) /\ Len(list) \in Nat
      /\ DOMAIN other = 1 .. Len(other) /\ Len(other) \in Nat
  BY ListFactsOf
<1>5. /\ DOMAIN blobs = DOMAIN list
      /\ \A n \in DOMAIN list :
           blobs[n].key = list[n].name /\ blobs[n].ident = Embedding!Ident(list[n])
  <2> DEFINE blob(n) == [key |-> Embedding!Key(list[n]), ident |-> Embedding!Ident(list[n])]
  <2>1. \A n : blob(n).key = list[n].name /\ blob(n).ident = Embedding!Ident(list[n])
    BY DEF Embedding!Key
  <2> HIDE DEF blob
  <2>2. blobs = [n \in DOMAIN list |-> blob(n)]
    BY <1>2, Zenon DEF BlobsOf, blob
  <2>3. QED
    BY <2>1, <2>2
<1>6. /\ DOMAIN arrays = DOMAIN other
      /\ \A m \in DOMAIN other :
           /\ arrays[m].path = other[m]
           /\ arrays[m].ident = Embedding!Ident(other[m])
           /\ arrays[m].content \in Contents
           /\ arrays[m].text = Embedding!Array(arrays[m].content)
  <2>1. /\ arrays \in Seq(FileArrays)
        /\ \A m \in 1 .. Len(arrays) : arrays[m].path = other[m]
    BY <1>2 DEF ArraysOf
  <2>2. DOMAIN arrays = DOMAIN other
    BY <1>2, <1>4, <2>1
  <2>3. \A m \in DOMAIN other : arrays[m] \in FileArrays /\ arrays[m].path = other[m]
    BY <1>2, <1>4, <2>1
  <2>4. QED
    BY <2>2, <2>3, FileArrayFacts
<1> HIDE DEF blobs, arrays
<1>7. ASSUME NEW m \in DOMAIN other
      PROVE  Embedding!get_resource(arrays[m].path.name) = arrays[m].content
  <2>1. PICK n \in DOMAIN list : /\ list[n].name = other[m].name
                                 /\ Embedding!Ident(list[n]) = Embedding!Ident(other[m])
    BY <1>3
  <2>2. arrays[m].path.name = list[n].name
    BY <1>6, <2>1
  <2>3. named(list[n].name) = {n}
    BY <1>3, <1>5, <2>1
  <2>4. Embedding!Min(named(list[n].name)) = n /\ named(list[n].name) # {}
    BY <1>4, <2>3, MinOfOne
  <2>5. Embedding!get_resource(list[n].name) = Embedding!view(blobs[n].ident)
    BY <2>4, Zenon DEF Embedding!get_resource, blobs
  <2>6. blobs[n].ident = Embedding!Ident(other[m])
    BY <1>5, <2>1
  <2>7. (CHOOSE array \in Embedding!ToSet(arrays) :
            array.ident = Embedding!Ident(other[m])) = arrays[m]
    <3> DEFINE Same(array) == array.ident = Embedding!Ident(other[m])
    <3>1. arrays[m] \in Embedding!ToSet(arrays) /\ Same(arrays[m])
      BY <1>6 DEF Embedding!ToSet
    <3>2. ASSUME NEW array \in Embedding!ToSet(arrays), Same(array)
          PROVE  array = arrays[m]
      <4>1. PICK k \in DOMAIN other : array = arrays[k]
        BY <1>6, <3>2 DEF Embedding!ToSet
      <4>2. Embedding!Ident(other[k]) = Embedding!Ident(other[m])
        BY <1>6, <3>2, <4>1
      <4>3. QED
        BY <1>3, <4>1, <4>2
    <3>3. QED
      BY <3>1, <3>2
  <2>8. Embedding!view(Embedding!Ident(other[m])) = Embedding!Bytes(arrays[m].text)
    BY <2>7, Zenon DEF Embedding!view, arrays
  <2>9. Embedding!Bytes(arrays[m].text) = arrays[m].content
    <3>1. arrays[m].content \in Seq(Nat)
      BY <1>1, <1>6
    <3>2. Embedding!Bytes(Embedding!Array(arrays[m].content)) = arrays[m].content
      BY <1>1, <3>1, ArrayIsFile
    <3>3. QED
      BY <1>6, <3>2
  <2>10. QED
    BY <2>2, <2>5, <2>6, <2>8, <2>9, Zenon
<1>8. ASSUME NEW path \in Embedding!AllPaths,
             path.name \notin {array.path.name : array \in Embedding!ToSet(arrays)}
      PROVE  Embedding!get_resource(path.name) = Embedding!nullopt
  <2>1. ASSUME NEW n \in DOMAIN list, list[n].name = path.name PROVE FALSE
    <3>1. PICK m \in DOMAIN other : list[n].name = other[m].name
      BY <1>3
    <3>2. arrays[m] \in Embedding!ToSet(arrays) /\ arrays[m].path.name = path.name
      BY <1>6, <2>1, <3>1 DEF Embedding!ToSet
    <3>3. QED
      BY <1>8, <3>2
  <2>2. named(path.name) = {}
    BY <1>5, <2>1
  <2>3. QED
    BY <2>2, Zenon DEF Embedding!get_resource, blobs
<1>9. \A array \in Embedding!ToSet(arrays) :
         Embedding!get_resource(array.path.name) = array.content
  <2>1. TAKE array \in Embedding!ToSet(arrays)
  <2>2. PICK m \in DOMAIN other : array = arrays[m]
    BY <1>6 DEF Embedding!ToSet
  <2>3. QED
    BY <1>7, <2>2
<1>10. QED
  BY <1>8, <1>9, Zenon DEF Embedding!AnswersForEveryFile, arrays

(* Whatever files are embedded, and wherever a run or a build was stopped: a *)
(* program that was built has each of them, byte by byte, under its name,    *)
(* and the source tree is that of the last run (embed.py, update_src.py).    *)
THEOREM EmbeddingIsRight ==
    ASSUME Embedding!EmbedAssumption
    PROVE  Embedding!Spec =>
             [](/\ Embedding!TypeOK /\ Embedding!AnswersForEveryFile
                /\ Embedding!SourceTreeIsUpdated)
<1>1. Embedding!Init => EmbedInv
  BY EmbedInit
<1>2. EmbedInv /\ [Embedding!Next]_(Embedding!vars) => EmbedInv'
  BY EmbedStep
<1>3. EmbedInv => /\ Embedding!TypeOK /\ Embedding!AnswersForEveryFile
                  /\ Embedding!SourceTreeIsUpdated
  <2>1. EmbedInv => Embedding!SourceTreeIsUpdated
    BY Zenon DEF EmbedInv, Embedding!SourceTreeIsUpdated
  <2>2. QED
    BY <2>1, EmbedTypeCorrect, EmbedAnswers
<1>4. QED
  BY <1>1, <1>2, <1>3, PTL DEF Embedding!Spec

(* A program has in it what was compiled into it: its built-in strings and   *)
(* the files embedded in it, of whatever strings, files and lists of files.  *)
THEOREM CompiledInIsRight ==
    ASSUME Resources!ResourceAssumption, Embedding!EmbedAssumption
    PROVE  Resources!Spec /\ Embedding!Spec => []CompiledInIsWhatWasRead
<1>1. Resources!Spec => [](Resources!TableIsText /\ Resources!ResourceAnswers)
  BY ResourceIsRight
<1>2. Embedding!Spec =>
         [](/\ Embedding!TypeOK /\ Embedding!AnswersForEveryFile
            /\ Embedding!SourceTreeIsUpdated)
  BY EmbeddingIsRight
<1>3. /\ Resources!TableIsText /\ Resources!ResourceAnswers
      /\ Embedding!TypeOK /\ Embedding!AnswersForEveryFile
      /\ Embedding!SourceTreeIsUpdated
      => CompiledInIsWhatWasRead
  BY DEF CompiledInIsWhatWasRead
<1>4. QED
  BY <1>1, <1>2, <1>3, PTL

===============================================================================
