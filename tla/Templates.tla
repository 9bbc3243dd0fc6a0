------------------------------- MODULE Templates -------------------------------
(***************************************************************************)
(* mstch_engine: where the templates of one rendering come from, while     *)
(* somebody edits or installs them.  The rendering itself, and the cache   *)
(* it keeps, are mstch's, of which the engine overrides load, need_update  *)
(* and is_valid; is_valid looks at the same files as load does before it   *)
(* reads, and both find nothing together.                                  *)
(***************************************************************************)
EXTENDS Integers, Sequences, FiniteSets

CONSTANTS
    Names,          (* of templates                                          *)
    Uses,           (* the order in which rendering comes upon them          *)
    Builds,         (* "linked", "release" or "debug"                        *)
    MaxTime,        (* bound on the clock, in seconds of st_mtime            *)
    MaxEdits        (* bound on the changes to templates                     *)

Dirs == {"additional", "installed", "srcdir"}
Absent == [time |-> -1, text |-> 0]
Empty == 0
Linked == -1        (* the text of a template compiled into the program      *)

TemplatesAssumption ==
    /\ Uses \in Seq(Names)
    /\ Builds \subseteq {"linked", "release", "debug"}
    /\ MaxTime \in Nat /\ MaxEdits \in Nat

VARIABLES
    clock, edits,
    build,          (* what the program was built as                         *)
    m_additional_templates, (* whether there is such a directory             *)
    dirs,           (* the files: [time, text] by directory and name         *)
    todo,           (* what is left to be rendered                           *)
    cache,          (* the templates loaded so far                           *)
    pc,             (* "next", or what load is about to do                   *)
    seen,           (* what stat found: times by directory, or -1            *)
    path,           (* the directory load has decided for                    *)
    output,         (* history: what was rendered, as [name, text]           *)
    quiet           (* history: no template changed since load was called    *)

files == <<clock, edits, build, m_additional_templates, dirs>>
vars == <<files, todo, cache, pc, seen, path, output, quiet>>

Nothing == [dir \in Dirs |-> -1]

------------------------------------------------------------------------------
Init ==
    /\ clock = 0 /\ edits = 0
    /\ build \in Builds
    /\ m_additional_templates \in BOOLEAN
    /\ dirs \in {[dir \in Dirs |-> [name \in Names |->
                    IF dir \in some THEN [time |-> 0, text |-> Linked - 1]
                    ELSE Absent]] : some \in SUBSET Dirs}
    /\ todo = Uses
    /\ cache = [name \in {} |-> Empty]
    /\ pc = "next"
    /\ seen = Nothing /\ path = "none"
    /\ output = <<>> /\ quiet = TRUE

(* The other hands on the files                                              *)

Tick ==
    /\ clock < MaxTime
    /\ clock' = clock + 1
    /\ UNCHANGED <<edits, build, m_additional_templates, dirs, todo, cache, pc,
                   seen, path, output, quiet>>

Change(dir, name, file) ==
    /\ edits < MaxEdits
    /\ edits' = edits + 1
    /\ dirs' = [dirs EXCEPT ![dir][name] = file]
    /\ quiet' = FALSE
    /\ UNCHANGED <<clock, build, m_additional_templates, todo, cache, pc, seen,
                   path, output>>

Save(dir, name) == Change(dir, name, [time |-> clock, text |-> edits + 1])
StartSave(dir, name) == Change(dir, name, [time |-> clock, text |-> Empty])
Remove(dir, name) == Change(dir, name, Absent)

------------------------------------------------------------------------------
(* The engine *)

(* Mutant: what was loaded is loaded again.                                  *)
need_update_Always(name) == TRUE

need_update(name) == FALSE

Cached(name) == name \in DOMAIN cache /\ ~need_update(name)

(* What is in the cache is rendered.                                         *)
Use ==
    /\ pc = "next" /\ todo # <<>>
    /\ Cached(Head(todo))
    /\ output' = Append(output, [name |-> Head(todo), text |-> cache[Head(todo)]])
    /\ todo' = Tail(todo)
    /\ UNCHANGED <<files, cache, pc, seen, path, quiet>>

Load ==
    /\ pc = "next" /\ todo # <<>>
    /\ ~Cached(Head(todo))
    /\ pc' = IF m_additional_templates THEN "additional" ELSE "installed"
    /\ seen' = Nothing /\ path' = "none" /\ quiet' = TRUE
    /\ UNCHANGED <<files, todo, cache, output>>

(* stat(root, name)                                                          *)
Stat(dir) == seen' = [seen EXCEPT ![dir] = dirs[dir][Head(todo)].time]

Found(dir) == /\ path' = dir
              /\ pc' = "read"

StatAdditional ==
    /\ pc = "additional"
    /\ Stat("additional")
    /\ IF seen'["additional"] # -1 THEN Found("additional")
       ELSE pc' = "installed" /\ UNCHANGED path
    /\ UNCHANGED <<files, todo, cache, output, quiet>>

(* get_resource knows all of the templates.                                  *)
StatInstalled ==
    /\ pc = "installed"
    /\ IF build = "linked" THEN Found("linked") /\ UNCHANGED seen
       ELSE /\ Stat("installed")
            /\ IF build = "debug" THEN pc' = "srcdir" /\ UNCHANGED path
               ELSE Found(IF seen'["installed"] # -1 THEN "installed" ELSE "none")
    /\ UNCHANGED <<files, todo, cache, output, quiet>>

(* The time of a file that is not there is 0.                                *)
Time(dir) == IF seen'[dir] = -1 THEN 0 ELSE seen'[dir]

(* Mutant: a template that was not installed is not there.                   *)
StatSrcdir_Installed ==
    /\ pc = "srcdir"
    /\ Stat("srcdir")
    /\ IF Time("installed") < Time("srcdir")
         THEN Found(IF seen'["srcdir"] # -1 THEN "srcdir" ELSE "none")
         ELSE Found(IF seen'["installed"] # -1 THEN "installed" ELSE "none")
    /\ UNCHANGED <<files, todo, cache, output, quiet>>

StatSrcdir ==
    /\ pc = "srcdir"
    /\ Stat("srcdir")
    /\ IF seen'["installed"] = -1 \/ Time("installed") < Time("srcdir")
         THEN Found(IF seen'["srcdir"] # -1 THEN "srcdir" ELSE "none")
         ELSE Found("installed")
    /\ UNCHANGED <<files, todo, cache, output, quiet>>

(* read: a file that is gone by now reads as an empty one.                   *)
Text(dir, name) ==
    CASE dir = "linked" -> Linked
      [] dir = "none"   -> Empty
      [] OTHER          -> dirs[dir][name].text

(* Mutant: load waits until there is something to read.                      *)
Read_Waits ==
    /\ pc = "read"
    /\ LET name == Head(todo) IN
       IF Text(path, name) = Empty THEN UNCHANGED <<cache, output, todo>>
       ELSE /\ cache' = [n \in DOMAIN cache \cup {name} |->
                           IF n = name THEN Text(path, name) ELSE cache[n]]
            /\ output' = Append(output, [name |-> name, text |-> Text(path, name)])
            /\ todo' = Tail(todo)
    /\ pc' = "next"
    /\ UNCHANGED <<files, seen, path, quiet>>

Read ==
    /\ pc = "read"
    /\ LET name == Head(todo) IN
       /\ cache' = [n \in DOMAIN cache \cup {name} |->
                      IF n = name THEN Text(path, name) ELSE cache[n]]
       /\ output' = Append(output, [name |-> name, text |-> Text(path, name)])
    /\ todo' = Tail(todo)
    /\ pc' = "next"
    /\ UNCHANGED <<files, seen, path, quiet>>

Render == Use \/ Load \/ StatAdditional \/ StatInstalled \/ StatSrcdir \/ Read

Edit(dir, name) == Save(dir, name) \/ StartSave(dir, name) \/ Remove(dir, name)

Next ==
    \/ Tick
    \/ \E dir \in Dirs, name \in Names : Edit(dir, name)
    \/ Render

(* Rendering waits for nobody.                                               *)
Spec == Init /\ [][Next]_vars /\ WF_vars(Render)

------------------------------------------------------------------------------
(* Properties *)

TypeOK ==
    /\ clock \in 0 .. MaxTime /\ edits \in 0 .. MaxEdits
    /\ pc \in {"next", "additional", "installed", "srcdir", "read"}
    /\ path \in Dirs \cup {"linked", "none"}
    /\ pc # "next" => todo # <<>> /\ Head(todo) \notin DOMAIN cache

(* Every use of a template in one rendering shows the same text, whatever is *)
(* saved meanwhile: a list of strings never has two layouts.                 *)
OneTextThroughout ==
    \A m, n \in DOMAIN output :
        output[m].name = output[n].name => output[m].text = output[n].text

There(dir, name) == dirs[dir][name] # Absent

(* The template a developer, or a user with a directory of his own, expects: *)
(* his own, or the newer of the two others, and the installed one of a tie.  *)
Expected(name) ==
    IF m_additional_templates /\ There("additional", name)
      THEN dirs["additional"][name].text
    ELSE IF build = "linked" THEN Linked
    ELSE LET candidates == {dir \in {"installed", "srcdir"} :
                              There(dir, name) /\ (dir = "srcdir" => build = "debug")}
             newest == {dir \in candidates : \A other \in candidates :
                          dirs[other][name].time <= dirs[dir][name].time}
         IN IF candidates = {} THEN Empty
            ELSE dirs[IF "installed" \in newest THEN "installed" ELSE "srcdir"][name].text

(* Unless a file changes between the questions load asks about it and its    *)
(* reading (mstch_engine.cpp:40-53, 94-96), the text is the expected one; an *)
(* installed template that is missing or older does not hide its source.     *)
NewestIsRead ==
    [][Read /\ quiet => cache'[Head(todo)] = Expected(Head(todo))]_vars

(* Both of these: what is shown of a template is one text, and the one that  *)
(* was newest.                                                               *)
TemplatesStayTheSame == []OneTextThroughout /\ NewestIsRead

(* Rendering ends, however often templates are changed.                      *)
RenderingEnds == <>(todo = <<>>)

==============================================================================
