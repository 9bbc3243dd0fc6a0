--------------------------------- MODULE Tool ---------------------------------
(***************************************************************************)
(* One run of lngs (app/src/lngs.cpp): main picks a command, the command   *)
(* reads its sources, opens its output and writes it.  What the commands   *)
(* make of their sources is the subject of other modules: here a source is *)
(* good or bad, and an output is of the sources it was made of.            *)
(*                                                                         *)
(* Meanwhile the sources are edited, the disk runs full or is cleared, and *)
(* a run may be killed.                                                    *)
(***************************************************************************)
EXTENDS Integers, Sequences

CONSTANTS
    Idls,        (* what an .idl may be: [ok, new], new if ids are missing   *)
    Catalogues,  (* a .po or .mo: [ok, culture], culture if it names one     *)
    Lists,       (* a file for -l: [ok]                                      *)
    Templates,   (* the names lngs mustache finds a template for             *)
    Missing,     (* no such file                                             *)
    MaxEdits     (* bound: changes of the sources                            *)

(* What can be read of a source.                                             *)
Sources == [ok : BOOLEAN, new : BOOLEAN] \cup [ok : BOOLEAN, culture : BOOLEAN]
             \cup [ok : BOOLEAN]

RunAssumption ==
    /\ Idls \subseteq [ok : BOOLEAN, new : BOOLEAN]
    /\ Catalogues \subseteq [ok : BOOLEAN, culture : BOOLEAN]
    /\ Lists \subseteq [ok : BOOLEAN]
    /\ Missing \notin [whole : BOOLEAN, of : Seq(Sources)]

VARIABLES
    disk,        (* the files: "idl", "po", "names" and "out"                *)
    full,        (* the disk is full                                         *)
    run,         (* [command, out, list, template] of the command line       *)
    strings,     (* setup_base::strings, the .idl they were read from        *)
    used,        (* what else was read, in order                             *)
    result,      (* what main returns, Running before                        *)
    pc,
    before,      (* history: the output as this run found it,                *)
    spoiled,     (*   the disk was full while it wrote,                      *)
    refused,     (*   and the run has met with a bad source                  *)
    edits

history == <<before, spoiled, refused>>
vars == <<disk, full, run, strings, used, result, pc, history, edits>>

Running == -2

commands == {"make", "pot", "enums", "py", "res", "freeze", "mustache"}

(* A file is whole, and of some sources, or not: cut short, or empty.        *)
Whole(of) == [whole |-> TRUE, of |-> of]
Part      == [whole |-> FALSE, of |-> <<>>]

Runs ==
    {r \in [command : commands \cup {"help", "unknown"}, out : {"idl", "out", "-", "nowhere"},
            list : BOOLEAN, template : Templates \cup {"misspelt"}] :
        /\ r.list => r.command = "make"
        /\ r.command # "mustache" => r.template \in Templates
        /\ r.out = "idl" => r.command = "freeze"}

Outputs == {"idl", "out"}
Found(out) == IF out \in Outputs THEN disk[out] ELSE Missing

------------------------------------------------------------------------------
Init ==
    /\ disk \in [idl : {Whole(<<i>>) : i \in Idls} \cup {Missing},
                 po : {Whole(<<c>>) : c \in Catalogues} \cup {Missing},
                 names : {Whole(<<l>>) : l \in Lists} \cup {Missing},
                 out : {Missing}]
    /\ full = FALSE
    /\ run \in Runs
    /\ strings = Missing /\ used = <<>>
    /\ result = Running /\ pc = "main"
    /\ before = Missing /\ spoiled = FALSE /\ refused = FALSE
    /\ edits = 0

Exit(code) == result' = code /\ pc' = "done"

(* main: the command line is read, and one of commands[] called.  Help, and  *)
(* the version, are printed instead of it (show_help, show_version).         *)
Call ==
    /\ pc = "main"
    /\ IF run.command \in commands
         THEN pc' = "strings" /\ UNCHANGED result
         ELSE Exit(IF run.command = "help" THEN 0 ELSE 2)
    /\ before' = Found(run.out)
    /\ UNCHANGED <<disk, full, run, strings, used, spoiled, refused, edits>>

(* There is such a file, and its reader accepts it, as it was when read.     *)
IsGood(file) == file # Missing /\ file.whole /\ file.of[1].ok

(* What is taken from a file; nothing good, if it is not there.              *)
Taken(file) == IF file = Missing THEN <<[ok |-> FALSE, new |-> FALSE, culture |-> FALSE]>>
               ELSE file.of

AfterStrings ==
    CASE run.command = "make" -> "msgs"
      [] run.command = "pot" -> "year"
      [] run.command = "freeze" -> "new"
      [] OTHER -> "open"

(* Mutant: the answer of read_strings is not looked at.                      *)
ReadStrings_Ignored ==
    /\ pc = "strings"
    /\ strings' = disk["idl"]
    /\ refused' = ~IsGood(disk["idl"])
    /\ pc' = AfterStrings
    /\ UNCHANGED <<disk, full, run, used, result, before, spoiled, edits>>

(* setup_base::read_strings                                                  *)
ReadStrings ==
    /\ pc = "strings"
    /\ strings' = disk["idl"]
    /\ refused' = ~IsGood(disk["idl"])
    /\ IF refused' THEN Exit(1) ELSE pc' = AfterStrings /\ UNCHANGED result
    /\ UNCHANGED <<disk, full, run, used, before, spoiled, edits>>

------------------------------------------------------------------------------
(* What the commands do before they write                                    *)

(* Mutant: nobody asks whether the catalogue had errors.                     *)
LoadMsgs_Unasked ==
    /\ pc = "msgs"
    /\ used' = Taken(disk["po"])
    /\ refused' = ~IsGood(disk["po"])
    /\ pc' = "attributes"
    /\ UNCHANGED <<disk, full, run, strings, result, before, spoiled, edits>>

(* make::call: the catalogue, whose errors are counted and then looked at    *)
LoadMsgs ==
    /\ pc = "msgs"
    /\ used' = Taken(disk["po"])
    /\ refused' = ~IsGood(disk["po"])
    /\ IF refused' THEN Exit(1) ELSE pc' = "attributes" /\ UNCHANGED result
    /\ UNCHANGED <<disk, full, run, strings, before, spoiled, edits>>

(* and the list of languages, if one is given and the catalogue says which   *)
(* language it is of.                                                        *)
FixAttributes ==
    /\ pc = "attributes"
    /\ LET asked == run.list /\ used[1].culture IN
         /\ used' = IF asked THEN used \o Taken(disk["names"]) ELSE used
         /\ refused' = (asked /\ ~IsGood(disk["names"]))
         /\ IF refused' THEN Exit(1) ELSE pc' = "open" /\ UNCHANGED result
    /\ UNCHANGED <<disk, full, run, strings, before, spoiled, edits>>

(* pot::call: the template that is going to be replaced is read for its      *)
(* year (see Pot); that there is none, or half of one, is no error.          *)
YearFromTemplate ==
    /\ pc = "year"
    /\ pc' = "open"
    /\ UNCHANGED <<disk, full, run, strings, used, result, history, edits>>

(* freeze::call: without new strings, there is nothing to write; else what   *)
(* was read is in memory until it is written.                                *)
FreezeStrings ==
    /\ pc = "new"
    /\ IF Taken(strings)[1].new THEN pc' = "open" /\ UNCHANGED result ELSE Exit(0)
    /\ UNCHANGED <<disk, full, run, strings, used, history, edits>>

------------------------------------------------------------------------------
(* write                                                                     *)

OpenStdout ==
    /\ pc = "open" /\ run.out = "-"
    /\ pc' = "write"
    /\ UNCHANGED <<disk, full, run, strings, used, result, history, edits>>

(* Mutant: the message is all there is of the failure.                       *)
OpenFails_Quiet ==
    /\ pc = "open" /\ run.out = "nowhere"
    /\ Exit(0)
    /\ UNCHANGED <<disk, full, run, strings, used, history, edits>>

OpenFails ==
    /\ pc = "open" /\ run.out = "nowhere"
    /\ Exit(1)
    /\ UNCHANGED <<disk, full, run, strings, used, history, edits>>

OpenOutput ==
    /\ pc = "open" /\ run.out \in Outputs
    /\ disk' = [disk EXCEPT ![run.out] = Part]
    /\ pc' = "write"
    /\ UNCHANGED <<full, run, strings, used, result, history, edits>>

(* What the commands write.  Without a template, nothing is rendered, and    *)
(* a frozen .idl has no new strings.                                         *)
Text ==
    IF run.template \notin Templates THEN Part
    ELSE IF run.command = "freeze" THEN Whole(<<[Taken(strings)[1] EXCEPT !.new = FALSE]>>)
    ELSE Whole(Taken(strings) \o used)

(* The writers return 0, whatever was written, but for that of make, which   *)
(* may notice.                                                               *)
Write ==
    /\ pc = "write"
    /\ disk' = IF run.out \notin Outputs THEN disk
               ELSE [disk EXCEPT ![run.out] = IF full THEN Part ELSE Text]
    /\ spoiled' = (full /\ run.out \in Outputs)
    /\ \E code \in IF spoiled' /\ run.command = "make" THEN {-1, 0} ELSE {0} : Exit(code)
    /\ UNCHANGED <<full, run, strings, used, before, refused, edits>>

------------------------------------------------------------------------------
(* Around the tool                                                           *)

(* A source is edited; if it is the output as well, it is another one.       *)
Edit(path, file) ==
    /\ edits < MaxEdits
    /\ disk[path] # file
    /\ disk' = [disk EXCEPT ![path] = file]
    /\ before' = IF path = run.out THEN file ELSE before
    /\ edits' = edits + 1
    /\ UNCHANGED <<full, run, strings, used, result, pc, spoiled, refused>>

FillOrClear ==
    /\ full' = ~full
    /\ UNCHANGED <<disk, run, strings, used, result, pc, history, edits>>

(* The run has ended, or is killed with its output open, and another one is  *)
(* started; killed before that, it has changed nothing.                      *)
Restart(next) ==
    /\ pc \in {"write", "done"}
    /\ run' = next
    /\ strings' = Missing /\ used' = <<>>
    /\ result' = Running /\ pc' = "main"
    /\ before' = Missing /\ spoiled' = FALSE /\ refused' = FALSE
    /\ UNCHANGED <<disk, full, edits>>

Command ==
    \/ Call \/ ReadStrings \/ LoadMsgs \/ FixAttributes \/ YearFromTemplate
    \/ FreezeStrings \/ OpenStdout \/ OpenFails \/ OpenOutput \/ Write

Next ==
    \/ Command
    \/ \E idl \in Idls : Edit("idl", Whole(<<idl>>))
    \/ \E po \in Catalogues : Edit("po", Whole(<<po>>))
    \/ \E names \in Lists : Edit("names", Whole(<<names>>))
    \/ FillOrClear
    \/ \E next \in Runs : Restart(next)

Spec == Init /\ [][Next]_vars

------------------------------------------------------------------------------
(* Properties *)

(* A run that is given a source it refuses, or no such file, says so with    *)
(* its result and leaves its output as it was: nothing is opened for writing *)
(* before everything is read (lngs.cpp:361-373).                             *)
RefusedChangesNothing ==
    (pc = "done" /\ refused) => result = 1 /\ Found(run.out) = before

(* Whatever is edited, killed or cut short, and however often lngs runs: a   *)
(* file that lies whole where a command writes is of sources that were       *)
(* accepted, each of them whole when it was read; half an .idl, as a freeze  *)
(* that is stopped leaves it (lngs.cpp:56), goes into nothing.               *)
WholeIsOfGoodSources ==
    LET out == disk["out"] IN
      (out # Missing /\ out.whole) => \A n \in DOMAIN out.of : out.of[n].ok

(* A run that meets a source it refuses leaves its output alone, and nothing *)
(* that lies whole in the place of an output was made of a refused or a half *)
(* written source (lngs.cpp:56, 359-372).                                    *)
OnlyGoodSourcesAreUsed == RefusedChangesNothing /\ WholeIsOfGoodSources

Left == Found(run.out)

(* A run has ended, and its result goes with what it has left where it was   *)
(* told to write.                                                            *)
EndedAs ==
    /\ result' \in {1, 2} => Left' = before'
    /\ result' = -1 => run.command = "make" /\ spoiled' /\ Left' = Part
    /\ (result' = 0 /\ run.out # "-") =>
          IF \/ run.command = "help"
             \/ run.command = "freeze" /\ ~Taken(strings)[1].new
            THEN Left' = before'
          ELSE IF run.template \notin Templates \/ spoiled' THEN Left' = Part
          ELSE Left' # Missing /\ Left'.whole

(* After 1 or 2 the output is as the run has found it; -1, of make only, is  *)
(* half a file.  A 0 is no promise: behind it is a whole file, half of one   *)
(* if the disk was full (but for make's, the writers do not look), nothing   *)
(* rendered of a template that is not found (mstch_engine.cpp:95), or for a  *)
(* freeze without new strings, and for help, what was there before; there is *)
(* a file, and where another run was killed, too (lngs.cpp:40-65).           *)
ResultTellsWhatIsLeft ==
    [][(result = Running /\ result' # Running) => EndedAs]_vars

==============================================================================
