-------------------------------- MODULE Embed ---------------------------------
(***************************************************************************)
(* tools/embed.py: files (the languages of the tool, its templates) become *)
(* arrays in a C++ source, and get_resource, in a header, finds them by    *)
(* name.  The header is written first, whole; the source then reads file   *)
(* after file.  tools/update_src.py copies what has changed over the files *)
(* in the source tree, which are the ones that are compiled:               *)
(* app/src/embedded_languages.cpp and .hpp, made of en, fr and pl.         *)
(*                                                                         *)
(* A path is its directories and a name, without the extension; each of    *)
(* them is a sequence of characters.                                       *)
(***************************************************************************)
EXTENDS Integers, Sequences, SequencesExt, FiniteSetsExt, Table

CONSTANTS
    Lists,       (* the arguments: sequences of [dirs, name]                 *)
    Reserved,    (* words that are no identifiers of C++                     *)
    Contents,    (* what the files may hold, as bytes; no file is empty      *)
    MaxWrites,   (* bound: changes to files                                  *)
    MaxRuns      (* bound: runs of both scripts                              *)

VARIABLES
    disk,        (* the files to embed, by path                              *)
    inputs,      (* the arguments of the run                                 *)
    pc,          (* "idle", "start", "open", "source", "copy source",        *)
                 (* "copy header", "failed"                                  *)
    header,      (* [whole, blobs]: the blobs are [key, ident]               *)
    source,      (* [whole, arrays]: the arrays are [ident, text], and, not  *)
                 (* in the file itself, the path and the content read        *)
    embedded,    (* the header and the source of the source tree             *)
    program,     (* the header and the source it was built from, if it was   *)
    writes, runs

vars == <<disk, inputs, pc, header, source, embedded, program, writes, runs>>

AllPaths == UNION {ToSet(list) : list \in Lists}

------------------------------------------------------------------------------
(* Names *)

Parts(path) == Append(path.dirs, path.name)

(* os.path.commonpath, as a number of parts                                  *)
Common(list) ==
    Max({n \in 0 .. Min({Len(Parts(path)) : path \in ToSet(list)}) :
            \A path \in ToSet(list) :
                SubSeq(Parts(path), 1, n) = SubSeq(Parts(list[1]), 1, n)})

(* What is left of a path gives it an identifier, unless nothing is left or  *)
(* a directory is.                                                           *)
HasIdent(path, list) == Len(Parts(path)) = Common(list) + 1

Ident(path) ==
    [i \in DOMAIN path.name |-> IF path.name[i] = "-" THEN "_" ELSE path.name[i]]

Key(path) == path.name

(* What the lists are: two of them that come to the same identifiers have    *)
(* the same names, as a header may meet the source of another list.          *)
IdentsOf(list) == [n \in DOMAIN list |-> Ident(list[n])]

EmbedAssumption ==
    /\ TableAssumption
    /\ Contents \subseteq Seq(Nat)
    /\ Lists \subseteq Seq(AllPaths)
    /\ \A list, other \in Lists :
         LET idents == IdentsOf(list)
             others == IdentsOf(other)
         IN IsInjective(idents) /\ IsInjective(others) /\ ToSet(idents) = ToSet(others) =>
               \A path \in ToSet(list), same \in ToSet(other) :
                   Ident(path) = Ident(same) => path.name = same.name

------------------------------------------------------------------------------
Init ==
    /\ disk \in [AllPaths -> Contents]
    /\ inputs = <<>>
    /\ pc = "idle"
    /\ header = [whole |-> FALSE, blobs |-> <<>>]
    /\ source = [whole |-> FALSE, arrays |-> <<>>]
    /\ embedded = [header |-> header, source |-> source]
    /\ program = embedded
    /\ writes = 0 /\ runs = 0

(* lngs make, or an editor.                                                  *)
WriteFile(path, content) ==
    /\ writes < MaxWrites
    /\ writes' = writes + 1
    /\ disk' = [disk EXCEPT ![path] = content]
    /\ UNCHANGED <<inputs, pc, header, source, embedded, program, runs>>

Start(list) ==
    /\ pc \in {"idle", "failed"}
    /\ runs < MaxRuns
    /\ runs' = runs + 1
    /\ inputs' = list
    /\ pc' = "start"
    /\ UNCHANGED <<disk, header, source, embedded, program, writes>>

(* The header is opened; a path without an identifier then ends the program  *)
(* at its KeyError.                                                          *)
WriteHeader ==
    /\ pc = "start"
    /\ IF \A path \in ToSet(inputs) : HasIdent(path, inputs)
         THEN /\ header' = [whole |-> TRUE,
                            blobs |-> [n \in DOMAIN inputs |->
                               [key |-> Key(inputs[n]), ident |-> Ident(inputs[n])]]]
              /\ pc' = "open"
         ELSE /\ header' = [whole |-> FALSE, blobs |-> <<>>]
              /\ pc' = "failed"
    /\ UNCHANGED <<disk, inputs, source, embedded, program, writes, runs>>

(* Mutant: the old source is there until the new one is.                     *)
OpenSource_Kept ==
    /\ pc = "open"
    /\ source' = [source EXCEPT !.arrays = <<>>]
    /\ pc' = "source"
    /\ UNCHANGED <<disk, inputs, header, embedded, program, writes, runs>>

OpenSource ==
    /\ pc = "open"
    /\ source' = [whole |-> FALSE, arrays |-> <<>>]
    /\ pc' = "source"
    /\ UNCHANGED <<disk, inputs, header, embedded, program, writes, runs>>

Array(bytes) == Ended(Rows(bytes, 0), Len(bytes))

WriteArray ==
    /\ pc = "source" /\ Len(source.arrays) < Len(inputs)
    /\ LET path == inputs[Len(source.arrays) + 1] IN
       source' = [source EXCEPT !.arrays =
           Append(@, [ident |-> Ident(path), text |-> Array(disk[path]),
                      path |-> path, content |-> disk[path]])]
    /\ UNCHANGED <<disk, inputs, pc, header, embedded, program, writes, runs>>

EndSource ==
    /\ pc = "source" /\ Len(source.arrays) = Len(inputs)
    /\ source' = [source EXCEPT !.whole = TRUE]
    /\ pc' = "copy source"
    /\ UNCHANGED <<disk, inputs, header, embedded, program, writes, runs>>

(* update_src.py                                                             *)
(* Mutant: only a file that is not there is copied.                          *)
Copied_Missing(old, new) == IF old.whole THEN old ELSE new

Copied(old, new) == IF old # new THEN new ELSE old

UpdateSource ==
    /\ pc = "copy source"
    /\ embedded' = [embedded EXCEPT !.source = Copied(@, source)]
    /\ pc' = "copy header"
    /\ UNCHANGED <<disk, inputs, header, source, program, writes, runs>>

UpdateHeader ==
    /\ pc = "copy header"
    /\ embedded' = [embedded EXCEPT !.header = Copied(@, header)]
    /\ pc' = "idle"
    /\ UNCHANGED <<disk, inputs, header, source, program, writes, runs>>

(* The build is stopped, and the files stay as they are, the one that is     *)
(* being copied cut short.                                                   *)
Interrupt ==
    /\ pc \notin {"idle", "failed"}
    /\ \/ UNCHANGED embedded
       \/ /\ pc = "copy source" /\ embedded.source # source
          /\ embedded' = [embedded EXCEPT !.source = [source EXCEPT !.whole = FALSE]]
       \/ /\ pc = "copy header" /\ embedded.header # header
          /\ embedded' = [embedded EXCEPT !.header = [header EXCEPT !.whole = FALSE]]
    /\ pc' = "failed"
    /\ UNCHANGED <<disk, inputs, header, source, program, writes, runs>>

------------------------------------------------------------------------------
(* The compiler: a struct is defined once and has an identifier for a name,  *)
(* the source defines those of the header, and the arrays are text.          *)

(* The structs of embedded_languages.cpp, each an array with its data() and  *)
(* size().                                                                   *)
Structs == embedded.source.arrays

Idents(items) == [n \in DOMAIN items |-> items[n].ident]

Builds ==
    LET blobs == Idents(embedded.header.blobs)
        arrays == Idents(Structs)
    IN /\ embedded.header.whole /\ embedded.source.whole
       /\ IsInjective(blobs) /\ IsInjective(arrays)
       /\ ToSet(blobs) = ToSet(arrays)
       /\ ToSet(blobs) \cap Reserved = {}
       /\ \A array \in ToSet(Structs) : IsText(array.text)

Build ==
    /\ pc \in {"idle", "failed"}
    /\ Builds
    /\ program' = embedded
    /\ UNCHANGED <<disk, inputs, pc, header, source, embedded, writes, runs>>

nullopt == <<EndQuote>>

(* data() and size() of a struct                                             *)
view(ident) ==
    Bytes((CHOOSE array \in ToSet(program.source.arrays) :
              array.ident = ident).text)

(* Mutant: asked by identifier.                                              *)
get_resource_ByIdent(key) ==
    LET blobs == program.header.blobs
        found == {n \in DOMAIN blobs : blobs[n].ident = key}
    IN IF found = {} THEN nullopt ELSE view(blobs[Min(found)].ident)

get_resource(key) ==
    LET blobs == program.header.blobs
        found == {n \in DOMAIN blobs : blobs[n].key = key}
    IN IF found = {} THEN nullopt ELSE view(blobs[Min(found)].ident)

------------------------------------------------------------------------------
Next ==
    \/ \E path \in AllPaths, content \in Contents : WriteFile(path, content)
    \/ \E list \in Lists : Start(list)
    \/ WriteHeader \/ OpenSource \/ WriteArray \/ EndSource
    \/ UpdateSource \/ UpdateHeader
    \/ Interrupt
    \/ Build

Spec == Init /\ [][Next]_vars

------------------------------------------------------------------------------
(* Properties *)

(* A source is whole between two runs, at most; the arrays in it are those   *)
(* of the first inputs of a run.                                             *)
TypeOK ==
    /\ disk \in [AllPaths -> Contents]
    /\ inputs \in Lists \cup {<<>>}
    /\ pc \in {"idle", "start", "open", "source", "copy source", "copy header",
               "failed"}
    /\ header.whole \in BOOLEAN /\ source.whole \in BOOLEAN
    /\ pc = "source" =>
         /\ ~source.whole /\ header.whole
         /\ IsPrefix([n \in DOMAIN source.arrays |-> source.arrays[n].path],
                     inputs)

(* A program that was built answers for each file in it with the bytes that  *)
(* were read of it, all of one reading, under the name it has on disk,       *)
(* hyphens included, whatever identifier it goes by in between, and has no   *)
(* answer for another name.  That holds however runs were interrupted, the   *)
(* header and the source being of different ones included (embed.py:44,      *)
(* 110): such a pair does not compile, unless the files are the same.        *)
AnswersForEveryFile ==
    LET arrays == ToSet(program.source.arrays) IN
    /\ \A array \in arrays : get_resource(array.path.name) = array.content
    /\ \A path \in AllPaths :
         path.name \notin {array.path.name : array \in arrays} =>
             get_resource(path.name) = nullopt

(* After a run that nobody interrupted, the source tree has what it          *)
(* generated, whatever runs that were cut short have left there, half copied *)
(* files and files of two runs included (update_src.py:45).                  *)
SourceTreeIsUpdated ==
    pc = "idle" => embedded = [header |-> header, source |-> source]

(* embed.py:8, 14: "Embed a list of files into a resource file", of one file *)
(* or more: it does not fail unless it is interrupted.                       *)
EveryListIsEmbedded == [][WriteHeader => pc' # "failed"]_vars

==============================================================================
