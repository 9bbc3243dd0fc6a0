----------------------------- MODULE CommandParts -----------------------------
(***************************************************************************)
(* The runs of the tool (Tool) and the reader of .mo files (GettextMo),    *)
(* beside the other parts of its commands, and what is promised of them.   *)
(* MCCommands checks small instances and PartsProofs proves the promises   *)
(* for all.                                                                *)
(***************************************************************************)
CONSTANTS
    Idls, RunCatalogues, RunLists, Templates, NotThere, MaxEdits
VARIABLES
    files, full, cmdline, sourced, used, code, step, before, spoiled, refused,
    edits

Lngs == INSTANCE Tool WITH
    Catalogues <- RunCatalogues, Lists <- RunLists, Missing <- NotThere,
    disk <- files, run <- cmdline, strings <- sourced, result <- code, pc <- step

CONSTANTS
    MoBase, MoInputs, Damaged
VARIABLES
    mo, read, verdict

Mo == INSTANCE GettextMo WITH
    Base <- MoBase, Files <- MoInputs, file <- mo, result <- read,
    outcome <- verdict

------------------------------------------------------------------------------
(* Properties *)

(* Whatever bytes a .mo is made of, of a file that is read no string leaves  *)
(* it and each ends with a zero; and as long as neither twice the number of  *)
(* the strings nor the end of the hash table wraps in 32 bits, its tables    *)
(* lie apart and ahead of the strings (gettext.cpp:136-188).                 *)
MoStaysInFile == Mo!StringsLieInFile /\ Mo!TablesLieApart

(* A run that meets a source it refuses leaves its output alone, and nothing *)
(* that lies whole in the place of an output was made of a refused or a half *)
(* written source (lngs.cpp:56, 359-372).                                    *)
OnlyGoodSourcesAreUsed == Lngs!OnlyGoodSourcesAreUsed

==============================================================================
