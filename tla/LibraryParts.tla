----------------------------- MODULE LibraryParts -----------------------------
(***************************************************************************)
(* Parts of the library that are small enough to share a run: the C and    *)
(* Python interface (Lite), the messages of the tool itself (ToolStrings)  *)
(* and the languages of a user's environment (SystemLocales), each with    *)
(* names of its own for its parameters and its state, and what is promised *)
(* of it.  MCLibrary checks small instances of them and PartsProofs proves *)
(* the promises for all.                                                   *)
(***************************************************************************)
CONSTANTS
    Handles, NoHandle, LitePaths, LiteTexts, LiteIds, LiteCounts, NoPointer
VARIABLES
    paths, heap, host, objects, wrapping, called

Dll == INSTANCE Lite WITH
    Paths <- LitePaths, Texts <- LiteTexts, Ids <- LiteIds, Counts <- LiteCounts,
    Null <- NoPointer, disk <- paths, answer <- called

CONSTANTS
    ToolLangs, NoToolCulture, UserLangs, ToolTexts, NoText, ToolSerial, ToolBuiltin,
    ToolResources, MaxInstalls
VARIABLES
    kind, dirs, install, build, linked, langs, tool, installs

Tool == INSTANCE ToolStrings WITH
    Langs <- ToolLangs, NoCulture <- NoToolCulture, System <- UserLangs,
    Texts <- ToolTexts, Serial <- ToolSerial, Builtin <- ToolBuiltin,
    Resources <- ToolResources, MaxWrites <- MaxInstalls,
    disk <- dirs, builtin <- linked, todo <- langs, pc <- tool, writes <- installs

CONSTANTS
    Environments, Categories, SomeValues, ValueC, Composite, LastResort, Ranges
VARIABLES
    env, init_setlocale, cats, sources, rest, list, listing

Sys == INSTANCE SystemLocales WITH
    Installed <- SomeValues, C <- ValueC, En <- LastResort,
    todo <- sources, locales <- list, pc <- listing

------------------------------------------------------------------------------
(* Properties *)

(* Every open translation of the C interface belongs to one owner who will   *)
(* close it, also where Python fails half way, and of the strings only one   *)
(* that is missing is a null pointer (py-lngs.cc:73-80, lite.cpp:40-55).     *)
HandlesAndStringsAreKept == Dll!HandlesAndStringsAreKept

(* While another version of the tool is being installed, all its messages    *)
(* are there, in the language of the user's choice and not in two at once,   *)
(* and none is read by another version's number (lngs.cpp:232-264).          *)
ToolSpeaksOneLanguage == Tool!ToolSpeaksOneLanguage

(* system_locales with its sources taken one after the other is what Locales *)
(* says of a list of names (lngs_storage.cpp:30-172).  A step of another     *)
(* part is none of it.                                                       *)
ImplementsLocales ==
    Sys!L!LocalesInit /\ [][UNCHANGED Sys!vars \/ Sys!L!LocalesNext]_(Sys!L!localesVars)

==============================================================================
