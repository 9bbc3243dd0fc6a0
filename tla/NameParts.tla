------------------------------- MODULE NameParts -------------------------------
(***************************************************************************)
(* The names of languages (LangCodes), which are made when the tool is     *)
(* built and asked for when it runs, and what is promised of them.  MCBuild *)
(* checks a small instance, and PartsProofs proves the promise for all.    *)
(***************************************************************************)
CONSTANTS
    Registries, LanguageTags
VARIABLES
    registry, cursor, record, subtag, descriptions, tables, phase, query, reply

Codes == INSTANCE LangCodes WITH
    Tags <- LanguageTags, line <- cursor, type <- record, key <- subtag,
    value <- descriptions, out <- tables, tag <- query, name <- reply

------------------------------------------------------------------------------
(* Properties *)

(* A language has the name the registry gives it, with its region, and the   *)
(* tables have nothing the registry does not have (iana-reg.py:7-95,         *)
(* lang_codes.inl:32-71).                                                    *)
NamesAreOfTheRegistry == Codes!TablesHoldTheRegistry /\ Codes!NamesTheRegion

==============================================================================
