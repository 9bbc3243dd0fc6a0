---------------------------- MODULE MCTranslation ----------------------------
(***************************************************************************)
(* Strings on their way to a running program: small instances of a         *)
(* catalogue that is edited, frozen and released (Catalog), and of the     *)
(* translation that opens what was released (Translation), once with       *)
(* writers at work on the files of two languages, and once with listeners  *)
(* that come, go and open.  A behaviour is one of one part, the other      *)
(* resting where it starts.                                                *)
(***************************************************************************)
EXTENDS Translation, Catalog, TLC

CONSTANTS
    Parts,       (* the parts a run is of                                    *)
    en, pl, en_lng, pl_lng, r_default, r_en, r_pl

VARIABLE part

------------------------------------------------------------------------------
(* Translation *)

ExpandNames == (en :> en_lng) @@ (pl :> pl_lng)

SomeSerials == {1, 2}

(* A file that does not parse, one of each serial, one of another language.  *)
SomeTexts ==
    { [valid |-> FALSE, serial |-> 1, rule |-> r_default],
      [valid |-> TRUE,  serial |-> 1, rule |-> r_en],
      [valid |-> TRUE,  serial |-> 2, rule |-> r_pl] }

(* Where writers matter, nobody listens.                                     *)
WritersMatter == opens <= 2 /\ adds = 0

(* Where listeners matter, there is one file with one good text, and there   *)
(* are six calls of open and of add_onupdate together.                       *)
ListenersMatter ==
    /\ clock <= 1 /\ opens + adds <= 6
    /\ m_path # pl_lng /\ fs[pl_lng] = NoFile
    /\ Exists(fs[en_lng]) => fs[en_lng].text \in {t \in Texts : t.rule = r_en}

NothingIsReleased == \A p \in Paths : fs[p] = NoFile

------------------------------------------------------------------------------
all == <<part, vars, catalogVars>>

RunInit ==
    /\ part \in Parts
    /\ Init /\ CatalogInit
    /\ part = "listeners" => ListenersMatter
    /\ part = "catalog" => NothingIsReleased

RunNext ==
    \/ /\ part = "writers" /\ Next /\ WritersMatter'
       /\ UNCHANGED <<part, catalogVars>>
    \/ /\ part = "listeners" /\ Next /\ ListenersMatter'
       /\ UNCHANGED <<part, catalogVars>>
    \/ /\ part = "catalog" /\ CatalogNext
       /\ UNCHANGED <<part, vars>>

RunSpec == RunInit /\ [][RunNext]_all

==============================================================================
