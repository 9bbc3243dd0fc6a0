------------------------------ MODULE MCOpening ------------------------------
(***************************************************************************)
(* How a program comes by its strings: small instances of the list of      *)
(* languages it walks along (Locales), of the calls one open makes until   *)
(* it returns (Translation) and of the reading of a .lng file a writer may *)
(* have been stopped in (LngFile).  They share nothing while they run, so  *)
(* that a behaviour is one of one part, the others resting where they      *)
(* start.                                                                  *)
(***************************************************************************)
EXTENDS LngFile, Locales, TLC

VARIABLES
    part,
    fs, clock, m_path, m_mtime, m_data, m_file, lex, listeners, m_nextupdate,
    call, want, head, depth, copy, opens, adds, since, seen

------------------------------------------------------------------------------
(* LngFile: words of two bytes of three values, so that data of odd and of   *)
(* even lengths, and plurals of up to three forms, have to be padded; empty  *)
(* blocks, empty strings, and identifiers that are not in order.             *)

Singular == [id |-> 7, forms |-> << <<1>> >>]
Plural   == [id |-> 5, forms |-> << <<2, 1>>, <<1>>, <<2>> >>]
Missing  == [id |-> 6, forms |-> << <<>> >>]
Culture  == [id |-> 0, forms |-> << <<1, 2>> >>]
Rule     == [id |-> 2, forms |-> << <<2>> >>]
OneKey   == [id |-> 7, forms |-> << <<1, 1, 2>> >>]
TwoKey   == [id |-> 5, forms |-> << <<2, 1>> >>]

SomeCatalogs ==
    {[serial |-> 1, attrs |-> <<>>, strings |-> <<>>, keys |-> <<>>],
     [serial |-> 2, attrs |-> <<Culture, Rule>>,
      strings |-> <<Singular, Plural>>, keys |-> <<>>],
     [serial |-> 2, attrs |-> <<Rule>>, strings |-> <<Missing, Singular>>,
      keys |-> <<OneKey, TwoKey>>],
     [serial |-> 3, attrs |-> <<>>, strings |-> <<Plural, Missing>>,
      keys |-> <<TwoKey>>]}

------------------------------------------------------------------------------
(* Locales: headers of up to three items, three with two qualities, and      *)
(* lists of up to three locales, of ranges that are shorter versions and     *)
(* siblings of one another.                                                  *)

SomeSubtags == {"en", "US", "GB", "oed", "zh", "Hans", "CN", "SG"}

JustEn == <<"en">>

Ranges ==
    {<<"en">>, <<"en", "US">>, <<"en", "GB", "oed">>, <<"zh", "Hans", "CN">>,
     <<"zh", "Hans", "SG">>}

Qualities ==
    {[whole |-> 1, fraction |-> <<>>],
     [whole |-> 0, fraction |-> <<9>>],
     [whole |-> 0, fraction |-> <<8, 5, 1, 9>>]}

Items == [range : Ranges, q : Qualities]

SomeHeaders ==
    UNION {[1 .. n -> Items] : n \in 0 .. 2} \cup
    [1 .. 3 -> {item \in Items : Len(item.q.fraction) < 2}]

SomeNames == UNION {[1 .. n -> Ranges] : n \in 0 .. 3}

------------------------------------------------------------------------------
(* Translation: two opens and two listeners, and a file that comes and goes. *)

GoodText == [valid |-> TRUE, serial |-> 1, rule |-> "rule"]

Opening == INSTANCE Translation WITH
    Langs <- {"en"}, Paths <- {"en.lng"}, Expand <- ("en" :> "en.lng"),
    Texts <- {GoodText}, Serials <- {1, 2}, UseAny <- 0, Rules <- {"rule"},
    Default <- "default", NoLex <- "none", TokenMod <- 4, FirstToken <- 1,
    MaxClock <- 1, MaxOpens <- 2, MaxAdds <- 2, MaxDepth <- 2, pc <- call

------------------------------------------------------------------------------
translation ==
    <<fs, clock, m_path, m_mtime, m_data, m_file, lex, listeners, m_nextupdate,
      call, want, head, depth, copy, opens, adds, since, seen>>

all == <<part, vars, localesVars, translation>>

Rest(of) == part # of

OpeningInit ==
    /\ part \in {"file", "locales", "open"}
    /\ Init
    /\ Rest("file") => file = CHOOSE c \in Catalogs : c.strings = <<>>
    /\ Rest("locales") => pc = "http" /\ header = <<>>
    /\ LocalesInit
    /\ Opening!Init
    /\ Rest("open") => fs = [p \in {"en.lng"} |-> Opening!NoFile]

OpeningNext ==
    \/ /\ part = "file" /\ Next
       /\ UNCHANGED <<part, localesVars, translation>>
    \/ /\ part = "locales" /\ LocalesNext
       /\ UNCHANGED <<part, vars, translation>>
    \/ /\ part = "open" /\ Opening!Next
       /\ UNCHANGED <<part, vars, localesVars>>

(* The walk over the sections of a file and the making of a list are loops   *)
(* without a wait, and an open goes on to its end once called, if the        *)
(* listeners it calls return.                                                *)
OpeningSpec ==
    OpeningInit /\ [][OpeningNext]_all
        /\ WF_all(\/ /\ part = "file" /\ (NextSection \/ LastSection)
                     /\ UNCHANGED <<part, localesVars, translation>>
                  \/ /\ part = "locales" /\ Looping
                     /\ UNCHANGED <<part, vars, translation>>
                  \/ /\ part = "open" /\ Opening!Running
                     /\ UNCHANGED <<part, vars, localesVars>>)

------------------------------------------------------------------------------
(* Properties *)

(* The walk over the sections of a file ends, and so does the making of a    *)
(* list, which expand_list starts again after each range it inserts          *)
(* (lang_file.cpp:92-112, lngs_storage.cpp:263-288).                         *)
LoopsEnd == OpenAnswers /\ (part = "locales" => ListEnds)

(* A listener that was there when an open began is told of that open or of a *)
(* later one, unless it is removed first, however opens nest                 *)
(* (translation.cpp:76-118, 166-174).                                        *)
EveryListenerIsTold == Opening!ListenersAreTold

==============================================================================
