------------------------------ MODULE MCLibrary -------------------------------
(***************************************************************************)
(* What a program links with: small instances of a storage (Storage), of   *)
(* the plural rules it reads (Plurals), of the library for C and Python    *)
(* (Lite), of the storage of the tool's own messages (ToolStrings) and of  *)
(* what says which languages a user wants (SystemLocales, AcceptLanguage). *)
(* They share nothing while they run, so that a behaviour is one of one    *)
(* part, the others resting where they start.                              *)
(***************************************************************************)
EXTENDS Storage, LibraryParts, SequencesExt, TLC

CONSTANTS
    en, pl, at_en, at_pl, at_none, bare, one, two, key_one, key_two

VARIABLES
    part,
    attribute, compiled, count, form, crashed,
    header, beyond, means, pos, items, done

------------------------------------------------------------------------------
(* Storage: two languages, an entry no language expands to, a file that      *)
(* names no culture, one that lies under a wrong name, one of another serial *)
(* and one with plural forms left empty.                                     *)

ExpandNames == (en :> at_en) @@ (pl :> at_pl) @@ (NoCulture :> at_none)

RuleEn == (1 :> 0) @@ (2 :> 1) @@ (5 :> 1)
RulePl == (1 :> 0) @@ (2 :> 1) @@ (5 :> 2)
BothRules == {RuleEn, RulePl}

Both(a, b) == (one :> a) @@ (two :> b)

Text(serial, culture, rule, forms) ==
    [valid |-> TRUE, serial |-> serial, culture |-> culture, rule |-> rule,
     forms |-> forms, keys |-> Both(NoKey, NoKey)]

With(text, k, l) == [text EXCEPT !.keys = Both(k, l)]

BuiltinText ==
    With(Text(1, NoCulture, RuleEn, Both(<<TRUE, TRUE>>, <<TRUE, TRUE>>)),
         key_one, key_two)

SomeTexts ==
    { Text(1, pl, RulePl, Both(<<TRUE, FALSE, TRUE>>, <<>>)),
      With(Text(1, en, RuleEn, Both(<<TRUE, TRUE>>, <<TRUE>>)), NoKey, key_two),
      With(Text(2, en, RuleEn, Both(<<TRUE>>, <<>>)), key_two, NoKey),
      [Text(1, NoCulture, RuleEn, Both(<<>>, <<TRUE>>)) EXCEPT !.valid = FALSE]}

SomeCounts == {1, 2, 5}

SomeLists == {<<pl>>, <<pl, en>>, <<en, pl, en>>, <<>>}

(* A directory with any two languages in it, and two more files.             *)
SomeDisks ==
    { (at_en :> e) @@ (at_pl :> p)
      @@ (at_none :> [kind |-> "file", text |-> CHOOSE t \in Texts : ~t.valid])
      @@ (bare :> [kind |-> "file", text |-> CHOOSE t \in Texts : t.culture = en]) :
        e \in Entries, p \in Entries }

------------------------------------------------------------------------------
(* Plurals: every short text, longer texts built from operands and           *)
(* operators, and the shapes an attribute may have.                          *)

Rule(value) == <<"plural", "=">> \o value

(* Any three characters of a rule.                                           *)
Characters == {"n", "0", "2", "(", ")", "!", "?", ":", "<", "=", "&", "|",
               "%", "-", " ", "x"}
ShortTexts == UNION {[1 .. k -> Characters] : k \in 0 .. 3}

Operands  == {<<"n">>, <<"2">>, <<"!", "n">>}
Operators == {<<"*">>, <<"/">>, <<"%">>, <<"+">>, <<"-">>, <<"<">>,
              <<"<", "=">>, <<">">>, <<">", "=">>, <<"=", "=">>,
              <<"!", "=">>, <<"&", "&">>, <<"|", "|">>}

(* Two operators, with and without parentheses.                              *)
Chains ==
    {a \o f \o <<"1">> \o g \o b :
       a \in Operands, b \in Operands, f \in Operators, g \in Operators} \cup
    {<<"n">> \o f \o <<"(">> \o <<"1">> \o g \o <<"n", ")">> :
       f \in Operators, g \in Operators}

(* Conditions within conditions, on every side, and unfinished ones.         *)
Conditions == {<<"n">>, <<"1", "/", "n">>, <<"n", ">", "1">>}
Ternaries ==
    {c \o <<"?">> \o d \o <<"?", "1", ":", "2", ":">> \o e :
       c \in Conditions, d \in Conditions, e \in Conditions} \cup
    {c \o <<"?", "2", ":">> \o d \o <<"?", "1">> \o e :
       c \in Conditions, d \in Conditions,
       e \in {<<>>, <<":">>, <<":", "0">>, <<":", "n", ":", "3">>}} \cup
    {<<"n", "?", "1", "0", ":", "n", " ", "&", "&">> \o d : d \in Conditions}

(* Fields: none, others, a rule that stands twice, a rule of several =.      *)
Fields == { <<>>, <<"nplurals", "=", "2">>, <<"plural">>, <<" ">>,
            <<" ", "plural", " ", "=", " ", "n">>, <<"plural", "=", "1", "2">>,
            <<"plural", "=", "n", "=", "=", "1">>, <<"plural", "=", "n", "?">>}
Headers == {a \o <<";">> \o b \o <<";">> \o c :
              a \in Fields, b \in Fields, c \in Fields}

SomeAttributes ==
    {Rule(v) : v \in ShortTexts \cup Chains \cup Ternaries} \cup Headers

Forms_ == INSTANCE Plurals WITH
    Attributes <- SomeAttributes, Counts <- {-3, 0, 1, 5}, lex <- compiled

------------------------------------------------------------------------------
(* Lite: a plural with both forms, one without the second, an empty string;  *)
(* the third identifier is in no file.  Identifiers and counts are numbers   *)
(* of the same range.                                                        *)

English == [n \in 1 .. 2 |-> IF n = 1 THEN 0 ELSE 1]

SomeLiteTexts ==
    {[valid |-> TRUE, rule |-> English, forms |-> <<(<<"one", "many">>), <<"">>>>],
     [valid |-> TRUE, rule |-> English, forms |-> <<(<<"one">>)>>],
     [valid |-> FALSE, rule |-> English, forms |-> <<>>]}

------------------------------------------------------------------------------
(* ToolStrings: files that have one of the two messages, of the tool's       *)
(* serial and of an older one, and one that is no language file.             *)

ToolText(serial, culture, strings) ==
    [valid |-> TRUE, serial |-> serial, culture |-> culture, strings |-> strings]

SomeToolTexts ==
    {ToolText(2, "pl-PL", {1}), ToolText(2, "pl", {2}), ToolText(2, "en", {1}),
     ToolText(1, "pl", {1, 2}), ToolText(2, "", {2}),
     [valid |-> FALSE, serial |-> 2, culture |-> "pl", strings |-> {}]}

Polish == <<"pl-PL", "pl", "en">>

CompiledIn == ToolText(2, "en", {1, 2})
PolishIsOlder ==
    [l \in {"pl", "en"} |-> ToolText(IF l = "pl" THEN 1 ELSE 2, l, {1})]

------------------------------------------------------------------------------
(* SystemLocales: four languages in the variables and categories a user or a *)
(* program sets.  French is not installed.                                   *)

PlPL == <<"pl", "PL">>
Fr == <<"fr">>
EnUS == <<"en", "US">>
OnlyC == << <<"C">> >>
Values == {<<>>, OnlyC, <<PlPL>>, <<Fr>>}

SomeEnvironments ==
    [LANGUAGE : {<<>>, <<EnUS, Fr>>, << <<"C">>, PlPL>>}, LC_ALL : Values,
     LC_MESSAGES : Values, LC_CTYPE : Values, LANG : Values]

SomeCategories == [LC_MESSAGES : {OnlyC, <<Fr>>}, LC_CTYPE : {OnlyC, <<EnUS>>}]
InstalledValues == {OnlyC, <<PlPL>>}
Mixed == << <<"mixed">> >>
JustEn == <<"en">>
SomeRanges == {PlPL, Fr, EnUS, <<"C">>, <<"mixed">>}

------------------------------------------------------------------------------
(* AcceptLanguage: one or two ranges with their qualities or without, with   *)
(* spaces where they may be and other parameters, and whatever else the      *)
(* characters that matter are put together to.                               *)

DigitValue == [c \in {"0", "1", "5"} |-> CASE c = "1" -> 1 [] c = "5" -> 5 [] OTHER -> 0]

RangesWritten == {<<"e", "n">>, <<"*">>, <<"p", "-", "P">>}

Qualities == {[text |-> <<"0", ".", "5">>, q |-> 500],
              [text |-> <<"0", ".", "5", "1", "5", "1">>, q |-> 515],
              [text |-> <<"1">>, q |-> 1000]}

Optional == {<<>>, <<" ">>}

Written ==
    {[text |-> a \o r \o b, value |-> r, q |-> 1000] :
        a \in Optional, b \in Optional, r \in RangesWritten}
    \cup
    {[text |-> r \o x \o a \o <<";">> \o b \o <<"q">> \o b \o <<"=">> \o b
                 \o q.text \o a, value |-> r, q |-> q.q] :
        a \in Optional, b \in Optional, r \in RangesWritten, q \in Qualities,
        x \in {<<>>, <<" ">>}}
    \cup
    {[text |-> <<"e", ";", "x", "=", "1", ";", "q", "=">> \o q.text,
      value |-> <<"e">>, q |-> q.q] : q \in Qualities}

Meaning(w) == [value |-> w.value, q |-> w.q]

Pairs ==
    {[text |-> v.text \o <<",">> \o w.text, means |-> {<<Meaning(v), Meaning(w)>>}] :
        v \in Written, w \in Written}

SomeHeaders ==
    {[text |-> w.text, means |-> {<<Meaning(w)>>}] : w \in Written}
    \cup Pairs
    \cup {[text |-> text, means |-> {}] : text \in
            UNION {[1 .. n -> {"e", ";", "q", "=", " ", "5", ","}] : n \in 0 .. 4}}

(* After a header in memory: a zero, or the rest of a longer text.           *)
Accept == INSTANCE AcceptLanguage WITH
    Headers <- SomeHeaders, Spaces <- {" "}, Digits <- DigitValue, Zero <- "zero",
    Beyond <- {<<>>, <<";", "q", "=", "5">>, <<"n", ",">>, <<" ", ";">>,
               <<"=", "5">>, <<"=">>, <<"q", "=">>}

------------------------------------------------------------------------------
(* Of what the parts need of their parameters (Storage states its own).      *)
ASSUME Dll!LiteAssumption /\ Tool!ToolAssumption /\ Sys!SystemAssumption

plurals  == <<attribute, compiled, count, form, crashed>>
lite     == <<paths, heap, host, objects, wrapping, called>>
messages == <<kind, dirs, install, build, linked, langs, tool, installs>>
system   == <<env, init_setlocale, cats, sources, rest, list, listing>>
accept   == <<header, beyond, means, pos, items, done>>

all == <<part, vars, plurals, lite, messages, system, accept>>

(* Where the parts that rest do so.                                          *)
Rest(of) == part # of

LibraryInit ==
    /\ part \in {"storage", "plurals", "lite", "messages", "system", "accept"}
    /\ Rest("storage") =>
          disk = CHOOSE d \in SomeDisks : \A p \in {at_en, at_pl} : d[p] = Missing
    /\ Init
    /\ Rest("plurals") => attribute = Rule(<<>>)
    /\ Forms_!Init
    /\ Rest("lite") => paths = [p \in {"p"} |-> CHOOSE t \in LiteTexts : ~t.valid]
    /\ Dll!Init
    /\ Rest("messages") =>
          /\ kind = "zero"
          /\ dirs = [dir \in Tool!Dirs |-> [lang \in ToolLangs |-> NoText]]
    /\ Tool!Init
    /\ Rest("system") =>
          /\ env = [LANGUAGE |-> <<>>, LC_ALL |-> <<>>, LC_MESSAGES |-> <<>>,
                    LC_CTYPE |-> <<>>, LANG |-> <<>>]
          /\ init_setlocale = FALSE
          /\ cats = [LC_MESSAGES |-> ValueC, LC_CTYPE |-> ValueC]
    /\ Sys!Init
    /\ Rest("accept") => header = <<>> /\ means = {} /\ beyond = <<>>
    /\ Accept!Init

LibraryNext ==
    \/ /\ part = "storage" /\ Next
       /\ UNCHANGED <<part, plurals, lite, messages, system, accept>>
    \/ /\ part = "plurals" /\ Forms_!Next
       /\ UNCHANGED <<part, vars, lite, messages, system, accept>>
    \/ /\ part = "lite" /\ Dll!Next
       /\ UNCHANGED <<part, vars, plurals, messages, system, accept>>
    \/ /\ part = "messages" /\ Tool!Next
       /\ UNCHANGED <<part, vars, plurals, lite, system, accept>>
    \/ /\ part = "system" /\ Sys!Next
       /\ UNCHANGED <<part, vars, plurals, lite, messages, accept>>
    \/ /\ part = "accept" /\ Accept!Next
       /\ UNCHANGED <<part, vars, plurals, lite, messages, system>>

(* A walk along a list of languages runs on by itself, if the listeners it   *)
(* calls return.                                                             *)
LibrarySpec ==
    LibraryInit /\ [][LibraryNext]_all
        /\ WF_all(part = "storage" /\ Running
                  /\ UNCHANGED <<part, plurals, lite, messages, system, accept>>)

------------------------------------------------------------------------------
(* Properties *)

(* A walk goes no further than the first language it has opened, and comes   *)
(* to its end (lngs_storage.hpp:54-61).                                      *)
WalkStopsInTime == WalkKeepsWhatItOpened /\ WalkEnds

(* The form a plural rule picks is that of the rule as C reads it, whatever  *)
(* order its operators stand in and wherever it divides by zero, and half a  *)
(* rule is none (expr_parser.cpp:403-412, plurals.cpp:27-33).                *)
RulesMeanWhatTheySay ==
    part = "plurals" => Forms_!FormFollowsRule /\ Forms_!NoPartOfATextIsARule

(* The languages of the environment are those of its variables and           *)
(* categories, in their order.  The languages of a header are those it       *)
(* names, with their qualities, and what follows it in memory makes no       *)
(* difference, but for an equals sign behind a header that breaks off after  *)
(* a q: that q is read as 0 (lngs_storage.cpp:100-245).                      *)
LanguagesAreThoseAskedFor ==
    /\ part = "system" => Sys!FollowsTheEnvironment
    /\ part = "accept" => Accept!ReadsWhatIsMeant /\ Accept!NothingFromBeyond

==============================================================================
