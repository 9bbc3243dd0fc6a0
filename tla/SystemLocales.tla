----------------------------- MODULE SystemLocales ----------------------------
(***************************************************************************)
(* system_locales on POSIX (libs/liblngs/src/lngs_storage.cpp): which      *)
(* environment variables and categories of the C library the list of       *)
(* languages is made of, and in which order.  What becomes of their        *)
(* languages is in Locales, which this module implements.                  *)
(*                                                                         *)
(* A value is the sequence of its languages, without encodings; a language *)
(* is the sequence of its tags.  A variable that is not set is empty.      *)
(***************************************************************************)
EXTENDS Integers, Sequences, SequencesExt, FiniteSetsExt

CONSTANTS
    Environments,  (* values of LANGUAGE, LC_ALL, LC_MESSAGES, LC_CTYPE and  *)
                   (* LANG                                                   *)
    Categories,    (* values of LC_MESSAGES and LC_CTYPE a program may have  *)
                   (* set itself                                             *)
    Installed,     (* the values setlocale knows                             *)
    C,             (* the value "C", and "POSIX"                             *)
    Composite,     (* what setlocale calls categories that differ            *)
    En,
    Ranges

VARIABLES
    env, init_setlocale,
    cats,          (* the categories of the C library                        *)
    todo,          (* where to look next                                     *)
    rest,          (* the languages of the value that is looked at           *)
    locales,
    pc

vars == <<env, init_setlocale, cats, todo, rest, locales, pc>>

(* What languages are put together of                                        *)
Subtags == UNION {{range[n] : n \in DOMAIN range} : range \in Ranges \cup {En}}

(* Every value is a list of languages, and "C" is something to set.          *)
SystemAssumption ==
    LET Values == Seq(Ranges) IN
    /\ Environments \subseteq [LANGUAGE : Values, LC_ALL : Values,
                               LC_MESSAGES : Values, LC_CTYPE : Values,
                               LANG : Values]
    /\ Categories \subseteq [LC_MESSAGES : Values, LC_CTYPE : Values]
    /\ Installed \subseteq Values
    /\ C # <<>>
    /\ Ranges \subseteq Seq(Subtags) \ {<<>>}
    /\ En \in Seq(Subtags) /\ Len(En) = 1

------------------------------------------------------------------------------
(* setlocale(LC_ALL, ""), as POSIX has it: the first variable that is set    *)
(* decides a category, and one unknown value keeps all as they are.          *)

FirstSet(values) == values[Min({n \in DOMAIN values : values[n] # <<>>})]

FromEnvironment(category) ==
    FirstSet(<<env.LC_ALL, env[category], env.LANG, C>>)

Wanted == [category \in DOMAIN cats |-> FromEnvironment(category)]

AfterSetlocale ==
    IF \A category \in DOMAIN cats : Wanted[category] \in Installed
      THEN Wanted ELSE cats

(* setlocale(LC_ALL, nullptr)                                                *)
All(categories) ==
    IF categories.LC_MESSAGES = categories.LC_CTYPE THEN categories.LC_CTYPE
    ELSE Composite

(* The order of the body of system_locales                                   *)
Sources == << "LANGUAGE", "all", "messages", "LC_ALL", "LC_MESSAGES", "LANG" >>

Value(source, categories) ==
    CASE source = "all" -> All(categories)
      [] source = "messages" -> categories.LC_MESSAGES
      [] OTHER -> env[source]

(* Mutant: what setlocale makes of several categories is a name.             *)
NamesIn_Composite(value) == IF value = C THEN <<>> ELSE value

(* expand: neither "C" nor a list of categories names a language.            *)
NamesIn(value) == IF value \in {C, Composite} THEN <<>> ELSE value

Languages(sources, categories) ==
    FlattenSeq([n \in DOMAIN sources |-> NamesIn(Value(sources[n], categories))])

------------------------------------------------------------------------------
(* Locales, with the names these sources will have given in the end          *)

CatsInUse == IF pc = "set" /\ init_setlocale THEN AfterSetlocale ELSE cats

L == INSTANCE Locales WITH
       Headers <- {}, Names <- Seq(Ranges), header <- <<>>,
       names <- rest \o Languages(todo, CatsInUse),
       pc <- IF pc = "done" THEN "done" ELSE "system",
       input <- Languages(Sources, CatsInUse)

Init ==
    /\ env \in Environments
    /\ init_setlocale \in BOOLEAN
    /\ cats \in Categories
    /\ todo = Sources
    /\ rest = <<>>
    /\ locales = <<>>
    /\ pc = "set"

InitSetlocale ==
    /\ pc = "set"
    /\ cats' = CatsInUse
    /\ pc' = "try"
    /\ UNCHANGED <<env, init_setlocale, todo, rest, locales>>

(* try_environment, try_locale                                               *)
Try ==
    /\ pc = "try" /\ rest = <<>> /\ todo # <<>>
    /\ rest' = NamesIn(Value(Head(todo), cats))
    /\ todo' = Tail(todo)
    /\ UNCHANGED <<env, init_setlocale, cats, locales, pc>>

(* Mutant: only the language itself is appended.                             *)
Append_Alone ==
    /\ pc = "try" /\ rest # <<>>
    /\ locales' = IF L!Inside(locales, Head(rest)) THEN locales
                  ELSE Append(locales, Head(rest))
    /\ rest' = Tail(rest)
    /\ UNCHANGED <<env, init_setlocale, cats, todo, pc>>

AppendLocale ==
    /\ pc = "try" /\ rest # <<>>
    /\ locales' = L!WithShorter(locales, Head(rest))
    /\ rest' = Tail(rest)
    /\ UNCHANGED <<env, init_setlocale, cats, todo, pc>>

Return ==
    /\ pc = "try" /\ rest = <<>> /\ todo = <<>>
    /\ locales' = L!WithShorter(locales, En)
    /\ pc' = "done"
    /\ UNCHANGED <<env, init_setlocale, cats, todo, rest>>

Next == InitSetlocale \/ Try \/ AppendLocale \/ Return

Spec == Init /\ [][Next]_vars

------------------------------------------------------------------------------
(* Properties *)

(* The list is made as Locales says, of the languages of all the sources.    *)
ImplementsLocales == L!LocalesSpec

(* Where a language is, and which ones a variable names.                     *)
Place(range) == CHOOSE n \in DOMAIN locales : locales[n] = range

Named(sources) ==
    {Languages(sources, cats)[n] : n \in DOMAIN Languages(sources, cats)}

(* The list of languages that are appended one after the other               *)
Made(langs) ==
    LET made[n \in 0 .. Len(langs)] ==
          IF n = 0 THEN <<>> ELSE L!WithShorter(made[n - 1], langs[n])
    IN made[Len(langs)]

(* $LANGUAGE, $LC_ALL, $LC_MESSAGES and $LANG are checked, followed by the   *)
(* LC_ALL and LC_MESSAGES categories (docs/usage.md:82-84).                  *)
Documented == << "LANGUAGE", "LC_ALL", "LC_MESSAGES", "LANG", "all", "messages" >>

(* For a program that leaves setting a locale to system_locales, the list is *)
(* the documented one, whether that succeeds or not: what setlocale makes of *)
(* the variables brings nothing forward, and no list of categories and no    *)
(* "C" is taken for a language (lngs_storage.cpp:136-149).                   *)
FollowsTheEnvironment ==
    (pc = "done" /\ init_setlocale
       /\ cats \in {Wanted, [category \in DOMAIN cats |-> C]}) =>
        locales = L!WithShorter(Made(Languages(Documented, cats)), En)

(* The same of every program: a language the environment names comes before  *)
(* one that only a category names.                                           *)
EnvironmentFirst ==
    pc = "done" =>
        \A r \in Named(SubSeq(Documented, 1, 4)),
           s \in Named(<<"all", "messages">>) \ Named(SubSeq(Documented, 1, 4)) :
            (s \notin L!Shorter(r) /\ r \notin L!Shorter(s)) => Place(r) < Place(s)

==============================================================================
