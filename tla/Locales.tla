------------------------------- MODULE Locales --------------------------------
(***************************************************************************)
(* The lists of languages open_first_of walks along                        *)
(* (libs/liblngs/src/lngs_storage.cpp): http_accept_language sorts the     *)
(* ranges of an Accept-Language header by their quality and inserts        *)
(* missing shorter ranges into the list it is walking over, starting again *)
(* each time; system_locales appends what the environment and the C        *)
(* library name, each with its shorter ranges.                             *)
(*                                                                         *)
(* A language range is the sequence of its tags, en-US is <<"en", "US">>;  *)
(* splitting a header or a variable into ranges is left out.               *)
(***************************************************************************)
EXTENDS Integers, Sequences, SequencesExt, FiniteSetsExt

CONSTANTS
    Subtags,   (* what ranges are put together of                            *)
    Headers,   (* sequences of items [range, q], q the digits of a quality:  *)
               (* [whole, fraction]                                          *)
    Names,     (* sequences of ranges, as variables and categories name them *)
    En         (* the last resort                                            *)

(* However a text is split, there is one tag at least, if an empty one.      *)
LanguageRanges == Seq(Subtags) \ {<<>>}

Digits == [whole : Nat, fraction : Seq(0 .. 9)]

ASSUME LocalesAssumption ==
    /\ Headers \subseteq Seq([range : LanguageRanges, q : Digits])
    /\ Names \subseteq Seq(LanguageRanges)
    /\ En \in LanguageRanges /\ Len(En) = 1

VARIABLES
    header,    (* the header that is read, or <<>>                           *)
    names,     (* the locales not looked at yet                              *)
    locales,   (* the list built so far                                      *)
    pc,
    input      (* history: the ranges that were asked for, in order          *)

localesVars == <<header, names, locales, pc, input>>

------------------------------------------------------------------------------
(* ListItem::quality: the fraction is shifted in, up to its third digit.     *)
Shown(q) == IF Len(q.fraction) < 3 THEN Len(q.fraction) ELSE 3

(* Mutant: pow is only looked at once all digits are read.                   *)
Quality_NoShift(q) ==
    LET shift[k \in 0 .. Shown(q)] ==
          IF k = 0 THEN q.whole ELSE shift[k - 1] * 10 + q.fraction[k]
    IN shift[Shown(q)] * 1000

Quality(q) ==
    LET shift[k \in 0 .. Shown(q)] ==
          IF k = 0 THEN [value |-> q.whole, pow |-> 1000]
          ELSE [value |-> shift[k - 1].value * 10 + q.fraction[k],
                pow |-> shift[k - 1].pow \div 10]
    IN shift[Shown(q)].value * shift[Shown(q)].pow

(* What a finite set looks like along a strict order of its elements.        *)
Sorted(S, order) ==
    [k \in 1 .. Cardinality(S) |->
        CHOOSE n \in S : Cardinality({m \in S : <<m, n>> \in order}) = k - 1]

(* stable_sort by quality, the best first                                    *)
Before(items) ==
    LET quality(n) == Quality(items[n].q) IN
    {p \in (DOMAIN items) \X (DOMAIN items) :
        \/ quality(p[1]) > quality(p[2])
        \/ quality(p[1]) = quality(p[2]) /\ p[1] < p[2]}

(* Mutant: repetitions are not looked for.                                   *)
Kept_All(items) == DOMAIN items

(* Of items with the same range the first one stays.                         *)
Kept(items) ==
    {n \in DOMAIN items :
        \A m \in DOMAIN items :
            items[m].range = items[n].range => <<m, n>> \notin Before(items)}

PriorityList(items) ==
    LET order == Sorted(Kept(items), Before(items))
    IN [k \in DOMAIN order |-> items[order[k]].range]

------------------------------------------------------------------------------
(* A shorter range that is not in the list, for the first range that has one *)

Inside(list, range) == \E n \in DOMAIN list : list[n] = range

Lacking(list) ==
    {n \in DOMAIN list : Len(list[n]) > 1 /\ ~Inside(list, Front(list[n]))}

(* The ranges that begin with sub and go on.                                 *)
Within(list, sub) ==
    {n \in DOMAIN list : IsPrefix(sub, list[n]) /\ Len(list[n]) > Len(sub)}

(* Mutant: the place is behind the range that is looked at, not behind the   *)
(* last one of the kind.                                                     *)
Expanded_AtFirst(list) ==
    LET lang == Min(Lacking(list)) IN
    InsertAt(list, lang + 1, Front(list[lang]))

(* expand_list, when it returns true: sub goes behind all that it stands for.*)
Expanded(list) ==
    LET sub == Front(list[Min(Lacking(list))]) IN
    InsertAt(list, Max(Within(list, sub)) + 1, sub)

(* Mutant: the shorter ranges come first.                                    *)
WithShorter_Reversed(list, range) ==
    list \o SelectSeq([k \in DOMAIN range |-> SubSeq(range, 1, k)],
                      LAMBDA sub : ~Inside(list, sub))

(* appendLocale: the range and shorter and shorter ones, up to one that is   *)
(* inside.                                                                   *)
WithShorter(list, range) ==
    LET candidates == [k \in DOMAIN range |->
                         SubSeq(range, 1, Len(range) + 1 - k)]
        inside == {k \in DOMAIN range : Inside(list, candidates[k])}
    IN list \o SubSeq(candidates, 1,
                      IF inside = {} THEN Len(range) ELSE Min(inside) - 1)

WithEn(list) == IF Inside(list, En) THEN list ELSE Append(list, En)

------------------------------------------------------------------------------
LocalesInit ==
    /\ locales = <<>>
    /\ \/ /\ header \in Headers
          /\ names = <<>>
          /\ pc = "http"
          /\ input = [n \in DOMAIN header |-> header[n].range]
       \/ /\ header = <<>>
          /\ names \in Names
          /\ pc = "system"
          /\ input = names

ReadHeader ==
    /\ pc = "http"
    /\ locales' = PriorityList(header)
    /\ pc' = "expand"
    /\ UNCHANGED <<header, names, input>>

(* Mutant: expand_list works on a copy of the list.                          *)
ExpandList_OnCopy ==
    /\ pc = "expand"
    /\ Lacking(locales) # {}
    /\ UNCHANGED localesVars

ExpandList ==
    /\ pc = "expand"
    /\ Lacking(locales) # {}
    /\ locales' = Expanded(locales)
    /\ UNCHANGED <<header, names, pc, input>>

ReturnHeader ==
    /\ pc = "expand"
    /\ Lacking(locales) = {}
    /\ locales' = WithEn(locales)
    /\ pc' = "done"
    /\ UNCHANGED <<header, names, input>>

AppendLocale ==
    /\ pc = "system"
    /\ names # <<>>
    /\ locales' = WithShorter(locales, Head(names))
    /\ names' = Tail(names)
    /\ UNCHANGED <<header, pc, input>>

ReturnSystem ==
    /\ pc = "system"
    /\ names = <<>>
    /\ locales' = WithShorter(locales, En)
    /\ pc' = "done"
    /\ UNCHANGED <<header, names, input>>

LocalesNext ==
    \/ ReadHeader \/ ExpandList \/ ReturnHeader
    \/ AppendLocale \/ ReturnSystem

LocalesSpec == LocalesInit /\ [][LocalesNext]_localesVars

(* What is left to do once the list is begun: loops without a wait.          *)
Looping == ExpandList \/ ReturnHeader \/ AppendLocale \/ ReturnSystem

LocalesFairSpec == LocalesSpec /\ WF_localesVars(Looping)

------------------------------------------------------------------------------
(* Properties *)

AskedFor == {input[n] : n \in DOMAIN input}

Shorter(range) == {SubSeq(range, 1, k) : k \in 1 .. Len(range)}

Place(range) == CHOOSE n \in DOMAIN locales : locales[n] = range

(* The list has every range that was asked for, its shorter versions and the *)
(* last resort, each once, and nothing else (docs/usage.md:82-84).           *)
ListIsComplete ==
    pc = "done" =>
        /\ {locales[n] : n \in DOMAIN locales} =
              UNION {Shorter(range) : range \in AskedFor \cup {En}}
        /\ \A m, n \in DOMAIN locales : locales[m] = locales[n] => m = n

(* Quality in thousandths, as RFC 7231 has it.                               *)
Thousandths(q) ==
    LET digit(n) == IF n <= Len(q.fraction) THEN q.fraction[n] ELSE 0 IN
    1000 * q.whole + 100 * digit(1) + 10 * digit(2) + digit(3)

(* The best quality of a range, and where it is stated first                 *)
Best(range) ==
    Max({Thousandths(header[n].q) : n \in {m \in DOMAIN header :
                                             header[m].range = range}})

FirstBest(range) ==
    Min({n \in DOMAIN header : /\ header[n].range = range
                               /\ Thousandths(header[n].q) = Best(range)})

(* Whatever is inserted, the ranges of a header stay in the order of their   *)
(* best qualities, equal ones in the order of the header.                    *)
QualityDecides ==
    (pc = "done" /\ header # <<>>) =>
        \A r, s \in AskedFor :
            (\/ Best(r) > Best(s)
             \/ Best(r) = Best(s) /\ FirstBest(r) < FirstBest(s))
            => Place(r) < Place(s)

(* In the list of a header, a range nobody asked for comes after everything  *)
(* it is a shorter version of: no fallback gets ahead of a language that was *)
(* named (lngs_storage.cpp:273-284).                                         *)
FallbacksComeLast ==
    (pc = "done" /\ header # <<>>) =>
        \A r \in {locales[n] : n \in DOMAIN locales} \ AskedFor :
            \A s \in AskedFor : r \in Shorter(s) => Place(s) < Place(r)

(* In the list of the system, what is named earlier, and then its shorter    *)
(* versions from the longest to the shortest, comes before what is named     *)
(* later (docs/usage.md:98-107).                                             *)
NamesKeepTheirOrder ==
    (pc = "done" /\ header = <<>>) =>
        \A m, n \in DOMAIN input :
            \A r \in Shorter(input[m]), s \in Shorter(input[n]) :
                (\/ /\ m < n
                    /\ \A k \in 1 .. m : s \notin Shorter(input[k])
                 \/ /\ m = n /\ Len(r) > Len(s)
                    /\ \A k \in 1 .. m - 1 : s \notin Shorter(input[k]))
                => Place(r) < Place(s)

(* Nothing gets ahead of what the user named before it: neither in the list  *)
(* of a header nor in that of the system.                                    *)
OrderIsKept == QualityDecides /\ FallbacksComeLast /\ NamesKeepTheirOrder

(* The list comes to an end once it is begun, although expand_list starts    *)
(* again after each range it inserts (lngs_storage.cpp:263-288).             *)
ListEnds == pc \in {"expand", "system"} ~> pc = "done"

==============================================================================
