---------------------------- MODULE AcceptLanguage ----------------------------
(***************************************************************************)
(* ListItem (libs/liblngs/src/lngs_storage.cpp): the items of an           *)
(* Accept-Language header, read character by character from a view of it.  *)
(* A view need not end in a zero: what follows it in memory is looked at   *)
(* before the end is compared with, and is a choice here.  What the list   *)
(* becomes is in Locales.                                                  *)
(***************************************************************************)
EXTENDS Integers, Sequences, SequencesExt, FiniteSetsExt

CONSTANTS
    Headers,     (* [text, means]: the characters of a header and, if it is  *)
                 (* written by the rule, the items it means: a set of one    *)
    Beyond,      (* what may follow a header                                 *)
    Spaces, Digits,
    Zero         (* the character that ends a string                         *)

VARIABLES
    header, beyond,
    means,       (* history: what the header means                           *)
    pos,         (* the cursor c                                             *)
    items,       (* what was read: sequence of [value, q]                    *)
    done

vars == <<header, beyond, means, pos, items, done>>

End == Len(header) + 1

(* What is read of a text, whose first characters are those of the header.   *)
At(text, c) == IF c \in DOMAIN text THEN text[c] ELSE Zero

------------------------------------------------------------------------------
(* WS                                                                        *)
RECURSIVE Ws(_, _)
Ws(text, c) ==
    IF At(text, c) \in Spaces /\ c < End THEN Ws(text, c + 1) ELSE c

(* Mutant: the end is not compared with.                                     *)
RECURSIVE LookFor_NoEnd(_, _, _)
LookFor_NoEnd(text, c, ch) ==
    IF At(text, c) \notin Spaces \cup {",", ch, Zero}
      THEN LookFor_NoEnd(text, c + 1, ch) ELSE c

(* LOOK_FOR                                                                  *)
RECURSIVE LookFor(_, _, _)
LookFor(text, c, ch) ==
    IF At(text, c) \notin Spaces \cup {",", ch} /\ c < End
      THEN LookFor(text, c + 1, ch) ELSE c

(* What lies between two places, the second of which may be past the end.    *)
Between(text, first, last) ==
    [n \in 1 .. last - first |-> At(text, first + n - 1)]

(* ListItem::quality, in thousandths.  A second dot or any other character   *)
(* ends it, and so does a third digit after the dot.                         *)
RECURSIVE QualityFrom(_, _, _, _)
QualityFrom(text, q, pow, dot) ==
    IF text = <<>> THEN q * pow
    ELSE IF Head(text) \in DOMAIN Digits THEN
        LET more == q * 10 + Digits[Head(text)] IN
        IF dot /\ pow = 10 THEN more
        ELSE QualityFrom(Tail(text), more, IF dot THEN pow \div 10 ELSE pow, dot)
    ELSE IF Head(text) = "." /\ ~dot THEN QualityFrom(Tail(text), q, pow, TRUE)
    ELSE q * pow

Quality(text) == QualityFrom(text, 0, 1000, FALSE)

(* A parameter named q, the equals sign at c or none: where it ends, and the *)
(* quality then.                                                             *)
Assigned(text, c, q) ==
    LET value == Ws(text, c + 1)
        last == LookFor(text, value, ";")
    IN IF At(text, c) # "=" THEN [at |-> c, q |-> q]
       ELSE [at |-> Ws(text, last), q |-> Quality(Between(text, value, last))]

(* Mutant: spaces ahead of the equals sign end the parameter.                *)
Parameter_NoSpace(text, c, q) ==
    LET name == Ws(text, c + 1)
        equals == LookFor(text, name, "=")
    IN IF Between(text, name, equals) = <<"q">> THEN Assigned(text, equals, q)
       ELSE [at |-> LookFor(text, equals, ";"), q |-> q]

(* One parameter, from its semicolon: where it ends, and the quality then.   *)
Parameter(text, c, q) ==
    LET name == Ws(text, c + 1)
        equals == LookFor(text, name, "=")
    IN IF Between(text, name, equals) = <<"q">>
         THEN Assigned(text, Ws(text, equals), q)
       ELSE [at |-> LookFor(text, equals, ";"), q |-> q]

RECURSIVE Parameters(_, _)
Parameters(text, read) ==
    IF At(text, read.at) = ";"
      THEN Parameters(text, Parameter(text, read.at, read.q)) ELSE read

(* ListItem::read: the range up to a space, comma or semicolon, and then the *)
(* parameters; what ends the item is passed over.                            *)
Item(text, c) ==
    LET first == Ws(text, c)
        last == LookFor(text, first, ";")
        read == Parameters(text, [at |-> Ws(text, last), q |-> 1000])
    IN [value |-> Between(text, first, last), q |-> read.q, next |-> read.at + 1]

------------------------------------------------------------------------------
(* priority_list, before the sorting                                         *)

Init ==
    /\ \E h \in Headers : header = h.text /\ means = h.means
    /\ beyond \in Beyond
    /\ pos = 1
    /\ items = <<>>
    /\ done = FALSE

Read ==
    /\ ~done /\ pos < End
    /\ LET item == Item(header \o beyond, pos) IN
         /\ items' = Append(items, [value |-> item.value, q |-> item.q])
         /\ pos' = item.next
    /\ UNCHANGED <<header, beyond, means, done>>

Stop ==
    /\ ~done /\ pos >= End
    /\ done' = TRUE
    /\ UNCHANGED <<header, beyond, means, pos, items>>

Next == Read \/ Stop

Spec == Init /\ [][Next]_vars

------------------------------------------------------------------------------
(* Properties *)

(* Where the header is written by the rule, with spaces wherever it allows   *)
(* them, every range is read, with its quality, 1 if none is given, and no   *)
(* other (RFC 7231 5.3.5; lngs_storage.cpp:176-204).                         *)
ReadsWhatIsMeant ==
    (done /\ means # {}) => means = {items}

(* The items of the header alone, with a zero behind it.                     *)
RECURSIVE Alone(_)
Alone(c) ==
    IF c >= End THEN <<>>
    ELSE LET item == Item(header, c) IN
         <<[value |-> item.value, q |-> item.q]>> \o Alone(item.next)

(* The header breaks off behind the name of a parameter q, with or without   *)
(* spaces: the semicolon, spaces, a q and spaces are the last of it.         *)
BreaksOff ==
    \E c \in DOMAIN header :
        /\ header[c] = "q"
        /\ Ws(header, c + 1) = End
        /\ \E b \in 1 .. c - 1 : header[b] = ";" /\ Ws(header, b + 1) = c

(* Of what follows a header in memory nothing gets into a range, and nothing *)
(* into a quality, but in one case: behind a header that breaks off after    *)
(* the name q an equals sign is read without a look at the end, and the last *)
(* item then has the quality 0 (lngs_storage.cpp:165-198).                   *)
NothingFromBeyond ==
    done =>
        \/ items = Alone(1)
        \/ /\ BreaksOff /\ beyond # <<>> /\ beyond[1] = "="
           /\ items = [Alone(1) EXCEPT ![Len(items)].q = 0]

==============================================================================
