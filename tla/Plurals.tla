------------------------------- MODULE Plurals --------------------------------
(***************************************************************************)
(* Plural rules (libs/liblngs/src/plurals.cpp, expr_parser.cpp, node.hpp): *)
(* the ATTR_PLURALS attribute of a language file is taken apart, its rule  *)
(* is scanned, parsed by recursive descent and evaluated for a count; the  *)
(* value is the index of the plural form to show.                          *)
(*                                                                         *)
(* An attribute is a sequence of characters, the words "plural" and        *)
(* "nplurals" standing for one each.  Values are integers without a width: *)
(* the numbers of a rule are small.                                        *)
(***************************************************************************)
EXTENDS Integers, Sequences, SequencesExt, FiniteSetsExt

CONSTANTS
    Attributes,  (* what ATTR_PLURALS may be                                 *)
    Counts       (* the quantities strings are asked for                     *)

VARIABLES
    attribute,   (* the attribute of the file that is open                   *)
    lex,         (* lang_file::lex: the parsed rule, Null before it is used  *)
    count,       (* the quantity last asked for                              *)
    form,        (* the index calc_substring answered with                   *)
    crashed      (* the scanner has run out of its input                     *)

vars == <<attribute, lex, count, form, crashed>>

------------------------------------------------------------------------------
(* Scanning: tokenizer::tokenize                                             *)

Tok(type) == [type |-> type, value |-> 0]

Digit == [d \in {"0", "1", "2", "3", "4", "5", "6", "7", "8", "9"} |->
            CASE d = "0" -> 0 [] d = "1" -> 1 [] d = "2" -> 2 [] d = "3" -> 3
              [] d = "4" -> 4 [] d = "5" -> 5 [] d = "6" -> 6 [] d = "7" -> 7
              [] d = "8" -> 8 [] d = "9" -> 9]

Alone   == {"n", "*", "/", "%", "+", "-", "(", ")", "?", ":"}
MayJoin == [c \in {"!", "<", ">"} |-> c \o "="]      (* with a = that follows *)
Doubled == [c \in {"&", "|", "="} |-> c \o c]
Blank   == {" ", "\t", "\n"}

NextIs(value, at, c) == at < Len(value) /\ value[at + 1] = c

(* How many characters the scanner takes at a position.  A lone &, | or =    *)
(* takes two as well, the last character of a value included.                *)
Width(value, at) ==
    LET c == value[at] IN
    IF c \in DOMAIN Digit
      THEN CHOOSE w \in 1 .. Len(value) :
             /\ \A k \in at .. at + w - 1 : value[k] \in DOMAIN Digit
             /\ at + w <= Len(value) => value[at + w] \notin DOMAIN Digit
    ELSE IF c \in DOMAIN Doubled \/ (c \in DOMAIN MayJoin
                                       /\ NextIs(value, at, "=")) THEN 2
    ELSE 1

Number(digits) == FoldLeft(LAMBDA n, d : n * 10 + Digit[d], 0, digits)

(* The token at a position, or none.                                         *)
TokenAt(value, at) ==
    LET c == value[at] IN
    IF c \in DOMAIN Digit
      THEN <<[type |-> "number",
              value |-> Number(SubSeq(value, at, at + Width(value, at) - 1))]>>
    ELSE IF c \in Blank THEN <<>>
    ELSE <<Tok(
      IF c \in DOMAIN MayJoin /\ NextIs(value, at, "=") THEN MayJoin[c]
      ELSE IF c \in DOMAIN Doubled /\ NextIs(value, at, c) THEN Doubled[c]
      ELSE IF c \in Alone \cup DOMAIN MayJoin THEN c
      ELSE "unknown")>>

RECURSIVE Tokens(_, _)
Tokens(value, at) ==
    IF at > Len(value) + 1 THEN <<Tok("past the end")>>
    ELSE IF at > Len(value) THEN <<>>
    ELSE TokenAt(value, at) \o Tokens(value, at + Width(value, at))

------------------------------------------------------------------------------
(* Parsing: a node is its operator, the value of a number, and its operands  *)

Node(op, kids) == [op |-> op, value |-> 0, kids |-> kids]

Null == Node("null", <<>>)

(* Binary operators, weakest first: logical_or, logical_and, compare,        *)
(* relation, addsub, muldiv.                                                 *)
Levels == << {"||"}, {"&&"}, {"==", "!="}, {"<", "<=", ">", ">="},
             {"+", "-"}, {"*", "/", "%"} >>

(* What a parsing function returns: the node, and the tokens after it.       *)
Got(tree, rest) == [tree |-> tree, rest |-> rest]

Fails == Got(Null, <<>>)

NextTypeIn(parsed, types) ==
    parsed.rest # <<>> /\ Head(parsed.rest).type \in types

RECURSIVE Ternary(_), Operand(_, _), MoreOperands(_, _), Simple(_)

(* simple: an expression in parentheses, a number, a negation, the variable. *)
Simple(tokens) ==
    IF tokens = <<>> THEN Fails ELSE
    LET token == Head(tokens)
        rest  == Tail(tokens) IN
    CASE token.type = "n" -> Got(Node("n", <<>>), rest)
      [] token.type = "number" ->
           Got([op |-> "number", value |-> token.value, kids |-> <<>>], rest)
      [] token.type = "!" ->
           LET content == Simple(rest) IN
           IF content.tree = Null THEN Fails
           ELSE Got(Node("!", <<content.tree>>), content.rest)
      [] token.type = "(" ->
           LET content == Ternary(rest) IN
           IF NextTypeIn(content, {")"})
             THEN Got(content.tree, Tail(content.rest)) ELSE Fails
      [] OTHER -> Fails

(* What stands left and right of the operators of a level.                   *)
Operand(level, tokens) ==
    IF level > Len(Levels) THEN Simple(tokens)
    ELSE MoreOperands(level, Operand(level + 1, tokens))

(* The loop of a level: operands are taken in, the left ones first.          *)
MoreOperands(level, left) ==
    IF left.tree = Null \/ ~NextTypeIn(left, Levels[level]) THEN left ELSE
    LET right == Operand(level + 1, Tail(left.rest))
        both  == Node(Head(left.rest).type, <<left.tree, right.tree>>)
    IN IF right.tree = Null THEN Fails
       ELSE MoreOperands(level, Got(both, right.rest))

(* trenary: the third operand may be another one.                            *)
Ternary(tokens) ==
    LET first == Operand(1, tokens) IN
    IF first.tree = Null \/ ~NextTypeIn(first, {"?"}) THEN first ELSE
    LET second == Ternary(Tail(first.rest)) IN
    IF second.tree = Null \/ ~NextTypeIn(second, {":"}) THEN Fails ELSE
    LET third == Ternary(Tail(second.rest)) IN
    IF third.tree = Null THEN Fails
    ELSE Got(Node("?:", <<first.tree, second.tree, third.tree>>), third.rest)

(* Mutant: what follows a rule is ignored.                                   *)
Parse_Prefix(value) == Ternary(Tokens(value, 1)).tree

(* parse: a rule is all of its value.                                        *)
Parse(value) ==
    LET parsed == Ternary(Tokens(value, 1)) IN
    IF parsed.rest = <<>> THEN parsed.tree ELSE Null

------------------------------------------------------------------------------
(* Evaluation: node.hpp.  A value is a set of one number, or empty when the  *)
(* evaluation has failed.                                                    *)

Bool(b) == IF b THEN 1 ELSE 0

Abs(x) == IF x < 0 THEN -x ELSE x

(* Integer division of C++: towards zero, and the remainder that fits it.    *)
Quotient(x, y) ==
    LET q == Abs(x) \div Abs(y) IN IF (x < 0) = (y < 0) THEN q ELSE -q

Remainder(x, y) == x - y * Quotient(x, y)

Arithmetic(op, x, y) ==
    CASE op = "*" -> x * y
      [] op = "+" -> x + y
      [] op = "-" -> x - y
      [] op = "/" -> Quotient(x, y)
      [] op = "%" -> Remainder(x, y)

Relation(op, x, y) ==
    CASE op = "<"  -> x < y
      [] op = "<=" -> x <= y
      [] op = ">"  -> x > y
      [] op = ">=" -> x >= y
      [] op = "==" -> x = y
      [] op = "!=" -> x # y

RECURSIVE Eval(_, _)

(* Mutant: both sides of && and || are evaluated.                            *)
Eval_Strict(tree, n) ==
    LET arg(k) == Eval(tree.kids[k], n)
        pairs  == arg(1) \X arg(2) IN
    CASE tree.op = "n" -> {n}
      [] tree.op = "number" -> {tree.value}
      [] tree.op = "!" -> {Bool(x = 0) : x \in arg(1)}
      [] tree.op \in Levels[6] \cup Levels[5] ->
           {Arithmetic(tree.op, p[1], p[2]) :
              p \in {p \in pairs : tree.op \in {"/", "%"} => p[2] # 0}}
      [] tree.op \in Levels[4] \cup Levels[3] ->
           {Bool(Relation(tree.op, p[1], p[2])) : p \in pairs}
      [] tree.op = "&&" -> {Bool(p[1] # 0 /\ p[2] # 0) : p \in pairs}
      [] tree.op = "||" -> {Bool(p[1] # 0 \/ p[2] # 0) : p \in pairs}
      [] tree.op = "?:" -> UNION {IF x # 0 THEN arg(2) ELSE arg(3) : x \in arg(1)}

Eval(tree, n) ==
    LET arg(k) == Eval(tree.kids[k], n)
        pairs  == arg(1) \X arg(2) IN
    CASE tree.op = "n" -> {n}
      [] tree.op = "number" -> {tree.value}
      [] tree.op = "!" -> {Bool(x = 0) : x \in arg(1)}
      [] tree.op \in Levels[6] \cup Levels[5] ->
           {Arithmetic(tree.op, p[1], p[2]) :
              p \in {p \in pairs : tree.op \in {"/", "%"} => p[2] # 0}}
      [] tree.op \in Levels[4] \cup Levels[3] ->
           {Bool(Relation(tree.op, p[1], p[2])) : p \in pairs}
      [] tree.op = "&&" -> UNION {IF x = 0 THEN {0}
                                  ELSE {Bool(y # 0) : y \in arg(2)} : x \in arg(1)}
      [] tree.op = "||" -> UNION {IF x # 0 THEN {1}
                                  ELSE {Bool(y # 0) : y \in arg(2)} : x \in arg(1)}
      [] tree.op = "?:" -> UNION {IF x # 0 THEN arg(2) ELSE arg(3) : x \in arg(1)}

(* lexical::eval: what fails is form 0.                                      *)
FormOf(tree, n) ==
    IF tree = Null \/ Eval(tree, n) = {} THEN 0
    ELSE CHOOSE x \in Eval(tree, n) : TRUE

------------------------------------------------------------------------------
(* plurals::decode                                                           *)

(* split_view at every separator, or at the first one only                   *)
Split(text, sep) ==
    LET cuts == <<0>> \o SetToSortSeq({k \in DOMAIN text : text[k] = sep}, <)
                      \o <<Len(text) + 1>>
    IN [k \in 1 .. Len(cuts) - 1 |-> SubSeq(text, cuts[k] + 1, cuts[k + 1] - 1)]

Strip(text) ==
    LET inked == {k \in DOMAIN text : text[k] \notin Blank} IN
    IF inked = {} THEN <<>> ELSE SubSeq(text, Min(inked), Max(inked))

(* The rule of every field named plural, in order: fields without a = are    *)
(* passed over, further ones belong to the rule.                             *)
RulesIn(text) ==
    LET equals(field) == {k \in DOMAIN field : field[k] = "="}
        isRule(field) ==
          /\ equals(field) # {}
          /\ Strip(SubSeq(field, 1, Min(equals(field)) - 1)) = <<"plural">>
        value(field) ==
          Strip(SubSeq(field, Min(equals(field)) + 1, Len(field)))
        fields == SelectSeq(Split(text, ";"), isRule)
    IN [k \in DOMAIN fields |-> value(fields[k])]

(* The last rule counts, be it one that does not parse.                      *)
Decode(text) == IF RulesIn(text) = <<>> THEN Null ELSE Parse(Last(RulesIn(text)))

Overruns(text) ==
    \E k \in DOMAIN RulesIn(text) :
        LET tokens == Tokens(RulesIn(text)[k], 1) IN
        tokens # <<>> /\ Last(tokens).type = "past the end"

------------------------------------------------------------------------------
Init ==
    /\ attribute \in Attributes
    /\ lex = Null
    /\ count = 0
    /\ form = 0
    /\ crashed = FALSE

(* nplurals=1;plural=0                                                       *)
DefaultRule == Parse(<<"0">>)

(* lang_file::calc_substring, called with a quantity for a string that is    *)
(* there: the rule is compiled when it is needed first.                      *)
CalcSubstring(n) ==
    /\ ~crashed
    /\ ~(lex = Null /\ Overruns(attribute))
    /\ lex' = IF lex # Null THEN lex
              ELSE IF Decode(attribute) # Null THEN Decode(attribute)
              ELSE DefaultRule
    /\ count' = n
    /\ form' = FormOf(lex', n)
    /\ UNCHANGED <<attribute, crashed>>

(* The scanner is past the end of the rule: it reads whatever is there, which *)
(* the rule does not parse with, or the program ends.                        *)
CalcSubstringOverruns(n) ==
    /\ ~crashed
    /\ lex = Null /\ Overruns(attribute)
    /\ \/ crashed' = TRUE /\ UNCHANGED <<lex, count, form>>
       \/ /\ lex' = DefaultRule
          /\ count' = n
          /\ form' = 0
          /\ UNCHANGED crashed
    /\ UNCHANGED attribute

Next == \E n \in Counts : CalcSubstring(n) \/ CalcSubstringOverruns(n)

Spec == Init /\ [][Next]_vars

------------------------------------------------------------------------------
(* The language of rules, as C and gettext have it, by derivation: a text is *)
(* an expression of a level if it is one of the next level, or a left side   *)
(* of the same level, an operator and a right side of the next.  The meaning *)
(* is the set of what its derivations evaluate to.                           *)

Both(op, x, y) ==
    IF op = "&&" /\ x = {0} THEN {0}
    ELSE IF op = "||" /\ x # {} /\ x # {0} THEN {1}
    ELSE IF x = {} \/ y = {} \/ (op \in {"/", "%"} /\ y = {0}) THEN {}
    ELSE LET a == CHOOSE v \in x : TRUE
             b == CHOOSE v \in y : TRUE IN
         IF op = "&&" \/ op = "||" THEN {Bool(b # 0)}
         ELSE IF op \in {"*", "/", "%", "+", "-"} THEN {Arithmetic(op, a, b)}
         ELSE {Bool(Relation(op, a, b))}

RECURSIVE Means(_, _, _)
Means(level, text, n) ==
    LET before(k) == SubSeq(text, 1, k - 1)
        after(k)  == SubSeq(text, k + 1, Len(text))
        stripped  == Strip(text)
        at(c)     == {k \in DOMAIN text : text[k] = c}
        (* the operators of this level, with the place of their last character *)
        single(k) == text[k] \in Levels[level]
        double(k) == k > 1 /\ text[k - 1] \o text[k] \in Levels[level]
    IN
    IF level = 0 THEN
      Means(1, text, n) \cup
      UNION { UNION { {IF c = {} THEN {} ELSE IF c = {0} THEN y ELSE x :
                          c \in Means(1, before(q), n),
                          x \in Means(0, SubSeq(text, q + 1, e - 1), n),
                          y \in Means(0, after(e), n)} :
                      e \in {e \in at(":") : e > q} } : q \in at("?") }
    ELSE IF level <= Len(Levels) THEN
      Means(level + 1, text, n) \cup
      UNION { {Both(text[k], x, y) : x \in Means(level, before(k), n),
                                     y \in Means(level + 1, after(k), n)} :
              k \in {k \in DOMAIN text : single(k)} } \cup
      UNION { {Both(text[k - 1] \o text[k], x, y) :
                 x \in Means(level, before(k - 1), n),
                 y \in Means(level + 1, after(k), n)} :
              k \in {k \in DOMAIN text : double(k)} }
    ELSE IF stripped = <<"n">> THEN {{n}}
    ELSE IF stripped # <<>> /\ \A k \in DOMAIN stripped : stripped[k] \in DOMAIN Digit
      THEN {{Number(stripped)}}
    ELSE IF stripped # <<>> /\ stripped[1] = "!"
      THEN {{Bool(v = 0) : v \in x} : x \in Means(level, Tail(stripped), n)}
    ELSE IF Len(stripped) > 1 /\ stripped[1] = "(" /\ Last(stripped) = ")"
      THEN Means(0, SubSeq(stripped, 2, Len(stripped) - 1), n)
    ELSE {}

(* What stands between the = of the last field named plural and its end.     *)
LastRule ==
    LET inked(k) == k \in DOMAIN attribute /\ attribute[k] \notin Blank
        starts == {k \in DOMAIN attribute :
          /\ attribute[k] = "plural"
          /\ \A j \in 1 .. k - 1 : inked(j) =>
                \E i \in j .. k - 1 : attribute[i] = ";"
          /\ \E j \in k + 1 .. Len(attribute) :
                attribute[j] = "=" /\ \A i \in k + 1 .. j - 1 : ~inked(i)}
        from == Max(starts)
        eq == Min({k \in DOMAIN attribute : k > from /\ attribute[k] = "="})
        to == Min({k \in DOMAIN attribute : k > from /\ attribute[k] = ";"}
                    \cup {Len(attribute) + 1})
    IN IF starts = {} THEN <<>> ELSE SubSeq(attribute, eq + 1, to - 1)

(* Properties *)

(* The form shown for a count is what the rule means in C: its precedence,   *)
(* associativity and short circuits, 0 where it divides by zero, and form 0  *)
(* always if it is not a rule, or is not there, or is followed by another    *)
(* plural= that is none (expr_parser.cpp, node.hpp, plurals.cpp:12-26).      *)
FormFollowsRule ==
    (lex # Null) =>
        LET meaning == Means(0, LastRule, count) IN
        {form} = IF meaning = {} \/ meaning = {{}} THEN {0} ELSE UNION meaning

(* A rule other than the default was in the file from its first to its last  *)
(* character: no beginning of a text that is not a rule is taken for one.    *)
NoPartOfATextIsARule ==
    lex \notin {Null, DefaultRule} => Means(0, LastRule, count) # {}

==============================================================================
