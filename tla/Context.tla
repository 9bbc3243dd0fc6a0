-------------------------------- MODULE Context --------------------------------
(***************************************************************************)
(* What lngs mustache offers to a template of the user's: the strings of   *)
(* an .idl in sections (mstch_engine.cpp, expand_context), each under its  *)
(* key in five styles and with its warped texts; and the print of all      *)
(* that --debug leaves next to the .idl (cmd_write_mustache.cpp).          *)
(*                                                                         *)
(* A node is [is, of]: a text, an atom (a number or a Boolean), an array   *)
(* or a map.  The head of the .idl, which goes in as it is, is left out;   *)
(* so are line breaks and tabs between the nodes of the print.             *)
(***************************************************************************)
EXTENDS Integers, Sequences, SequencesExt, FiniteSetsExt

CONSTANTS
    Escapes,         (* characters with an escape sequence, and its letter   *)
    Spelling,        (* the characters of every key                          *)
    Alphabetical,    (* all keys, in their order                             *)
    Capital,         (* the capital of every small letter                    *)
    Alike            (* letters that have a look-alike to be warped into     *)

P == INSTANCE Pot WITH Before <- LAMBDA k, l : FALSE, Years <- <<>>, NoYear <- 0

String(text) == [is |-> "string", of |-> text]
Atom(value)  == [is |-> "atom", of |-> value]
Array(nodes) == [is |-> "array", of |-> nodes]
Map(nodes)   == [is |-> "map", of |-> nodes]

Bool(truth) == Atom(IF truth THEN "true" ELSE "false")

------------------------------------------------------------------------------
(* Styles *)

upper(c) == IF c \in DOMAIN Capital THEN Capital[c] ELSE c
lower(c) ==
    IF \E small \in DOMAIN Capital : Capital[small] = c
      THEN CHOOSE small \in DOMAIN Capital : Capital[small] = c ELSE c

snake_case(key) == [i \in DOMAIN key |-> lower(key[i])]
MACRO_CASE(key) == [i \in DOMAIN key |-> upper(key[i])]
kebab_case(key) == [i \in DOMAIN key |-> IF key[i] = "_" THEN "-" ELSE lower(key[i])]

(* Mutant: a word begins behind an underscore, and that is all it takes.     *)
camelOrPascal_Flat(key, pascal) ==
    FlattenSeq([i \in DOMAIN key |->
        IF key[i] = "_" THEN <<>>
        ELSE IF i = 1 /\ pascal THEN << upper(key[i]) >>
        ELSE << lower(key[i]) >>])

(* An underscore goes, and the next letter begins a word.                    *)
camelOrPascal(key, pascal) ==
    LET new_word(i) == IF i = 1 THEN pascal ELSE key[i - 1] = "_"
    IN FlattenSeq([i \in DOMAIN key |->
           IF key[i] = "_" THEN <<>>
           ELSE IF new_word(i) THEN << upper(key[i]) >>
           ELSE << lower(key[i]) >>])

Styled(key) ==
    [snake |-> snake_case(key), macro |-> MACRO_CASE(key), kebab |-> kebab_case(key),
     pascal |-> camelOrPascal(key, TRUE), camel |-> camelOrPascal(key, FALSE)]

------------------------------------------------------------------------------
(* The context *)

(* Mutant: the quotes are left as they are.                                  *)
escape_Quotes(text) ==
    FlattenSeq([i \in DOMAIN text |->
        IF text[i] \in DOMAIN Escapes \ {"\""} THEN <<"\\", Escapes[text[i]]>>
        ELSE <<text[i]>>])

escape(text) ==
    FlattenSeq([i \in DOMAIN text |->
        IF text[i] \in DOMAIN Escapes THEN <<"\\", Escapes[text[i]]>>
        ELSE <<text[i]>>])

warp(text) ==
    [i \in DOMAIN text |-> IF text[i] \in DOMAIN Alike THEN Alike[text[i]] ELSE text[i]]

(* str_transform::from, with the transforms of mustache::write               *)
from(str) ==
    LET value  == escape(str.value)
        plural == escape(str.plural)
        styled == Styled(Spelling[str.key])
    IN Map([key     |-> String(Spelling[str.key]),
            value   |-> String(value),
            help    |-> String(P!Straighten(str.help)),
            plural  |-> String(plural),
            id      |-> Atom(str.id),
            case    |-> Map([style \in DOMAIN styled |-> String(styled[style])]),
            warpped |-> Map([value |-> String(warp(value)),
                             plural |-> String(warp(plural))])])

(* Every key of the file in order, and the first string that has it          *)
ByKey(strs) ==
    LET Place(key) == CHOOSE n \in DOMAIN Alphabetical : Alphabetical[n] = key
        ids == SortSeq([n \in DOMAIN strs |-> strs[n].key],
                       LAMBDA k, l : Place(k) < Place(l))
    IN [n \in DOMAIN ids |-> strs[Min({m \in DOMAIN strs : strs[m].key = ids[n]})]]

expand_context(strs) ==
    LET singular == SelectSeq(strs, LAMBDA str : str.plural = <<>>)
        plural   == SelectSeq(strs, LAMBDA str : str.plural # <<>>)
        Each(some) == Array([n \in DOMAIN some |-> from(some[n])])
    IN Map([with_singular |-> Bool(singular # <<>>),
            with_plural   |-> Bool(plural # <<>>),
            with_strings  |-> Bool(strs # <<>>),
            singular      |-> Each(singular),
            plural        |-> Each(plural),
            strings       |-> Each(ByKey(strs))])

------------------------------------------------------------------------------
(* context_printer *)

MapKeys == <<"camel", "case", "help", "id", "kebab", "key", "macro", "pascal",
             "plural", "singular", "snake", "strings", "value", "warpped",
             "with_plural", "with_singular", "with_strings">>

Quoted(text) == <<"\"">> \o escape(text) \o <<"\"">>

(* Mutant: the comma is printed behind the last item, too.                   *)
print_list_Behind(items, pre, post) ==
    <<pre>> \o FlattenSeq([n \in DOMAIN items |-> Append(items[n], ",")]) \o <<post>>

print_list(items, pre, post) ==
    <<pre>>
    \o FlattenSeq([n \in DOMAIN items |->
          IF n = 1 THEN items[n] ELSE <<",">> \o items[n]])
    \o <<post>>

RECURSIVE print_item(_)
print_item(node) ==
    LET keys == SelectSeq(MapKeys, LAMBDA k : k \in DOMAIN node.of) IN
    CASE node.is = "string" -> Quoted(node.of)
      [] node.is = "atom"   -> << node.of >>
      [] node.is = "array"  ->
            print_list([n \in DOMAIN node.of |-> print_item(node.of[n])], "[", "]")
      [] node.is = "map"    ->
            print_list([n \in DOMAIN keys |->
                          Append(Quoted(<<keys[n]>>), ":") \o print_item(node.of[keys[n]])],
                       "{", "}")

------------------------------------------------------------------------------
(* A reader of JSON (RFC 8259): what is at a place of a text, and where it   *)
(* ends.                                                                     *)

JsonEscapes == [c \in {"\"", "\\", "b", "f", "n", "r", "t"} |->
    CASE c = "b" -> "BS" [] c = "f" -> "\f" [] c = "n" -> "\n"
      [] c = "r" -> "\r" [] c = "t" -> "\t" [] OTHER -> c]

Control == {"\n", "\r", "\t", "\f", "BEL", "BS", "VT"}

NoJson == [ok |-> FALSE, node |-> Atom("null"), to |-> 0]
Json(node, to) == [ok |-> TRUE, node |-> node, to |-> to]

CharAt(text, at) == IF at \in DOMAIN text THEN text[at] ELSE "end"

RECURSIVE JsonString(_, _, _)
JsonString(text, at, value) ==
    LET c    == CharAt(text, at)
        next == CharAt(text, at + 1)
    IN CASE c = "\"" -> Json(String(value), at + 1)
         [] c = "\\" /\ next \in DOMAIN JsonEscapes ->
               JsonString(text, at + 2, Append(value, JsonEscapes[next]))
         [] c \notin {"\"", "\\", "end"} \cup Control ->
               JsonString(text, at + 1, Append(value, c))
         [] OTHER -> NoJson

RECURSIVE JsonValue(_, _), JsonItems(_, _, _, _)
JsonValue(text, at) ==
    LET c == CharAt(text, at) IN
    CASE c = "\"" -> JsonString(text, at + 1, <<>>)
      [] c \in {"[", "{"} -> JsonItems(text, at + 1, <<>>, c)
      [] c \in {"end", "]", "}", ",", ":"} -> NoJson
      [] OTHER -> Json(Atom(c), at + 1)

(* The items read so far, each a key and a node; those of arrays have "".    *)
JsonItems(text, at, items, open) ==
    LET close == IF open = "[" THEN "]" ELSE "}"
        key   == IF open = "{" THEN JsonString(text, at + 1, <<>>)
                 ELSE Json(String(<<"">>), at - 1)
        isKey == open = "{" => /\ CharAt(text, at) = "\"" /\ key.ok
                               /\ CharAt(text, key.to) = ":"
        item  == JsonValue(text, key.to + 1)
        all   == Append(items, <<key.node.of, item.node>>)
        List(some) ==
            IF open = "[" THEN Array([n \in DOMAIN some |-> some[n][2]])
            ELSE Map([k \in {some[n][1][1] : n \in DOMAIN some} |->
                        (CHOOSE pair \in ToSet(some) : pair[1] = <<k>>)[2]])
    IN IF items = <<>> /\ CharAt(text, at) = close THEN Json(List(<<>>), at + 1)
       ELSE IF ~isKey \/ ~item.ok THEN NoJson
       ELSE IF CharAt(text, item.to) = close THEN Json(List(all), item.to + 1)
       ELSE IF CharAt(text, item.to) = "," THEN JsonItems(text, item.to + 1, all, open)
       ELSE NoJson

IsJsonOf(text, node) ==
    LET read == JsonValue(text, 1)
    IN read.ok /\ read.node = node /\ read.to = Len(text) + 1

==============================================================================
