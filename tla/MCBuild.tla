------------------------------- MODULE MCBuild --------------------------------
(***************************************************************************)
(* What a program with translations is built from, and with: small         *)
(* instances of the tables of languages (LangCodes) and the search in them *)
(* (LangSearch), of resources (Resource), of embedded files (Embed) and of *)
(* templates (Templates).  They share nothing while they run, so that a    *)
(* behaviour is one of one part, the others resting where they start.      *)
(***************************************************************************)
EXTENDS LangSearch, BuildParts, NameParts, Sequences, SequencesExt, Functions

VARIABLE part

------------------------------------------------------------------------------
(* A table of the odd numbers, and every key on it, between two of them and  *)
(* beyond its ends.                                                          *)
OddNumbers == [i \in 0 .. Length - 1 |-> 2 * i + 1]
Numbers == 0 .. 2 * Length

------------------------------------------------------------------------------
(* Registries of up to two of the records below, or three of some, in any    *)
(* order, with and without a separator at the end, and tags of what is in    *)
(* them or not.                                                              *)

L(f, v) == [field |-> f, value |-> v]
Record(t, s, rest) == <<L("Type", t), L("Subtag", s)>> \o rest

AllRecords == {
    Record("language", "de", <<L("Description", "German")>>),
    Record("language", "sr", <<L("Description", "Serbian"), L("other", ""),
                               L("Description", "Srpski")>>),
    Record("language", "aa", <<L("Description", "Group"), L("Scope", "c")>>),
    Record("language", "qa", <<L("Description", "Private use"), L("Scope", "p")>>),
    Record("script", "Latn", <<L("Description", "Latin")>>),
    Record("script", "Qaaa", <<L("Description", "Private use")>>),
    Record("region", "AT", <<L("Description", "Austria")>>),
    Record("region", "QM", <<L("Description", "Private use")>>),
    Record("variant", "1996", <<L("Description", "Spelling")>>) }

FewRecords == {r \in AllRecords : r[2].value \in {"de", "aa", "Latn", "AT"}}

Apart(rs) == FoldLeft(LAMBDA text, r : text \o <<L("%%", "")>> \o r, <<L("other", "")>>, rs)
SomeRegistries ==
    { <<L("other", "")>> } \cup
    UNION {{Apart(rs), Append(Apart(rs), L("%%", ""))} :
              rs \in {rs \in UNION {[1 .. n -> AllRecords] : n \in 0 .. 2}
                            \cup [1 .. 3 -> FewRecords] :
                         IsInjective(rs)}}

SomeTags ==
    {<<l>> \o s \o r \o e :
        l \in {"de", "aa"}, s \in {<<>>, <<"-", "Latn">>},
        r \in {<<>>, <<"-", "AT">>, <<"-", "QM", "-", "1996">>},
        e \in {<<>>, <<".", "UTF8">>}}

------------------------------------------------------------------------------
(* Words of two bytes in rows of three, so that a word may begin in one row  *)
(* and end in the next.                                                      *)

One == [id |-> 7, key |-> <<1, 1>>, value |-> <<1>>, plural |-> <<>>]
Two == [id |-> 5, key |-> <<2>>, value |-> <<2, 3>>, plural |-> <<1, 2>>]
Three == [id |-> 6, key |-> <<2, 1>>, value |-> <<1, 2, 1>>, plural |-> <<>>]

SomeStrings == { <<>>, <<One>>, <<Two, Three>> }

LookAlikes == [b \in {1} |-> <<3, 1>>]
OtherThanOne == <<2, 2>>

------------------------------------------------------------------------------
(* Lists of up to three languages, some with names that differ in a hyphen,  *)
(* one in a directory of its own, one that is a word of C++.  No two lists   *)
(* differ in a hyphen alone: the languages of the tool are one list, that    *)
(* grows.                                                                    *)

Path(directories, stem) == [dirs |-> directories, name |-> stem]

lang == << <<"l">> >>
more == << <<"l">>, <<"m">> >>

pl == Path(lang, <<"p", "l">>)
pt_BR == Path(lang, <<"p", "-", "B">>)
ptBR == Path(lang, <<"p", "_", "B">>)
or == Path(lang, <<"o", "r">>)
below == Path(more, <<"p", "l">>)

SomeLists ==
    {<<pl>>, <<pl, pt_BR>>, <<pt_BR, pl>>, <<pt_BR, pl, ptBR>>, <<pl, or>>,
     <<pl, below>>}

KeywordNames == { <<"o", "r">> }
SomeContents == { <<1, 2, 1>>, <<3>> }

------------------------------------------------------------------------------
(* A rendering that uses one partial twice.                                  *)

EnumsTwice == <<"enums", "enum_string", "enum_string">>

------------------------------------------------------------------------------
(* What the parts need of their parameters                                   *)
ASSUME /\ Mustache!TemplatesAssumption /\ Resources!ResourceAssumption
       /\ Embedding!EmbedAssumption /\ Codes!CodesAssumption

codes     == <<registry, cursor, record, subtag, descriptions, tables, phase, query,
               reply>>
resources == <<file, image, view, rpc, uints, ints, serial, attrs, strings,
               keys, origin, defs, options, content, offset>>
embeds    == <<disk, inputs, embedding, header, source, embedded, program,
               writes, runs>>
renders   == <<clock, changes, built, m_additional_templates, templates, todo,
               cache, loading, seen, place, output, quiet>>

all == <<part, vars, codes, resources, embeds, renders>>

Rest(of) == part # of

(* Where the parts that rest do so.                                          *)
BuildInit ==
    /\ part \in {"search", "codes", "resources", "embedding", "mustache"}
    /\ Rest("search") => key = 0
    /\ Init
    /\ Rest("codes") => registry = <<L("other", "")>>
    /\ Codes!Init
    /\ Rest("resources") => defs = <<>> /\ options = [keys |-> TRUE, warp |-> FALSE]
    /\ Resources!Init
    /\ Rest("embedding") => disk = [p \in Embedding!AllPaths |-> <<3>>]
    /\ Embedding!Init
    /\ Rest("mustache") => /\ built = "linked" /\ m_additional_templates = FALSE
                          /\ templates = [dir \in Mustache!Dirs |->
                                [template \in {"enums", "enum_string"} |->
                                    Mustache!Absent]]
    /\ Mustache!Init

BuildNext ==
    \/ /\ part = "search" /\ Next
       /\ UNCHANGED <<part, codes, resources, embeds, renders>>
    \/ /\ part = "codes" /\ Codes!Next
       /\ UNCHANGED <<part, vars, resources, embeds, renders>>
    \/ /\ part = "resources" /\ Resources!Next
       /\ UNCHANGED <<part, vars, codes, embeds, renders>>
    \/ /\ part = "embedding" /\ Embedding!Next
       /\ UNCHANGED <<part, vars, codes, resources, renders>>
    \/ /\ part = "mustache" /\ Mustache!Next
       /\ UNCHANGED <<part, vars, codes, resources, embeds>>

(* A search is a loop that goes on as long as it can, and so is a rendering.  *)
BuildSpec ==
    BuildInit /\ [][BuildNext]_all
        /\ WF_all(/\ part = "search" /\ Next
                  /\ UNCHANGED <<part, codes, resources, embeds, renders>>)
        /\ WF_all(/\ part = "mustache" /\ Mustache!Render
                  /\ UNCHANGED <<part, vars, codes, resources, embeds>>)

------------------------------------------------------------------------------
(* Properties *)

(* The search answers for every key, and every rendering comes to its end    *)
(* (lang_codes.inl:10-27, mstch_engine.cpp:82-98).                           *)
LoopsEnd ==
    /\ part = "search" => SearchEnds
    /\ part = "mustache" => Mustache!RenderingEnds

==============================================================================
