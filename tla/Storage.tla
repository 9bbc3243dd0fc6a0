------------------------------- MODULE Storage --------------------------------
(***************************************************************************)
(* storage::FileWithBuiltin (libs/liblngs/include/lngs/lngs_storage.hpp):  *)
(* the strings of one open language over the strings compiled into the     *)
(* program, the walk of open_first_of over a list of languages, and the    *)
(* list of known cultures with its path managers.                          *)
(*                                                                         *)
(* The translation inside is the source of strings StringSource describes, *)
(* which Translation implements: it is asked for a file and a serial and   *)
(* answers or refuses, calling its listeners either way.  A listener may   *)
(* read strings and may open a language itself, in the middle of the walk. *)
(* What is on disk changes between any two steps.                          *)
(***************************************************************************)
EXTENDS Integers, Sequences, FiniteSets

CONSTANTS
    Langs,       (* the language names in use, "" (NoCulture) among them     *)
    NoCulture,   (* an ATTR_CULTURE that is not there                        *)
    Paths,       (* the entries a path manager looks at                      *)
    Expand,      (* its expand: the path of a language                       *)
    Lists,       (* the lists open_first_of may be called with               *)
    Texts,       (* what a language file may hold: [valid, serial, culture,  *)
                 (* rule, forms, keys], forms telling for every string which *)
                 (* of its plural forms are filled in, keys its key if any   *)
    Builtin,     (* the text compiled into the program                       *)
    Serial,      (* VersionedFile::serial_number                             *)
    UseAny,
    Rules,       (* functions from a count to the index of a plural form     *)
    NoLex,       (* an unset plurals::lexical                                *)
    Ids, Counts,
    NoKey,       (* of a string in a file without a block of keys            *)
    NoPath,
    Disks,       (* the directories a program may start with                 *)
    MaxCalls,    (* bound: calls of open and open_first_of                   *)
    MaxWrites    (* bound: changes on disk                                   *)

Missing == [kind |-> "none", text |-> Builtin]

(* A path may be anything else, too: a directory where a file is looked for. *)
Entries == {Missing, [kind |-> "other", text |-> Builtin]}
             \cup [kind : {"file"}, text : Texts]

Serials == {Serial, UseAny} \cup {t.serial : t \in Texts}

ASSUME StorageAssumption ==
    /\ Expand \in [Langs -> Paths]
    /\ \A k, l \in Langs : Expand[k] = Expand[l] => k = l
    /\ NoCulture \in Langs
    /\ Lists \subseteq Seq(Langs)
    /\ Disks \subseteq [Paths -> Entries]
    /\ Serial # UseAny           (* the largest unsigned: not one freeze sets *)
    /\ Builtin.valid /\ Builtin.rule \in Rules /\ NoLex \notin Rules
    /\ Builtin \notin Texts       (* strings are told apart by their origin *)
    /\ \A k, l \in Ids :          (* the enumerators the header was made of *)
          Builtin.keys[k] = Builtin.keys[l] => k = l \/ Builtin.keys[k] = NoKey
    /\ \A t \in Texts \cup {Builtin} :
          /\ t.culture \in Langs /\ t.rule \in Rules
          /\ t.forms \in [Ids -> Seq(BOOLEAN)]
          /\ t.serial = Serial => \A id \in Ids :
                t.keys[id] \in {Builtin.keys[id], NoKey}
    /\ Rules \subseteq [Counts -> Int]
    /\ NoPath \notin Paths
    /\ MaxCalls \in Nat /\ MaxWrites \in Nat

VARIABLES
    disk,        (* what every path is: [kind, text]                         *)
    asked, pending, served,   (* the translation, see StringSource           *)
    lex,         (* the plural rule its lang_file compiled last, or NoLex    *)
    builtin,     (* init_builtin was called                                  *)
    todo,        (* languages open_range has not tried yet                   *)
    pc,          (* "app", "walk": between two tries, "open": inside open,   *)
                 (* "told": a listener is running                            *)
    inner,       (* the open in progress was called by that listener         *)
    answer,      (* what the last outer open returned                        *)
    tried,       (* history: the languages this walk has tried               *)
    meddled,     (* history: a listener opened a language in this walk       *)
    calls, writes

files  == <<disk, writes>>
source == <<asked, pending, served>>
walk   == <<todo, pc, inner, answer, tried, meddled, calls>>
vars   == <<files, source, walk, lex, builtin>>

B1 == INSTANCE StringSource WITH Serials <- Serials \ {UseAny}

------------------------------------------------------------------------------
(* The directory                                                             *)

WriteEntry(path, entry) ==
    /\ writes < MaxWrites
    /\ disk' = [disk EXCEPT ![path] = entry]
    /\ writes' = writes + 1
    /\ UNCHANGED <<source, walk, lex, builtin>>

(* manager::SubdirPath::known and ExtensionPath::known: regular files in the *)
(* directories, and those the extension of which is taken off, only.         *)
Listed == {path \in Paths : disk[path].kind = "file"}

(* Mutant: the culture is believed, wherever the file is.                    *)
KnownAt_Unchecked == {path \in Listed : disk[path].text.valid}

(* translation::known, by path: files that open and lie where their culture  *)
(* attribute says.                                                           *)
KnownAt ==
    {path \in Listed : /\ disk[path].text.valid
                       /\ Expand[disk[path].text.culture] = path}

Known == {[lang |-> disk[path].text.culture, at |-> path] : path \in KnownAt}

------------------------------------------------------------------------------
(* Reading strings.  A string is named by the text it is from and its form.  *)

Nothing == [text |-> {}, form |-> 0]

(* lang_file::get_string(id): the bytes up to the first zero.                *)
Singular(text, id) ==
    IF text.forms[id] # <<>> /\ text.forms[id][1]
      THEN [text |-> {text}, form |-> 0] ELSE Nothing

(* lang_file::get_string(id, count): the form the rule names, the first one  *)
(* if there is no such form.                                                 *)
Plural(text, rule, id, count) ==
    LET form == rule[count] IN
    IF form \notin 0 .. Len(text.forms[id]) - 1 THEN Singular(text, id)
    ELSE IF text.forms[id][form + 1] THEN [text |-> {text}, form |-> form]
    ELSE Nothing

Open == served # {}

OpenText == (CHOOSE s \in served : TRUE).text

(* The rule calc_substring goes by: compiled once, from the text open then.  *)
RuleInUse == IF lex = NoLex THEN OpenText.rule ELSE lex

B1Singular(id) == IF Open THEN Singular(OpenText, id) ELSE Nothing

B1Plural(id, count) ==
    IF Open THEN Plural(OpenText, RuleInUse, id, count) ELSE Nothing

(* FileWithBuiltin::get_string(id).  The built-in file is asserted to be     *)
(* there when it is asked (lngs_storage.hpp:123-147): these operators are    *)
(* for a program that has called init_builtin, or finds what it asks for in  *)
(* the open language.                                                        *)
GetString(id) ==
    IF B1Singular(id) # Nothing THEN B1Singular(id) ELSE Singular(Builtin, id)

(* Mutant: the rule of the open language chooses among the built-in forms.   *)
GetStringPlural_OneRule(id, count) ==
    IF B1Plural(id, count) # Nothing THEN B1Plural(id, count)
    ELSE Plural(Builtin, IF Open THEN RuleInUse ELSE Builtin.rule, id, count)

(* FileWithBuiltin::get_string(id, count): each file has a rule of its own.  *)
GetStringPlural(id, count) ==
    IF B1Plural(id, count) # Nothing THEN B1Plural(id, count)
    ELSE Plural(Builtin, Builtin.rule, id, count)

(* get_key of the open language, and of FileWithBuiltin                      *)
B1GetKey(id) == IF Open THEN OpenText.keys[id] ELSE NoKey

GetKey(id) ==
    IF B1GetKey(id) # NoKey THEN B1GetKey(id) ELSE Builtin.keys[id]

FindIn(text, key) == {id \in Ids : text.keys[id] = key}

B1FindKey(key) == IF Open THEN FindIn(OpenText, key) ELSE {}

(* Mutant: the keys are those of the open language.                          *)
FindKey_OpenOnly(key) == B1FindKey(key)

(* FileWithBuiltin::find_key, {} for the largest uint32_t                    *)
FindKey(key) ==
    IF B1FindKey(key) # {} THEN B1FindKey(key) ELSE FindIn(Builtin, key)

------------------------------------------------------------------------------
Init ==
    /\ disk \in Disks
    /\ B1!Init
    /\ lex = NoLex
    /\ builtin = FALSE
    /\ todo = <<>>
    /\ pc = "app"
    /\ inner = FALSE
    /\ answer = FALSE
    /\ tried = <<>>
    /\ meddled = FALSE
    /\ calls = 0
    /\ writes = 0

InitBuiltin ==
    /\ pc = "app"
    /\ builtin' = TRUE
    /\ UNCHANGED <<files, source, walk, lex>>

(* Reading a plural compiles the rule, if the string is there at all.  A     *)
(* program without its built-in strings must not ask for a form that is not  *)
(* filled in: it would be looked for in them.                                *)
ReadPlural(id) ==
    /\ pc \in {"app", "told"} /\ Open
    /\ builtin \/ \E count \in Counts : B1Plural(id, count) # Nothing
    /\ OpenText.forms[id] # <<>>
    /\ lex' = RuleInUse
    /\ UNCHANGED <<files, source, walk, builtin>>

------------------------------------------------------------------------------
(* open_first_of, and open: a list of one                                    *)

(* open_range begins; VersionedFile::open_first_of passes its own serial.    *)
OpenFirstOf(langs) ==
    /\ pc = "app"
    /\ calls < MaxCalls
    /\ calls' = calls + 1
    /\ todo' = langs
    /\ tried' = <<>>
    /\ meddled' = FALSE
    /\ answer' = FALSE
    /\ pc' = "walk"
    /\ UNCHANGED <<files, source, lex, builtin, inner>>

(* Mutant: the same language is tried again.                                 *)
TryNext_Same ==
    /\ pc = "walk" /\ todo # <<>>
    /\ B1!Ask(Expand[Head(todo)], Serial)
    /\ pc' = "open"
    /\ UNCHANGED <<files, lex, builtin, todo, inner, answer, tried, meddled,
                   calls>>

TryNext ==
    /\ pc = "walk" /\ todo # <<>>
    /\ B1!Ask(Expand[Head(todo)], Serial)
    /\ todo' = Tail(todo)
    /\ tried' = Append(tried, Head(todo))
    /\ pc' = "open"
    /\ UNCHANGED <<files, lex, builtin, inner, answer, meddled, calls>>

(* The list is used up.                                                      *)
NoneOpened ==
    /\ pc = "walk" /\ todo = <<>>
    /\ answer' = FALSE
    /\ pc' = "app"
    /\ UNCHANGED <<files, source, lex, builtin, todo, inner, tried, meddled,
                   calls>>

(* A listener opens a language of its own choice.  Listeners are called for  *)
(* that open as well; they do not open a third one.                          *)
ListenerOpens(lng) ==
    /\ pc = "told" /\ ~inner
    /\ calls < MaxCalls
    /\ calls' = calls + 1
    /\ B1!Ask(Expand[lng], UseAny)
    /\ inner' = TRUE
    /\ meddled' = TRUE
    /\ pc' = "open"
    /\ UNCHANGED <<files, lex, builtin, todo, answer, tried>>

(* Mutant: a file is refused only when there is none.                        *)
OpenAnswers_Any ==
    /\ pc = "open"
    /\ \/ /\ disk[asked.path].kind = "file"
          /\ served' = {[path |-> asked.path, text |-> disk[asked.path].text]}
          /\ pending' = FALSE
          /\ answer' = (inner => answer)
          /\ UNCHANGED asked
       \/ B1!Refuse /\ answer' = (inner /\ answer)
    /\ pc' = "told"
    /\ UNCHANGED <<files, lex, builtin, todo, inner, tried, meddled, calls>>

(* translation::open answers with what is there, or not at all: the reading  *)
(* may fail.  Its listeners are called.                                      *)
OpenAnswers ==
    /\ pc = "open"
    /\ \/ /\ disk[asked.path].kind = "file"
          /\ B1!Answer(disk[asked.path].text)
          /\ answer' = (inner => answer)
       \/ B1!Refuse /\ answer' = (inner /\ answer)
    /\ pc' = "told"
    /\ UNCHANGED <<files, lex, builtin, todo, inner, tried, meddled, calls>>

(* Mutant: a walk goes on after a language was opened.                       *)
ListenerReturns_GoesOn ==
    /\ pc = "told"
    /\ inner' = FALSE
    /\ pc' = IF inner THEN "told" ELSE "walk"
    /\ UNCHANGED <<files, source, lex, builtin, todo, answer, tried, meddled,
                   calls>>

(* The listener returns, and the open that called it: into the listener that *)
(* made the call, or into the walk, which ends with the first success.       *)
ListenerReturns ==
    /\ pc = "told"
    /\ inner' = FALSE
    /\ pc' = IF inner THEN "told" ELSE IF answer THEN "app" ELSE "walk"
    /\ UNCHANGED <<files, source, lex, builtin, todo, answer, tried, meddled,
                   calls>>

------------------------------------------------------------------------------
Running == TryNext \/ NoneOpened \/ OpenAnswers \/ ListenerReturns

Next ==
    \/ \E path \in Paths, entry \in Entries : WriteEntry(path, entry)
    \/ InitBuiltin
    \/ \E id \in Ids : ReadPlural(id)
    \/ \E langs \in Lists : OpenFirstOf(langs)
    \/ \E lng \in Langs : ListenerOpens(lng)
    \/ Running

Spec == Init /\ [][Next]_vars

(* The walk runs on by itself, if the listeners it calls return.             *)
FairSpec == Spec /\ WF_vars(Running)

------------------------------------------------------------------------------
(* Properties *)

(* Once the built-in strings are there, none of theirs is ever missing, in a *)
(* listener called half-way through a walk either, whatever forms the open   *)
(* language lacks and whatever rule is stuck in it; and a plural that the    *)
(* built-in strings stand in for is the form their own rule asks for         *)
(* (lngs_storage.hpp:170-181).                                               *)
NothingIsMissing ==
    builtin => \A id \in Ids :
        /\ Singular(Builtin, id) # Nothing => GetString(id) # Nothing
        /\ \A count \in Counts :
              LET string == GetStringPlural(id, count) IN
              /\ Plural(Builtin, Builtin.rule, id, count) # Nothing
                    => string # Nothing
              /\ string.text = {Builtin} =>
                    string = Plural(Builtin, Builtin.rule, id, count)

(* A key that was read leads back to its string, whichever of the two files  *)
(* have a block of keys: languages are often made without one, and a search  *)
(* in the one may follow a reading in the other (lngs_storage.hpp:188-198).  *)
KeysLeadBack ==
    (builtin /\ (Open => OpenText.serial = Serial)) =>
        \A id \in Ids : GetKey(id) # NoKey => FindKey(GetKey(id)) = {id}

(* When open_first_of said yes, the language that is open is the one it was  *)
(* at, with the serial of the program, unless a listener opened another; and *)
(* when it said no after trying a language, none is open: the one that was   *)
(* open before is gone (lngs_storage.hpp:52-59).                             *)
WalkAnswersForWhatIsOpen ==
    (pc = "app" /\ tried # <<>> /\ ~meddled) =>
        /\ answer <=> Open
        /\ answer \/ todo = <<>>
        /\ Open => /\ OpenText.valid /\ OpenText.serial = Serial
                   /\ asked.path = Expand[tried[Len(tried)]]
                   /\ OpenText.serial = asked.serial

(* A walk keeps the language it opened: it tries no other one, which would   *)
(* close it.  Only a listener's own open can, before the walk returns.       *)
WalkKeepsWhatItOpened ==
    [][(pc # "app" /\ answer /\ Open) => (Open' \/ inner')]_vars

(* What known() lists can be opened under the name it lists: the path it     *)
(* expands to is the file it was read from, whole, and no two entries share  *)
(* a name, copies of files under a wrong name notwithstanding                *)
(* (translation.cpp:142-144).                                                *)
KnownCanBeOpened ==
    \A k \in Known :
        /\ disk[Expand[k.lang]].kind = "file"
        /\ disk[Expand[k.lang]].text.valid
        /\ disk[Expand[k.lang]].text.culture = k.lang
        /\ \A l \in Known : l.lang = k.lang => l.at = k.at

(* A storage with built-in strings answers for each of them, whatever is     *)
(* open and whatever rule and forms it has; a key leads back to its string;  *)
(* a walk along a list of languages says of itself what is open in the end,  *)
(* listeners that open others in the middle of it included; and what known() *)
(* lists can be opened (lngs_storage.hpp:54-198, translation.cpp:125-152).   *)
StorageKeepsItsWord ==
    /\ NothingIsMissing
    /\ KeysLeadBack
    /\ WalkAnswersForWhatIsOpen
    /\ KnownCanBeOpened

(* A walk ends, whatever is written to the files it opens and whatever its   *)
(* listeners open.                                                           *)
WalkEnds == pc = "walk" ~> pc = "app"

==============================================================================
