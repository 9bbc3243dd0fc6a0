----------------------------- MODULE ToolStrings ------------------------------
(***************************************************************************)
(* The messages of the tool itself (app/src/lngs.cpp, main_strings): those *)
(* of an installed language, those of the same language in the build tree, *)
(* and those compiled in, in this order.  A tool linked with its languages *)
(* (LNGS_LINKED_RESOURCES) opens one from memory; the one that compiles    *)
(* them (LNGS_ZERO) has none.                                              *)
(*                                                                         *)
(* One open is one step here: Translation and Storage take it apart.       *)
(* Installing another version replaces files while the tool starts.        *)
(***************************************************************************)
EXTENDS Integers, Sequences, FiniteSets

CONSTANTS
    Langs,
    NoCulture,   (* an ATTR_CULTURE that is not there                        *)
    System,      (* what system_locales returned                             *)
    Texts,       (* what a language file may hold: [valid, serial, culture,  *)
                 (* strings], the strings those it has a text for            *)
    NoText,      (* no file, nothing open                                    *)
    Serial,      (* the serial the tool was compiled with                    *)
    Builtin,     (* the text compiled into it                                *)
    Resources,   (* embedded_languages.cpp: a text for some of the languages *)
    MaxWrites    (* bound: files replaced                                    *)

Dirs == {"install", "build"}

(* Installed and built files lie where their culture says, if they say.      *)
Lies(text, lang) == text = NoText \/ text.culture \in {lang, NoCulture}

ToolAssumption ==
    /\ System \in Seq(Langs)
    /\ NoCulture \notin Langs
    /\ \A text \in Texts : text.culture \in Langs \cup {NoCulture}
    /\ DOMAIN Resources \subseteq Langs
    /\ \A lang \in DOMAIN Resources : Lies(Resources[lang], lang)
    /\ NoText \notin Texts /\ Builtin # NoText
    /\ MaxWrites \in Nat

VARIABLES
    kind,        (* "files", "linked" or "zero": how the tool was compiled   *)
    disk,        (* the files in the two directories                         *)
    install,     (* what m_install has open, or NoText                       *)
    build,       (* what m_build has open, or NoText                         *)
    builtin,     (* init_builtin was called                                  *)
    todo,        (* the rest of the list a walk is at                        *)
    pc,
    writes

vars == <<kind, disk, install, build, builtin, todo, pc, writes>>

------------------------------------------------------------------------------
(* Mutant: the serial is not looked at.                                      *)
Answer_AnySerial(text) ==
    IF text # NoText /\ text.valid THEN text ELSE NoText

(* What an open finds, of what is there.                                     *)
Answer(text) ==
    IF text # NoText /\ text.valid /\ text.serial = Serial THEN text ELSE NoText

(* lngs_res.cpp, the table of messages that lngs res has made of lngs.idl,   *)
(* and the messages, enum class lng, that lngs enums has made of it.         *)
Resource == Builtin
Messages == Resource.strings

InMemory(lang) == kind = "linked" /\ lang \in DOMAIN Resources

(* MemoryBased::open: a language there is no resource for leaves the one     *)
(* open before, a resource that is not right closes it.                      *)
OpenResource(lang) ==
    IF InMemory(lang) THEN Answer(Resources[lang]) ELSE build

OpenBuild(lang) ==
    IF kind = "files" THEN Answer(disk["build"][lang]) ELSE OpenResource(lang)

Opens(lang) ==
    IF kind = "files" THEN OpenBuild(lang) # NoText
    ELSE InMemory(lang) /\ OpenResource(lang) # NoText

------------------------------------------------------------------------------
(* main_strings::get: the first of these that has a text for the message.    *)

Has(text, id) == text # NoText /\ id \in text.strings

(* Mutant: an installed file answers, empty or not.                          *)
Get_NoFallback(id) ==
    IF install # NoText THEN (IF Has(install, id) THEN install ELSE NoText)
    ELSE IF Has(build, id) THEN build
    ELSE IF builtin /\ Has(Resource, id) THEN Resource
    ELSE NoText

Get(id) ==
    IF Has(install, id) THEN install
    ELSE IF Has(build, id) THEN build
    ELSE IF builtin /\ Has(Resource, id) THEN Resource
    ELSE NoText

------------------------------------------------------------------------------
(* main_strings::main_strings                                                *)

Init ==
    /\ kind \in {"files", "linked", "zero"}
    /\ disk \in [Dirs -> {there \in [Langs -> Texts \cup {NoText}] :
                           \A lang \in Langs : Lies(there[lang], lang)}]
    /\ install = NoText /\ build = NoText
    /\ builtin = FALSE
    /\ todo = System
    /\ pc = "start"
    /\ writes = 0

Replace(dir, lang, text) ==
    /\ writes < MaxWrites
    /\ text \in {t \in Texts \cup {NoText} : Lies(t, lang)}
    /\ disk' = [disk EXCEPT ![dir][lang] = text]
    /\ writes' = writes + 1
    /\ UNCHANGED <<kind, install, build, builtin, todo, pc>>

Start ==
    /\ pc = "start"
    /\ builtin' = TRUE
    /\ pc' = IF kind = "files" THEN "install" ELSE "build"
    /\ UNCHANGED <<kind, disk, install, build, todo, writes>>

(* m_install.open_first_of: a language that says which one it is, the build  *)
(* tree is asked for; otherwise, or if there is none, for the whole list.    *)
TryInstall ==
    /\ pc = "install" /\ todo # <<>>
    /\ install' = Answer(disk["install"][Head(todo)])
    /\ IF install' = NoText
         THEN pc' = pc /\ todo' = Tail(todo)
         ELSE /\ pc' = IF install'.culture # NoCulture THEN "adopt" ELSE "build"
              /\ todo' = System
    /\ UNCHANGED <<kind, disk, build, builtin, writes>>

(* Mutant: the second walk has nothing left to walk along.                   *)
NoneInstalled_Spent ==
    /\ pc = "install" /\ todo = <<>>
    /\ pc' = "build"
    /\ UNCHANGED <<kind, disk, install, build, builtin, todo, writes>>

NoneInstalled ==
    /\ pc = "install" /\ todo = <<>>
    /\ todo' = System
    /\ pc' = "build"
    /\ UNCHANGED <<kind, disk, install, build, builtin, writes>>

(* Mutant: any language the build tree has will do.                          *)
Adopt_Any ==
    /\ pc = "adopt"
    /\ pc' = "build"
    /\ UNCHANGED <<kind, disk, install, build, builtin, todo, writes>>

(* m_build.open of that language; whether it opens is not asked.             *)
Adopt ==
    /\ pc = "adopt"
    /\ build' = OpenBuild(install.culture)
    /\ pc' = "ready"
    /\ UNCHANGED <<kind, disk, install, builtin, todo, writes>>

TryBuild ==
    /\ pc = "build" /\ todo # <<>>
    /\ IF kind = "zero" THEN UNCHANGED build ELSE build' = OpenBuild(Head(todo))
    /\ pc' = IF Opens(Head(todo)) THEN "ready" ELSE pc
    /\ todo' = Tail(todo)
    /\ UNCHANGED <<kind, disk, install, builtin, writes>>

NoneBuilt ==
    /\ pc = "build" /\ todo = <<>>
    /\ pc' = "ready"
    /\ UNCHANGED <<kind, disk, install, build, builtin, todo, writes>>

Next ==
    \/ \E dir \in Dirs, lang \in Langs, text \in Texts \cup {NoText} :
          Replace(dir, lang, text)
    \/ Start \/ TryInstall \/ NoneInstalled \/ Adopt \/ TryBuild \/ NoneBuilt

Spec == Init /\ [][Next]_vars

------------------------------------------------------------------------------
(* Properties *)

(* No message of the tool is ever empty, whichever directories there are,    *)
(* whichever strings their files lack and whatever is installed meanwhile    *)
(* (lngs.cpp:256-264).                                                       *)
EveryMessageIsThere ==
    pc # "start" => \A id \in Messages : Get(id) # NoText

(* An installed language that says which one it is never shares the screen   *)
(* with another one, the compiled-in language aside: the build tree stands   *)
(* in with the same language or not at all (lngs.cpp:237-243).               *)
OneLanguage ==
    (pc = "ready" /\ install # NoText /\ install.culture # NoCulture) =>
        \A id \in Messages :
            Get(id) = Builtin \/ Get(id).culture \in {install.culture, NoCulture}

(* Numbers mean the same strings for one serial only: whatever version is    *)
(* installed or built while the tool starts, it reads no other one's.        *)
OwnSerialOnly ==
    \A text \in {install, build} \ {NoText} : text.valid /\ text.serial = Serial

Usable(text) == text # NoText /\ text.valid /\ text.serial = Serial

(* The first language of the list that one may use, of those there are.      *)
FirstOf(langs) ==
    LET places == {n \in DOMAIN System : System[n] \in langs} IN
    IF places = {} THEN {} ELSE {System[CHOOSE n \in places :
                                          \A m \in places : n <= m]}

Provided(texts) == {lang \in DOMAIN texts : Usable(texts[lang])}

(* If nothing is replaced meanwhile, the tool speaks the first language of   *)
(* the user's list that is installed; if none is, the first the build tree   *)
(* has; a linked tool the first it was linked with.                          *)
UsersChoice ==
    (pc = "ready" /\ writes = 0) =>
        LET installed == FirstOf(Provided(disk["install"]))
            built == FirstOf(IF kind = "files" THEN Provided(disk["build"])
                             ELSE IF kind = "linked" THEN Provided(Resources)
                             ELSE {})
        IN IF kind = "files" /\ installed # {}
             THEN \E lang \in installed : install = disk["install"][lang]
             ELSE /\ install = NoText
                  /\ built = {} => build = NoText
                  /\ \A lang \in built :
                        build = IF kind = "files" THEN disk["build"][lang]
                                ELSE Resources[lang]

(* All messages are there, in the language of the user's choice and not in   *)
(* two at once, and none is read by another version's number, while another  *)
(* version of the tool is being installed (lngs.cpp:232-264).                *)
ToolSpeaksOneLanguage ==
    EveryMessageIsThere /\ OneLanguage /\ OwnSerialOnly /\ UsersChoice

==============================================================================
