# A verification project for lngs

`lngs` keeps the strings of a program in a catalogue (`.idl`), generates the C++
or Python code that names them, compiles translations (`.po`, `.mo`) into binary
`.lng` files, and gives programs a library that opens those files and looks
strings up, also while other programs replace them.

This directory holds TLA+ models of that system, the TLC configurations that
check them on small instances and proofs, checked by TLAPS, of what holds for
every value of their constants.

1. [The system](#1-the-system)
2. [The modules](#2-the-modules), and how each corresponds to the code
3. [What the runs check](#3-what-the-runs-check)
4. [What is proved](#4-what-is-proved)
5. [What is not modelled, and what is next](#5-what-is-not-modelled-and-what-is-next)

## 1. The system

### Components

| component | code | state | operations | interacts with |
|---|---|---|---|---|
| **translation** | `libs/liblngs/src/translation.cpp` | path and timestamp of the open file, the block of memory read, the reader over it, the map of listeners, the token counter | `open`, `fresh`, `add_onupdate`, `remove_onupdate`, `get_string`, `get_key`, `get_attr`, `known` | file system; listeners (callbacks that may call back); its owner, a storage |
| **lang_file** | `libs/liblngs/src/lang_file.cpp` | pointers into a block somebody else owns, the compiled plural rule | `open`, `close`, getters | translation, `MemoryBased`, plurals |
| **storages** | `include/lngs/lngs_storage.hpp`, `lngs.hpp` | a `shared_ptr` to a translation and/or a built-in catalogue | `init`, `open`, `open_first_of`, `operator()` | translation, generated headers |
| **locale lists** | `libs/liblngs/src/lngs_storage.cpp` | none | `http_accept_language`, `system_locales` | the environment, the C library, storages |
| **plural rules** | `plurals.cpp`, `expr_parser.cpp`, `node.hpp` | a syntax tree | `decode`, `eval` | lang_file |
| **catalogue** | `app/src/strings.cpp` | the parsed `.idl` | `read_strings` | every command |
| **freeze** | `cmds/cmd_freeze_ids.cpp`, `app/src/lngs.cpp` | the `.idl` on disk | `freeze` | version control, an editor |
| **make, enums, res, py** | `cmds/cmd_*.cpp`, `app/src/languages.cpp` | none | generate a release | catalogue, gettext readers, lang_file, the compiler |
| **gettext readers** | `gettext.cpp`, `gettext_plain.cpp` | records read so far | `open` | make |
| **pot, template engine** | `cmds/cmd_write_pot.cpp`, `mstch_engine.cpp` | a template cache | text generation | files, translators |
| **the tool's own strings** | `app/src/lngs.cpp` | installed, build and built-in translations | `open` | storages |
| **main, the commands** | `app/src/lngs.cpp` | the command line, the files | a run of `lngs` | all of `app/` |
| **language tables, embedded files** | `app/src/iana-reg.py`, `lang_codes.inl`, `tools/embed.py`, `tools/update_src.py` | generated sources | generation, lookup | make, the compiler |
| **C interface, Python wrapper** | `libs/liblngs_lite`, `extras/py-lngs` | a handle | thin wrappers | lang_file, the Python runtime |

### What is hard about it

* **Files change while they are read.** A `.lng` is replaced by `lngs make` or a
  package manager while a long running program has it open, or is just opening
  it. `translation::open` samples the timestamp, opens, reads and parses in four
  separate steps; `fresh()` later compares timestamps only. The same goes for
  the templates of a rendering and for the messages of the tool while a new
  version of it is installed.
* **Pointers into a replaceable block.** The reader's sections point into the
  block the translation owns. Open replaces both, on four different ways out.
* **Callbacks.** `open` calls every listener; a listener may add and remove
  listeners, and open another language, whose notification then nests, in the
  middle of `open_first_of`, too.
* **A counter that wraps around** hands out the listeners' tokens.
* **Two artefacts of one source.** A program's header and its `.lng` are built
  at different times. A serial number is all that ties them to each other, and
  identifiers are assigned by position until they are frozen.
* **Outputs are truncated when they are opened**, and `lngs freeze` writes over
  what it has read, without checking a write. Runs are killed, disks run full.
* **Hand-written readers**: of `.idl`, `.po`, `.mo`, `.lng`, plural rules,
  headers of HTTP, lists of names, the registry. Each has an order of characters
  nobody wrote a test for; some read binary offsets out of damaged files.
* **Texts in generated code.** What a translator types ends up in comments and
  literals of two languages.

The hazards are listed at their lines in `PROJECT.json`, with the properties that
would catch them. These have no property, for the reason given:

| hazard | why no property |
|---|---|
| `lngs.cpp:487`: an edit saved between freeze's read and its write is lost | `Catalog` and `Tool` have the interleaving and what is released still agrees; nothing claims that edits are kept |
| `strings.cpp:778`: `max_id` overflows behind an id near `INT_MAX` | ids written by hand are no documented use (`docs/syntax.md:139`); integers have no width in `IdlReader` and `Catalog` |
| `expr_parser.cpp:109`: a rule that ends in a single `&`, <code>&#124;</code> or `=` moves the cursor past the end | `Plurals` has the overrun as a choice: a refused rule, or the end of the program; nothing says which |
| `py_utils.hh:117`: whether the runtime calls the finalizer (`tp_finalize`) of a type that is not allocated on the heap is up to it | `Lite` takes it for called |
| `lngs_storage.cpp:201`: a parameter other than `q` with spaces behind it ends its item | such parameters are no part of Accept-Language; the headers of the run have them without spaces |
| `mstch_engine.cpp:95`: a missing template renders as nothing, the output is empty and the run succeeds | `tests/mstch_engine.cc` expects it; `Templates` and `Tool` have it as an empty text |
| `mstch_engine.cpp:195`: `warpped` warps the letters of escape sequences as well | no template of the repository uses it |
| `embed.py:157`: an empty file becomes an array without elements, whose size is the largest there is | not standard C++; no empty file is embedded in the model |
| `translation.cpp:88`: after an open that found no file, `fresh()` is true, as the time of a file that is not there is that of none | nothing is served then, and nothing says what fresh means |

### What makes each component correct

* translation: no getter reads memory that was given up; what is served was
  asked for; fresh strings are those of the file; a listener is told of the last
  open, the calls end.
* lang_file: every proper prefix of a file is turned down, no accepted header
  leads outside the block, an identifier finds its own string or none, a plural
  index its own form or the singular.
* storages: a string comes from the open language, else from the built-in one,
  by that one's own rule; `open_first_of` leaves the first language open that
  can be, and ends.
* locale lists: what was asked for, in its order, no duplicates, an end.
* plural rules: an accepted rule evaluates as the C expression it is.
* catalogue, freeze, releases: a file is read as it is meant or refused;
  identifiers are unique; freezing changes nothing else; artefacts with one
  serial never disagree on an identifier.
* make: a `.lng` holds the translations of its catalogue and of no damaged one.
* gettext readers: each record reaches its own key; no offset leaves the file.
* pot: gettext can read the template, and what translators make of it comes back.
* enums, py, res, embedded files: the compiler finds what was put in.
* templates: a rendering uses one text of a template throughout.
* the tool: its messages are all there, in one language, the user's; what a run
  says in the end tells what it has left, and one that is refused leaves the old
  output.
* C and Python: every handle is closed by its one owner.

## 2. The modules

| module | models | run |
|---|---|---|
| `StringSource` | abstract: what a program may expect of a translation | implemented by `Translation` (`translation`), used by `Storage` |
| `Translation` | translation, lang_file's life cycle | `translation`, `opening`, `translation_plurals`, `translation_removed` |
| `LngFile` | the `.lng` format: `file::write`, `lang_file::open`, the getters | `opening` |
| `Locales` | the lists of `http_accept_language` and `system_locales` | `opening` |
| `Catalog` | identifiers, freeze, releases | `translation` |
| `Storage` | `FileWithBuiltin`, `open_first_of`, `known`, path managers | `library` |
| `Plurals` | plural rules: attribute, scanner, parser, evaluation | `library` |
| `Lite` | the C interface and the Python module | `library` |
| `ToolStrings` | the messages of the tool itself | `library` |
| `SystemLocales` | the sources of `system_locales`; implements `Locales` | `library` |
| `AcceptLanguage` | the reading of an Accept-Language header | `library` |
| `Tool` | a run of `lngs`, from main to its end | `commands` |
| `IdlReader` | the tokenizer and parser of `.idl`, what freeze writes | `commands`, `freeze_comments` |
| `Make` | `lngs make`: catalogue to `.lng` | `commands`, `make_missing`, `make_list` |
| `GettextPo` | the reader of `.po` | `commands` |
| `GettextMo` | the reader of `.mo` | `commands` |
| `Pot` | `lngs pot`: what a template for translators looks like | `commands`, `po_template` |
| `PoWorkflow` | composes `Pot` and `GettextPo` with a translator | `commands`, `po_template` |
| `Generated` | `lngs enums`, `lngs py`, `lngs mustache`, and their readers | `commands`, `enums_backslash` |
| `Context` | what a template is offered, and the print of it | used by `Generated` |
| `LangCodes` | the tables of languages, the names made from them | `build` |
| `LangSearch` | the binary search in the tables | `build` |
| `Table` | bytes as the text of a C++ array | used by `Resource`, `Embed` |
| `Resource` | `lngs res`: the built-in strings; implements `LngFile` | `build` |
| `Embed` | `embed.py`, `update_src.py`, `get_resource` | `build` |
| `Templates` | where the template engine takes its templates from | `build` |
| `TranslationProofs`, `LngFileProofs`, `LocalesProofs`, `CatalogProofs`, `StorageProofs` | theorems about the module of that name | |
| `PartsProofs` | theorems about `LangCodes`, `Lite`, `ToolStrings`, `Tool`, `GettextMo`, `SystemLocales` | |
| `BuildProofs` | theorems about `LangSearch`, `Templates`, `Resource`, `Embed` | |
| `Facts` | lemmas about numbers, finite sets and sequences, for the others | |
| `LibraryParts`, `CommandParts`, `BuildParts`, `NameParts` | instances of the modules `PartsProofs` and `BuildProofs` are about, and what is promised of them | used by `MCLibrary`, `MCCommands`, `MCBuild` |
| `MCTranslation`, `MCOpening`, `MCLibrary`, `MCCommands`, `MCBuild` | the instances TLC checks | |

Each MC module puts small instances of several modules side by side: strings on
their way from the catalogue to a running program (`MCTranslation`), how a program
comes by them (`MCOpening`), what a program links with (`MCLibrary`), what `lngs` does
when it is run (`MCCommands`), and what is generated for a build (`MCBuild`). Their parts share nothing while they run, as the
code of each does not: what connects them is a file one has finished before the
other begins, which `Catalog`, `PoWorkflow` and the refinements of `LngFile` and
`Locales` are about. A behaviour is therefore one of one part, chosen at the
start (`part`); the others rest where they begin, so that states are added up and
not multiplied. `Parts` says which parts of `MCTranslation` and `MCCommands` a run has. `LibraryParts`,
`CommandParts`, `BuildParts` and `NameParts` give the parameters and the variables of those parts
that theorems are about names of their own, and state the promises both the run
and the theorem name.

A text, in the modules about readers and generators, is a sequence of the
characters that matter to it; a word nothing looks into stands for one character.

### Translation

| model | code |
|---|---|
| `m_path`, `m_mtime`, `m_data`, `m_file`, `listeners`, `m_nextupdate` | the members of `translation` |
| `lex` | `lang_file::lex` |
| `pc`, `want`, `head`, `depth`, `copy` | where `open` is: its arguments, its local variables, and the copy of the map each nested `onupdate` walks |
| `fs`, `clock` | the file system and its clock |
| `opens`, `adds`, `since`, `seen` | history only: no action but its bound reads them |

A block of memory is a record: which open read it, from which path, the
timestamps the file had while its bytes were copied, and what it parses as.
`m_file` is the identity of the block the sections point into, 0 when closed.

Actions: `Open` (the path is expanded, the time sampled, the file closed),
`OpenFile` (`fopen`; failing, the whole failing exit of `open`), `ReadFile`
(`fread`, `lang_file::open`, the comparison of serials, on both ways out),
`CallListener`, `ListenerReturns`, `OpenReturns` (`onupdate`, call by call),
`AddOnUpdate`, `RemoveOnUpdate`, `GetStringPlural` (the one getter that changes
state), and `WriteFile`, `DeleteFile` for the environment. While a listener
runs, `pc` is `"app"` and `depth > 0`: a listener can do what the application
can.

A file that changes between `fopen` and the last `fread` may yield a block that
is a mixture, and a mixture may parse as anything: `ReadFile` picks any text.
A file replaced by renaming gives the old text as a whole; that choice is among
them.

Left out: `get_key`, `get_attr` and the plain `get_string` change nothing. That a
file parses is the single bit `valid` here; `LngFile` is about what it stands for.

### StringSource

Three actions: a question (`Ask`), an answer with a whole text that fits
(`Answer`), or none (`Refuse`). `Translation` instantiates it with

| abstract | concrete |
|---|---|
| `asked` | `m_path` and `want` |
| `pending` | `pc` is `"fopen"` or `"fread"` |
| `served` | nothing if `m_file` is closed, else path and text of `m_data` |

so that `Open` is the question, and whichever step hands over to `onupdate` the
answer. That writers, listeners and nested calls do not show is the point.

### LngFile

`file` is the catalogue a writer is writing, `disk` the words that have arrived,
`view` the block a reader was given (a copy of `disk`), `uints` and `ints` the
reader's local variables, `serial`, `attrs`, `strings`, `keys` the members of
`lang_file`: a section is its count and the places of its keys and its data in
`view`. A string's bytes are the digits of the words they are in, so the layout
is that of the code, with the size of a word and the number of byte values as
constants.

`WriteWord` appends one word of `Words(file)`; the writer stops by never doing
it again, and `StartWrite` truncates and starts over with any catalogue. `Open`
is `lang_file::open` up to its loop, `NextSection` one iteration of it,
`LastSection` its end. `read_strings` runs before the loop has compared the size
of the section with what is left, so that it may look behind the end of the
block: what it answers then is a choice (`Verdicts`), and what it leaves in the
section is `Unknown`. (That the read faults is not modelled.) The unsigned
differences in `read_strings` wrap for offsets `file::write` never gives, and
are plain differences here.

### Locales, AcceptLanguage, SystemLocales

In `Locales` a language range is the sequence of its tags. `PriorityList` is the
sorting of a header, `Quality` the integer arithmetic of a `q=` value,
`ExpandList` one call of `expand_list`, `AppendLocale` the treatment of one name
a variable or a category gives. `input` keeps what was asked for.

`AcceptLanguage` has the way there from a header: `Read` is one `ListItem`, with
the macros `WS` and `LOOK_FOR` as the operators `Ws` and `LookFor`, and
`Parameter`, `Quality` as its functions. A `string_view` need not end in a zero, and
the code looks at a character before it compares with the end: `beyond` is what
lies there, `At` reads it. A header that is written by the rule comes with what
it means; the others are any characters.

`SystemLocales` has the other way: `InitSetlocale` is the call of `setlocale`
(external: what POSIX says of it), `Sources` the order in which the body looks at
variables and categories, `Try` one of these, `AppendLocale` one of its
languages, `Return` the end with `en`. It implements `Locales` with what it has
still to look at (`Languages` of the current value and the remaining sources) as
the list that is still to be appended.

### Storage

`FileWithBuiltin` over a translation. `asked`, `pending`, `served` are those of
`StringSource`, of which `Storage` uses the three actions, as
`TranslationIsSource` allows: a question with every path it tries, an answer with
what is on disk then, or a refusal. `pc` is where `open_first_of` is: between two
languages (`walk`), inside `open`, or in a listener (`told`), which may open a
language itself (`ListenerOpens`). `GetString`, `GetStringPlural`, `GetKey` and
`FindKey` have the precedence of the two files as the four functions have it;
`Plural` takes the rule that is in use, which, once compiled, stays (`lex`). `Known`
is what `known()` makes of what the path managers list (`Listed`); `WriteEntry`
is every other program.

### Plurals

`TokenAt` and `Tokens` are `tokenizer::tokenize`, with the width it moves on by;
`Simple`, `Operand`, `MoreOperands` and `Ternary` are the parsing functions, one
for all levels of binary operators as their templates are in the code, and
return what is left, as the code's cursor does; `Eval` is the `eval` of the nodes, with a set of no
number for a failed evaluation; `RulesIn` and `Decode` are `plurals::decode`.
`CalcSubstring` is the use of a rule by `lang_file`. The reference is `Means`: the
grammar of C's expressions by derivation, with neither tokens nor cursor.

### Lite

`heap` is what lies behind the handles, `host` and `objects` say who owns which,
`wrapping` is the handle `strings::open` holds before it has a Python object for
it. `PyOpened` and `PyOpenFails` are its two ways on, `PyCollect` the collector,
`OpenStrings`, `CloseStrings`, `ReadString`, `ReadStringPl` the C functions,
`PyGet` the method with its one or two arguments.

### ToolStrings

`install` and `build` are the two storages of `main_strings`, `todo` what is left
of the list of languages. `TryInstall`, `NoneInstalled`, `Adopt`, `TryBuild`,
`NoneBuilt` are the steps of `open`: the installed language, the one in the build
tree for the culture that file names, or else the list once more in the build
tree. `kind` says how the tool was compiled: with files, with linked languages
(`OpenResource`), or as the one that compiles them. `Replace` is an installation.
One open is one step: `Translation` and `Storage` take it apart.

### Tool

A run of a command, or of help or version, which ends in `Call`: that is `main`. `ReadStrings` the reading of the `.idl` all
commands start with, `LoadMsgs` and `FixAttributes` those of `make`,
`YearFromTemplate` that of `pot`, `FreezeStrings` that of `freeze`, then
`OpenStdout`, `OpenFails` or `OpenOutput`, which truncates, and `Write`. A source
is good or bad and an output is of sources, read when they were read. `Edit`,
`FillOrClear` and `Restart` are the user and the disk; `Restart` is a kill, too,
where a run has opened its output, and before that nothing shows of a kill.

### IdlReader

`SkipBlanks`, `StringFrom` and `Token` are the tokenizer, `Tokens` what its `get`
returns one after the other. `ReadAttribute`, `AttributesFrom`, `ReadString`,
`StringsFrom` and `ReadStrings` are the recursive descent over them, with its
early returns, `Numbered` the identifiers of new strings.
`ValuePos` and `Write` are how `freeze` finds the places of its numbers in the text
and puts them in. A catalogue is written down in a layout (`WriteDown`: blanks
and comments between symbols, the order of attributes, strings in pieces,
attributes nobody knows), and possibly with one symbol left out (`dropped`).

### Make

`LoadMsgs` is `load_msgs` with `translations`: which string gets which text, or
its warped value with `--warp`; `FixAttributes` is `fix_attributes`: culture and
plural rule out of the header (`attrGTT`, `gnu2iso`), the name of the language out of a list (`LlCC` is
`ll_CC`) or the registry; `Write` and `WriteFails` the `.lng`. `Translate`
is a translator saving another catalogue.

### GettextPo, GettextMo

A `.po` is a sequence of lines, each a sequence of characters. `Parse` is
`parse_line` with `SkipWs`, `Index` (`find_command`) and `Chunk`
(`parse_string_chunk`), and tells what the line is; `BlankLine`, `FieldLine`, `MoreLine`, `BadLine`,
`EndOfFile` are what the reader does with it, `LineChanged` is `line_changed`,
which completes a record when its last `msgstr` is over, `MessageOf` what becomes
of a record's fields when they are sorted.

A `.mo` is a sequence of bytes; a word has two of them, with as many values as the
instance says, so that what wraps in 32 bits wraps in the model. `NotMo`,
`BlocksOverlap`, `FileTruncated`, `StringsInvalid`, `Read` are the ways out of
`open_mo`; `IntFromOffset`, `OffsetsValid`, `GttKey` its functions.

### Pot, PoWorkflow

`Template` is what the template `pot.mustache` makes of strings whose texts `Escape` and
`Straighten` have gone over, in the order of `Sorted`; `YearFromTemplate` is the
year `pot` takes from the file it is going to replace. `PoWorkflow` composes:
`LngsPot`, `LngsPotFails` (a file cut short), `NewYear`, with `published`, the year of the
first run, as history; a translator (external)
fills the template in with any text, order of plural forms, splitting of strings
and comments (`Translated`); `OpenTranslated` and `OpenTemplate` are `lngs make`,
which reads with the actions of `GettextPo`.

### Catalog

`idl` is the file on disk, `committed` the version under version control,
`freezing` what a running `lngs freeze` has in memory, `header` and `lng` what
was last released. A string is its key and its number; `id <= 0` is a new one,
written `id(-1)`. `ReadStrings` is the numbering at the end of `read_strings`,
`Freeze` is `freeze` on a catalogue it has something to do for; `FreezeReads`,
`FreezeOpens` and `FreezeWrites` are the three steps of the command on a file
that is its own output, `FreezeFails` its end at any of them. A damaged file is
repaired by `Checkout`, or by the `FreezeWrites` still to come.

`HighestId` and `NumberOf` are not the loop of the source but its result: the
loop gives consecutive numbers above the highest to the new strings in order.

### Generated, Context

`Enums`, `Py` and `Literals` are the lines of the three kinds of output, line by
line of their templates, with `Described` the comment behind a string. `Code`,
`Spliced`, `Declared`, `Assigned`, `Literal` are what a compiler and Python
(external) make of lines: a backslash at the end of a line joins it with the
next, a carriage return ends a line of Python.

`Context` has no state. `expand_context` gives the strings in sections, `from` one
of them with its key in five styles (`Styled`), `escape` is `mustache::escape`.
`print_item` and `print_list` are `context_printer`, whose output `WriteMustache`
leaves in `json`; `JsonValue` is a reader by RFC 8259 (external) that says of a
text what it holds and where it ends.

### Resource, Table, Embed

`Rows`, `Ended` of `Table` are the text of an array, row by row; `IsText` and
`Bytes` are the compiler. `Resource` is `make_resource`, the words of
`file::write` going through `table_outstream` (`WriteTable`), taken apart into bytes
there (`BytesOf`, least first, by what is left of a word, `Rest`), and `Builtin`, which
opens the array, put together again, and reads it as `LngFile` does. `Embed` is a run of `embed.py`
(`WriteHeader`, `OpenSource`, `WriteArray`, `EndSource`) and of `update_src.py`
(`UpdateSource`, `UpdateHeader`), `Interrupt` their being stopped at any of these, `Build`
the compiler, which takes what fits together, and `get_resource` the program.

### LangCodes, LangSearch

`Type`, `Subtag`, `Description`, `Scope`, `EndOfRecord` are what `iana-reg.py` does
with a line of the registry, `EndOfFile` the writing of the tables; `LanguageName` is
`language_name` on a tag, `AfterScript` and `Region` its positions. `languages`,
`regions`, `scripts` are the generated tables, whose contents are not modelled.
`LangSearch` is `search` on a table of any length, one comparison at a time:
`Hit`, `Lower`, `Upper`, `Miss`.

### Templates

`StatAdditional`, `StatInstalled`, `StatSrcdir` are the three directories
`load` looks into, in a debug build the second and third for the newer one; `Read`
reads what is there by then, `Use` takes what the cache has. `build` is the build:
one with linked resources has them to fall back on. `Tick`, `Edit` are time and the
other hands on the files.

## 3. What the runs check

| run | question | bounds |
|---|---|---|
| `translation` | From the catalogue to a running program. Under concurrent writers: `ViewsAreLive`, `ServedAsRequested`, `FreshIsCurrent`, and the refinement `ImplementsSource`; with listeners that add, remove and open: `ListenersCaughtUp`, `AddReplacesNone`, `TypeOK`; over edits, freezes, crashes and releases: `OneMeaning`, `FreezeKeepsNumbers`, `CatalogTypeOK` | writers: 2 languages, 2 opens, 3 timestamps, texts of two serials and a damaged one; listeners: 3 opens nested 3 deep, up to 4 registrations, 4 counter values; catalogue: 2 strings, serials 0 to 3 |
| `opening` | How a program comes by its strings: `ListIsComplete`, `OrderIsKept`; what a writer that may stop anywhere leaves, read back: `OnlyWholeFilesOpen`, `WholeFilesOpen`, `ReadsBack`, `TypeOK`; under fairness, `LoopsEnd` and `EveryListenerIsTold` | all headers of up to 3 items over 5 ranges and 3 qualities, all lists of up to 3 locales; 4 catalogues, cut after each word, of words of 2 bytes of 3 values; 2 opens nested 2 deep, 2 registrations |
| `library` | What a program links with: `StorageKeepsItsWord`, `WalkStopsInTime`, `RulesMeanWhatTheySay`, `HandlesAndStringsAreKept`, `ToolSpeaksOneLanguage`, `LanguagesAreThoseAskedFor`, `ImplementsLocales` | below |
| `commands` | What `lngs` reads and writes: `OnlyGoodSourcesAreUsed`, `RunsEndWell`, `IdlIsKept`, `MadeOfTheCatalogue`, `GettextIsRead`, `MoStaysInFile`, `GeneratedIsUnderstood` | below |
| `build` | What is generated for a build: `FindsWhatIsThere`, `NamesAreOfTheRegistry`, `CompiledInIsWhatWasRead`, `ImplementsLngFile`, `TemplatesStayTheSame`, `LoopsEnd` | below |
| `translation_plurals` | *violated*: `PluralRuleIsOfOpenFile`, the rule in use is that of the open file | 2 languages, 2 opens |
| `translation_removed` | *violated*: `RemovedIsNotCalled`, a removed listener is not called | 1 open, 2 registrations |
| `po_template` | *violated*: `TemplateIsGettext`, gettext reads every template | as `commands`, with a quote in a plural |
| `make_missing` | *violated*: `MissingIsWarped`, what has no translation is warped with `-w`, of a `.po` as of a `.mo` | as `commands` |
| `make_list` | *violated*: `ListIsOfLlCC`, a list names languages as the header does | as `commands` |
| `freeze_comments` | *violated*: `FreezeLeavesComments`, freeze changes numbers only | as `commands`, with a parenthesis in every comment |
| `enums_backslash` | *violated*: `StringsAreDeclared`, the compiler finds every string | as `commands` |

The properties with a wide name are conjunctions, each conjunct stated, with the
code it is about, in the module it belongs to:

| property | its parts |
|---|---|
| `ReadsBack` | `ReadsWhatWasWritten`, `KeysAreFound`, `IndexFindsForm` |
| `OrderIsKept` | `QualityDecides`, `FallbacksComeLast`, `NamesKeepTheirOrder` |
| `OneMeaning` | `IdsAreUnique`, `SameSerialAgrees` |
| `StorageKeepsItsWord` | `NothingIsMissing`, `KeysLeadBack`, `WalkAnswersForWhatIsOpen`, `KnownCanBeOpened` |
| `WalkStopsInTime` | `WalkKeepsWhatItOpened` (of steps), `WalkEnds` (liveness) |
| `RulesMeanWhatTheySay` | `FormFollowsRule`, `NoPartOfATextIsARule` |
| `HandlesAndStringsAreKept` | `HandlesAreOwned`, `NullMeansMissing` |
| `ToolSpeaksOneLanguage` | `EveryMessageIsThere`, `OneLanguage`, `OwnSerialOnly`, `UsersChoice` |
| `LanguagesAreThoseAskedFor` | `FollowsTheEnvironment`; `ReadsWhatIsMeant`, `NothingFromBeyond` of `AcceptLanguage` |
| `OnlyGoodSourcesAreUsed` | `RefusedChangesNothing`, `WholeIsOfGoodSources` |
| `RunsEndWell` | `ResultTellsWhatIsLeft` of `Tool` (of steps), `FirstYearStays` of `PoWorkflow` (over the history of runs) |
| `IdlIsKept` | `ReadsWhatIsMeant`, `BrokenIsRefused`, `FreezeOnlyNumbers` of `IdlReader` |
| `MadeOfTheCatalogue` | `HoldsTheTranslations`, `HeaderIsRead`, `LanguageIsNamed` |
| `GettextIsRead` | `MessagesComeFromOneRecord`, `NoErrorMeansWellFormed`; `ReadsWhatWasWritten` of `GettextMo`; `ReadsWhatWasTranslated`, `TemplateIsReadBack` of `PoWorkflow` |
| `MoStaysInFile` | `StringsLieInFile`, `TablesLieApart` of `GettextMo` |
| `GeneratedIsUnderstood` | `OnlyBackslashesHide`, `NeverMixedUp`, `EveryStringIsAssigned`, `LiteralsReadBack`, `DebugIsJson`, `NamesStayApart` |
| `NamesAreOfTheRegistry` | `TablesHoldTheRegistry`, `NamesTheRegion` |
| `CompiledInIsWhatWasRead` | `TableIsText`, `ResourceAnswers`; `TypeOK`, `AnswersForEveryFile`, `SourceTreeIsUpdated` of `Embed` |
| `TemplatesStayTheSame` | `OneTextThroughout`, `NewestIsRead` (of steps) |
| `LoopsEnd` of `build` | `SearchEnds`, `RenderingEnds` (liveness) |
| `LoopsEnd` of `opening` | `OpenAnswers` of `LngFile`, `ListEnds` of `Locales` (liveness) |
| `EveryListenerIsTold` | `ListenersAreTold` of `Translation` (liveness) |

**Why the bounds are enough.** Two opens are the fewest with something stale to
mix up, and the state does not otherwise depend on their number. Three
timestamps allow the writes before, during and after an open to be distinct, and
equal ones are tried as well. Three nested opens have an outermost, an innermost
and one that is both called and calling; four registrations and a counter of
four values go once around and onto an occupied token, which is the case
`AddReplacesNone` excludes by counting. For the catalogue two strings suffice
for one to take another's place; three serials for a number that is retired,
reused and reverted. (Three strings over three serials hold as well, in a run
too long to keep.) Where writers matter nobody listens, and where listeners matter
there is one file with one text and at most six calls of `open` and `add_onupdate`
together (`WritersMatter`, `ListenersMatter`): what a listener is told does not depend
on what is in a file, nor what is loaded on who listens. What does not depend on the bounds is proved, section 4.

`opening`. The four catalogues have empty and full blocks in every
combination that matters to what a section's neighbour is, data of odd and even
lengths, an empty string, a plural of three forms, identifiers out of order; the
reader treats every further section or string as it does these. Five ranges, of
one to three tags, have parents, grandparents and siblings in the list and not
in it; three items are the fewest with something between a range and the place
of its fallback. The qualities have no, one and four digits after the dot.

`library`. *Storage*: two languages, lists of up to three with one of them twice,
four entries of the directory, one under a name no language expands to; texts of
another serial, without a culture, under a wrong name, with forms or keys left
out; two opens, so that a listener's falls into a walk; one change on disk at any
moment. *Plurals*: all texts of up to three of 16 characters, all chains of two
operators with every operand kind, conditions nested on every side, and the
fields of an attribute in every order: precedence and associativity are decided
by two operators, what is left over by one more token. *Lite*: two handles, so
that the wrong one could be closed. *ToolStrings*: two messages, of which a
language has one; four kinds of wrong files; one replacement at any moment.
*SystemLocales*: all values of five variables and two categories over four
languages, one of them not installed. *AcceptLanguage*: one and two items with
every optional blank and parameter, all texts of up to four of the seven
characters that matter, seven continuations behind the end, some of which begin with
an equals sign.

`commands`. *Tool*: all commands and help, outputs and options, good and bad sources, two
edits, any number of runs. *IdlReader*: catalogues of no, two and three strings
in every layout without a parenthesis in a comment (`PlainLayouts`; `freeze_comments` has
those with one), each with any symbol missing. *GettextPo*: all files of up to
four lines of nine kinds (a record has at most four fields with an order to get wrong), and any line of
up to four of eight characters. *GettextMo*: three files as `msgfmt` writes them,
in both byte orders, cut at every byte, with every word replaced by every other
and with pairs of bytes replaced. *PoWorkflow*: three catalogues, all characters `Escape` knows in
their texts, sixteen layouts, two years.
*Make*: two strings, catalogues with one and both translated and with an empty
message, four headers, as `.po` and as `.mo`, with and without `-w`, five lists, one of
them of `ll_CC` names. *Generated*: files of one and two strings with and without plural and help,
with every text of up to two characters that matter to a comment or a literal (line
break, carriage return, bell, quote, slash, hash, backslash); keys that
differ in nothing but where a word begins.

`build`. *LangSearch*: a table of 21 entries, more than four halvings, and every
key on, between and beyond them; the proof is for all. *LangCodes*: registries of up
to two of nine records, and three of four, in every order, with and without a
separator at the end. *Resource*: words of two bytes in rows of three, so that
rows end within words. *Embed*: six lists of up to three files; two runs, each
stopped anywhere, and one change of a file. *Templates*: two templates in three
directories, one used twice, two changes and two seconds of the clock, three builds.

**Deadlock** is checked in the runs of `MCTranslation`, where the environment, an
editor or a writer can always take a step, and not in the others, most parts of
which are functions that return and leave nothing to do (`Locales`, `Plurals`, `GettextMo`,
`LangSearch`, `AcceptLanguage`, `SystemLocales`), or programs whose bounded
environment falls silent when they have ended. Where a part must come to its end
and not get stuck before, that is a property (`LoopsEnd`, `EveryListenerIsTold`,
`WalkEnds`). No code here waits for other code: there are no locks, and the nesting of
`open` in listeners ends if they call it finitely often.

**Fairness.** `OpeningSpec` has weak fairness of `Running`, the steps `open` takes
by itself: a thread that was scheduled goes on, reads of files come back, and the
listeners return. The last is an assumption about the program that uses the
library; without it no open ends, and no listener behind the one that does not
return is told. Nothing is assumed of the application, of what listeners do before
they return, or of other programs. `LibrarySpec` has the same of the walk of
`Storage`. In `LngFile` the two steps of the reader's loop are fair, in `Locales` every
step, in `BuildSpec` the steps of the search and of a rendering: loops without a
wait. Writers, editors and the clock are not fair. That opens are finitely many
(`MaxOpens`, `MaxCalls`) matters to `EveryListenerIsTold` and `WalkEnds`: a listener that
calls `open` without end never returns, in the code as in a model without the
bound.

**Assumptions of the models**

* Timestamps do not go backwards and none is the value-initialised
  `file_time_type`, which `mtime` answers on an error. They may be coarse:
  several writes may get one.
* One thread uses a `translation`; the code has no locks and says nothing else.
* A release is built from a committed and frozen catalogue, as `docs/flow.md`
  has it, and one person freezes at a time. An unfrozen build has numbers of its
  own under the old serial; the code does not prevent it.
* Keys of a catalogue are distinct. A string's key never changes its meaning
  from one language of a serial to another (`StorageAssumption`).
* Installed and built language files of the tool lie where their culture says, if
  they say one (`ToolAssumption`).
* A range of a header or of a name has at least one tag, if an empty one, `en`
  has one, and the digits of a quality are digits (`LocalesAssumption`). A text in
  a `.lng` has no zero in it (`LngFileAssumption`).
* What stands for "none" (no file, no text, a null pointer, a damaged file) is none
  of the values it is the absence of; each module says so in its assumption.
  `LiteAssumption`, `ToolAssumption`, `RunAssumption`, `TemplatesAssumption`,
  `SystemAssumption`, `ResourceAssumption`, `EmbedAssumption` and `CodesAssumption` are
  no `ASSUME` of their modules, as those are instantiated:
  the MC module assumes them of its instance, and a theorem has them as its
  hypothesis.
* Every record of the registry begins with its type behind a separator; a language,
  a script or a region goes on with its subtag, which no other of its type has, and
  has a description. A tag is subtags with hyphens between them, and ends there or
  goes on with a dot (`CodesAssumption`).
* `"C"` is something to set a variable to, as the locale of that name is
  (`SystemAssumption`); every other value is a list of ranges.
* The strings of the built-in catalogue have identifiers of their own and keys of
  their own, which are not empty, and every number in the `.lng` made of it is a
  word: it fits into the 32 bits of a `uint32_t` (`ResourceAssumption`).
* The lists of files `embed.py` is run with do not differ in a hyphen alone
  (`EmbedAssumption`), and no file is empty: this one the run has in its
  parameters, and no theorem needs it.

### What the properties leave out

Some of the properties say exactly where the code keeps a promise and where it
does not; the rest is a finding of the next section.

* `NothingFromBeyond`: what lies behind a header changes nothing of what is read,
  but in one case. After a `;`, spaces, a `q` and spaces at the end of a view, the code
  reads an equals sign behind it without comparing with the end
  (`lngs_storage.cpp:190-198`), and the last item has the quality 0 then, not 1
  (`BreaksOff`). Items are compared with those of the header alone.
* `HoldsTheTranslations`: a message that is there and empty is a translation
  (`HandedOver`); `msgfmt` leaves it out of a `.mo`. `LanguageIsNamed`: a list is asked for
  the culture as it is after `_` has become `-`.
* `FreezeOnlyNumbers`: what is between the parentheses of `serial(...)` and of every
  `id(...)` beside the number, blanks and comments, is lost in a freeze. Outside of them
  nothing changes, as long as no comment ahead of a value has a parenthesis.
* `OnlyBackslashesHide`: exactly the strings whose text ends in a backslash, with
  nothing but blanks behind it and no help, are not declared. `EveryStringIsAssigned`:
  every string is, in Python, and what stands behind a carriage return in a text is
  code, unless it begins with a `#`. `DebugIsJson`: the print is JSON exactly if there is
  no bell and no vertical tab in any help.
* `ResultTellsWhatIsLeft`: a 0 does not mean that there is a whole output. Behind it is
  half a file if the disk was full (only `make` looks at its writes, and answers -1),
  nothing rendered if the template was not found, what was there before if `freeze`
  had nothing to do or help was asked for, and else a whole file. After 1 and 2 the
  output is as it was found.
* `FirstYearStays`: the year a template was published first is in it, whatever years
  pass and runs are interrupted, until one is interrupted before it has written the
  second line. The year is lost then: it was only in the file the run truncated. The
  next run begins with its own (`published`, a variable of history).
* `MoStaysInFile`: that the tables lie apart (`TablesLieApart`) is promised where
  neither `count * 2` nor the end of the hash table wraps.

### Findings

Seven runs end in a counterexample:

* `translation_plurals`: `lang_file::lex` survives `close`. A program that
  changes its language goes on with the first language's plural rule.
* `translation_removed`: `onupdate` walks a copy, so a listener removed during
  a notification is called once more, against `docs/usage.md`.
* `po_template`: `lngs pot` escapes the value of a string, but not its plural. A
  quote or a backslash there makes a line neither gettext nor the reader of
  `lngs make` accepts.
* `make_missing`: an untranslated message of a `.po`, which is there with an empty
  text, counts as translated and is left empty, with `--warp`, too
  (`languages.cpp:133`); of a `.mo`, where `msgfmt` leaves it out, it is warped.
  `lngs.idl:108` says that missing strings are replaced, and `docs/flow.md:42` that
  either form can be made.
* `make_list`: the culture is looked up in the list of names after `_` has become `-`
  (`cmd_load_msgs.cpp:60`), while `lngs.idl:136` says the list has `ll_CC` names.
* `freeze_comments`: `value_pos` takes the first parenthesis for that of the argument
  (`cmd_freeze_ids.cpp:36`), one in a comment, too, which `docs/syntax.md:37` allows:
  the number is written into the comment.
* `enums_backslash`: a text that ends in a backslash continues its comment over the
  enumerator (`enum_string.mustache:1`), which `README.md:16` promises.

Each of these is stated as a property in its module, which TLC refutes when the
instance has the case; no run has them:

| where | stated as | what the code does |
|---|---|---|
| `gettext.cpp:175` | `GettextMo!NoStringInHash` | The end of the hash table is computed as if its size were in bytes, and it is in entries: a string within the last three quarters is accepted, against the error `tests/gettext.cc:490` wants for one at its start |
| `py-lngs.cc:33` | `Lite!GetTakesTheIdFirst` | `get(id, count)` of the doc string is parsed as count and id |
| `lngs_storage.cpp:141` | `SystemLocales!EnvironmentFirst` | The categories come between `$LANGUAGE` and the other variables; `docs/usage.md:82` has them last. With `init_setlocale` and the program's own categories untouched nothing shows of it (`FollowsTheEnvironment`) |
| `embed.py:37` | `Embed!EveryListIsEmbedded`, with a list of one file | Its name is all of the common path, the identifier empty, and the script fails with its header half written |

## 4. What is proved

`TranslationProofs`, for any languages, paths, texts, width of the counter and
bounds:

| theorem | statement | strengthening |
|---|---|---|
| `TypeCorrect` | `Spec => []TypeOK` | `TInv`: with `PhaseOK`, which ties `pc` to `depth` and `opens` |
| `GettersReadLiveMemory` | `Spec => []ViewsAreLive` | `LoadInv` |
| `OnlyRequestedIsServed` | `Spec => []ServedAsRequested` | `LoadInv` |
| `FreshIsNeverStale` | `Spec => []FreshIsCurrent` | `LoadInv` |
| `NoListenerLeftBehind` | `Spec => []ListenersCaughtUp` | `NotifyInv` |
| `AddNeverReplaces` | `Spec => AddReplacesNone` | `TokenInv` |
| `TranslationIsSource` | `Spec => Source!Spec` | `TInv`, `LoadInv` |

*Loading.* `FreshIsCurrent` is not inductive: it says nothing of an open in
progress. `LoadInv` adds that no file is younger than the clock (`ClockInv`);
that during the reads the sampled time is at most that of the file found by
`fopen`, itself at most that of the file now (`ReadingInv`); and that a loaded
block carries no timestamp older than the sampled one, nor one newer than the
file's, as long as the file exists (`LoadedInv`). If the file now has the
sampled time, the interval has shrunk to a point: every byte has it.

*Listeners.* `NotifyInv` says that whoever was registered before the last open
and has not run since is in the copy of the level that open announces on; the
level cannot be left before that copy is empty.

*Tokens.* The counter never holds 0, and after `k` registrations every live
token is one of the last `k` values; `k < TokenMod` values of a cycle of length
`TokenMod - 1` do not repeat.

*Refinement.* Each step of `open` that hands over to the listeners is an answer
or a refusal. That it is needs `LoadInv`: a refusal must not change what is
served, and the sections are closed from the question on. All other steps leave
the abstract state alone.

`BuildProofs`: `LangSearch`, for every sorted table and every key (`SearchAssumption`:
the table is a function from `0 .. Length - 1` that grows); `Templates`, for any
templates, changed by anybody at any time; `Resource`, for any strings, width of a
row, size of a word and number of byte values; `Embed`, for any lists and contents
of files, and builds stopped anywhere:

| theorem | statement | strengthening |
|---|---|---|
| `SearchIsRight` | `LangSearch!Spec => []FindsWhatIsThere` | `SearchInv`: with `Bracketed` |
| `SearchStaysInside` | `LangSearch!Spec => []LooksInside` | `SearchInv` |
| `SearchNarrows` | `LangSearch!Spec => Narrows` | `SearchInv` |
| `TemplatesStay` | `Templates!Spec => TemplatesStayTheSame` | `MustacheInv` |
| `ResourceIsLngFile` | `Resource!Spec => ImplementsLngFile` | `ResInv` |
| `ResourceIsRight` | `Resource!Spec => [](TableIsText /\ ResourceAnswers)` | `ResInv`, `IInv` of `LngFileProofs` |
| `EmbeddingIsRight` | `Embed!Spec => [](TypeOK /\ AnswersForEveryFile /\ SourceTreeIsUpdated)` | `EmbedInv` |
| `CompiledInIsRight` | `Resource!Spec /\ Embed!Spec => []CompiledInIsWhatWasRead` | the two before |

`FindsWhatIsThere` speaks of the end only; `Bracketed` says of every step before
that the key, if it is in the table, is between `lo` and `hi`. `SearchNarrows` is
what makes the loop end: what is left of the table gets smaller.

*Templates.* Whatever was rendered is in the cache and nothing is loaded twice
(`OutputIsCached`); as long as nothing changes, what `load` has seen is so
(`SeenIsSo`).

*Built-in strings.* The text of a table is, after every write, rows of literals of
which the last may be open, exactly when the offset is not a multiple of the width
(`TextOf`, by `Between` and `Within`); `Rows` appends to it as many bytes as it is
given (`BytesAreAdded`), and `finalize` closes the row. So the bytes the compiler finds
are those that were written, one word after the other, and a word that is taken
apart into its digits and put together again is the word (`PackOfBytes`, for numbers
that are words). `ResInv` says just this of the state: the catalogue is the one made of
the `.idl`, and the bytes of the text are those of the words `file::write` has passed
on. What is compiled is then these words: a step of `WriteTable` is `LngFile`'s
`WriteWord`, `InitBuiltin` its `Open`, and what the program reads are its `NextSection`
and `LastSection`; the theorems of `LngFileProofs`, instantiated under that mapping,
say of the built-in strings what they say of a file.

*Embedded files.* A header and a source in the tree may be those of two runs with
different lists. `EmbedInv` says that each of them, when whole, is the header or
the source of one list (`IsHeader`, `IsSource`), and which parts of a list a run has written;
a program is a pair the compiler took. `NamesMeet` is the step that counts: if the
identifiers in both are different from each other and the same in both, then, for
lists `EmbedAssumption` admits, so are the names, and `get_resource` finds the array
of its name and no other.

`CatalogProofs`, for any strings, any number of edits, freezes, checkouts and
releases, and wherever identifiers start:

| theorem | statement | strengthening |
|---|---|---|
| `CatalogTypeCorrect` | `CatalogSpec => []CatalogTypeOK` | `IInv` |
| `OneNumberOneString` | `CatalogSpec => []OneMeaning` | `IInv` |
| `FreezeIsHarmless` | `CatalogSpec => FreezeKeepsNumbers` | `IInv` |

`OneMeaning` compares the two artefacts of the moment. What makes it inductive is to
say it of everything there is at once: the three versions of the file, for what
is final in them, and both releases (`Records`); whatever carries one serial
gives one meaning to a number (`Agreeing`). Freezing preserves that because the
serial it writes is that of nothing else: serials grow from what was released
over what is committed to what is edited and frozen (`SerialsGrow`). The numbers
themselves are new because they are above the highest of the file, which takes a
maximum over a finite set and a count (`Facts`).

`StorageProofs`, for any languages, lists, files, rules and strings:

| theorem | statement | strengthening |
|---|---|---|
| `StorageKeepsWord` | `Spec => []StorageKeepsItsWord` | `IInv` |
| `WalkKeeps` | `Spec => WalkKeepsWhatItOpened` | `IInv` |

What is open is valid and of the serial asked for last (`ServedAsAsked`); a walk
goes on only as long as it has opened nothing, and a listener's own open leaves a
mark on it (`WalkInProgress`); a walk nobody meddled with has asked for the
language it tried last and answers whether that one is open (`WalkLeftAlone`).

`LocalesProofs`, for headers and names of any length, over any tags:

| theorem | statement | strengthening |
|---|---|---|
| `ListComplete` | `LocalesSpec => []ListIsComplete` | `IInv` |
| `OrderKept` | `LocalesSpec => []OrderIsKept` | `IInv` |

Both properties are about the end. While `expand_list` inserts (`Expanding`), the
list has no repetitions, all that was asked for and nothing else but shorter
versions of it; the ranges of the header are in their order, and every other one
is behind all that it stands for (`HeaderOrder`). An insertion keeps that because
it goes behind the last range within the one it inserts. While names are appended
(`Listing`), the list is that of the names already seen. The lemmas below it say
that sorting by places in an order is one (`SortedFollowsOrder`), that the shifting of
digits gives thousandths, and what `InsertAt`, `Front` and `IsPrefix` do.

`LngFileProofs`, for any catalogue, size of a word and number of byte values:

| theorem | statement | strengthening |
|---|---|---|
| `LngFileTypeCorrect` | `Spec => []TypeOK` | `IInv` |
| `OnlyWholeOpen` | `Spec => []OnlyWholeFilesOpen` | `IInv` |
| `WholeOpen` | `Spec => WholeFilesOpen` | `IInv` |
| `WhatIsReadWasWritten` | `Spec => []ReadsBack` | `IInv` |

The block a reader was given is a part of what was written; its walk is always at
the beginning of a section of that, and a section has been read exactly when the
walk has come to it (`WalkInv`); a file is open when it has come to the end
(`EndInv`). So a file is turned down unless its last section is there. Every
section `file::write` lays out passes the checks of `read_strings`, whatever its
strings are (`WholeOpen`), and the offset and length of an entry are those of its
text among the digits of the words behind it: that rests on where `FlattenSeq`
puts each of its sequences (`FlattenFacts`).

`PartsProofs`, each theorem for every value of the parameters its hypothesis
admits:

| theorem | statement | strengthening |
|---|---|---|
| `HandlesKept` | `Lite!Spec => []HandlesAndStringsAreKept` | `DllInv` |
| `ToolSpeaks` | `ToolStrings!Spec => []ToolSpeaksOneLanguage` | `ToolInv` |
| `GoodSources` | `Tool!Spec => []OnlyGoodSourcesAreUsed` | `LngsInv` |
| `ResultIsOfWhatIsLeft` | `Tool!Spec => ResultTellsWhatIsLeft` | `LngsInv` |
| `MoIsSafe` | `GettextMo!Spec => []MoStaysInFile` | `MoInv` |
| `SystemIsLocales` | `SystemLocales!Spec => Locales!LocalesSpec /\ ImplementsLocales` | `SysInv` |
| `SystemListIsRight` | `SystemLocales!Spec => [](ListIsComplete /\ OrderIsKept)` | `SystemIsLocales` |
| `SystemFollowsEnvironment` | `SystemLocales!Spec => []FollowsTheEnvironment` | `HeardInv` |
| `NamesAreRight` | `LangCodes!Spec => []NamesAreOfTheRegistry` | `CodesInv` |

*Messages of the tool.* What is left to be tried is the end of the user's list
(`ToolWalk`); the build tree is opened last, and when an installed language says
which one it is, for that one only (`ToolPhases`); left alone by installations, a walk has
nothing behind it that could have been opened (`ToolLeftAlone`).

*A run of the tool.* How far a run has come says what it has read, that it was
good, and that the output is still as it was found (`LngsPhases`); a whole file
in the place of an output is of good sources, a source as it was edited or half of
what a freeze was writing (`LngsFiles`). A run ends where it refuses something, before it
has touched its output, where freeze has nothing to do, in `Call`, or when it has written
(`EndStep`); what it has left then is what it wrote, or what it found.

*Files of gettext.* Nothing is assumed of the file but that it is bytes: the counts
and offsets in it are words, which wrap. What makes `MoIsSafe` true is the order of
the checks: `TablesFit` wraps where `count * 2` does, and that this lets nothing
through hangs on `IntFromOffset` being 0 behind the end, where `OffsetsValid` looks
at every entry.

*Locale lists.* The mapping looks ahead: the names still to come are those of the
value that is looked at and of the remaining sources, in the categories as
`setlocale` will leave them. `InitSetlocale` and `Try` then change nothing Locales
sees (the latter by `FlattenHead`), the others are its actions. `SystemListIsRight` is
what that is good for: `ListOf`, an instance of `LocalesProofs` under the same
mapping, has its theorems of the list `system_locales` makes, once the mapping is
shown to satisfy `LocalesAssumption`. `SystemFollowsEnvironment` goes on from the
mapping: the list is what `Made` makes of what has been heard so far (`HeardInv`).
That the order of the code and that of the documentation come to the same list is
`SaidTwice`: a source that repeats another one adds nothing, wherever it stands
(`MadeAbsorbs`, `MadeGoesOn`, both by induction over the length of a list), and
what `setlocale` makes of the variables repeats the first that is set
(`FirstOfFour`), or names nothing.

*Names of languages.* What the tables hold is promised for the end of the registry.
`CodesInv` says it of every line before: the tables have all the records that have
ended (`Listed`), and of the one that is being read, the script knows the type and
the subtag, keeps its first description in front, and has left it out exactly when
a line that was read leaves it out (`SeenIn`). A separator then adds the record or
nothing, as what has been seen of it is all there is (`RecordIsKnown`), and what it
adds replaces nothing, as no other record of its type has its subtag (`ListedGrows`).
`NameOfTag` is about the second half: wherever a tag ends, `language_name` cuts it at
the hyphens behind its first, second and third subtag.

`Facts` has what the library's theorems, most of which take an operator as a
parameter, cannot be cited for. Induction is over a set of numbers there, with
no operator (`InductionOverNat`, from `LeastNumber`), and so are the existence of
a recursive function (`RecursionExists`), what `FlattenSeq`, `Max`, `Min`, `InsertAt`,
`RemoveAt`, `IsPrefix` and a count by cardinality do.

**Only model-checked**:

* All liveness (`ListenersAreTold`, `OpenAnswers`, `ListEnds`, `WalkEnds`, `SearchEnds`,
  `RenderingEnds`), which under fairness is out of the prover's
  reach.
* What `Plurals`, `IdlReader`, `Make`, `AcceptLanguage`, `Generated`, `GettextPo` and
  `Pot` compute: their definitions are recursive over texts. So
  `RulesMeanWhatTheySay`, `IdlIsKept`, `MadeOfTheCatalogue`, `GettextIsRead`,
  `GeneratedIsUnderstood` and the reading of a header in
  `LanguagesAreThoseAskedFor`, whose other half is `SystemFollowsEnvironment`.
* `FirstYearStays`: `YearFromTemplate` reads the year back from the text of a
  template, whose lines `Pot` makes with folds over texts.

`SortSeq`, `Permutations`, `^` and `FoldLeft` mean nothing to the provers. Where a
theorem needs them, the models count, or write a recursive function: `Sorted` of
`Locales`, the digits of a word in `LngFile`.

## 5. What is not modelled, and what is next

Not modelled:

* The width of integers in plural rules, identifiers and plural indices;
  `nplurals`, which the library stores and does not use.
* The contents of generated data: the languages in `lang_codes.cpp`, the texts in
  `embedded_languages.cpp` and `lngs_res.cpp`.
* The Windows variant of `system_locales`, which asks two functions of the system.
* The rendering library, of which `Generated` and `Pot` state the result for the
  templates of the repository.
* The parsing of the command line, diagnostics and their positions, what help and
  version print.
* The registration of Python types and modules (`py_utils.hh`); the version
  wrappers of `lngs.hpp`, which pass a serial and choose a getter; `get_attr` of
  `FileWithBuiltin`, which is `get_key` with another block.
* A list of names whose last line is a code and ends with the file.

Next are the recursive definitions that `Plurals` and `IdlReader` have: written as
recursive functions, they could be proved about.
