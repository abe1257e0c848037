# Notepad:: in TLA+

Notepad:: (`notepad-colon`) is a tabbed text editor for Windows: one C++
process, one window, one Scintilla control per document, a few background
threads. This directory models the parts of it where order, concurrency,
failure and restarts decide whether a user keeps his text, checks the models
with TLC and proves their main safety properties with TLAPS.

    tlc -config MC_SessionWriter.cfg MC_SessionWriter      # a run
    tlapm SessionWriterProofs.tla                          # a proof

`PROJECT.json` lists the runs, the source lines every definition stands for,
the hazards, the mutants (a plausible bug for every property, which TLC must
find) and the theorems.

## 1. The system

Three kinds of actors meet in this program.

* The **UI thread** runs every handler of `main.cpp`. A handler is not
  interrupted, except where it shows a message box or a dialog: those run a
  message loop of their own, in which the two-second monitor timer, posted
  messages and activation messages from a second instance are still handled.
* **Background threads**: the session writer's worker, and one worker per
  folder search or workspace scan. They share a mutex-protected cell with the UI
  thread and announce results by window messages.
* **The world**: other programs that write, replace or delete files; the
  operating system, which may fail any call; a crash at any moment.

### Inventory

| Component | State | Operations | Talks to | What is hard | What makes it correct |
|---|---|---|---|---|---|
| Session writer (`session_writer.cpp`, `session.cpp`) | one queued snapshot, `writing_`, `last_result_`, a thread, the session file and its temporary file | `Queue`, `Flush`, destructor, `Run`, `SaveSessionAtomic`, `LoadSession` | called by the window; writes the disk | a flush between two snapshots, failures at each file step, a crash between write and rename, join of a sleeping thread | a flush that answers true speaks of the newest snapshot; the file is never torn; the destructor ends and leaves nothing behind |
| Session lifecycle (`main.cpp`: `OnNotify`, `QueueSessionSnapshotIfDue`, `CaptureSession`, `OnClose`, `RestoreSession`) | documents and their dirty flags, `session_snapshot_pending_` and its due time, the monitor timer | edit, undo, save, close, timer tick, close window, restart | session writer, Scintilla notifications, files | debouncing, a cancelled close, a failed flush, crashes, restoring over several launches | a crash costs nothing after the debounce; a close loses nothing; recovery goes on as long as the program runs |
| Find in Files (`main.cpp`, `latest_operation.h`, `workspace.cpp`) | generation, pending result, workers, cancel command, listed results | start, cancel, publish, complete, shut down | worker threads, window messages | a worker that publishes after it was replaced or cancelled; messages of older searches; the shared match limit | only the newest search's complete result is listed; every search ends; no thread survives the window |
| Document and file (`main.cpp`, `encoding_analysis.cpp`) | text, dirty flag, save point, `stamp`, `file_state`, `external_changed` | open, edit, undo, set encoding, save, auto-save, reopen with a code page, external-change check and its message boxes | other programs, the library's atomic write | check-then-act on a file others write; boxes opened on top of boxes | no save replaces what the user has not seen; no edit is dropped unasked; no change goes unnoticed |
| Large files (`large_file_buffer.cpp`, `mapped_file.cpp`, `main.cpp`) | piece table, mapped source, the window's offset, follow mode | open, insert, erase, move window, find, save by streaming, follow | Scintilla modifications, files | a table and a window that must stay in step; a save that fails half-way; a file replaced under a mapping | the buffer is the text the user edited; a failed save leaves the old file; window and buffer agree |
| Wasm syntax client and host (`wasm_syntax_client.cpp`, `wasm_language_host.cpp`, `main.cpp`) | child process, `ready`, its input; in the host a parser, a tree and its source | start, parse, highlights, symbols, stop; the host's loop | two pipes, deadlines | timeouts in the middle of a message, babble on the error stream, a host that does not go | an answer belongs to its request and to the text; after a failure nobody talks to the old process, and it is gone; the editor always comes back |
| Crash recovery store (`recovery.cpp`) | a directory of snapshot files | save, list, load, remove, prune | the window, when the timer says so | names that collide, pruning over all documents, coarse write times | what the last tick wrote is there |
| Tabs (`main.cpp`) | order, pinned flags, active document | new, open, select, pin, unpin, sort, close, close others/left/right | documents, tab control, a second launch | a question, in the middle of closing many, that lets activations in | only what was meant is closed, and unsaved text only on the user's word |
| Macro recorder (`macro.cpp`, `scintilla_support.cpp`, `main.cpp`) | recorded actions, recording, saved macros and their file | start, record, stop, play, save, delete, load | Scintilla notifications, menu commands | what is recorded and what the editor does by itself | playing repeats what was typed; the next launch has the saved macros |
| Workspace tree, roots, recents (`workspace.cpp`, `workspace_state.cpp`, `main.cpp`) | roots, recents, favourites and their file; the lazy tree and its selection | open, remove, expand, create, rename, recycle, save, load | files, other programs, the session | a path that went stale behind a question, roots inside roots, names that begin alike | nothing outside a root is touched; the lists survive a launch |
| Text algorithms (`editing.cpp`, `text.cpp`, `encoding_analysis.cpp`, `comparison.cpp`, `editor_config.cpp`) | none | line endings, lines, trimming, sorting, joining, case, tabs, escapes; comparing and copying lines; bytes to text and back; globs and settings | the text commands, opening and saving, the comparison window | boundaries: empty text, no final newline, lone CR, a character cut in two, a setting that speaks against the bytes | equal to a plain definition; saving twice is saving once; an unchanged file is saved as it was |
| Tree-sitter document (`tree_sitter_document.cpp`) | parser and tree | parse, edit, highlight | external parser | positions that are asked of a text that has changed already; a parse that fails | the tree is the tree of the text |
| Language registry (`language_registry.cpp`) | the languages, the errors of the last load | load a directory, find, detect | opening a file | limits reached exactly, a definition that clashes with another | ids are unique, limits are kept, nothing is dropped without an error |
| Completion, output, Git status; configuration, preferences; Scintilla support; menus, printing, single instance; legacy `document.cpp` | little or none | parsing and UI calls | - | - | unit tests of the repository |

## 2. Plan

The order is by what a user loses when the part is wrong.

| # | Modules | Abstract specification | Runs and bounds | Theorems | State |
|---|---|---|---|---|---|
| 1 | `SessionWriter` | `DurableSnapshot`: what a snapshot store promises | 4 snapshots, 3 launches | types, honest flush, whole file, drained destructor, each step refines | done |
| 2 | `LatestOperation`, `FolderSearch` | the listed result is the newest search's | 5 generations, limit 2, 11 kinds of search | types, current result, no partial result, quiet shutdown, cancel and "complete" mean what they say | done |
| 3 | `DocumentSync` | a stamp is the stamp of the text | 4 contents, 2 nested boxes | types, stamp, stamped saves, edits kept | done |
| 4 | `SessionLifecycle`, over `DurableSnapshot` | the next launch shows what this one had | 2 texts, 4 commands, 3 launches | types, harmless crash, harmless close | done |
| 5 | `LargeFileBuffer` (piece table against a plain sequence), `LargeFile` (window, save, follow) | a plain byte sequence; a file that is replaced whole | files of 1-4 bytes, windows and chunks of 2, 2 commands, one write of another program | types, the table is the text, the window is of the table, a save writes the text, follow mode skips nothing | done |
| 6 | `SyntaxTree`, `SyntaxHost` (window, client, pipes, host) | request and answer in turn; a tree with a leaf for every byte | texts up to 3 bytes, 2 edits, 2 grammars, a failure anywhere | types, rest between exchanges, no stray host, spans are of the text | done |
| 7 | `RecoveryStore`, `Tabs`, `MacroRecorder`, `WorkspaceCatalog`, together in `Workbench` | playing is typing; a set of files; a function of paths | 3 tabs, 2 snapshots, texts up to 5, 4 paths | careful closing, recoverable ticks, items inside, what a launch gives back, playing is typing, types | done |
| 8 | `TextCommands`, with their laws in `TextLaws` | reference definitions | all texts up to length 4 | four of the laws, for all texts (row 12) | done |
| 9 | several documents in the lifecycle; a restored text and the file's stamp | - | 2 documents | - | planned |
| 10 | `DataLemmas`: induction and recursion as the provers can use them, for what is said of folds, lists and texts | - | - | - | done |
| 11 | `Comparison`, `EncodingAnalysis`, `EditorConfig`, `LanguageRegistry`, with their laws in `DocumentLaws` | reference definitions: subsequences, shortest forms, matching by cases | texts and bytes up to length 4, three lines, three entries | - | done |
| 12 | what trimming, line ends and the final one do to a text that went through them already | - | - | a second save changes nothing; saved texts are clean; trimming, line ends and case settle | done |

Everything is written for proofs as well as for TLC: parameters are CONSTANTS
with named assumptions, an operation is an action, an invariant is a conjunction
of named parts, and there is no RECURSIVE operator in a module with theorems or
below one.

## 3. The modules

| Module | Models |
|---|---|
| `DurableSnapshot` | abstract: snapshots are submitted, stored in order, a flush is answered truly, a restart forgets what was not stored |
| `SessionWriter` | `SessionWriter` and `SaveSessionAtomic`, two threads and the disk; implements `DurableSnapshot` |
| `LatestOperation` | the hand-off cell `LatestOperation<T>`, one operator per critical section |
| `FolderSearch` | Find in Files over `LatestOperation` |
| `DocumentSync` | one document, its file, other programs, message boxes |
| `SessionLifecycle` | one document over the launches of the program, with `DurableSnapshot` for the writer (`Writer == INSTANCE DurableSnapshot`) |
| `LargeFileBuffer` | the piece table of `large_file_buffer.cpp`: a record, and an operator for each member function |
| `LargeFile` | one large document over `LargeFileBuffer`: window, edits, search, streaming save, follow mode, other programs |
| `SyntaxTree` | rows, columns, the edit of a notification, and what tree-sitter makes of it |
| `SyntaxHost` | colouring of one document, in this process or in a child process behind two pipes |
| `TextCommands` | `editing.cpp` and `text.cpp` as functions of a text |
| `TextLaws` | what these functions promise, over all short texts, as named assumptions that TLC evaluates |
| `Comparison` | `comparison.cpp`, and what the comparison window copies |
| `EncodingAnalysis` | `encoding_analysis.cpp`: what bytes are taken for, and the conversions |
| `EditorConfig` | `editor_config.cpp`: which settings hold for a file |
| `LanguageRegistry` | loading a directory of definitions, and the language of a file |
| `DocumentLaws` | what these four promise, in the manner of `TextLaws` |
| `MacroRecorder` | typing, text commands, macros and what a save does to a text, over `TextCommands` |
| `RecoveryStore` | `recovery.cpp` as functions of a set of files |
| `Tabs` | open documents and their tabs, closing and its question, recovery, over `RecoveryStore` |
| `WorkspaceCatalog` | roots, recents and favourites, the tree and its items, beside other programs |
| `Workbench` | `MacroRecorder`, `Tabs` and `WorkspaceCatalog` under one message loop |
| `*Proofs` | the theorems about the module of that name |
| `DataLemmas` | induction, recursion and sequences, for the other proofs; what the functions of `TextCommands` return and preserve |
| `MC_*` | the instance TLC checks; `MC_FolderSearch` also defines the searches a user may ask for |

### SessionWriter

`pending`, `writing`, `lastResult` and `stop` are `pending_`, `writing_`,
`last_result_` and the worker's stop token. `waiting` is the set of threads
asleep in `changed_.wait`: a thread whose predicate is false joins it, a
notification empties it, and a notification is an action of its own because the
code notifies after it has released the mutex. So a lost wake-up would be seen.
`worker` follows `Run` and the five steps of `SaveSessionAtomic` (target check,
open, write, move, result), each with its failure. `ui` follows the caller:
`Queue`, `Flush`, and the destructor (`Flush`, `request_stop`, `join`).
A snapshot is its number in the order of the calls to `Queue`; a file is the
number it holds and whether it is whole. `Relaunch` is a crash at any moment, or
the end of the process, and the next start: only the files remain.

### FolderSearch

`cell` is `search_operations_`; a search is named by its generation, which is
also the index of its worker in `workers`. `posted` counts the completion
messages in the queue (their generation is not used by the code, so it is not
kept). `ui` is where the UI thread is: the prompt of a search runs a message loop,
so `CompleteSearch` is enabled there, too; the steps of cancelling (stop
requests, then a new generation) and of closing (stop requests, then the joins)
are separate because workers run between them. A job says what is searched (open
documents or roots), whether the query is a bad regular expression, and for each
part how many matches it holds and whether its scan was cut; `Limit` is the 5,000
of the code. Matching text is not modelled: hits are given.

### DocumentSync

Each content the file ever has is a fresh number, which stands for its size,
write time and identity as well; so a `FileStamp` or a `FileState` is the number
of the content it was taken from. `doc` holds the fields of `EditorDocument` and
of the library's metadata that the decisions depend on, and one field that is
not in the code, `base`: the content the text is based on, edits aside.
`savePoint` is Scintilla's own notion, `dirty` is the metadata's; they differ
after `SetEncoding` and after the answer to a deleted file, and the notification
that an undo reached the save point clears `dirty`.
Reads, comparisons and replacements of a file are separate actions, so another
program's write fits between any two. `boxes` is the stack of message boxes of
`CheckExternalChanges`: while one is open only the timer runs, which may open
another on top; only the innermost can be answered.

### SessionLifecycle

`doc` has the editor's text, the text at the save point, and the dirty flag;
`pending` is `session_snapshot_pending_` and whether its due time has come;
`snaps` is the session entry in every snapshot passed to the writer. `app` follows
the process: off, running, and the steps of `OnClose` (stop the timer, ask,
take the last snapshot, flush, close). `Entry` is `CaptureSession`, `RestoredDocument`
is `RestoreSession`. The writer is the promise, not the code: its steps are
`DurableSnapshot`'s, which `SessionWriter` is shown to implement.

### LargeFile

`buffer` is the `LargeFileBuffer` as a value: pieces, added bytes, size, modified
flag. `Cut` and `IndexAt` are `SplitAt`, `AddPiece` is the step of `Normalize` that joins
neighbours that lie together in their storage, `TextOf` is what reading all of it returns, `Find` carries the end of a chunk over as the code
does. `source` is its `MappedFile`; `known` is the write time (and size) it took
of the path, which is not always that of the file it maps: mapping and stamping
are separate steps, and `origin`, which the code does not have, remembers what
was mapped. It stays behind when a save replaces the file by the pieces of a table
that is not `Sound`, that is, which does not lie over what it was made of. `editor` is Scintilla's text with its undo history, in which a loaded
window is an entry like any other; every change is recorded in the table at
`doc.decoded`, that is `mapped_decoded_offset`, plus its position, except while a
window is loaded. `doc.via` says how the text came into the editor: with the
file's opening, by a loaded window, or by an undo, a reload or a failed follow,
after which the code does not keep window and table together. `ui` follows
`OpenPath`, `SaveAs` (stream, compare, move, reopen, stamp), and follow mode (map, stamp,
load), so that other programs write between any two calls. A file that is put there between
the move and the reopening is mapped under the new piece, and one between the reopening and
the stamping gives its write time to the older text; `SaveAs` returns true in both cases.
`SavedIsText` therefore says of the move that it puts the edited text in place, and of the
table after it only that it is this text if it reads and stamps the file that was written. A character and the
byte-order mark are one byte each.

### SyntaxTree and SyntaxHost

A tree is a sequence with one leaf for every byte, which knows the byte it was
parsed from, its row and its column; an edit moves the leaves behind it and
leaves unread ones in its place, and the next parse reads those. So a wrong edit,
or one the tree is never told of, shows as a leaf that is not of the text.
`EditOf` is `UpdateSyntaxTree`, which asks the row and column of the start
of an editor that has changed already.

`ui` is where the UI thread is in `Transact` (header, payload, answer, result)
or `State::Stop` (quit, wait); `call` is the exchange; `requests` and `answers` are the
pipes, with room for one part of a message each; `host` is the child process,
with its place in its loop, its parser, tree, source and prepared reply. The host's
standard error is merged into its answers (`HostComplains`). `GiveUp` is every
way an exchange can fail: deadline, broken pipe, exception, an answer that does not
begin with a header; it ends the host. What the callers make of an outcome
(`Configured`, `Parsed`, `Highlighted`, `Listed`) is part of the step that reads it.
`ready` and `launched` are the client's flags, `input` its end of the request pipe.

### TextCommands, TextLaws and MacroRecorder

The functions of `editing.cpp` are written with sets of positions (`Breaks`, `Solid`)
instead of loops; `TextLaws` says what they promise. `MacroRecorder` has a
document (`editor`: text, selection, line ending), the recorder (`recording`,
`actions`), the saved macros and their file. `Type` is the insertion, its recording
and `HandleCharacterAdded` in one step, as `OnNotify` does them; what is recorded is one
UTF-16 unit, `Narrow` of the character (`static_cast<wchar_t>`, `main.cpp:657`), which loses
the upper bits of a character beyond U+FFFF. `InsertUnits` puts units back into a text if they
are UTF-16 (`IsPaired`, `Decoded`) and nothing otherwise, as `InsertText` does with a failed
`mwfl::ToUtf8`; in the file of macros such a text is empty (`Serialized`). A menu command is
recorded before it runs, one from the palette is not (`RunCommand`, `main.cpp:607`). `SaveDocument` is the part of the save that rewrites the
text; `DocumentSync` has the rest. The variables `begin`, `exact`, `saves` and `stored`
are history: the editor at the start of the recording, whether all that changed it
since is recorded, how often it was saved unchanged, whether the file of macros was
written.

### Comparison, EncodingAnalysis, EditorConfig, LanguageRegistry

Functions without state; each is written as a function of the text, the bytes, the
lines of the configurations or the entries of the directory. `Comparison` keeps the walk
of `CompareText` step by step, because the choice between "modified", "inserted" and
"deleted" depends on its order. `EncodingAnalysis` is over real bytes: `InvalidUtf8` is the
program's own decoder, `DecodeUtf8` and `EncodeUtf8` are Windows' (external). In
`EditorConfig` a line is a section or a pair, in lower case and trimmed; `GlobMatch` is the
loop with its one remembered star. In `LanguageRegistry` a refused entry says in which of the
checks it failed, since a module that was read counts even if its definition is refused.

### Tabs and RecoveryStore

`order`, `active`, `pinned` and `docs` are the library's workspace and
`pinned_documents_`. `box` is the question of `CloseActive`, `closing` the loop of
`CloseRelativeTabs` (whom it keeps, which side, what is left), `listing` the
recovery manager. While one is open the timer (`AutoSaveIfDue`,
`SaveRecoverySnapshotsIfDue`) and a second launch (`OpenPath`) still
act. `Prunings` are what pruning may leave: all files beyond the limit may stay or go, because a
failed removal is ignored and the process may end between the move and the pruning
(`recovery.cpp:72`, `133`). So nothing bounds the directory, and no property says so. A snapshot's name is the safe form of its key with a number; `SafeName` is a
CONSTANT because long paths share one. `began` and `lastTick` are
history.

### WorkspaceCatalog

A path is a sequence of names; `TextOf` is its text, over which
`IsWithinWorkspaceRoots` works. `disk` is what there is, `tree` and `loaded` what
the tree shows and has expanded, `prompt` the open question with the path it was
opened for: other programs remove and create things meanwhile (`RemoveElsewhere`,
`CreateElsewhere`). `CreateWorkspaceItem` and `RenameWorkspaceItem` are two steps each: the checks
up to `std::filesystem::exists` (`CheckWorkspaceItem`), which keep the new path in `prompt.target`,
and the creation or the rename, which replaces a file that another program has put there by then;
`prompt.taken` is a history of that. The window's thread does nothing else in between. Each operation on an item ends
with the refresh and the save of the catalog that it does.

### Workbench

The three parts are handlers of one thread and share no variable. An interleaving
of them is a product of their behaviours, so `part` chooses one part to move;
every property speaks of one part only.

## 4. What each run checks

`passes` means that TLC explored every reachable state and found no violation.
`TypeOK` is checked in each passing run and not repeated below.

| Run | Properties | Shows |
|---|---|---|
| `session_writer` (passes) | `FlushIsHonest`, `SessionFileIsWhole`, `DestroyedIsDrained`, `DestructorReturns`, `ImplementsDurableSnapshot` | whatever fails and whenever the process dies, `Flush` does not answer true for an older snapshot, the session file is whole, the destructor returns and leaves no thread; the writer refines `DurableSnapshot`, its liveness included |
| `folder_search` (passes) | `PendingIsCurrent`, `NoPartialResultListed`, `CancelMeansRunning`, `CompleteMeansComplete`, `ClosedIsQuiet`, `ListsCurrentResult`, `SearchConcludes` | overlapping searches do not mix, a cancelled one is never listed, "complete" is said only of a complete folder search, and every search ends |
| `document_sync` (passes) | `StampIsOfText`, `StampedSaveKeepsOthers`, `UnsavedEditsAreKept`, `ChangeIsHandled` | the Unicode save with a stamp never replaces an unseen content; edits are dropped on the user's word only, nested boxes included; a visible change is handled in the end |
| `session_lifecycle` (passes) | `CrashIsHarmless`, `CloseIsHarmless`, `EditIsSnapshotted` | after the debounced snapshot is stored a crash costs nothing an entry can express; an orderly close loses nothing expressible; while the timer runs every edit is snapshotted |
| `document_sync_lost_update` (violated) | `SaveKeepsOthers` | finding 1 |
| `session_unsaved_lost` (violated) | `UnsavedIsRestored` | finding 2 |
| `session_recovery_stops` (violated) | `RecoveryContinues` | finding 3 |
| `large_file` (passes) | `TableIsText`, `LoadedWindowIsMapped`, `SavedIsText`, `FollowMissesNoGrowth` | on every reachable table a further insertion, deletion or search equals that of the plain text; a loaded window stays the text at its place; what a save moves into place is the edited text, and so is the table after it unless another program replaced the file before it was reopened and stamped; no table without its source is saved; follow mode does not skip growth |
| `syntax_host` (passes) | `AtRestBetweenExchanges`, `NoHostLeftBehind`, `AnswersAreOfText`, `EditorAnswers` | whatever the host does, an exchange begins with empty pipes and a host that waits for it; a failed or dismissed host is gone; spans and symbols come from the tree of the editor's text, also after failed parses; the UI thread comes back |
| `workbench` (passes) | `ReplayRepeatsTyping`, `SaveSettles`, `ClosingIsCareful`, `TickIsRecoverable`, `ItemsStayInside`, `LaunchRestores` | playing repeats what was typed and chosen, for characters up to U+FFFF; a second save changes nothing (a third, if the first left two kinds of line ends); only meant tabs are closed; the last tick's snapshots are there; nothing outside the roots is touched, and nothing inside is lost but the item and what another program puts at its new name after the check; macros and catalog survive a launch. It also evaluates the laws of `TextLaws` (`LinesAreCounted`, `StatisticsAgree`, `ComposeNormalizes`, `SortSorts`, `CommandsSettle`, `SplitIsNarrow`, `TabsKeepColumns`, `CodesRoundTrip`), those of `DocumentLaws` (below) and `WithinIsByNames`: comparing paths by their texts is comparing them by names |
| `large_file_bom` (violated) | `WindowIsMapped` | finding 4 |
| `large_file_open_race` (violated) | `SaveChecksItsSource` | finding 5 |

### The laws of DocumentLaws

| Law | Says |
|---|---|
| `NoLineIsLost` | every line of both sides occurs in a comparison, in its order |
| `IdenticalIsTheSame` | "identical" means the same lines up to what is ignored; strictly, the same texts |
| `EqualLines` | the table holds the lengths of longest common subsequences; the walk finds at most as many equal lines |
| `SpansAreAll` | the marked parts are all that differs in a modified line |
| `CopyingHelps` | copying a difference leaves fewer, if all lines end; and two cases where it does not |
| `CharactersAreShortest` | the decoder takes exactly the shortest forms of the numbers that are characters |
| `UnchangedIsSaved` | what is opened as text and saved unchanged is the same file |
| `ValidIsReadable` | valid means that it can be opened, or is binary |
| `WindowsCanBeRead` | leaving out at most three bytes makes a cut text well-formed |
| `EndsAreCounted` | the report of line ends agrees with the status bar, and with converting them |
| `GlobsAreRight` | the loop with one star matches what the plain definition does |
| `NearestWins` | the nearest configuration wins, none counts beyond a root |
| `CharsetReplaces` | what a configured charset does to a file of another encoding |
| `RegistryIsSound` | ids are unique, limits are kept, every entry is a language, an error, or not a definition |
| `DetectionIsStable` | a definition takes no file from the languages before it |

### Bounds

* `session_writer`: four snapshots allow one being written, one queued, one that
  replaces the queued one, and one more after a flush; three launches allow a
  crash in a process that itself started after a crash.
* `folder_search`: a start takes two generations (cancel, begin) and a cancel
  takes one; five allow a search, its replacement by another, or its
  cancellation and another start. With a limit of two, jobs have fewer, exactly
  as many and more matches than the limit, in one part and across two.
* `document_sync`: four contents are the one opened and three writes, divided
  among the program and the others in every way; two boxes are the smallest stack.
  The bound on boxes stops the timer from opening a third; the code has no
  bound.
* `session_lifecycle`: four commands in three launches, so that a snapshot of a
  restored document is restored again. Two texts and the empty one.
* `large_file`: three bytes and a window of two give a first, a middle and a last
  window; a chunk of two and needles of two bytes put matches across a chunk's
  end. Two commands, with a third operation applied by `TableIsText` to every table
  they reach, give three edits, or a failed save and another; one write of
  another program falls between any two steps, and it may delete the file at
  any time. Other programs replace the file or append to it; writing into
  the bytes a mapping has open is left out, and so is a view that cannot be mapped
  again after saving to another path.
* `syntax_host`: texts of up to three bytes, a letter and a line feed, with two edits
  of any length after each other: an edit across rows, and one on a tree that a failed
  parse left. Two bytes is the longest text that is parsed, so that a text outgrows
  it. Two openings allow a native and a hosted grammar, or a host after a host.
* `workbench`: three documents, two of which have paths with the same safe name, a store
  of two and two ticks: a collision, a full store, and a document that is opened
  during a loop over two. Four moves on texts of up to five code units: start, type,
  command, type, with a play or a save; one saved macro is loadable, two are not. The keys are both
  braces and two characters beyond U+FFFF, whose lower 16 bits are the two halves of a pair: typed
  one after the other they are recorded as a third character. A disk with
  directories `a` and `ab`, each with an entry: nested roots, and a name that begins
  with another. Four changes are two roots, another program's file at the new name, and the
  rename over it. The two names of macros are symmetric: they are only compared.
  The laws take all texts up to length 3 or 4 over the characters they depend on; bytes are
  the boundaries of the ranges that a leading and a following byte may have; the registry's
  limits are 2 each, so directories of three entries reach and pass them.

A cap on a counter (contents, commands, launches, generations) stops the
environment, not the program, with one exception: a save needs a new number for
what it writes, so `WriteUnicode` and `ReplaceAnsi` are disabled when
`MaxContents` is reached; the write then fails instead, which the code may do
anyway.

### Fairness

* `SessionWriter`: weak fairness of the worker and of the caller's steps inside
  `Flush` and the destructor. Threads are scheduled and file calls return.
  Nobody has to queue, flush or restart.
* `FolderSearch`: weak fairness of each worker, of the steps of a UI handler
  that has begun, and of message delivery. `CompleteSearch` is enabled in the
  prompt as well, which has its own message loop. It is assumed that `PostMessage`
  succeeds (its result is not tested by the code).
* `DocumentSync`: strong fairness of the timer, because a timer message stays
  pending while commands run and is delivered between them; strong fairness of
  answers, because the user answers the boxes in the end, though each timer tick
  steals the turn for a while. A handler that has begun finishes. A reload that is
  tried again and again does not fail for ever, and so does a discard: `[]<>` of a
  failing one implies `[]<>` of a successful one, that is, a locked file is
  released at last.
* `SessionLifecycle`: time passes, the timer fires while it is running, the
  question of `OnClose` is answered, a flush returns. Nothing makes the writer
  succeed.
* `SyntaxHost`: weak fairness of the UI thread's steps inside a call, of which
  `GiveUp`, the deadline, is one. Nothing at all is assumed of the host. The
  configuration switches the search for deadlocks off because edits and openings are
  bounded and nothing else has to happen.
* `Workbench` has no liveness property and no fairness.

## 5. What is proved

The proofs hold for every value of the constants under the named assumptions of
the modules, which TLC evaluates in the runs: `BoundsAssumption` (the bounds, a
window and a chunk are natural numbers, where the code needs it positive),
`JobsAssumption` (every set of jobs of the right type), `TextsAssumption`
and `CharsAssumption` (the marks are not texts or characters), `FilesAssumption` (files
are of bytes, the mark and the gap are none), `RetentionAssumption`,
`PathsAssumption` and `TabsAssumption` (something is kept; paths and ids are numbers),
`CatalogAssumption` (names hold no separator; the disk at the start has the parents
of what it has), `KeysAssumption`, `CommandsAssumption`, `DocumentsAssumption` and
`EditingAssumption` (what is typed is a character but no line end, commands are those of
the menu, documents are texts with settings, the tab width is a number).

* `SessionWriterProofs`: `TypeCorrect`, `FlushHonesty`, `WholeSessionFile`,
  `DrainedDestructor`, `WriterKeepsPromise`. The invariant adds to the
  properties what the worker is doing: what it holds in `request` is newer than
  the file and not newer than the newest; while it moves, the temporary file
  is whole and is the request; `writing` is true exactly while a
  request is under way; and without a pending one the last request *is* the newest.
  Without these, a state in which the worker writes an old snapshot last
  would satisfy `FlushIsHonest` and break it in the next step.
  `WriterKeepsPromise` is the safety part of the refinement: initial states map
  to initial states and each step to a step of `DurableSnapshot` or a stutter.
* `FolderSearchProofs`: `TypeCorrect`, `CurrentPending`, `ListedWhenCurrent`,
  `PartialNeverListed`, `ShutdownQuiet`, `CancelHasWork`, `CompleteIsComplete`. The
  invariant says that no worker is of a
  generation beyond the cell's, that a worker that was asked to stop is overtaken
  as soon as the UI thread can take a result again, and that a pending result of
  the current generation is cancelled only where its worker was asked to stop.
  In the two steps between the stop requests and the new generation a partial
  result can be pending: that is why `ui` is part of it. `CancelInv` says which
  worker the command is for, or that its result is on the way. `CompleteInv` counts: a worker that was
  neither stopped nor cut has found the hits of the parts behind it, so at the end those
  of all parts, and what is pending or listed is the result of such a worker.
* `DocumentSyncProofs`: `TypeCorrect`, `StampOfText`, `StampedSaves`, `EditsKept`.
  The invariant adds that what was read is what was stamped when both are
  compared equal (a content never comes back, its number is fresh), and that
  a document away from its save point is dirty except inside the steps of a
  save.
* `SessionLifecycleProofs`: `TypeCorrect`, `HarmlessCrash`, `HarmlessClose`. The
  invariant relates the document to the newest snapshot: while the program runs
  and no snapshot is pending, there is one, and if the document can be expressed,
  restoring the newest gives the document back; nothing is pending from the flush
  of a close on, and after the close the stored snapshot is the newest.
* `SyntaxHostProofs`: `RestBetweenExchanges`, `NoStrayHost`, `TypeCorrect`, `SpansAreOfText`.
  The invariant of the first two says where the
  host and the pipes can be in each phase of an exchange: while the header is being
  sent all is empty; while the answer is waited for, the request, the host's place in its
  loop, its reply and the pipe together hold exactly one answer. It also says
  that the client is not ready only before it is configured, so that `ready` is a
  true sign of being between exchanges. Texts and trees play no part in it. The other
  two add `TreeInv`: the host's tree is that of the editor's text whenever a query is
  under way, and one edit behind while the next parse is asked for; and the lemmas
  about `SyntaxTree` that it needs: an edit whose rows and columns are right, applied to the
  leaves of the old text and then parsed, gives the leaves of the new one.
* `WorkbenchProofs`: `CarefulClosing`, `TabsTypes`, `TickRecovers`, `CatalogTypes`,
  `ItemsInside`, `LaunchGivesBack`, `ReplayIsTyping`, `TypeCorrect`, `SavesSettle`, `SavesAreClean`.
  For closing, the invariant says that all a loop has left to close,
  and the document it has asked about, were on its side and not pinned when it
  began, whatever is opened, pinned or sorted meanwhile. For recovery, `StoreInv` says that the
  directory has at most one snapshot of a name and a time and that no time is in the future; it may
  have more than are kept, since a removal may fail; `TickKeeps` goes over the documents of a tick one by
  one and shows that pruning after each, oldest first, never removes one that this tick
  wrote. It rests on `PlacesAreInjective`: the order of pruning is total. For the catalog,
  `CatalogInv` says that the disk has the parents of all it has, that the tree is of paths (not
  that these still exist), that what is to be created or renamed passed its check, and that what is
  at its new name by now came after it (`TargetOK`), that the lists have no entry twice and keep
  their limits, and that a file that was written has the lists. `TextsAreOfPaths` proves for all paths what the run evaluates on its disk: the test of
  `IsWithinWorkspaceRoots` on texts, with the separator behind the root, is the prefix of names.
  `RecentsReturn`, `RootsReturn` and `FavoritesReturn` follow the loops that read a file
  back. `LaunchGivesBack` is both halves: the lists, and the macros.
  `ReplayIsTyping` is an induction over what is recorded: a new action is performed on what
  the ones before it made (`PlayedMore`), and a text that is joined to the last recorded one
  is inserted where that one ended (`PlayedJoined`, `InsertTwice`). As long as `exact` holds no unit
  of what is recorded is half of a pair (`IsPlain`), so decoding gives each unit back
  (`DecodedIs`, `InsertUnitsIs`). For that, and for
  `TypeCorrect`, every command has to turn an editor into an editor: so each function of
  `TextCommands` is shown to return a text, for every text (`SortLinesIs` ... `TransformIs`; a
  stable sort is a permutation because its order is total, `Ranked`; wrapping a line ends,
  `ShortEnough`), and the selection to stay in it (`EffectIs`, `HandleIs`).
  `SavesSettle` needs what saving does to a text it has been applied to. `SaveSettles` is not
  inductive: it says nothing of a text that was saved once and has two kinds of line end. The
  invariant `SavedOK` says that a saved text is clean (`IsClean`: no blank before a line end,
  a line end at the end, as far as the settings ask for them), and that one that was saved twice is
  what `Again` makes of it. It is kept because trimming makes a text without such blanks and setting
  line ends brings none back (`TrimTrims`, `TrimmedStays`), because a final line end stays
  one (`EndedStays`), and because on a clean text the whole of `Prepared` is only a setting of
  line ends (`PreparedAgain`), which forgets those before (`LineEndsAreForgotten`) and so does nothing
  the second time (`AgainOnce`). The lemma behind trimming is
  `ParsedIsComposed`: the lines that `ParseLines` finds, joined with one line end, are the text with its
  line ends set (`JoinedUpTo`, line by line; `NormalizedMore`, character by character).
  `HasOneEnding` is needed for the second save: a lone CR is no line end that trimming
  writes, and the `.editorconfig` may ask for another than the document's. Four laws that the run
  evaluates on short texts are so proved for all: `ComposeNormalizes` and `LinesAreCounted`
  (`ParsedIsComposed`) and of `CommandsSettle` those on trimming and on cases, for title case and
  the other three.
* `LargeFileProofs`: `LargeFileIsSound`, `TypeCorrect`, `TablesAreTexts`, `WindowsAreMapped`,
  `SavesTheText`, `FollowsToTheEnd`. First the functions: `SplitAt` keeps the text,
  insertion and deletion in the pieces are the splice of the text whatever the pieces
  are, `Normalize` keeps it, reading a range returns that range, and a search by
  chunks that carries the end of each one over finds the first occurrence (`FindIsInt`, `FindsFirst`),
  for texts, pieces, windows and chunks of any length. Then the system, with
  `LargeFileInv`: a mapping is of a version that existed, and not older than the
  pieces (`SourceIsOld`); the pieces lie in it if the two are of one version (`TableFits`); the
  undo history leads from a text of some length to the one in the editor, so an
  undo always fits (`HistoryFits`); what a handler noted before it mapped is not newer than the
  mapping (`HandlerHolds`), which is why follow mode cannot skip growth; and a window that was loaded is the table's
  text at its place (`WindowIsShown`).
* `DataLemmas`: of all texts `TrimSettles`, `ParsedIsComposed`, `LineEndsAreForgotten` and
  `CaseSettles`, with what the functions of `TextCommands` return; and the means for it. The library's theorems on induction and recursive definition take an operator as a
  parameter, which the provers cannot instantiate. Here induction is over a *set* of
  numbers (`Induction`), the step of a recursion is a *function* (`Recursion`,
  `RecursionStays`), and both follow from the well-foundedness of the naturals; induction over
  sequences is over a set that has the empty one and with each any longer by one element
  (`SequenceInduction`), and `FlattenMore` is the step that goes with it. So what
  the proofs above say of folds, lists and texts is proved for every length.

Attempts to prove have changed the model once. `LoadedWindowIsMapped`, as it was, held for
two commands and was violated with three: after a file was replaced between
mapping and stamping and the move of a save failed, the table mapped the newer file;
a second save wrote the old pieces over it, and `origin` claimed that they were the
text of what had been written. The code does that (it is finding 5, a step later); the
claim was wrong, since such a table is no text's. `origin` now stays behind then. An early form of
`LargeFileInv` was checked by TLC with three commands before it was proved; the separate steps of
`SaveAs` after the move came later, and their proof with them.

Only model-checked:

* liveness (`DestructorReturns`, `SearchConcludes`,
  `ChangeIsHandled`, `EditIsSnapshotted`, `EditorAnswers`, and the liveness of the refinement),
  which needs ENABLED and fairness and is beyond TLAPS here;
* the laws of the pure algorithms in `TextLaws` and `DocumentLaws`, which are evaluated over all
  short inputs, except for the four above.

Every invariant and every safety action property that a passing run checks is stated by a theorem.

## 6. Findings

1. **An ANSI save can replace another program's content** (`main.cpp:1434`,
   run `document_sync_lost_update`). `OpenPath` compares the stamp around the
   read, but takes `file_state` later, at `main.cpp:1345`, and the ANSI save goes
   by `file_state`. The Unicode save goes by the stamp and is proved safe. The
   same property also fails through the gap between comparison and replacement in
   `WriteEncodedFileAtomic`, and through the stamp that an ANSI save or a reopen
   clears before the encoding is set back to Unicode.
2. **An emptied, unsaved document comes back with the file's text**
   (`main.cpp:4125`, run `session_unsaved_lost`). An empty text in an entry means
   "no text", while `OnClose` has said that unsaved documents will be restored.
3. **A cancelled close ends crash recovery** (`main.cpp:755`, run
   `session_recovery_stops`). `OnClose` stops the monitor timer before it asks, and
   no path starts it again: no snapshots, auto-saves or external-change checks for
   the rest of the process.

4. **Edits of a large file with a byte-order mark go to the wrong place**
   (`main.cpp:1355`, run `large_file_bom`). `OpenPath` shows the first window without
   the mark and leaves `mapped_decoded_offset` at 0, so edits are recorded three
   bytes early until another window is loaded; loading a window sets the offset.
5. **A large file replaced while it is opened is overwritten unseen**
   (`large_file_buffer.cpp:30`, run `large_file_open_race`). The table maps the file
   and then takes size and write time from the path; the comparison before the
   save accepts the newer file, which the table does not describe. A save opens the
   file it wrote in the same order (`large_file_buffer.cpp:273`), with the same gap.

## 7. Assumptions and what is left out

* The library `mwfl` and Scintilla are not in this repository. Assumed from the way
  they are used: `mwfl::WriteTextFileAtomic` compares the stamp and replaces the
  file in one step; `SetText` and typing leave the save point, undo reaches it.
* The file system keeps what was renamed; the loss of a file's data at a power
  failure after a rename is not modelled (hazard at `session.cpp:146`).
* The temporary file of `SaveSessionAtomic` is written by one process only (the
  application is single-instance).
* `DocumentSync` has one document and no addresses: that an activation message
  during a box can reallocate `documents_` under a live reference is listed as a
  hazard and not modelled. Branches for large files and follow mode are in
  `LargeFile`.
* `SessionLifecycle` has one document, no auto-save, and other programs write
  between launches only; `DocumentSync` has the rest. What a session stores beside
  the entries (active tab, folds, bookmarks, panes, workspace roots) is left out.
* `Expressible` in `CrashIsHarmless` and `CloseIsHarmless` excludes the states of
  finding 2 and one more: a restored text whose file is gone has its save point at
  the restored text, so typing and undoing makes it clean although no file has it.
  No property covers that hazard (`main.cpp:4147`), nor the one of a dirty mark that is
  lost at the save point (`main.cpp:651`): `UnsavedEditsAreKept` speaks of documents away from it.
* `SyntaxHost` leaves out a failed allocation before an exchange begins and the visible
  range (the whole text is asked for); `SyntaxTree` leaves out rows that end with a lone
  carriage return, which Scintilla counts and tree-sitter does not.
* `MacroRecorder` indents with spaces and plays a macro once. The characters that Scintilla
  announces are code points other than 0 and surrogates.
* `WorkspaceCatalog` leaves out the tree's filter, its limit of 2,000 children, and links: a disk
  is a tree of directories and files. `IsWithinWorkspaceRoots` compares texts (`workspace_state.cpp:67`),
  so what a link or a junction inside a root leads to is inside for the program, and may be
  anywhere on a real disk; nothing here speaks of that.
* `LargeFile` has one document in UTF-8 whose characters are single bytes, so the
  search for a character's beginning at a window's edge is left out, as are the
  read-only mode of other encodings and the restart of a session with a large
  document. `SetText` is assumed to be an entry of the undo history, as
  `SCI_SETTEXT` is.
* Not modelled at all: the parts listed so in `PROJECT.json`, each with its reason;
  dialogs, menus, printing, output, completion, Git status and styling are pure input and
  output, text scanning without state, or external calls and will stay out.
* `EncodingAnalysis` has an ANSI code page with one character for every byte; code pages
  whose characters take two bytes are external. The program itself saves Unicode text through the
  library, so `UnchangedIsSaved` speaks of such a save only if the library encodes as `EncodeText`
  does. `EditorConfig` reads a number whole (the code
  takes the digits at the beginning of `4x`). `LanguageRegistry` abstracts JSON and the checks
  of paths to "valid". The comparison window's navigation and its marks are left out.

### What the models show beside the findings

These are behaviours of the code which the models reproduce, which surprise, and which no
sentence of the repository contradicts plainly enough for a finding.

* Tabs: a second launch during the question of `CloseActive` changes the active
  document; Yes then saves that one and closes the one that was asked about
  (`main.cpp:3007`). `ClosingIsCareful` allows it.
* Recovery: a restored snapshot is a clean document without a path, so closing it asks nothing. The
  limit of 50 is over all documents. A clock that was set back makes the newest snapshots the
  first to be pruned. A file that could not be removed stays beyond the limit. An entry in the open recovery manager may be pruned already.
* Macros: commands from the palette, the caret, backspace and what the editor adds by
  itself are not recorded; a character beyond U+FFFF is recorded as its lower 16 bits, which is another
  character, or half a pair: then the whole joined text cannot be converted, playing inserts
  none of it, and the file of macros keeps it as an empty one. `exact` in `ReplayRepeatsTyping` leaves
  such recordings out. The
  limits of the file (100 macros, 10,000 actions, 4,096 bytes of a name, 1 MiB of a text) are
  checked when it is read and not when it is written: a file beyond
  them is refused whole at the next launch, and then replaced.
* Saving: a text with lone carriage returns is rewritten with line feeds by trimming. With
  `end_of_line` in an `.editorconfig` the final line end is still the document's former one, so
  the first save can mix two kinds, which the next one repairs: `SaveSettles` allows that.
* Workspace: each launch reverses the recents; opening a root that is one already does not
  make it recent; a file that another program puts at a new name, after `exists` said that
  the name is free, is replaced by the rename (`workspace_state.cpp:103`); a removed root returns with an older session after a crash; renaming or recycling
  a directory takes along a root that lies in it.
* Text: a tab that is there counts as one column for `SpacesToTabs` (`editing.cpp:157`,
  `TabsKeepColumns`); the escape written for a control character is not read again
  (`CodesRoundTrip`).
* Encoding: `charset = utf-8-bom` in an `.editorconfig` takes three bytes from a file that has
  no mark (`main.cpp:1284`, `encoding_analysis.cpp:70`); with `utf-16be` a file that has the
  other mark is read as other characters, and its mark is turned when it is saved (`CharsetReplaces`).
* Comparison: two lines that changed places are two modified lines, although one of them could
  be equal (`EqualLines`). Copying a line behind a last line without an end joins the
  two, and a line's end is never copied, so a difference in line ends alone stays
  (`main.cpp:382`, `CopyingHelps`).
* Settings: `unset` does not undo what a farther configuration set, `root = true` counts inside a
  section, and a star crosses slashes.
* Languages: a directory with exactly 64 definitions is reported to exceed 64; a module counts
  towards the 64 MiB although its definition is refused (`language_registry.cpp:205`).
* `CompleteWorkspaceScan` is never reached with a result: the tree is rendered lazily.
