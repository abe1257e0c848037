-------------------------- MODULE SessionLifecycle --------------------------
(***************************************************************************)
(* A document from one launch of the program to the next (main.cpp): edits *)
(* and the debounced session snapshot, the monitor timer that takes it,    *)
(* saving, OnClose with its question and its flush, crashes at any moment, *)
(* and RestoreSession.  The session writer is the one DurableSnapshot      *)
(* promises and SessionWriter implements.                                  *)
(*                                                                         *)
(* There is one document and one path it may have.  Other programs change  *)
(* the file between the launches only (DocumentSync has the other case),   *)
(* an existing file can be opened, and auto-save is off.                   *)
(***************************************************************************)
EXTENDS Naturals, Sequences, SequencesExt

CONSTANTS Texts,        \* the texts a document can have, besides the empty one
          Empty,        \* the empty text
          Gone,         \* no file
          MaxCommands,  \* bound: commands the user gives
          MaxLaunches   \* bound: times the process is started

ASSUME TextsAssumption == /\ Empty \notin Texts /\ Gone \notin Texts
                          /\ Empty # Gone
ASSUME BoundsAssumption == MaxCommands \in Nat /\ MaxLaunches \in Nat \ {0}

VARIABLES
  disk,      \* the file at the document's path
  doc,       \* the document
  pending,   \* session_snapshot_pending_, and whether session_snapshot_due_ is over
  timer,     \* monitor_timer_ is running
  app,       \* where the process is
  snaps,     \* the session of every snapshot passed to the writer
  newest, stored, asking, answer,  \* the writer: see DurableSnapshot
  commands,  \* commands given so far
  launches   \* process starts so far

Writer == INSTANCE DurableSnapshot

ui     == <<doc, pending, timer, app>>
writer == <<newest, stored, asking, answer>>
bounds == <<commands, launches>>
vars   == <<disk, ui, snaps, writer, bounds>>

AnyText == Texts \cup {Empty}

(* saved is the text at Scintilla's save point, edited says that the editor *)
(* has left it.                                                            *)
Documents == [titled : BOOLEAN, text : AnyText, saved : AnyText,
              edited : BOOLEAN, dirty : BOOLEAN]

Entries == [titled : BOOLEAN, dirty : BOOLEAN, text : AnyText]

(* A document whose editor is at its save point.                           *)
AtSavePoint(titled, text, dirty) ==
  [titled |-> titled, text |-> text, saved |-> text,
   edited |-> FALSE, dirty |-> dirty]

Untitled == AtSavePoint(FALSE, Empty, FALSE)

Init == /\ disk \in AnyText \cup {Gone}
        /\ doc = Untitled /\ pending = "no" /\ timer = FALSE /\ app = "off"
        /\ snaps = <<>> /\ Writer!Init
        /\ commands = 0 /\ launches = 0

-----------------------------------------------------------------------------
(* Snapshots.                                                              *)

(* CaptureSession: the text of a dirty or an untitled document.            *)
Entry(d) == [titled |-> d.titled, dirty |-> d.dirty,
             text |-> IF d.dirty \/ ~d.titled THEN d.text ELSE Empty]

(* SaveSessionSnapshot of the document d.                                  *)
SaveSnapshot(d) == /\ Writer!Submit
                   /\ snaps' = Append(snaps, Entry(d))
                   /\ pending' = "no"

NoSnapshot == UNCHANGED <<snaps, writer>>

(* The worker stores a snapshot, at its own time.                          *)
WriterStores == Writer!Store /\ UNCHANGED <<disk, ui, snaps, bounds>>

-----------------------------------------------------------------------------
(* The user's commands.                                                    *)

Command == /\ app = "running"
           /\ commands < MaxCommands
           /\ commands' = commands + 1
           /\ UNCHANGED <<timer, launches>>

(* SCN_MODIFIED and SCN_SAVEPOINTLEFT.                                     *)
Edit == /\ Command
        /\ \E text \in AnyText \ {doc.text} :
             doc' = [doc EXCEPT !.text = text, !.edited = TRUE, !.dirty = TRUE]
        /\ pending' = "waiting"
        /\ UNCHANGED <<disk, app>> /\ NoSnapshot

(* A mutant: reaching the save point again asks for no snapshot.           *)
MutantUndoUnannounced ==
  /\ Command
  /\ doc.edited
  /\ doc' = [doc EXCEPT !.text = doc.saved, !.edited = FALSE, !.dirty = FALSE]
  /\ UNCHANGED <<disk, app, pending>> /\ NoSnapshot

(* SCN_MODIFIED and SCN_SAVEPOINTREACHED.                                  *)
Undo == /\ Command
        /\ doc.edited
        /\ doc' = [doc EXCEPT !.text = doc.saved, !.edited = FALSE, !.dirty = FALSE]
        /\ pending' = "waiting"
        /\ UNCHANGED <<disk, app>> /\ NoSnapshot

Save == /\ Command
        /\ disk' = doc.text
        /\ doc' = AtSavePoint(TRUE, doc.text, FALSE)
        /\ SaveSnapshot(doc')
        /\ UNCHANGED app

(* CloseActive, saved before or discarded, and the NewDocument after it.   *)
CloseTab == /\ Command
            /\ doc' = Untitled
            /\ SaveSnapshot(doc')
            /\ UNCHANGED <<disk, app>>

-----------------------------------------------------------------------------
(* The monitor timer: QueueSessionSnapshotIfDue.                           *)

Elapse == /\ pending = "waiting" /\ app = "running"
          /\ pending' = "due"
          /\ UNCHANGED <<disk, doc, timer, app, bounds>> /\ NoSnapshot

(* A mutant: only a dirty document is worth a snapshot.                    *)
MutantTimerIfDirty == /\ timer /\ app = "running"
                      /\ pending = "due" /\ doc.dirty
                      /\ SaveSnapshot(doc)
                      /\ UNCHANGED <<disk, doc, timer, app, bounds>>

Timer == /\ timer /\ app = "running"
         /\ pending = "due"
         /\ SaveSnapshot(doc)
         /\ UNCHANGED <<disk, doc, timer, app, bounds>>

-----------------------------------------------------------------------------
(* OnClose.                                                                *)

Close == /\ app = "running"
         /\ commands < MaxCommands
         /\ commands' = commands + 1
         /\ timer' = FALSE
         /\ app' = IF doc.dirty THEN "confirm" ELSE "snapshot"
         /\ UNCHANGED <<disk, doc, pending, launches>> /\ NoSnapshot

Confirm == /\ app = "confirm"
           /\ app' \in {"snapshot", "running"}
           /\ UNCHANGED <<disk, doc, pending, timer, bounds>> /\ NoSnapshot

(* A mutant: OnClose flushes what was queued, and queues nothing.          *)
MutantCloseUncaptured == /\ app = "snapshot"
                         /\ app' = "flush"
                         /\ UNCHANGED <<disk, doc, pending, timer, bounds>>
                         /\ NoSnapshot

CloseSnapshot == /\ app = "snapshot"
                 /\ SaveSnapshot(doc)
                 /\ app' = "flush"
                 /\ UNCHANGED <<disk, doc, timer, bounds>>

(* SessionWriter::Flush, and what OnClose does with its result.            *)
Flush == /\ app = "flush"
         /\ Writer!Ask
         /\ UNCHANGED <<disk, ui, snaps, bounds>>

Flushed == /\ app = "flush"
           /\ Writer!Reply
           /\ app' = IF answer' = "ok" THEN "closed" ELSE "running"
           /\ UNCHANGED <<disk, doc, pending, timer, snaps, bounds>>

-----------------------------------------------------------------------------
(* The process ends: after OnClose, or by a crash at any moment.           *)

Ends == /\ app' = "off"
        /\ Writer!Restart
        /\ snaps' = SubSeq(snaps, 1, stored)
        /\ doc' = Untitled /\ pending' = "no" /\ timer' = FALSE
        /\ UNCHANGED <<disk, bounds>>

Exit  == app = "closed" /\ Ends
Crash == app \notin {"off", "closed"} /\ Ends

(* Other programs, between the launches.                                   *)
Elsewhere == /\ app = "off"
             /\ disk' \in (AnyText \cup {Gone}) \ {disk}
             /\ launches > 0 /\ launches < MaxLaunches
             /\ UNCHANGED <<ui, snaps, writer, bounds>>

(* A mutant: the file of an entry is not looked for.                       *)
MutantOpensAlways(e) == e.titled

(* RestoreSession of an entry: the file is opened and a dirty text put in  *)
(* its place; or the text becomes a new document; or nothing is restored.  *)
Opens(e)    == e.titled /\ disk # Gone
Replaces(e) == e.dirty /\ e.text # Empty
Renews(e)   == ~Opens(e) /\ (~e.titled \/ e.text # Empty)

RestoredDocument(e) ==
  IF Opens(e)
  THEN IF Replaces(e)
       THEN [AtSavePoint(TRUE, disk, TRUE) EXCEPT !.text = e.text, !.edited = TRUE]
       ELSE AtSavePoint(TRUE, disk, FALSE)
  ELSE AtSavePoint(e.titled, e.text, e.dirty)

Starts == /\ app = "off" /\ launches < MaxLaunches
          /\ launches' = launches + 1
          /\ app' = "running" /\ timer' = TRUE
          /\ UNCHANGED <<disk, commands>>

Restore == /\ Starts
           /\ stored # 0
           /\ LET e == snaps[stored]
              IN  /\ Opens(e) \/ Renews(e)
                  /\ doc' = RestoredDocument(e)
                  /\ pending' = IF Opens(e) /\ Replaces(e) THEN "waiting" ELSE "no"
           /\ NoSnapshot

StartEmpty == /\ Starts
              /\ stored # 0 => ~Opens(snaps[stored]) /\ ~Renews(snaps[stored])
              /\ doc' = Untitled
              /\ SaveSnapshot(doc')

-----------------------------------------------------------------------------
Commands == Edit \/ Undo \/ Save \/ CloseTab
Closing  == Confirm \/ CloseSnapshot \/ Flush \/ Flushed
Ending   == Exit \/ Crash
Starting == Restore \/ StartEmpty

Next == WriterStores \/ Commands \/ Elapse \/ Timer \/ Close \/ Closing
          \/ Ending \/ Elsewhere \/ Starting

(* Time passes, the timer fires while it runs, the question of OnClose is  *)
(* answered and the flush returns.  Nothing makes the writer succeed, and  *)
(* nobody has to start the program.                                        *)
Fairness == WF_vars(Elapse) /\ WF_vars(Timer) /\ WF_vars(Closing) /\ WF_vars(Exit)

Spec == Init /\ [][Next]_vars /\ Fairness

-----------------------------------------------------------------------------
(* Every variable stays in the set of values the code can give it, and the *)
(* writer never stores or counts a snapshot it was not given.              *)
TypeOK ==
  /\ disk \in AnyText \cup {Gone}
  /\ doc \in Documents
  /\ pending \in {"no", "waiting", "due"} /\ timer \in BOOLEAN
  /\ app \in {"off", "running", "confirm", "snapshot", "flush", "closed"}
  /\ snaps \in Seq(Entries) /\ Len(snaps) = newest
  /\ newest \in Nat /\ stored \in 0 .. newest
  /\ asking \in BOOLEAN /\ answer \in {"none", "ok", "failed"}
  /\ commands \in 0 .. MaxCommands /\ launches \in 0 .. MaxLaunches

(* What the next launch would show, if the process ended now.              *)
NextLaunch == IF stored = 0 THEN Untitled
              ELSE LET e == snaps[stored]
                   IN  IF Opens(e) \/ Renews(e) THEN RestoredDocument(e) ELSE Untitled

(* The entry a snapshot would hold says all there is to say: the file has  *)
(* a clean document's text, and a dirty one is not empty.                  *)
Expressible == doc.titled => IF doc.dirty THEN doc.text # Empty ELSE doc.text = disk

Quiet == app = "running" /\ pending = "no" /\ stored = newest

(* Once the debounced snapshot is taken and stored, a crash costs nothing: *)
(* whatever was edited, undone, saved, closed or restored before, the next *)
(* launch has the same text under the same name with the same dirty mark   *)
(* (OnNotify, SaveSessionSnapshot, CaptureSession, RestoreSession).        *)
CrashIsHarmless ==
  Quiet /\ Expressible
    => /\ NextLaunch.text = doc.text
       /\ NextLaunch.titled = doc.titled /\ NextLaunch.dirty = doc.dirty

(* The window closes only when the session file has the documents as they  *)
(* are, however snapshots, failed writes and cancelled attempts came       *)
(* before (OnClose).                                                       *)
CloseIsHarmless == app = "closed" /\ Expressible => NextLaunch.text = doc.text

(* While the monitor timer runs, an edit is followed by a snapshot: it is  *)
(* not left waiting (QueueSessionSnapshotIfDue).                           *)
EditIsSnapshotted == pending # "no" ~> pending = "no" \/ ~timer

(* "Close Notepad::? Unsaved documents will be restored next time.": after *)
(* an orderly close of a document that says it is dirty, the next launch   *)
(* has its text.                                                           *)
UnsavedIsRestored == app = "closed" /\ doc.dirty => NextLaunch.text = doc.text

(* "crash/session recovery - including unsaved documents": while the       *)
(* program runs, an edit is followed by a snapshot.                        *)
RecoveryContinues == pending # "no" ~> pending = "no" \/ app # "running"
=============================================================================
