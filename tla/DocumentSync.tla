----------------------------- MODULE DocumentSync -----------------------------
(***************************************************************************)
(* One document and the file it was opened from (main.cpp): OpenPath, the  *)
(* edits that make it dirty, SaveDocument in its Unicode and ANSI forms,   *)
(* AutoSaveIfDue, ReopenActiveWithCodePage, and the external-change check  *)
(* of the monitor timer with the message boxes it shows, beside other      *)
(* programs that write and delete the file at any moment.                  *)
(*                                                                         *)
(* Every content the file ever has is a number of its own, 0 is "no such   *)
(* file"; the number also stands for the file's size, write time and       *)
(* identity, so a FileState or a FileStamp is the number of the content it *)
(* was taken from.  The UI thread's handlers run to their end, except that *)
(* a message box runs a message loop, in which the timer fires again.      *)
(***************************************************************************)
EXTENDS Naturals, Sequences, SequencesExt

CONSTANTS MaxContents,  \* bound: contents the file is given
          MaxBoxes      \* bound: message boxes on top of each other

ASSUME BoundsAssumption == MaxContents \in Nat \ {0} /\ MaxBoxes \in Nat \ {0}

VARIABLES
  disk,      \* the content at the document's path
  contents,  \* contents written so far
  doc,       \* the EditorDocument and its metadata
  ui,        \* where the UI thread is
  noted,     \* the handler's local FileState, or stamp_before_read
  bytes,     \* the content the handler has read
  target,    \* where SaveDocument writes: the document's path or another
  boxes      \* open message boxes of CheckExternalChanges, innermost last

handler == <<ui, noted, bytes, target>>
vars == <<disk, contents, doc, handler, boxes>>

Gone    == 0  \* no file; CaptureFileState's "exists" is false
NoStamp == 0  \* std::nullopt

Contents == 1 .. MaxContents

(* base is not in the code: the file content that the editor's text is     *)
(* based on, edits aside.                                                  *)
Documents ==
  [open : BOOLEAN,        \* an element of documents_
   titled : BOOLEAN,      \* metadata.path is not empty
   kind : {"unicode", "ansi"},                         \* detected_encoding
   base : Contents \cup {Gone},
   dirty : BOOLEAN,       \* metadata.dirty
   savePoint : BOOLEAN,   \* Scintilla is at its save point
   stamp : Contents \cup {NoStamp},                    \* stamp
   fileState : Contents \cup {Gone},                   \* file_state
   flagged : BOOLEAN]     \* external_changed

Closed == [open |-> FALSE, titled |-> FALSE, kind |-> "unicode", base |-> Gone,
           dirty |-> FALSE, savePoint |-> TRUE, stamp |-> NoStamp,
           fileState |-> Gone, flagged |-> FALSE]

Boxes == [about : {"deleted", "conflict"}, current : Contents \cup {Gone}]

Init == /\ disk = 1 /\ contents = 1
        /\ doc = Closed
        /\ ui = "idle" /\ noted = Gone /\ bytes = Gone /\ target = "same"
        /\ boxes = <<>>

-----------------------------------------------------------------------------
(* Other programs.                                                         *)

NewContent == contents < MaxContents /\ contents' = contents + 1

ExternalWrite == /\ NewContent
                 /\ disk' = contents'
                 /\ UNCHANGED <<doc, handler, boxes>>

ExternalDelete == /\ disk # Gone
                  /\ disk' = Gone
                  /\ UNCHANGED <<contents, doc, handler, boxes>>

-----------------------------------------------------------------------------
(* OpenPath: stamp, read, stamp again, build the editor, capture the state. *)

OpenStamp == /\ ui = "idle" /\ ~doc.open /\ disk # Gone
             /\ noted' = disk
             /\ ui' = "openRead"
             /\ UNCHANGED <<disk, contents, doc, bytes, target, boxes>>

OpenRead == /\ ui = "openRead"
            /\ bytes' = disk
            /\ ui' = IF disk = Gone THEN "idle" ELSE "openCheck"
            /\ UNCHANGED <<disk, contents, doc, noted, target, boxes>>

(* A mutant: the file is not compared again after it was read.             *)
MutantOpenUnchecked == /\ ui = "openCheck"
                       /\ ui' = "openAdd"
                       /\ UNCHANGED <<disk, contents, doc, noted, bytes, target, boxes>>

OpenCheck == /\ ui = "openCheck"
             /\ ui' = IF disk = noted THEN "openAdd" ELSE "idle"
             /\ UNCHANGED <<disk, contents, doc, noted, bytes, target, boxes>>

OpenAdd == /\ ui = "openAdd"
           /\ \E kind \in {"unicode", "ansi"} :
                doc' = [open |-> TRUE, titled |-> TRUE, kind |-> kind,
                        base |-> bytes, dirty |-> FALSE, savePoint |-> TRUE,
                        stamp |-> noted, fileState |-> disk, flagged |-> FALSE]
           /\ ui' = "idle"
           /\ UNCHANGED <<disk, contents, noted, bytes, target, boxes>>

-----------------------------------------------------------------------------
(* The user's commands: none while a message box is open.                  *)

Ready == ui = "idle" /\ doc.open /\ boxes = <<>>

DocumentStep(d) == Ready /\ doc' = d /\ UNCHANGED <<disk, contents, handler, boxes>>

(* SCN_SAVEPOINTLEFT and SCN_SAVEPOINTREACHED (an undo) set the dirty flag. *)
Edit == doc.savePoint
          /\ DocumentStep([doc EXCEPT !.savePoint = FALSE, !.dirty = TRUE])

Undo == ~doc.savePoint
          /\ DocumentStep([doc EXCEPT !.savePoint = TRUE, !.dirty = FALSE])

(* SetEncoding and SetAnsiEncoding.                                        *)
SetEncoding == \E kind \in {"unicode", "ansi"} :
                 DocumentStep([doc EXCEPT !.kind = kind, !.dirty = TRUE])

(* ReopenActiveWithCodePage: the state is captured after the read, and     *)
(* external_changed stays as it is.                                        *)
ReopenRead == /\ Ready /\ doc.titled /\ disk # Gone
              /\ bytes' = disk
              /\ ui' = "reopen"
              /\ UNCHANGED <<disk, contents, doc, noted, target, boxes>>

ReopenSet == /\ ui = "reopen"
             /\ doc' = [doc EXCEPT !.kind = "ansi", !.base = bytes,
                                   !.fileState = disk, !.stamp = NoStamp,
                                   !.dirty = FALSE, !.savePoint = TRUE]
             /\ ui' = "idle"
             /\ UNCHANGED <<disk, contents, noted, bytes, target, boxes>>

(* SaveDocument from the choice of the path to the write: transformations  *)
(* may edit the text, and a backup that fails ends the save.               *)
Prepare(where) == /\ where = "same" => doc.titled
                  /\ target' = where
                  /\ \/ UNCHANGED doc
                     \/ doc' = [doc EXCEPT !.savePoint = FALSE, !.dirty = TRUE]
                  /\ ui' \in {"write", "idle"}
                  /\ UNCHANGED <<disk, contents, noted, bytes, boxes>>

Save == Ready /\ \E where \in {"same", "other"} : Prepare(where)

-----------------------------------------------------------------------------
(* The write of SaveDocument.                                              *)

(* A mutant: no expectation is passed to the library.                      *)
MutantExpectNothing == NoStamp

(* mwfl::WriteTextFileAtomic with the expected stamp, which is the         *)
(* document's on its own path: the library compares and replaces in one    *)
(* step.                                                                   *)
Expected == IF target = "same" THEN doc.stamp ELSE NoStamp

WriteUnicode == /\ ui = "write" /\ doc.kind = "unicode"
                /\ Expected # NoStamp => disk = Expected
                /\ NewContent
                /\ disk' = contents'
                /\ doc' = [doc EXCEPT !.base = contents', !.stamp = contents']
                /\ ui' = "saved"
                /\ UNCHANGED <<noted, bytes, target, boxes>>

(* WriteEncodedFileAtomic: the temporary file is complete; compare the     *)
(* file's state with the expected one, then replace it.                    *)
CheckAnsi == /\ ui = "write" /\ doc.kind = "ansi"
             /\ target = "same" => disk = doc.fileState
             /\ ui' = "replace"
             /\ UNCHANGED <<disk, contents, doc, noted, bytes, target, boxes>>

ReplaceAnsi == /\ ui = "replace"
               /\ NewContent
               /\ disk' = contents'
               /\ doc' = [doc EXCEPT !.base = contents', !.stamp = NoStamp]
               /\ ui' = "saved"
               /\ UNCHANGED <<noted, bytes, target, boxes>>

(* A conflict, text the code page cannot represent, or an I/O error.       *)
WriteFails == /\ ui \in {"write", "replace"}
              /\ ui' = "idle"
              /\ UNCHANGED <<disk, contents, doc, noted, bytes, target, boxes>>

(* The rest of SaveDocument after a successful write.                      *)
SaveFinish == /\ ui = "saved"
              /\ doc' = [doc EXCEPT !.fileState = disk, !.flagged = FALSE,
                                    !.savePoint = TRUE, !.dirty = FALSE,
                                    !.titled = TRUE]
              /\ ui' = "idle"
              /\ UNCHANGED <<disk, contents, noted, bytes, target, boxes>>

-----------------------------------------------------------------------------
(* The monitor timer: CheckExternalChanges, then AutoSaveIfDue.  It fires  *)
(* in the message loop of a message box, too.                              *)

Monitored == doc.open /\ doc.titled

Differs(current) == current # doc.fileState /\ ~doc.flagged

Opened(about) == Append(boxes, [about |-> about, current |-> disk])

TimerUnchanged == /\ ui = "idle" /\ Monitored
                  /\ ~Differs(disk)
                  /\ ui' = "autosave"
                  /\ UNCHANGED <<disk, contents, doc, noted, bytes, target, boxes>>

TimerDeleted == /\ ui = "idle" /\ Monitored
                /\ Differs(disk) /\ disk = Gone
                /\ Len(boxes) < MaxBoxes
                /\ boxes' = Opened("deleted")
                /\ UNCHANGED <<disk, contents, doc, handler>>

TimerConflict == /\ ui = "idle" /\ Monitored
                 /\ Differs(disk) /\ disk # Gone /\ doc.dirty
                 /\ Len(boxes) < MaxBoxes
                 /\ boxes' = Opened("conflict")
                 /\ UNCHANGED <<disk, contents, doc, handler>>

(* A mutant: a document with unsaved edits is reloaded, too.               *)
MutantReloadDirty == /\ ui = "idle" /\ Monitored
                     /\ Differs(disk) /\ disk # Gone
                     /\ noted' = disk
                     /\ ui' = "reload"
                     /\ UNCHANGED <<disk, contents, doc, bytes, target, boxes>>

TimerReload == /\ ui = "idle" /\ Monitored
               /\ Differs(disk) /\ disk # Gone /\ ~doc.dirty
               /\ noted' = disk
               /\ ui' = "reload"
               /\ UNCHANGED <<disk, contents, doc, bytes, target, boxes>>

(* The editor takes the file's text; the state is the one noted before.    *)
Reloaded(current) == [doc EXCEPT !.base = disk, !.stamp = disk,
                                 !.fileState = current, !.dirty = FALSE,
                                 !.savePoint = TRUE]

Reload == /\ ui = "reload" /\ disk # Gone
          /\ doc' = Reloaded(noted)
          /\ ui' = "autosave"
          /\ UNCHANGED <<disk, contents, noted, bytes, target, boxes>>

ReloadFails == /\ ui = "reload"
               /\ ui' = "autosave"
               /\ UNCHANGED <<disk, contents, doc, noted, bytes, target, boxes>>

Answering(about) == ui = "idle" /\ boxes # <<>> /\ Last(boxes).about = about

AnswerWith(d) == /\ doc' = d
                 /\ boxes' = Front(boxes)
                 /\ ui' = "autosave"
                 /\ UNCHANGED <<disk, contents, noted, bytes, target>>

(* A mutant: the stamp of the deleted file is kept.                        *)
MutantKeepStamp == /\ Answering("deleted")
                   /\ AnswerWith([doc EXCEPT !.titled = FALSE, !.dirty = TRUE,
                                             !.flagged = FALSE,
                                             !.fileState = Last(boxes).current])

KeepDeleted == /\ Answering("deleted")
               /\ AnswerWith([doc EXCEPT !.titled = FALSE, !.dirty = TRUE,
                                         !.stamp = NoStamp, !.flagged = FALSE,
                                         !.fileState = Last(boxes).current])

(* A mutant: "No" leaves the document as it is, and is asked for again.    *)
MutantBlockForgotten == Answering("deleted") /\ AnswerWith(doc)

BlockDeleted == /\ Answering("deleted")
                /\ AnswerWith([doc EXCEPT !.flagged = TRUE])

(* Compare with the disk, or cancel.                                       *)
KeepConflict == /\ Answering("conflict")
                /\ AnswerWith([doc EXCEPT !.flagged = TRUE])

DiscardConflict == /\ Answering("conflict")
                   /\ doc.titled /\ disk # Gone
                   /\ AnswerWith([Reloaded(Last(boxes).current)
                                    EXCEPT !.flagged = FALSE])

DiscardFails == Answering("conflict") /\ AnswerWith(doc)

(* The save of a document whose turn it is, at its own path.               *)
AutoSave == /\ ui = "autosave"
            /\ doc.titled /\ doc.dirty /\ ~doc.flagged
            /\ Prepare("same")

NoAutoSave == /\ ui = "autosave"
              /\ ui' = "idle"
              /\ UNCHANGED <<disk, contents, doc, noted, bytes, target, boxes>>

-----------------------------------------------------------------------------
External == ExternalWrite \/ ExternalDelete

Open == OpenStamp \/ OpenRead \/ OpenCheck \/ OpenAdd

Commands == Edit \/ Undo \/ SetEncoding \/ ReopenRead \/ ReopenSet \/ Save

Writing == WriteUnicode \/ CheckAnsi \/ ReplaceAnsi \/ WriteFails \/ SaveFinish

Timer == TimerUnchanged \/ TimerDeleted \/ TimerConflict \/ TimerReload

Answer == KeepDeleted \/ BlockDeleted \/ KeepConflict \/ DiscardConflict
            \/ DiscardFails

Next == External \/ Open \/ Commands \/ Writing \/ Timer \/ Reload
          \/ ReloadFails \/ Answer \/ AutoSave \/ NoAutoSave

(* The timer fires between the commands (its message waits in the queue),  *)
(* a message box is answered between the timers, and handlers finish.  A   *)
(* read that is asked for again and again does not fail for ever: a locked *)
(* file is released.  Nobody is obliged to write, edit, save or reload.    *)
Fairness ==
  /\ SF_vars(Timer)
  /\ SF_vars(Answer)
  /\ WF_vars(OpenRead \/ OpenCheck \/ OpenAdd \/ ReopenSet \/ Writing
               \/ Reload \/ ReloadFails \/ NoAutoSave)
  /\ SF_vars(Reload)
  /\ []<><<DiscardFails>>_vars => []<><<DiscardConflict>>_vars

Spec == Init /\ [][Next]_vars /\ Fairness

-----------------------------------------------------------------------------
(* Every variable stays in the set of values the code can give it; between *)
(* saves, a document without a path has no stamp.                          *)
TypeOK ==
  /\ disk \in Contents \cup {Gone} /\ contents \in Contents
  /\ doc \in Documents
  /\ ui \in {"idle", "openRead", "openCheck", "openAdd", "reopen", "write",
             "replace", "saved", "reload", "autosave"}
  /\ noted \in Contents \cup {Gone} /\ bytes \in Contents \cup {Gone}
  /\ target \in {"same", "other"}
  /\ boxes \in Seq(Boxes) /\ Len(boxes) <= MaxBoxes
  /\ ~doc.titled /\ ui # "saved" => doc.stamp = NoStamp

(* The stamp that guards the next save was taken from the very content the *)
(* text is based on, whatever other programs did between the steps of      *)
(* OpenPath, SaveDocument, a reload or an answer.                          *)
StampIsOfText == doc.stamp # NoStamp => doc.stamp = doc.base

OwnWrite == ui \in {"write", "replace"} /\ ui' = "saved" /\ target = "same"

(* A stamped save at the document's own path replaces exactly the content  *)
(* the text is based on: never one another program wrote since, never a    *)
(* file whose deletion blocked the path (SaveDocument, Unicode).           *)
StampedSaveKeepsOthers ==
  [][OwnWrite /\ doc.kind = "unicode" /\ doc.stamp # NoStamp
       => disk = doc.base]_vars

(* What the application says of every save - "conflict detection", "ANSI   *)
(* save cancelled: ... the disk file changed": no save at the document's   *)
(* own path replaces a content that the text is not based on.              *)
SaveKeepsOthers == [][OwnWrite => disk = doc.base]_vars

(* Edits that Scintilla holds beyond its save point are replaced by the    *)
(* file's text only on the user's word - an answer to a box, a reopen - or *)
(* are saved: metadata.dirty, which the monitor and the nested boxes go by, *)
(* never says less than the editor (CheckExternalChanges, OnNotify).       *)
UnsavedEditsAreKept ==
  [][doc.open /\ ~doc.savePoint /\ doc'.base # doc.base
       => ui \in {"write", "replace", "reopen"} \/ Len(boxes') < Len(boxes)]_vars

(* A change of the file that the monitor can see does not go unnoticed: the *)
(* document takes it over, is flagged or loses its path, however reads     *)
(* fail and boxes pile up (CheckExternalChanges).                          *)
ChangeIsHandled ==
  Monitored /\ disk # doc.fileState
    ~> ~Monitored \/ disk = doc.fileState \/ doc.flagged
=============================================================================
