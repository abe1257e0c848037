-------------------------- MODULE DocumentSyncProofs --------------------------
(***************************************************************************)
(* Proofs about a document and its file, for every number of contents and  *)
(* of nested message boxes: types, that the stamp is the stamp of the      *)
(* text, that a stamped save replaces nothing else, and that unsaved edits *)
(* give way only to the user's word.                                       *)
(***************************************************************************)
EXTENDS DocumentSync, TLAPS

UiStates == {"idle", "openRead", "openCheck", "openAdd", "reopen", "write",
             "replace", "saved", "reload", "autosave"}

NumbersInv == /\ disk \in Contents \cup {Gone} /\ contents \in Contents
              /\ noted \in Contents \cup {Gone} /\ bytes \in Contents \cup {Gone}
              /\ disk <= contents /\ noted <= contents

ControlInv == /\ ui \in UiStates /\ target \in {"same", "other"}
              /\ boxes \in Seq(Boxes) /\ Len(boxes) <= MaxBoxes

(* A document at a point of the UI thread: the fields that agree.          *)
Agrees(d, at) ==
  /\ d.stamp # NoStamp => d.stamp = d.base
  /\ d.savePoint \/ d.dirty
  /\ ~d.titled /\ at # "saved" => d.stamp = NoStamp
  /\ at = "reload" => d.titled /\ ~d.dirty
  /\ at = "replace" => d.kind = "ansi"
  /\ at \in {"openRead", "openCheck", "openAdd"} => ~d.open

(* The content that OpenPath noted does not come back once it is replaced, *)
(* so the comparison after the read vouches for the bytes.                 *)
OpeningInv ==
  /\ ui \in {"openRead", "openCheck"} => noted # Gone
  /\ ui = "openCheck" /\ disk = noted => bytes = noted
  /\ ui = "openAdd" => bytes = noted

IInv == /\ NumbersInv /\ ControlInv /\ doc \in Documents
        /\ Agrees(doc, ui) /\ OpeningInv

-----------------------------------------------------------------------------
LEMMA ClosedDocument == Closed \in Documents /\ Agrees(Closed, "idle")
  BY BoundsAssumption DEF Closed, Documents, Agrees, NoStamp, Gone

LEMMA NumberFacts == /\ Contents \subseteq Nat /\ Gone \in Nat /\ Gone \notin Contents
                     /\ 1 \in Contents /\ NoStamp = Gone
  BY BoundsAssumption DEF Contents, Gone, NoStamp

LEMMA InitIInv == Init => IInv
<1> SUFFICES ASSUME Init PROVE IInv
  OBVIOUS
<1>1. NumbersInv
  BY NumberFacts, BoundsAssumption DEF Init, NumbersInv, Gone, Contents
<1>2. ControlInv
  BY BoundsAssumption DEF Init, ControlInv, UiStates
<1>3. doc \in Documents /\ Agrees(doc, ui)
  BY ClosedDocument DEF Init
<1>4. OpeningInv
  BY DEF Init, OpeningInv
<1> QED
  BY <1>1, <1>2, <1>3, <1>4 DEF IInv

(* The boxes: one more on top, or the innermost one answered.              *)
LEMMA BoxOpened ==
  ASSUME NumbersInv, ControlInv, NEW about \in {"deleted", "conflict"},
         Len(boxes) < MaxBoxes
  PROVE  Opened(about) \in Seq(Boxes) /\ Len(Opened(about)) <= MaxBoxes
<1>1. [about |-> about, current |-> disk] \in Boxes
  BY DEF NumbersInv, Boxes
<1> QED
  BY <1>1, BoundsAssumption DEF ControlInv, Opened

LEMMA BoxAnswered ==
  ASSUME ControlInv, boxes # <<>>
  PROVE  /\ Front(boxes) \in Seq(Boxes) /\ Len(Front(boxes)) <= MaxBoxes
         /\ Len(Front(boxes)) < Len(boxes)
         /\ Last(boxes) \in Boxes
  BY BoundsAssumption DEF ControlInv, Front, Last

-----------------------------------------------------------------------------
LEMMA ExternalStep == ASSUME IInv, External PROVE IInv'
<1> USE DEF IInv, handler
<1>1. NumbersInv' /\ OpeningInv'
  BY NumberFacts, BoundsAssumption
     DEF External, ExternalWrite, ExternalDelete, NewContent, NumbersInv, OpeningInv, Contents, Gone
<1>2. UNCHANGED <<doc, ui, target, boxes>>
  BY DEF External, ExternalWrite, ExternalDelete
<1>3. ControlInv' /\ doc' \in Documents /\ Agrees(doc, ui)'
  BY <1>2 DEF ControlInv, Agrees
<1> QED
  BY <1>1, <1>3

(* OpenPath up to the new document.                                        *)
LEMMA OpenStep == ASSUME IInv, Open PROVE IInv'
<1> USE DEF IInv, handler
<1>1. CASE OpenStamp \/ OpenRead \/ OpenCheck
  <2>1. NumbersInv' /\ ControlInv' /\ OpeningInv'
    BY <1>1, NumberFacts
       DEF OpenStamp, OpenRead, OpenCheck, NumbersInv, ControlInv, OpeningInv, UiStates
  <2>2. doc' = doc /\ (ui \in {"idle", "openRead", "openCheck"})
    BY <1>1 DEF OpenStamp, OpenRead, OpenCheck
  <2>3. Agrees(doc, ui)'
    BY <1>1, <2>2 DEF OpenStamp, OpenRead, OpenCheck, Agrees
  <2> QED
    BY <2>1, <2>2, <2>3
<1>2. CASE OpenAdd
  <2>1. NumbersInv' /\ ControlInv' /\ OpeningInv'
    BY <1>2 DEF OpenAdd, NumbersInv, ControlInv, OpeningInv, UiStates
  <2>2. doc' \in Documents
    BY <1>2, NumberFacts DEF OpenAdd, NumbersInv, Documents
  <2>3. Agrees(doc', "idle")
    BY <1>2 DEF OpenAdd, Agrees, OpeningInv
  <2> QED
    BY <1>2, <2>1, <2>2, <2>3 DEF OpenAdd
<1> QED
  BY <1>1, <1>2 DEF Open

(* The text transformations of a save, and an edit.                        *)
LEMMA EditedDocument ==
  ASSUME doc \in Documents, NEW at, at # "reload", at # "replace",
         at \notin {"openRead", "openCheck", "openAdd"}, Agrees(doc, ui), ui # "saved"
  PROVE  LET d == [doc EXCEPT !.savePoint = FALSE, !.dirty = TRUE]
         IN  d \in Documents /\ Agrees(d, at) /\ d.base = doc.base
  BY DEF Documents, Agrees

LEMMA PrepareStep ==
  ASSUME IInv, NEW where \in {"same", "other"}, Prepare(where),
         ui \in {"idle", "autosave"}
  PROVE  IInv' /\ doc'.base = doc.base
<1> USE DEF IInv
<1>1. NumbersInv' /\ ControlInv' /\ OpeningInv'
  BY DEF Prepare, NumbersInv, ControlInv, OpeningInv, UiStates
<1>2. doc' \in Documents /\ Agrees(doc', ui') /\ doc'.base = doc.base
  <2>1. CASE UNCHANGED doc
    BY <2>1 DEF Prepare, Agrees
  <2>2. CASE doc' = [doc EXCEPT !.savePoint = FALSE, !.dirty = TRUE]
    <3>1. ui' \in {"write", "idle"}
      BY DEF Prepare
    <3> QED
      BY <2>2, <3>1, EditedDocument
  <2> QED
    BY <2>1, <2>2 DEF Prepare
<1> QED
  BY <1>1, <1>2

LEMMA CommandsStep == ASSUME IInv, Commands PROVE IInv'
<1> USE DEF IInv, handler
<1>1. CASE Edit \/ Undo \/ SetEncoding
  <2>1. ui = "idle" /\ UNCHANGED <<disk, contents, handler, boxes>>
    BY <1>1 DEF Edit, Undo, SetEncoding, DocumentStep, Ready
  <2>2. NumbersInv' /\ ControlInv' /\ OpeningInv'
    BY <2>1 DEF NumbersInv, ControlInv, OpeningInv
  <2>3. doc' \in Documents /\ Agrees(doc', "idle")
    <3>1. CASE Edit
      BY <3>1, <2>1, EditedDocument DEF Edit, DocumentStep
    <3>2. CASE Undo
      BY <3>2, <2>1 DEF Undo, DocumentStep, Documents, Agrees
    <3>3. CASE SetEncoding
      BY <3>3, <2>1 DEF SetEncoding, DocumentStep, Documents, Agrees
    <3> QED
      BY <1>1, <3>1, <3>2, <3>3
  <2> QED
    BY <2>1, <2>2, <2>3
<1>2. CASE ReopenRead
  <2>1. NumbersInv' /\ ControlInv' /\ OpeningInv'
    BY <1>2 DEF ReopenRead, Ready, NumbersInv, ControlInv, OpeningInv, UiStates
  <2> QED
    BY <1>2, <2>1 DEF ReopenRead, Ready, Agrees
<1>3. CASE ReopenSet
  <2>1. NumbersInv' /\ ControlInv' /\ OpeningInv'
    BY <1>3 DEF ReopenSet, NumbersInv, ControlInv, OpeningInv, UiStates
  <2>2. doc' \in Documents
    BY <1>3 DEF ReopenSet, Documents, NumbersInv
  <2>3. Agrees(doc', "idle")
    BY <1>3 DEF ReopenSet, Documents, Agrees, NoStamp
  <2> QED
    BY <1>3, <2>1, <2>2, <2>3 DEF ReopenSet
<1>4. CASE Save
  BY <1>4, PrepareStep DEF Save, Ready
<1> QED
  BY <1>1, <1>2, <1>3, <1>4 DEF Commands

-----------------------------------------------------------------------------
LEMMA WritingStep == ASSUME IInv, Writing PROVE IInv'
<1> USE DEF IInv
<1>1. NumbersInv' /\ ControlInv' /\ OpeningInv'
  BY NumberFacts, BoundsAssumption
     DEF Writing, WriteUnicode, CheckAnsi, ReplaceAnsi, WriteFails, SaveFinish,
         NewContent, NumbersInv, ControlInv, OpeningInv, UiStates, Contents
<1>2. CASE WriteUnicode \/ ReplaceAnsi
  <2>1. contents' \in Contents /\ ui' = "saved"
    BY <1>1, <1>2 DEF NumbersInv, WriteUnicode, ReplaceAnsi
  <2>2. doc' \in Documents
    BY <1>2, <2>1 DEF WriteUnicode, ReplaceAnsi, Documents
  <2>3. Agrees(doc', "saved")
    BY <1>2, <2>1 DEF WriteUnicode, ReplaceAnsi, Documents, Agrees
  <2> QED
    BY <1>1, <2>1, <2>2, <2>3
<1>3. CASE CheckAnsi \/ WriteFails
  BY <1>1, <1>3 DEF CheckAnsi, WriteFails, Agrees
<1>4. CASE SaveFinish
  <2>1. doc' \in Documents
    BY <1>4 DEF SaveFinish, Documents, NumbersInv
  <2>2. Agrees(doc', "idle")
    BY <1>4 DEF SaveFinish, Documents, Agrees
  <2> QED
    BY <1>1, <1>4, <2>1, <2>2 DEF SaveFinish
<1> QED
  BY <1>2, <1>3, <1>4 DEF Writing

LEMMA TimerStep == ASSUME IInv, Timer PROVE IInv'
<1> USE DEF IInv, handler
<1>1. CASE TimerUnchanged \/ TimerReload
  <2>1. NumbersInv' /\ ControlInv' /\ OpeningInv'
    BY <1>1 DEF TimerUnchanged, TimerReload, NumbersInv, ControlInv, OpeningInv, UiStates
  <2>2. Agrees(doc, ui)' /\ doc' = doc
    BY <1>1 DEF TimerUnchanged, TimerReload, Monitored, Agrees
  <2> QED
    BY <2>1, <2>2
<1>2. CASE TimerDeleted \/ TimerConflict
  <2>1. /\ UNCHANGED <<disk, contents, doc, handler>>
        /\ \E about \in {"deleted", "conflict"} : boxes' = Opened(about)
        /\ Len(boxes) < MaxBoxes
    BY <1>2 DEF TimerDeleted, TimerConflict
  <2>2. ControlInv'
    BY <2>1, BoxOpened DEF ControlInv
  <2> QED
    BY <2>1, <2>2 DEF NumbersInv, OpeningInv, Agrees
<1> QED
  BY <1>1, <1>2 DEF Timer

(* The file's text, with the state noted before it was read.               *)
LEMMA ReloadedDocument ==
  ASSUME NumbersInv, doc \in Documents, disk # Gone, doc.titled,
         NEW current \in Contents \cup {Gone},
         NEW d \in {Reloaded(current), [Reloaded(current) EXCEPT !.flagged = FALSE]}
  PROVE  d \in Documents /\ Agrees(d, "autosave")
<1>1. Reloaded(current) \in Documents
  BY DEF Reloaded, NumbersInv, Documents
<1>2. d \in Documents
  BY <1>1 DEF Documents
<1>3. d.stamp = d.base /\ d.savePoint
  BY DEF Reloaded, Documents
<1>4. d.titled
  BY DEF Reloaded, Documents
<1> QED
  BY <1>2, <1>3, <1>4 DEF Agrees

LEMMA ReloadStep == ASSUME IInv, Reload \/ ReloadFails PROVE IInv'
<1> USE DEF IInv
<1>1. NumbersInv' /\ ControlInv' /\ OpeningInv'
  BY DEF Reload, ReloadFails, NumbersInv, ControlInv, OpeningInv, UiStates
<1>2. CASE Reload
  <2>1. doc.titled /\ disk # Gone /\ noted \in Contents \cup {Gone} /\ doc' = Reloaded(noted)
    BY <1>2 DEF Reload, Agrees, NumbersInv
  <2>2. doc' \in Documents /\ Agrees(doc', "autosave")
    BY <2>1, ReloadedDocument
  <2> QED
    BY <1>1, <1>2, <2>2 DEF Reload
<1>3. CASE ReloadFails
  BY <1>1, <1>3 DEF ReloadFails, Agrees
<1> QED
  BY <1>2, <1>3

LEMMA AnswerStep == ASSUME IInv, Answer PROVE IInv' /\ Len(boxes') < Len(boxes)
<1> USE DEF IInv, AnswerWith
<1>1. /\ ui = "idle" /\ boxes # <<>> /\ boxes' = Front(boxes) /\ ui' = "autosave"
      /\ UNCHANGED <<disk, contents, noted, bytes, target>>
  BY DEF Answer, KeepDeleted, BlockDeleted, KeepConflict, DiscardConflict,
         DiscardFails, Answering
<1>2. NumbersInv' /\ OpeningInv' /\ ControlInv' /\ Len(boxes') < Len(boxes)
  BY <1>1, BoxAnswered DEF NumbersInv, OpeningInv, ControlInv, UiStates
<1>3. Last(boxes).current \in Contents \cup {Gone}
  BY <1>1, BoxAnswered DEF Boxes
<1>4. doc' \in Documents /\ Agrees(doc', "autosave")
  <2>1. CASE KeepDeleted
    BY <2>1, <1>1, <1>3 DEF KeepDeleted, Documents, Agrees, NoStamp
  <2>2. CASE BlockDeleted \/ KeepConflict
    BY <2>2, <1>1 DEF BlockDeleted, KeepConflict, Documents, Agrees
  <2>3. CASE DiscardConflict
    BY <2>3, <1>3, ReloadedDocument DEF DiscardConflict
  <2>4. CASE DiscardFails
    BY <2>4, <1>1 DEF DiscardFails, Agrees
  <2> QED
    BY <2>1, <2>2, <2>3, <2>4 DEF Answer
<1> QED
  BY <1>1, <1>2, <1>4

LEMMA AutoSaveStep == ASSUME IInv, AutoSave \/ NoAutoSave PROVE IInv'
<1>1. CASE AutoSave
  BY <1>1, PrepareStep DEF AutoSave
<1>2. CASE NoAutoSave
  BY <1>2 DEF NoAutoSave, IInv, NumbersInv, ControlInv, OpeningInv, UiStates, Agrees
<1> QED
  BY <1>1, <1>2

LEMMA NextIInv == IInv /\ [Next]_vars => IInv'
<1> SUFFICES ASSUME IInv, [Next]_vars PROVE IInv'
  OBVIOUS
<1>1. CASE UNCHANGED vars
  BY <1>1 DEF vars, handler, IInv, NumbersInv, ControlInv, OpeningInv, Agrees
<1> QED
  BY <1>1, ExternalStep, OpenStep, CommandsStep, WritingStep, TimerStep,
     ReloadStep, AnswerStep, AutoSaveStep DEF Next

LEMMA Inductive == Spec => []IInv
  BY InitIInv, NextIInv, PTL DEF Spec

-----------------------------------------------------------------------------
(* Every variable keeps its type, and a document without a path has no     *)
(* stamp.                                                                  *)
THEOREM TypeCorrect == Spec => []TypeOK
<1>1. IInv => TypeOK
  BY DEF IInv, NumbersInv, ControlInv, Agrees, UiStates, TypeOK
<1> QED
  BY <1>1, Inductive, PTL

(* The stamp that guards the next save is the stamp of the content the     *)
(* text is based on (OpenPath, SaveDocument, CheckExternalChanges).        *)
THEOREM StampOfText == Spec => []StampIsOfText
<1>1. IInv => StampIsOfText
  BY DEF IInv, Agrees, StampIsOfText
<1> QED
  BY <1>1, Inductive, PTL

(* A stamped save at the document's own path replaces exactly the content  *)
(* the text is based on (SaveDocument, WriteTextFileAtomic).               *)
THEOREM StampedSaves == Spec => StampedSaveKeepsOthers
<1>1. ASSUME IInv, [Next]_vars, OwnWrite, doc.kind = "unicode", doc.stamp # NoStamp
      PROVE  disk = doc.base
  <2>1. WriteUnicode \/ ReplaceAnsi
    BY <1>1 DEF OwnWrite, Next, External, ExternalWrite, ExternalDelete, Open,
       OpenStamp, OpenRead, OpenCheck, OpenAdd, Commands, Edit, Undo, SetEncoding,
       DocumentStep, ReopenRead, ReopenSet, Save, Ready, Writing, CheckAnsi,
       WriteFails, SaveFinish, Timer, TimerUnchanged, TimerDeleted, TimerConflict,
       TimerReload, Reload, ReloadFails, Answer, KeepDeleted, BlockDeleted,
       KeepConflict, DiscardConflict, DiscardFails, Answering, AutoSave,
       NoAutoSave, vars, handler
  <2>2. doc.stamp = doc.base /\ ~ReplaceAnsi
    BY <1>1 DEF IInv, Agrees, ReplaceAnsi
  <2> QED
    BY <1>1, <2>1, <2>2 DEF WriteUnicode, Expected, OwnWrite
<1> QED
  BY <1>1, Inductive, PTL DEF Spec, StampedSaveKeepsOthers

(* Edits beyond the save point give way to the file's text only on an      *)
(* answer or a reopen, or are saved (CheckExternalChanges, OnNotify).      *)
THEOREM EditsKept == Spec => UnsavedEditsAreKept
<1> DEFINE Allowed == doc.open /\ ~doc.savePoint /\ doc'.base # doc.base
              => ui \in {"write", "replace", "reopen"} \/ Len(boxes') < Len(boxes)
<1>1. ASSUME IInv, [Next]_vars PROVE Allowed
  <2>1. CASE External \/ OpenStamp \/ OpenRead \/ OpenCheck \/ ReopenRead
               \/ CheckAnsi \/ WriteFails \/ Timer \/ ReloadFails \/ NoAutoSave
               \/ UNCHANGED vars
    BY <2>1 DEF External, ExternalWrite, ExternalDelete, OpenStamp, OpenRead,
       OpenCheck, ReopenRead, CheckAnsi, WriteFails, Timer, TimerUnchanged,
       TimerDeleted, TimerConflict, TimerReload, ReloadFails, NoAutoSave, vars
  <2>2. CASE OpenAdd \/ Reload
    BY <1>1, <2>2 DEF OpenAdd, Reload, IInv, Agrees
  <2>3. CASE WriteUnicode \/ ReplaceAnsi \/ ReopenSet
    BY <2>3 DEF WriteUnicode, ReplaceAnsi, ReopenSet
  <2>4. CASE Edit \/ Undo \/ SetEncoding \/ SaveFinish
    BY <1>1, <2>4 DEF Edit, Undo, SetEncoding, DocumentStep, SaveFinish, IInv, Documents
  <2>5. CASE Save \/ AutoSave
    BY <1>1, <2>5, PrepareStep DEF Save, Ready, AutoSave
  <2>6. CASE Answer
    BY <1>1, <2>6, AnswerStep
  <2> QED
    BY <1>1, <2>1, <2>2, <2>3, <2>4, <2>5, <2>6 DEF Next, Open, Commands, Writing
<1> QED
  BY <1>1, Inductive, PTL DEF Spec, UnsavedEditsAreKept
=============================================================================
