------------------------ MODULE SessionLifecycleProofs ------------------------
(***************************************************************************)
(* Proofs about a document from launch to launch, for every set of texts   *)
(* and every number of commands and launches: types, that a stored         *)
(* snapshot with none pending makes a crash harmless, and that the window  *)
(* closes only over a session file that has the document.                  *)
(***************************************************************************)
EXTENDS SessionLifecycle, TLAPS

Apps == {"off", "running", "confirm", "snapshot", "flush", "closed"}

DocumentType == /\ disk \in AnyText \cup {Gone} /\ doc \in Documents
ControlType  == /\ pending \in {"no", "waiting", "due"} /\ timer \in BOOLEAN
                /\ app \in Apps
WriterType   == /\ snaps \in Seq(Entries) /\ Len(snaps) = newest
                /\ newest \in Nat /\ stored \in 0 .. newest
AnswerType   == asking \in BOOLEAN /\ answer \in {"none", "ok", "failed"}
CountsType   == commands \in 0 .. MaxCommands /\ launches \in 0 .. MaxLaunches

Types == DocumentType /\ ControlType /\ WriterType /\ AnswerType /\ CountsType

(* The document d and the entry e: RestoreSession of e gives d again.      *)
Same(d, x) == d.text = x.text /\ d.titled = x.titled /\ d.dirty = x.dirty

Gives(e, d) == (Opens(e) \/ Renews(e)) /\ Same(RestoredDocument(e), d)

(* With no snapshot pending, the newest one gives the document as it is -  *)
(* stored already or not - or nothing is lost with nothing to restore.     *)
Captured == /\ newest # 0
            /\ Expressible => Gives(snaps[newest], doc)

CapturedInv == app # "off" /\ pending = "no" => Captured

ClosingInv == /\ app \in {"flush", "closed"} => pending = "no"
              /\ app \in {"closed", "off"} => stored = newest

IInv == Types /\ CapturedInv /\ ClosingInv

-----------------------------------------------------------------------------
(* CaptureSession and RestoreSession are inverse on every document whose   *)
(* entry says all there is to say.                                         *)
LEMMA EntryType == ASSUME NEW d \in Documents PROVE Entry(d) \in Entries
  BY DEF Entry, Documents, Entries, AnyText

LEMMA EntryGives ==
  ASSUME NEW d \in Documents, DocumentType,
         d.titled => IF d.dirty THEN d.text # Empty ELSE d.text = disk
  PROVE  Gives(Entry(d), d)
<1> USE DEF Entry, Documents, Gives, Same, Opens, Renews, Replaces,
            RestoredDocument, AtSavePoint, AnyText, DocumentType
<1>1. CASE ~d.titled
  BY <1>1
<1>2. CASE d.titled /\ d.dirty /\ disk # Gone
  BY <1>2
<1>3. CASE d.titled /\ d.dirty /\ disk = Gone
  BY <1>3
<1>4. CASE d.titled /\ ~d.dirty
  BY <1>4, TextsAssumption
<1> QED
  BY <1>1, <1>2, <1>3, <1>4

(* What a snapshot of the document, as it is now, captures.                *)
Holds == /\ newest # 0 /\ newest \in Nat /\ Len(snaps) = newest
         /\ snaps[newest] = Entry(doc)

LEMMA HoldsCaptured == DocumentType /\ Holds => Captured
<1> SUFFICES ASSUME DocumentType, Holds PROVE Captured
  OBVIOUS
<1>1. doc \in Documents
  BY DEF DocumentType
<1>2. Expressible => Gives(Entry(doc), doc)
  BY <1>1, EntryGives DEF Expressible
<1> QED
  BY <1>2 DEF Captured, Holds

LEMMA HoldsCapturedNext == DocumentType' /\ Holds' => Captured'
  BY HoldsCaptured, PTL

LEMMA Snapshot ==
  ASSUME WriterType, NEW d \in Documents, SaveSnapshot(d)
  PROVE  /\ WriterType' /\ newest' # 0 /\ newest' \in Nat /\ Len(snaps') = newest'
         /\ snaps'[newest'] = Entry(d) /\ pending' = "no"
         /\ UNCHANGED <<stored, asking, answer>>
<1>1. newest' = newest + 1 /\ snaps' = Append(snaps, Entry(d)) /\ Entry(d) \in Entries
  BY EntryType DEF SaveSnapshot, Writer!Submit
<1> QED
  BY <1>1 DEF WriterType, SaveSnapshot, Writer!Submit

LEMMA SnapshotTaken ==
  ASSUME WriterType, DocumentType', SaveSnapshot(doc')
  PROVE  WriterType' /\ Captured' /\ pending' = "no" /\ UNCHANGED <<stored, asking, answer>>
<1>1. doc' \in Documents
  BY DEF DocumentType
<1>2. Holds'
  BY <1>1, Snapshot DEF Holds, Entry
<1> QED
  BY <1>1, <1>2, Snapshot, HoldsCapturedNext

LEMMA SavePointType ==
  ASSUME NEW titled \in BOOLEAN, NEW text \in AnyText, NEW dirty \in BOOLEAN
  PROVE  AtSavePoint(titled, text, dirty) \in Documents
  BY DEF AtSavePoint, Documents

LEMMA UntitledType == Untitled \in Documents
  BY SavePointType DEF Untitled, AnyText

-----------------------------------------------------------------------------
LEMMA InitIInv == Init => IInv
<1> SUFFICES ASSUME Init PROVE IInv
  OBVIOUS
<1>1. DocumentType
  BY UntitledType DEF Init, DocumentType
<1>2. ControlType
  <2>1. timer \in BOOLEAN
    BY Zenon DEF Init
  <2> QED
    BY <2>1 DEF Init, ControlType, Apps
<1>3. WriterType
  BY DEF Init, Writer!Init, WriterType
<1>4. AnswerType
  <2>1. asking \in BOOLEAN
    BY Zenon DEF Init, Writer!Init
  <2> QED
    BY <2>1 DEF Init, Writer!Init, AnswerType
<1>5. CountsType
  BY BoundsAssumption DEF Init, CountsType
<1> QED
  BY <1>1, <1>2, <1>3, <1>4, <1>5
  DEF IInv, Types, Init, Writer!Init, CapturedInv, ClosingInv

LEMMA StoresStep == ASSUME IInv, WriterStores PROVE IInv'
<1> USE DEF IInv, Types, WriterStores, Writer!Store, ui, bounds
<1>1. WriterType' /\ newest' = newest
  BY DEF WriterType
<1>2. DocumentType' /\ ControlType' /\ AnswerType' /\ CountsType'
  BY DEF DocumentType, ControlType, AnswerType, CountsType
<1>3. ClosingInv'
  BY DEF ClosingInv, WriterType
<1>4. CapturedInv'
  BY <1>1 DEF CapturedInv, Captured, Expressible, Gives, Same, Opens, Renews,
              RestoredDocument, Replaces
<1> QED
  BY <1>1, <1>2, <1>3, <1>4

LEMMA CommandsStep == ASSUME IInv, Commands PROVE IInv'
<1> USE DEF IInv, Types, Command, bounds
<1>0. Command /\ app' = app
  BY DEF Commands, Edit, Undo, Save, CloseTab
<1>1. /\ app = "running" /\ app' = app /\ UNCHANGED <<timer, launches>>
      /\ commands' \in 0 .. MaxCommands
  BY <1>0, BoundsAssumption DEF CountsType
<1>2. CountsType' /\ ClosingInv'
  BY <1>1 DEF CountsType, ClosingInv
<1>3. CASE Edit \/ Undo
  <2>1. DocumentType'
    BY <1>3 DEF Edit, Undo, DocumentType, Documents
  <2>2. UNCHANGED <<snaps, writer>> /\ pending' = "waiting"
    BY <1>3 DEF Edit, Undo, NoSnapshot
  <2>3. ControlType'
    BY <1>1, <2>2 DEF ControlType
  <2>4. WriterType' /\ AnswerType' /\ CapturedInv'
    BY <2>2 DEF WriterType, AnswerType, writer, CapturedInv
  <2> QED
    BY <1>2, <2>1, <2>3, <2>4
<1>4. CASE Save \/ CloseTab
  <2>1. DocumentType'
    <3>1. CASE Save
      <4>1. doc.text \in AnyText
        BY DEF DocumentType, Documents
      <4> QED
        BY <3>1, <4>1, SavePointType DEF Save, DocumentType
    <3>2. CASE CloseTab
      BY <3>2, UntitledType DEF CloseTab, DocumentType
    <3> QED
      BY <1>4, <3>1, <3>2
  <2>2. SaveSnapshot(doc')
    BY <1>4 DEF Save, CloseTab
  <2>3. WriterType' /\ Captured' /\ pending' = "no" /\ UNCHANGED <<stored, asking, answer>>
    BY <2>1, <2>2, SnapshotTaken
  <2>4. ControlType' /\ AnswerType' /\ CapturedInv'
    BY <1>1, <2>3 DEF ControlType, AnswerType, CapturedInv
  <2> QED
    BY <1>2, <2>1, <2>3, <2>4
<1> QED
  BY <1>3, <1>4 DEF Commands

(* The timer, and OnClose up to the end of the flush.                      *)
LEMMA KeepsCaptured ==
  ASSUME IInv, UNCHANGED <<disk, doc, pending, snaps, newest>>, app # "off"
  PROVE  CapturedInv'
  BY DEF IInv, CapturedInv, Captured, Expressible, Gives, Same, Opens, Renews,
         RestoredDocument, Replaces

LEMMA TimerStep == ASSUME IInv, Elapse \/ Timer \/ CloseSnapshot PROVE IInv'
<1> USE DEF IInv, Types, bounds
<1>1. /\ UNCHANGED <<disk, doc, timer, bounds>>
      /\ app \in {"running", "snapshot"} /\ app' \in {"running", "flush"}
  BY DEF Elapse, Timer, CloseSnapshot
<1>2. DocumentType' /\ CountsType'
  BY <1>1 DEF DocumentType, CountsType
<1>3. CASE Elapse
  <2>1. UNCHANGED <<snaps, writer>> /\ pending' = "due" /\ app' = "running"
    BY <1>3 DEF Elapse, NoSnapshot
  <2>2. ControlType' /\ ClosingInv' /\ CapturedInv'
    BY <1>1, <2>1 DEF ControlType, Apps, ClosingInv, CapturedInv
  <2> QED
    BY <1>2, <2>1, <2>2 DEF WriterType, AnswerType, writer
<1>4. CASE Timer \/ CloseSnapshot
  <2>1. SaveSnapshot(doc')
    BY <1>1, <1>4 DEF Timer, CloseSnapshot
  <2>2. WriterType' /\ Captured' /\ pending' = "no" /\ UNCHANGED <<stored, asking, answer>>
    BY <1>2, <2>1, SnapshotTaken
  <2> QED
    BY <1>1, <1>2, <2>2 DEF ControlType, Apps, AnswerType, CapturedInv, ClosingInv
<1> QED
  BY <1>3, <1>4

LEMMA CloseStep == ASSUME IInv, Close \/ Confirm \/ Flush \/ Flushed PROVE IInv'
<1> USE DEF IInv, Types, bounds
<1>1. UNCHANGED <<disk, doc, pending, snaps, newest, stored, launches>> /\ app # "off"
  BY DEF Close, Confirm, Flush, Flushed, NoSnapshot, writer, ui,
         Writer!Ask, Writer!Reply, ClosingInv
<1>2. DocumentType' /\ WriterType'
  BY <1>1 DEF DocumentType, WriterType
<1>3. CapturedInv'
  BY <1>1, KeepsCaptured
<1>4. ControlType'
  <2>1. timer' \in BOOLEAN
    <3>1. timer \in BOOLEAN
      BY DEF ControlType
    <3>2. timer' = FALSE \/ timer' = timer
      BY DEF Close, Confirm, Flush, Flushed, ui
    <3> QED
      BY <3>1, <3>2, Zenon
  <2>2. app' \in Apps
    BY DEF Close, Confirm, Flush, Flushed, ui, ControlType, Apps
  <2> QED
    BY <1>1, <2>1, <2>2 DEF ControlType
<1>5. AnswerType'
  <2>1. asking' \in BOOLEAN
    BY Zenon DEF Close, Confirm, Flush, Flushed, Writer!Ask, Writer!Reply,
                 NoSnapshot, writer, AnswerType
  <2>2. answer' \in {"none", "ok", "failed"}
    BY DEF Close, Confirm, Flush, Flushed, Writer!Ask, Writer!Reply,
           NoSnapshot, writer, AnswerType
  <2> QED
    BY <2>1, <2>2 DEF AnswerType
<1>6. CountsType'
  BY BoundsAssumption DEF Close, Confirm, Flush, Flushed, CountsType
<1>7. ClosingInv'
  BY <1>1 DEF Close, Confirm, Flush, Flushed, Writer!Ask, Writer!Reply, ClosingInv, ui
<1> QED
  BY <1>2, <1>3, <1>4, <1>5, <1>6, <1>7

(* The end of the process, and what other programs do then.                *)
LEMMA OffStep == ASSUME IInv, Ending \/ Elsewhere PROVE IInv'
<1> USE DEF IInv, Types, bounds
<1>1. app' = "off" /\ UNCHANGED bounds
  BY DEF Ending, Exit, Crash, Ends, Elsewhere, ui
<1>2. CASE Ending
  <2>1. Ends
    BY <1>2 DEF Ending, Exit, Crash
  <2>2. DocumentType'
    BY <2>1, UntitledType DEF Ends, DocumentType
  <2>3. timer' = FALSE /\ pending' = "no"
    BY <2>1 DEF Ends
  <2>4. WriterType'
    BY <2>1 DEF Ends, Writer!Restart, WriterType
  <2>5. asking' = FALSE /\ answer' = "none" /\ stored' = newest'
    BY <2>1 DEF Ends, Writer!Restart
  <2> QED
    BY <1>1, <2>2, <2>3, <2>4, <2>5
       DEF ControlType, Apps, AnswerType, CountsType, CapturedInv, ClosingInv
<1>3. CASE Elsewhere
  <2>1. /\ UNCHANGED <<ui, snaps, writer, bounds>> /\ app = "off"
        /\ disk' \in AnyText \cup {Gone}
    BY <1>3 DEF Elsewhere
  <2> QED
    BY <2>1 DEF ui, writer, DocumentType, ControlType, WriterType, AnswerType,
                CountsType, CapturedInv, ClosingInv
<1> QED
  BY <1>2, <1>3

(* Restoring what an entry gives, and restoring the same again.            *)
LEMMA RestoredType ==
  ASSUME NEW e \in Entries, DocumentType, Opens(e) \/ Renews(e)
  PROVE  RestoredDocument(e) \in Documents
<1>1. e.titled \in BOOLEAN /\ e.text \in AnyText
  BY DEF Entries
<1>2. e.dirty \in BOOLEAN
  BY Zenon DEF Entries
<1>3. CASE Opens(e) /\ Replaces(e)
  <2>1. disk \in AnyText
    BY <1>3 DEF Opens, DocumentType
  <2>2. AtSavePoint(TRUE, disk, TRUE) \in Documents
    BY <2>1, SavePointType
  <2> QED
    BY <1>1, <1>3, <2>2 DEF RestoredDocument, Documents
<1>4. CASE Opens(e) /\ ~Replaces(e)
  <2>1. disk \in AnyText
    BY <1>4 DEF Opens, DocumentType
  <2> QED
    BY <1>4, <2>1, SavePointType DEF RestoredDocument
<1>5. CASE ~Opens(e)
  <2>1. AtSavePoint(e.titled, e.text, e.dirty) \in Documents
    BY <1>1, <1>2, SavePointType
  <2> QED
    BY <1>5, <2>1 DEF RestoredDocument
<1> QED
  BY <1>3, <1>4, <1>5

LEMMA StartsStep == ASSUME IInv, Starting PROVE IInv'
<1> USE DEF IInv, Types
<1>1. /\ Starts /\ app' = "running" /\ timer' = TRUE /\ disk' = disk
      /\ app = "off"
  BY DEF Starting, Restore, StartEmpty, Starts
<1>2. CountsType'
  BY <1>1, BoundsAssumption DEF Starts, CountsType
<1>3. CASE Restore
  <2> DEFINE e == snaps[stored]
  <2>1. /\ stored # 0 /\ (Opens(e) \/ Renews(e)) /\ doc' = RestoredDocument(e)
        /\ UNCHANGED <<snaps, writer>>
    BY <1>3 DEF Restore, NoSnapshot
  <2>2. e \in Entries /\ stored = newest
    <3>1. stored = newest /\ stored \in 1 .. Len(snaps)
      BY <1>1, <2>1 DEF WriterType, ClosingInv
    <3>2. snaps \in Seq(Entries)
      BY DEF WriterType
    <3> QED
      BY <3>1, <3>2
  <2>3. DocumentType'
    <3>1. RestoredDocument(e) \in Documents
      BY <2>1, <2>2, RestoredType
    <3> QED
      BY <1>1, <2>1, <3>1 DEF DocumentType
  <2>4. pending' \in {"no", "waiting"}
    BY <1>3 DEF Restore
  <2>5. ControlType' /\ ClosingInv'
    BY <1>1, <2>4 DEF ControlType, Apps, ClosingInv
  <2>6. WriterType' /\ AnswerType'
    BY <2>1 DEF WriterType, AnswerType, writer
  <2>7. Gives(snaps[newest], doc)'
    <3>1. snaps'[newest'] = e
      BY <2>1, <2>2 DEF writer
    <3> HIDE DEF e
    <3> QED
      BY <1>1, <2>1, <3>1 DEF Gives, Same, Opens, Renews, Replaces, RestoredDocument
  <2>8. CapturedInv'
    BY <2>1, <2>2, <2>7 DEF CapturedInv, Captured, writer
  <2> QED
    BY <1>2, <2>3, <2>5, <2>6, <2>8
<1>4. CASE StartEmpty
  <2>1. DocumentType'
    BY <1>1, <1>4, UntitledType DEF StartEmpty, DocumentType
  <2>2. WriterType' /\ Captured' /\ pending' = "no" /\ UNCHANGED <<stored, asking, answer>>
    BY <1>4, <2>1, SnapshotTaken DEF StartEmpty
  <2>3. ControlType' /\ ClosingInv' /\ AnswerType' /\ CapturedInv'
    BY <1>1, <2>2 DEF ControlType, Apps, ClosingInv, AnswerType, CapturedInv
  <2> QED
    BY <1>2, <2>1, <2>2, <2>3
<1> QED
  BY <1>3, <1>4 DEF Starting

LEMMA NextIInv == IInv /\ [Next]_vars => IInv'
<1> SUFFICES ASSUME IInv, [Next]_vars PROVE IInv'
  OBVIOUS
<1>1. CASE UNCHANGED vars
  <2>1. UNCHANGED <<disk, doc, pending, timer, app, snaps, newest, stored, asking,
                    answer, commands, launches>>
    BY <1>1 DEF vars, ui, writer, bounds
  <2> QED
    BY <2>1 DEF IInv, Types, DocumentType, ControlType, WriterType, AnswerType,
       CountsType, CapturedInv, Captured, Expressible, Gives, Same, Opens, Renews,
       Replaces, RestoredDocument, ClosingInv
<1> QED
  BY <1>1, StoresStep, CommandsStep, TimerStep, CloseStep, OffStep, StartsStep
     DEF Next, Closing

LEMMA Inductive == Spec => []IInv
  BY InitIInv, NextIInv, PTL DEF Spec

-----------------------------------------------------------------------------
(* Every variable keeps its type, and the writer counts what it was given. *)
THEOREM TypeCorrect == Spec => []TypeOK
<1>1. IInv => TypeOK
  BY DEF IInv, Types, DocumentType, ControlType, WriterType, AnswerType,
         CountsType, Apps, TypeOK
<1> QED
  BY <1>1, Inductive, PTL

LEMMA GivenNext ==
  ASSUME IInv, Captured, Expressible, stored = newest
  PROVE  Same(NextLaunch, doc)
<1>1. Gives(snaps[stored], doc) /\ stored # 0
  BY DEF Captured
<1> QED
  BY <1>1 DEF Gives, NextLaunch

(* With the snapshot taken and stored, a crash costs nothing (OnNotify,    *)
(* SaveSessionSnapshot, CaptureSession, RestoreSession).                   *)
THEOREM HarmlessCrash == Spec => []CrashIsHarmless
<1>1. IInv => CrashIsHarmless
  BY GivenNext DEF IInv, CapturedInv, CrashIsHarmless, Quiet, Same
<1> QED
  BY <1>1, Inductive, PTL

(* The window closes only over a session file that has the document        *)
(* (OnClose).                                                              *)
THEOREM HarmlessClose == Spec => []CloseIsHarmless
<1>1. IInv => CloseIsHarmless
  BY GivenNext DEF IInv, CapturedInv, ClosingInv, CloseIsHarmless, Same
<1> QED
  BY <1>1, Inductive, PTL
=============================================================================
