-------------------------- MODULE SessionWriterProofs --------------------------
(***************************************************************************)
(* Proofs about the session writer, for every number of snapshots and of   *)
(* process starts: its types, the safety invariants of the runs, and that  *)
(* every step is a step of the durable snapshot it promises.               *)
(***************************************************************************)
EXTENDS SessionWriter, TLAPS

Saving == {"check", "open", "write", "move"}

(* What the worker holds while it saves.                                   *)
WorkerInv ==
  /\ writing <=> worker \in Saving \cup {"saved", "failed"}
  /\ worker \in Saving => request > disk.snap
  /\ writing => request <= newest
  /\ worker \in {"write", "move"} => temporary.snap = request
  /\ worker = "move" => temporary.whole
  /\ worker = "saved" => disk.snap = request

(* Where the newest snapshot is: still queued, or in the worker's hands, or *)
(* - if the last write succeeded - in the file.                            *)
SnapshotInv ==
  /\ disk.snap <= newest
  /\ pending # None => /\ pending = newest
                       /\ pending > disk.snap
                       /\ writing => pending > request
  /\ writing /\ pending = None => request = newest
  /\ FlushIsHonest

(* The destructor: nothing is queued once its flush has returned.          *)
ShutdownInv ==
  /\ stop => ui \in {"join", "gone"}
  /\ ui \in {"stop", "join", "gone"} => Settled
  /\ ui = "gone" => worker = "exited"
  /\ worker = "exited" => stop

(* The values of the variables, without what the flag writing is for.      *)
(* The three parts are as the provers take them: flags, files, the numbers *)
(* and the places in the code.                                             *)
FlagsOK == writing \in BOOLEAN /\ lastResult \in BOOLEAN /\ stop \in BOOLEAN

FilesOK == disk \in Files /\ temporary \in Files

PlacesOK ==
  /\ pending \in 0 .. MaxSnapshots /\ request \in 0 .. MaxSnapshots
  /\ newest \in 0 .. MaxSnapshots /\ launches \in 1 .. MaxLaunches
  /\ waiting \subseteq {"ui", "worker"}
  /\ worker \in WorkerStates /\ ui \in UiStates
  /\ answer \in {"none", "ok", "failed"}

ValuesOK == FlagsOK /\ FilesOK /\ PlacesOK

IInv == ValuesOK /\ WorkerInv /\ SnapshotInv /\ ShutdownInv /\ SessionFileIsWhole

(* The worker holds a snapshot in the states that are not at its ends.     *)
LEMMA TypeParts == ValuesOK /\ WorkerInv => TypeOK
  BY DEF ValuesOK, TypeOK, FlagsOK, FilesOK, PlacesOK, WorkerInv, Saving, WorkerStates

LEMMA MissingIsFile == Missing \in Files
  BY BoundsAssumption DEF Files, Missing, None

(* The inductive invariant holds initially (SessionWriter constructor).    *)
LEMMA InitIInv == Init => IInv
<1>1. Init => FlagsOK
  BY Zenon DEF Init, FlagsOK
<1>2. Init => FilesOK
  BY MissingIsFile DEF Init, FilesOK
<1>3. Init => PlacesOK
  BY BoundsAssumption DEF Init, PlacesOK, None, WorkerStates, UiStates
<1>4. Init => WorkerInv /\ ShutdownInv
  BY DEF Init, WorkerInv, ShutdownInv, Settled, Missing, None, Saving
<1>5. Init => SnapshotInv /\ SessionFileIsWhole
  BY DEF Init, SnapshotInv, FlushIsHonest, SessionFileIsWhole, Settled, Missing, None
<1> QED
  BY <1>1, <1>2, <1>3, <1>4, <1>5 DEF IInv, ValuesOK

(* Every step of either thread, and a process start, keeps the flags.      *)
LEMMA FlagsStep == FlagsOK /\ [Next]_vars => FlagsOK'
<1> SUFFICES ASSUME FlagsOK, [Next]_vars PROVE FlagsOK'
  OBVIOUS
<1> USE DEF FlagsOK, writer, caller, files
<1>1. CASE Ui
  BY <1>1, Zenon DEF Ui, Queue, QueueNotify, FlushCall, FlushWait, FlushReturn,
     RequestStop, Join
<1>2. CASE WorkerWait \/ WorkerExit \/ Take \/ Finish \/ WorkerNotify
  BY <1>2, Zenon DEF WorkerWait, WorkerExit, Take, Finish, WorkerNotify
<1>3. CASE CheckTarget \/ OpenTemporary \/ WriteTemporary \/ MoveTemporary
  BY <1>3, Zenon DEF CheckTarget, OpenTemporary, WriteTemporary, MoveTemporary,
     SaveStep
<1>4. CASE Relaunch
  BY <1>4, Zenon DEF Relaunch
<1>5. CASE UNCHANGED vars
  BY <1>5, Zenon DEF vars
<1> QED
  BY <1>1, <1>2, <1>3, <1>4, <1>5, Zenon DEF Next, Worker

(* Only the steps of SaveSessionAtomic touch the files.                    *)
LEMMA FilesStep == FilesOK /\ PlacesOK /\ [Next]_vars => FilesOK'
<1> SUFFICES ASSUME FilesOK, PlacesOK, [Next]_vars PROVE FilesOK'
  OBVIOUS
<1> USE DEF FilesOK, PlacesOK, files
<1>1. CASE UNCHANGED files
  BY <1>1
<1>2. CASE OpenTemporary
  <2>1. [snap |-> request, whole |-> FALSE] \in Files
    BY DEF Files
  <2> QED
    BY <1>2, <2>1 DEF OpenTemporary
<1>3. CASE WriteTemporary
  <2>1. [temporary EXCEPT !.whole = TRUE] \in Files
    BY DEF Files
  <2> QED
    BY <1>3, <2>1 DEF WriteTemporary
<1>4. CASE MoveTemporary
  BY <1>4, MissingIsFile DEF MoveTemporary
<1> QED
  BY <1>1, <1>2, <1>3, <1>4
     DEF Next, Ui, Worker, Relaunch, vars, Queue, QueueNotify, FlushCall, FlushWait,
         FlushReturn, RequestStop, Join, WorkerWait, WorkerExit, Take, Finish,
         WorkerNotify, CheckTarget

(* Every step keeps the numbers within the bounds and the threads in the   *)
(* code.                                                                   *)
LEMMA PlacesStep == FilesOK /\ PlacesOK /\ [Next]_vars => PlacesOK'
<1> SUFFICES ASSUME PlacesOK, FilesOK, [Next]_vars PROVE PlacesOK'
  OBVIOUS
<1> USE BoundsAssumption DEF PlacesOK, None, WorkerStates, UiStates, writer, caller
<1>1. CASE Queue
  BY <1>1 DEF Queue
<1>2. CASE QueueNotify \/ RequestStop \/ Join
  BY <1>2 DEF QueueNotify, RequestStop, Join
<1>3. CASE FlushCall
  BY <1>3 DEF FlushCall, Flushing
<1>4. CASE FlushWait
  BY <1>4 DEF FlushWait
<1>5. CASE FlushReturn
  BY <1>5 DEF FlushReturn
<1>6. CASE WorkerWait
  BY <1>6 DEF WorkerWait
<1>7. CASE Take
  BY <1>7 DEF Take
<1>8. CASE WorkerExit \/ Finish \/ WorkerNotify
  BY <1>8 DEF WorkerExit, Finish, WorkerNotify
<1>9. CASE CheckTarget \/ OpenTemporary \/ WriteTemporary \/ MoveTemporary
  BY <1>9 DEF CheckTarget, OpenTemporary, WriteTemporary, MoveTemporary, SaveStep
<1>10. CASE Relaunch
  <2>1. disk.snap \in 0 .. MaxSnapshots
    BY DEF FilesOK, Files
  <2> QED
    BY <1>10, <2>1 DEF Relaunch
<1>11. CASE UNCHANGED vars
  BY <1>11 DEF vars
<1> QED
  BY <1>1, <1>2, <1>3, <1>4, <1>5, <1>6, <1>7, <1>8, <1>9, <1>10, <1>11
     DEF Next, Ui, Worker

LEMMA ValuesStep == ValuesOK /\ [Next]_vars => ValuesOK'
  BY FlagsStep, FilesStep, PlacesStep, Zenon DEF ValuesOK

(* Every step keeps what the worker, the queue and the destructor rely on. *)
LEMMA StepIInv == IInv /\ [Next]_vars => IInv'
<1> SUFFICES ASSUME IInv, [Next]_vars PROVE IInv'
  OBVIOUS
<1>0. ValuesOK'
  BY ValuesStep DEF IInv
<1> USE DEF IInv, ValuesOK, FlagsOK, FilesOK, PlacesOK, WorkerInv, SnapshotInv,
        ShutdownInv, SessionFileIsWhole,
        FlushIsHonest, Settled, Files, None, Saving, writer, caller, files
<1>1. CASE Queue
  BY <1>0, <1>1 DEF Queue
<1>2. CASE QueueNotify \/ FlushCall \/ FlushWait \/ RequestStop \/ Join
  BY <1>0, <1>2 DEF QueueNotify, FlushCall, FlushWait, RequestStop, Join, Flushing
<1>3. CASE FlushReturn
  BY <1>0, <1>3 DEF FlushReturn, Flushing
<1>4. CASE WorkerWait \/ WorkerExit \/ WorkerNotify
  BY <1>0, <1>4 DEF WorkerWait, WorkerExit, WorkerNotify
<1>5. CASE Take
  BY <1>0, <1>5 DEF Take
<1>6. CASE CheckTarget
  BY <1>0, <1>6 DEF CheckTarget, SaveStep
<1>7. CASE OpenTemporary
  BY <1>0, <1>7 DEF OpenTemporary, SaveStep
<1>8. CASE WriteTemporary
  BY <1>0, <1>8 DEF WriteTemporary, SaveStep
<1>9. CASE MoveTemporary
  BY <1>0, <1>9 DEF MoveTemporary, SaveStep
<1>10. CASE Finish
  BY <1>0, <1>10 DEF Finish
<1>11. CASE Relaunch
  BY <1>0, <1>11 DEF Relaunch
<1>12. CASE UNCHANGED vars
  BY <1>0, <1>12 DEF vars
<1> QED
  BY <1>1, <1>2, <1>3, <1>4, <1>5, <1>6, <1>7, <1>8, <1>9, <1>10, <1>11, <1>12
     DEF Next, Ui, Worker

(* The inductive invariant holds in every reachable state.                 *)
LEMMA Invariance == Spec => []IInv
  BY InitIInv, StepIInv, PTL DEF Spec

(* Every variable keeps its type, whatever threads and crashes do.         *)
THEOREM TypeCorrect == Spec => []TypeOK
<1>1. IInv => TypeOK
  BY TypeParts DEF IInv
<1> QED
  BY Invariance, <1>1, PTL

(* Flush never answers true while the session file is older than the       *)
(* newest queued snapshot (SessionWriter::Flush, SessionWriter::Run).      *)
THEOREM FlushHonesty == Spec => []FlushIsHonest
<1>1. IInv => FlushIsHonest
  BY DEF IInv, SnapshotInv
<1> QED
  BY Invariance, <1>1, PTL

(* A crash at any point of a save leaves a complete session file           *)
(* (SaveSessionAtomic).                                                    *)
THEOREM WholeSessionFile == Spec => []SessionFileIsWhole
<1>1. IInv => SessionFileIsWhole
  BY DEF IInv
<1> QED
  BY Invariance, <1>1, PTL

(* When the destructor has returned there is no worker, nothing queued and *)
(* nothing newer than the file, failures aside (~SessionWriter).           *)
THEOREM DrainedDestructor == Spec => []DestroyedIsDrained
<1>1. IInv => DestroyedIsDrained
  BY DEF IInv, ShutdownInv, SnapshotInv, FlushIsHonest, DestroyedIsDrained
<1> QED
  BY Invariance, <1>1, PTL

(* Initial states map to initial states of the durable snapshot.           *)
LEMMA PromiseInit == Init => Promise!Init
  BY DEF Init, Promise!Init, Missing, None, Flushing

(* Every step of the writer is a step of the durable snapshot or a stutter: *)
(* in particular the stored snapshot only ever moves forward.              *)
LEMMA PromiseStep == IInv /\ [Next]_vars => [Promise!Next]_Promise!vars
<1> SUFFICES ASSUME IInv, [Next]_vars PROVE [Promise!Next]_Promise!vars
  OBVIOUS
<1> USE DEF Promise!Next, Promise!vars, writer, caller, files, Flushing
<1>1. CASE Queue
  BY <1>1 DEF Queue, Promise!Submit
<1>2. CASE FlushCall
  BY <1>2 DEF FlushCall, Promise!Ask
<1>3. CASE FlushReturn
  BY <1>3 DEF FlushReturn, Promise!Reply, IInv, ValuesOK, FlagsOK, SnapshotInv, FlushIsHonest
<1>4. CASE QueueNotify \/ FlushWait \/ RequestStop \/ Join
  BY <1>4 DEF QueueNotify, FlushWait, RequestStop, Join
<1>5. CASE MoveTemporary
  BY <1>5 DEF MoveTemporary, SaveStep, Promise!Store, IInv, ValuesOK, FilesOK,
     PlacesOK, Files, WorkerInv, Saving
<1>6. CASE CheckTarget \/ OpenTemporary \/ WriteTemporary
  BY <1>6 DEF CheckTarget, OpenTemporary, WriteTemporary, SaveStep
<1>7. CASE WorkerWait \/ WorkerExit \/ Take \/ Finish \/ WorkerNotify
  BY <1>7 DEF WorkerWait, WorkerExit, Take, Finish, WorkerNotify
<1>8. CASE Relaunch
  BY <1>8 DEF Relaunch, Promise!Restart
<1>9. CASE UNCHANGED vars
  BY <1>9 DEF vars
<1> QED
  BY <1>1, <1>2, <1>3, <1>4, <1>5, <1>6, <1>7, <1>8, <1>9 DEF Next, Ui, Worker

(* The writer implements the safety part of the durable snapshot: newest   *)
(* stored when a flush says so, and never an older file than before.       *)
THEOREM WriterKeepsPromise == Spec => Promise!Init /\ [][Promise!Next]_Promise!vars
  BY Invariance, PromiseInit, PromiseStep, PTL DEF Spec
=============================================================================
