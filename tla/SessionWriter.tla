---------------------------- MODULE SessionWriter ----------------------------
(***************************************************************************)
(* The background session writer (session_writer.cpp) and the atomic file  *)
(* replacement it performs (SaveSessionAtomic, session.cpp), under process *)
(* crashes and restarts.                                                   *)
(*                                                                         *)
(* Two threads share one mutex and one condition variable: the UI thread,  *)
(* which calls Queue, Flush and the destructor, and the worker, which runs *)
(* Run.  A critical section is one action, a notification is an action of  *)
(* its own because it happens after the unlock.  A snapshot is its number  *)
(* in the order of the calls to Queue.                                     *)
(***************************************************************************)
EXTENDS Naturals

CONSTANTS MaxSnapshots,  \* bound: snapshots queued
          MaxLaunches    \* bound: times the process is started

ASSUME BoundsAssumption == MaxSnapshots \in Nat /\ MaxLaunches \in Nat \ {0}

VARIABLES
  pending,     \* pending_: number of the queued snapshot, None when empty
  writing,     \* writing_
  lastResult,  \* last_result_
  stop,        \* the stop token of worker_
  waiting,     \* threads blocked in changed_.wait
  worker,      \* where the worker thread is
  request,     \* the worker's local copy of the snapshot it writes
  ui,          \* where the UI thread is
  answer,      \* what the last Flush returned
  newest,      \* number of the last snapshot passed to Queue
  disk,        \* the session file
  temporary,   \* the file SaveSessionAtomic writes first
  launches     \* process starts so far

writer  == <<pending, writing, lastResult, stop>>
files   == <<disk, temporary>>
caller  == <<ui, answer, newest>>
vars    == <<writer, waiting, worker, request, caller, files, launches>>

None    == 0
Missing == [snap |-> None, whole |-> TRUE]

Files == [snap : 0 .. MaxSnapshots, whole : BOOLEAN]

WorkerStates == {"idle", "check", "open", "write", "move", "saved", "failed",
                 "notify", "exited"}
UiStates == {"run", "notify", "flush", "destroy", "stop", "join", "gone"}
Flushing == {"flush", "destroy"}

(* The members' initial values and a fresh worker, before any session file *)
(* exists.                                                                 *)
Init ==
  /\ pending = None /\ writing = FALSE /\ lastResult = TRUE /\ stop = FALSE
  /\ waiting = {} /\ worker = "idle" /\ request = None
  /\ ui = "run" /\ answer = "none" /\ newest = 0 /\ launches = 1
  /\ disk = Missing /\ temporary = Missing

-----------------------------------------------------------------------------
(* The UI thread.                                                          *)

Queue == /\ ui = "run" /\ newest < MaxSnapshots
         /\ newest' = newest + 1
         /\ pending' = newest'
         /\ ui' = "notify"
         /\ UNCHANGED <<writing, lastResult, stop, waiting, worker, request,
                        answer, files, launches>>

QueueNotify == /\ ui = "notify"
               /\ ui' = "run"
               /\ waiting' = {}
               /\ UNCHANGED <<writer, worker, request, answer, newest, files,
                              launches>>

FlushCall == /\ ui = "run"
             /\ ui' \in Flushing
             /\ UNCHANGED <<writer, waiting, worker, request, answer, newest,
                            files, launches>>

Settled == pending = None /\ ~writing

FlushWait == /\ ui \in Flushing /\ "ui" \notin waiting
             /\ ~Settled
             /\ waiting' = waiting \cup {"ui"}
             /\ UNCHANGED <<writer, worker, request, caller, files, launches>>

(* Mutant: Flush waits for the queue only, not for the write under way.    *)
MutantFlushDuringWrite ==
  /\ ui \in Flushing /\ "ui" \notin waiting
  /\ pending = None
  /\ answer' = IF lastResult THEN "ok" ELSE "failed"
  /\ ui' = IF ui = "flush" THEN "run" ELSE "stop"
  /\ UNCHANGED <<writer, waiting, worker, request, newest, files, launches>>

FlushReturn == /\ ui \in Flushing /\ "ui" \notin waiting
               /\ Settled
               /\ answer' = IF lastResult THEN "ok" ELSE "failed"
               /\ ui' = IF ui = "flush" THEN "run" ELSE "stop"
               /\ UNCHANGED <<writer, waiting, worker, request, newest, files,
                              launches>>

(* Mutant: the worker sleeps through the stop request.                     *)
MutantStopWithoutWake ==
  /\ ui = "stop"
  /\ stop' = TRUE
  /\ ui' = "join"
  /\ UNCHANGED <<pending, writing, lastResult, waiting, worker, request, answer,
                 newest, files, launches>>

(* ~SessionWriter after its Flush: request_stop wakes a stoppable wait, as *)
(* the notify_all after it does.                                           *)
RequestStop == /\ ui = "stop"
               /\ stop' = TRUE
               /\ waiting' = {}
               /\ ui' = "join"
               /\ UNCHANGED <<pending, writing, lastResult, worker, request,
                              answer, newest, files, launches>>

(* Mutant: the thread is detached, not joined.                             *)
MutantDetach == /\ ui = "join"
                /\ ui' = "gone"
                /\ UNCHANGED <<writer, waiting, worker, request, answer, newest,
                               files, launches>>

Join == /\ ui = "join" /\ worker = "exited"
        /\ ui' = "gone"
        /\ UNCHANGED <<writer, waiting, worker, request, answer, newest, files,
                       launches>>

-----------------------------------------------------------------------------
(* The worker thread.                                                      *)

WorkerWait == /\ worker = "idle" /\ "worker" \notin waiting
              /\ pending = None /\ ~stop
              /\ waiting' = waiting \cup {"worker"}
              /\ UNCHANGED <<writer, worker, request, caller, files, launches>>

WorkerExit == /\ worker = "idle" /\ "worker" \notin waiting
              /\ pending = None /\ stop
              /\ worker' = "exited"
              /\ UNCHANGED <<writer, waiting, request, caller, files, launches>>

(* Mutant: a write under way is not marked.                                *)
MutantTakeUnmarked ==
  /\ worker = "idle" /\ "worker" \notin waiting
  /\ pending # None
  /\ request' = pending
  /\ pending' = None
  /\ worker' = "check"
  /\ UNCHANGED <<writing, lastResult, stop, waiting, caller, files, launches>>

Take == /\ worker = "idle" /\ "worker" \notin waiting
        /\ pending # None
        /\ request' = pending
        /\ pending' = None
        /\ writing' = TRUE
        /\ worker' = "check"
        /\ UNCHANGED <<lastResult, stop, waiting, caller, files, launches>>

SaveStep(from, to) ==
  /\ worker = from
  /\ worker' = to
  /\ UNCHANGED <<writer, waiting, request, caller, launches>>

(* The target is a directory, or its parent cannot be created.             *)
CheckTarget == /\ \/ SaveStep("check", "open")
                  \/ SaveStep("check", "failed")
               /\ UNCHANGED files

OpenTemporary ==
  \/ /\ SaveStep("open", "write")
     /\ temporary' = [snap |-> request, whole |-> FALSE]
     /\ UNCHANGED disk
  \/ SaveStep("open", "failed") /\ UNCHANGED files

(* Mutant: the stream is not checked after the write.                      *)
MutantWriteUnchecked ==
  /\ SaveStep("write", "move")
  /\ \E whole \in BOOLEAN : temporary' = [temporary EXCEPT !.whole = whole]
  /\ UNCHANGED disk

WriteTemporary ==
  \/ /\ SaveStep("write", "move")
     /\ temporary' = [temporary EXCEPT !.whole = TRUE]
     /\ UNCHANGED disk
  \/ SaveStep("write", "failed") /\ UNCHANGED files

MoveTemporary ==
  \/ /\ SaveStep("move", "saved")
     /\ disk' = temporary
     /\ temporary' = Missing
  \/ /\ SaveStep("move", "failed")
     /\ temporary' \in {Missing, temporary}  \* removal errors are ignored
     /\ UNCHANGED disk

(* Mutant: Run stores the result and leaves writing_ set.                  *)
MutantStillWriting ==
  /\ worker \in {"saved", "failed"}
  /\ lastResult' = (worker = "saved")
  /\ worker' = "notify"
  /\ UNCHANGED <<pending, writing, stop, waiting, request, caller, files, launches>>

Finish == /\ worker \in {"saved", "failed"}
          /\ lastResult' = (worker = "saved")
          /\ writing' = FALSE
          /\ worker' = "notify"
          /\ UNCHANGED <<pending, stop, waiting, request, caller, files,
                         launches>>

WorkerNotify == /\ worker = "notify"
                /\ waiting' = {}
                /\ worker' = "idle"
                /\ UNCHANGED <<writer, request, caller, files, launches>>

-----------------------------------------------------------------------------
(* The process is killed, or has ended, and is started again: only the     *)
(* files remain, and the session the new process starts from is the one on *)
(* disk.                                                                   *)
Relaunch ==
  /\ launches < MaxLaunches
  /\ launches' = launches + 1
  /\ pending' = None /\ writing' = FALSE /\ lastResult' = TRUE /\ stop' = FALSE
  /\ waiting' = {} /\ worker' = "idle" /\ request' = None
  /\ ui' = "run" /\ answer' = "none" /\ newest' = disk.snap
  /\ UNCHANGED files

Ui == \/ Queue \/ QueueNotify \/ FlushCall \/ FlushWait \/ FlushReturn
      \/ RequestStop \/ Join

Worker == \/ WorkerWait \/ WorkerExit \/ Take \/ CheckTarget \/ OpenTemporary
          \/ WriteTemporary \/ MoveTemporary \/ Finish \/ WorkerNotify

Next == Ui \/ Worker \/ Relaunch

(* Both threads keep running while the process lives: the operating system *)
(* schedules them and no file operation blocks for ever.  Nothing obliges  *)
(* the caller to queue or to flush, or the process to be started again.    *)
Fairness == /\ WF_vars(Worker)
            /\ WF_vars(QueueNotify \/ FlushWait \/ FlushReturn
                         \/ RequestStop \/ Join)

Spec == Init /\ [][Next]_vars /\ Fairness

-----------------------------------------------------------------------------
(* Every variable stays in the set of values the code can give it, and the *)
(* flag Flush waits for is set exactly while the worker has a snapshot in  *)
(* hand: from the critical section that takes it to the one that stores    *)
(* the result (Run).                                                       *)
TypeOK ==
  /\ pending \in 0 .. MaxSnapshots /\ request \in 0 .. MaxSnapshots
  /\ newest \in 0 .. MaxSnapshots /\ launches \in 1 .. MaxLaunches
  /\ writing = (worker \in WorkerStates \ {"idle", "notify", "exited"})
  /\ lastResult \in BOOLEAN /\ stop \in BOOLEAN
  /\ waiting \subseteq {"ui", "worker"}
  /\ worker \in WorkerStates /\ ui \in UiStates
  /\ answer \in {"none", "ok", "failed"}
  /\ disk \in Files /\ temporary \in Files

(* Whenever a Flush could return true - nothing pending, nothing being     *)
(* written, the last write a success - the session file holds the newest   *)
(* snapshot that was queued, however often snapshots overtook each other,  *)
(* writes failed or the process was killed (Queue, Flush, Run).            *)
FlushIsHonest == Settled /\ lastResult => disk.snap = newest

(* What LoadSession can find at the session path after a crash at any      *)
(* point of a save is a complete snapshot, never a torn one                *)
(* (SaveSessionAtomic: write the temporary file, check, then rename).      *)
SessionFileIsWhole == disk.whole

(* The destructor leaves no worker behind and no snapshot unwritten: when  *)
(* it has returned, the thread has ended, nothing is queued, and the file  *)
(* is the newest snapshot unless the last write reported a failure         *)
(* (~SessionWriter and the exit test of Run).                              *)
DestroyedIsDrained ==
  ui = "gone" => /\ worker = "exited"
                 /\ Settled
                 /\ lastResult => disk.snap = newest

(* A destruction that was begun ends: the flush, the stop request and the  *)
(* join cannot wait for each other for ever, wherever the worker was.      *)
DestructorReturns == ui \in {"destroy", "stop", "join"} ~> ui \in {"gone", "run"}

(* The writer implements the durable snapshot its caller relies on,        *)
(* answered flushes included.                                              *)
Promise == INSTANCE DurableSnapshot
             WITH stored <- disk.snap, asking <- (ui \in Flushing)
ImplementsDurableSnapshot == Promise!Spec
=============================================================================
