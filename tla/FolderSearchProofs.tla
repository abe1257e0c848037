-------------------------- MODULE FolderSearchProofs --------------------------
(***************************************************************************)
(* Proofs about Find in Files, for every number of searches, every limit   *)
(* and every job: types, that the UI can only ever take and list a result  *)
(* of the current search, that a stopped search's partial matches are not  *)
(* listed, and that the shutdown leaves no thread.                         *)
(***************************************************************************)
EXTENDS FolderSearch, DataLemmas, TLAPS

Stopping == {"replace", "cancel", "closing", "closed"}

(* Generations left for the steps the UI thread has committed to.          *)
GenerationInv ==
  /\ ui \in {"prompt", "replace"} => cell.generation + 2 <= MaxGenerations
  /\ ui \in {"cancel", "launch"} => cell.generation + 1 <= MaxGenerations

(* Workers are started in the order of the generations, and only a stop    *)
(* request cancels one.  A current worker that was told to stop means that *)
(* the UI thread is about to begin a generation, or to close.              *)
WorkersInv ==
  /\ \A g \in Generations :
       /\ workers[g].at # "none" => g <= cell.generation
       /\ workers[g].at = "none" => ~workers[g].stop
       /\ workers[g].cancelled => workers[g].stop
       /\ workers[g].stop /\ g = cell.generation => ui \in Stopping

PendingInv ==
  /\ PendingIsCurrent
  /\ HasResult(cell) /\ cell.pending.cancelled => ui \in Stopping

IInv == /\ TypeOK /\ GenerationInv /\ WorkersInv /\ PendingInv
        /\ NoPartialResultListed /\ ClosedIsQuiet

(* A worker of the roots variant that was neither stopped nor cut has      *)
(* counted every match of the parts before its next one.                   *)
Counted(w) ==
  ~w.job.documents /\ ~w.truncated /\ ~w.cancelled /\ ~w.error =>
    /\ w.next <= Len(w.job.parts) + 1
    /\ w.found = HitsUpTo(w.job.parts)[w.next - 1]
    /\ \A i \in 1 .. w.next - 1 : ~w.job.parts[i].cut
    /\ w.at # "search" => w.next = Len(w.job.parts) + 1

(* What a step of the worker's loop does, whichever it is.                 *)
LoopMoves(g) ==
  /\ workers[g].at = "search" /\ workers'[g].at \in {"search", "publish"}
  /\ workers'[g].job = workers[g].job
  /\ Counted(workers[g]) => Counted(workers'[g])
  /\ \A h \in Generations : h # g => workers'[h] = workers[h]
  /\ UNCHANGED <<cell, posted, ui, job, cancelEnabled, shown>>

-----------------------------------------------------------------------------
LEMMA NoWorkerType == NoWorker \in Workers /\ NoJob \in Jobs \cup {NoJob}
<1>1. NoJob \in Jobs \cup {NoJob}
  OBVIOUS
<1> QED
  BY <1>1, BoundsAssumption DEF NoWorker, Workers, RunningStates

LEMMA InitWorkers == Init => WorkersInv
<1>1. NoWorker.at = "none" /\ NoWorker.stop = FALSE /\ NoWorker.cancelled = FALSE
  BY DEF NoWorker
<1>2. ASSUME Init, NEW g \in Generations PROVE workers[g] = NoWorker
  BY <1>2 DEF Init
<1> QED
  BY <1>1, <1>2 DEF WorkersInv

(* Before the first search (MainWindow's members).                         *)
LEMMA InitIInv == Init => IInv
<1> SUFFICES ASSUME Init PROVE IInv
  OBVIOUS
<1> USE BoundsAssumption DEF Init, Empty, Nothing
<1>1. TypeOK
  <2>1. cell \in [generation : 0 .. MaxGenerations, pending : Results \cup {Nothing}]
    OBVIOUS
  <2>2. cancelEnabled \in BOOLEAN
    BY Zenon
  <2>3. workers \in [Generations -> Workers] /\ job \in Jobs \cup {NoJob} /\ posted \in Nat
    BY NoWorkerType
  <2> QED
    BY <2>1, <2>2, <2>3 DEF TypeOK
<1>2. GenerationInv
  BY DEF GenerationInv
<1>4. WorkersInv
  BY InitWorkers
<1>5. PendingInv /\ NoPartialResultListed /\ ClosedIsQuiet
  BY DEF PendingInv, PendingIsCurrent, HasResult, NoPartialResultListed, ClosedIsQuiet
<1> QED
  BY <1>1, <1>2, <1>4, <1>5 DEF IInv

(* A step of a worker's loop that keeps its stop flag, and cancels only a  *)
(* worker that was told to stop, keeps the invariant.                      *)
LEMMA LoopStep ==
  ASSUME IInv, NEW g \in Generations, NEW w \in Workers, WorkerMoves(g, w),
         workers[g].at = "search", w.at \in {"search", "publish"},
         w.stop = workers[g].stop, w.cancelled => w.stop,
         w.job = workers[g].job, Counted(workers[g]) => Counted(w)
  PROVE  IInv' /\ LoopMoves(g)
<1> USE DEF IInv, WorkerMoves
<1>0. workers \in [Generations -> Workers]
  BY DEF TypeOK
<1>1. TypeOK'
  BY <1>0 DEF TypeOK
<1>2. GenerationInv' /\ PendingInv' /\ NoPartialResultListed'
  BY DEF GenerationInv, PendingInv, PendingIsCurrent, NoPartialResultListed
<1>3. WorkersInv'
  BY <1>0 DEF WorkersInv
<1>4. ClosedIsQuiet'
  BY <1>0 DEF ClosedIsQuiet
<1>5. LoopMoves(g)
  BY <1>0 DEF LoopMoves
<1> QED
  BY <1>1, <1>2, <1>3, <1>4, <1>5

LEMMA PartType ==
  ASSUME NEW S, NEW s \in Seq(S), NEW i \in Nat \ {0}, i <= Len(s)
  PROVE  s[i] \in S
  OBVIOUS

(* The parts of a job, and the sums of their matches.                      *)
Parts == Seq([hits : Nat, cut : BOOLEAN])

LEMMA JobParts ==
  ASSUME NEW search \in Jobs \cup {NoJob}
  PROVE  search.parts \in Parts /\ search.documents \in BOOLEAN
<1>1. NoJob.parts \in Parts /\ NoJob.documents \in BOOLEAN
  BY DEF NoJob, Parts
<1> QED
  BY <1>1, BoundsAssumption DEF JobsAssumption, Parts

LEMMA HitsUpToSums ==
  ASSUME NEW parts \in Parts
  PROVE  /\ HitsUpTo(parts) \in [0 .. Len(parts) -> Nat]
         /\ HitsUpTo(parts)[0] = 0
         /\ \A n \in 1 .. Len(parts) :
              HitsUpTo(parts)[n] = HitsUpTo(parts)[n - 1] + parts[n].hits
<1> DEFINE N == Len(parts)
           IsSum(f) == f = [n \in 0 .. N |-> IF n = 0 THEN 0 ELSE f[n - 1] + parts[n].hits]
           step == [p \in (1 .. N) \X Nat |-> p[2] + parts[p[1]].hits]
           f == HitsUpTo(parts)
<1>0. N \in Nat
  BY DEF Parts
<1>p. \A n \in 1 .. N : parts[n].hits \in Nat
  <2>1. ASSUME NEW n \in 1 .. N PROVE parts[n] \in [hits : Nat, cut : BOOLEAN]
    <3>1. n \in Nat \ {0} /\ n <= Len(parts)
      BY <1>0
    <3> QED
      BY <3>1, PartType DEF Parts
  <2> QED
    BY <2>1
<1>1. step \in [(1 .. N) \X Nat -> Nat]
  BY <1>p
<1>2. PICK s \in [0 .. N -> Nat] : Recursive(s, 0, step, N)
  <2> HIDE DEF step, N
  <2> QED
    BY <1>0, <1>1, Recursion
<1>3. \A n \in 1 .. N : s[n] = s[n - 1] + parts[n].hits
  <2>1. ASSUME NEW n \in 1 .. N PROVE s[n] = s[n - 1] + parts[n].hits
    <3>1. s[n] = step[<<n, s[n - 1]>>]
      <4> HIDE DEF step, N
      <4> QED
        BY <1>2 DEF Recursive
    <3>2. s[n - 1] \in Nat
      BY <1>0, <1>2
    <3> QED
      BY <3>1, <3>2
  <2> QED
    BY <2>1
<1>4. s[0] = 0
  BY <1>2 DEF Recursive
<1>5. \A n \in 0 .. N : s[n] = IF n = 0 THEN 0 ELSE s[n - 1] + parts[n].hits
  BY <1>0, <1>3, <1>4
<1>6. IsSum(s)
  BY <1>2, <1>5
<1>7. f = CHOOSE g : IsSum(g)
  BY DEF HitsUpTo
<1>8. IsSum(f)
  <2> HIDE DEF IsSum, f
  <2> QED
    BY <1>6, <1>7, Zenon
<1>9. f[0] = 0 /\ \A n \in 1 .. N : f[n] = f[n - 1] + parts[n].hits
  BY <1>0, <1>8
<1>10. \A n \in 0 .. N : f[n] \in Nat
  <2> DEFINE S == {k \in Nat : k <= N => f[k] \in Nat}
  <2>1. 0 \in S
    BY <1>9
  <2>2. ASSUME NEW k \in Nat, k \in S PROVE k + 1 \in S
    BY <1>0, <1>p, <1>9, <2>2
  <2>3. Nat \subseteq S
    <3> HIDE DEF S
    <3> QED
      BY <2>1, <2>2, Induction
  <2> QED
    BY <1>0, <2>3
<1> QED
  BY <1>8, <1>9, <1>10

(* The loop over the parts (both worker lambdas of StartFolderSearch).     *)
LEMMA SearchingStep ==
  ASSUME IInv, NEW g \in Generations, SearchStep(g)
  PROVE  IInv' /\ LoopMoves(g)
<1>1. workers[g] \in Workers
  BY DEF IInv, TypeOK
<1>2. workers[g].cancelled => workers[g].stop
  BY DEF IInv, WorkersInv
<1>3. Limit \in Nat
  BY BoundsAssumption
<1>w. /\ workers[g].job.parts \in Parts /\ workers[g].next \in Nat \ {0}
      /\ Len(workers[g].job.parts) \in Nat
  BY <1>1, JobParts DEF Workers, Parts
<1>4. HasPart(g) => Part(g) \in [hits : Nat, cut : BOOLEAN]
  BY <1>w, PartType DEF HasPart, Part, Parts
<1>5. CASE StopBeforeRoot(g)
  <2> DEFINE w == [workers[g] EXCEPT !.cancelled = TRUE, !.at = "publish"]
  <2>4. w \in Workers /\ w.at = "publish"
    BY <1>1 DEF Workers, RunningStates
  <2>5. w.stop = workers[g].stop
    BY <1>1 DEF Workers
  <2>7. w.stop
    BY <1>5, <2>5 DEF StopBeforeRoot
  <2>9. w.job = workers[g].job /\ (Counted(workers[g]) => Counted(w))
    BY <1>1 DEF Workers, Counted
  <2>8. WorkerMoves(g, w)
    BY <1>5 DEF StopBeforeRoot
  <2> HIDE DEF w
  <2> QED
    BY <1>5, <2>4, <2>5, <2>7, <2>8, <2>9, LoopStep DEF StopBeforeRoot, HasPart
<1>6. CASE LimitReached(g)
  <2> DEFINE w == [workers[g] EXCEPT !.truncated = TRUE, !.at = "publish"]
  <2>4. w \in Workers /\ w.at = "publish"
    BY <1>1 DEF Workers, RunningStates
  <2>5. w.stop = workers[g].stop
    BY <1>1 DEF Workers
  <2>6. w.cancelled = workers[g].cancelled
    BY <1>1 DEF Workers
  <2>7. w.cancelled => w.stop
    BY <1>2, <2>5, <2>6
  <2>9. w.job = workers[g].job /\ (Counted(workers[g]) => Counted(w))
    BY <1>1 DEF Workers, Counted
  <2>8. WorkerMoves(g, w)
    BY <1>6 DEF LimitReached
  <2> HIDE DEF w
  <2> QED
    BY <1>6, <2>4, <2>5, <2>7, <2>8, <2>9, LoopStep DEF LimitReached, HasPart
<1>7. CASE QueryRejected(g)
  <2> DEFINE w == [workers[g] EXCEPT !.error = TRUE, !.at = "publish"]
  <2>4. w \in Workers /\ w.at = "publish"
    BY <1>1 DEF Workers, RunningStates
  <2>5. w.stop = workers[g].stop
    BY <1>1 DEF Workers
  <2>6. w.cancelled = workers[g].cancelled
    BY <1>1 DEF Workers
  <2>7. w.cancelled => w.stop
    BY <1>2, <2>5, <2>6
  <2>9. w.job = workers[g].job /\ (Counted(workers[g]) => Counted(w))
    BY <1>1 DEF Workers, Counted
  <2>8. WorkerMoves(g, w)
    BY <1>7 DEF QueryRejected
  <2> HIDE DEF w
  <2> QED
    BY <1>7, <2>4, <2>5, <2>7, <2>8, <2>9, LoopStep DEF QueryRejected, HasPart
<1>8. CASE PartSearched(g)
  <2> DEFINE cut == \/ workers[g].truncated
                    \/ /\ ~Documents(g)
                       /\ Part(g).cut \/ Part(g).hits >= Room(g)
             w == [workers[g] EXCEPT !.found = @ + Least(Part(g).hits, Room(g)),
                                     !.next = @ + 1, !.truncated = cut]
  <2>1. WorkerMoves(g, w)
    BY <1>8 DEF PartSearched
  <2>2. workers[g].found + Least(Part(g).hits, Room(g)) \in 0 .. Limit
    BY <1>1, <1>3, <1>4, <1>8 DEF PartSearched, Workers, Room, Least
  <2>3. cut \in BOOLEAN
    BY Zenon
  <2>1a. /\ w.job = workers[g].job /\ w.next = workers[g].next + 1
         /\ w.cancelled = workers[g].cancelled /\ w.error = workers[g].error
         /\ w.at = workers[g].at /\ w.truncated = cut
         /\ w.found = workers[g].found + Least(Part(g).hits, Room(g))
    BY <1>1 DEF Workers
  <2>3b. ASSUME ~w.truncated, ~w.job.documents, Counted(workers[g]),
                ~w.cancelled, ~w.error
         PROVE  /\ w.next <= Len(w.job.parts) + 1
                /\ w.found = HitsUpTo(w.job.parts)[w.next - 1]
                /\ \A i \in 1 .. w.next - 1 : ~w.job.parts[i].cut
    <3> DEFINE parts == workers[g].job.parts
               n == workers[g].next
    <3>1. ~Part(g).cut /\ ~(Part(g).hits >= Room(g)) /\ ~workers[g].truncated
      BY <2>1a, <2>3b DEF Documents
    <3>2. n \in 1 .. Len(parts) /\ Part(g) = parts[n]
      BY <1>8, <1>w DEF PartSearched, HasPart, Part
    <3>3. /\ workers[g].found = HitsUpTo(parts)[n - 1]
          /\ \A i \in 1 .. n - 1 : ~parts[i].cut
      BY <2>1a, <2>3b, <3>1 DEF Counted
    <3>4. HitsUpTo(parts)[n] = HitsUpTo(parts)[n - 1] + parts[n].hits
      BY <1>w, <3>2, HitsUpToSums
    <3>5. w.found = workers[g].found + Part(g).hits
      BY <1>1, <1>3, <1>4, <1>8, <2>1a, <3>1 DEF PartSearched, Workers, Room, Least
    <3> QED
      BY <1>w, <2>1a, <3>1, <3>2, <3>3, <3>4, <3>5
  <2> HIDE DEF cut
  <2>3a. workers[g].next + 1 \in Nat \ {0}
    BY <1>1 DEF Workers
  <2>4. w \in Workers
    BY <1>1, <2>2, <2>3, <2>3a DEF Workers, RunningStates
  <2>4a. w.at = workers[g].at
    BY <1>1 DEF Workers
  <2>5. w.stop = workers[g].stop
    BY <1>1 DEF Workers
  <2>6. w.cancelled = workers[g].cancelled
    BY <1>1 DEF Workers
  <2>7. w.cancelled => w.stop
    BY <1>2, <2>5, <2>6
  <2>9. w.job = workers[g].job /\ (Counted(workers[g]) => Counted(w))
    BY <1>8, <1>w, <2>1a, <2>3b DEF Counted, PartSearched, HasPart
  <2>8. WorkerMoves(g, w)
    BY <2>1
  <2> HIDE DEF w
  <2> QED
    BY <1>8, <2>4, <2>4a, <2>5, <2>7, <2>8, <2>9, LoopStep DEF PartSearched, HasPart
<1>9. CASE RootInterrupted(g)
  <2>1. PICK n \in 0 .. Least(Part(g).hits, Room(g) - 1) :
          WorkerMoves(g, [workers[g] EXCEPT !.found = @ + n, !.next = @ + 1,
                                            !.cancelled = TRUE])
    BY <1>9 DEF RootInterrupted
  <2> DEFINE w == [workers[g] EXCEPT !.found = @ + n, !.next = @ + 1, !.cancelled = TRUE]
  <2>2. workers[g].found + n \in 0 .. Limit
    BY <1>1, <1>3, <1>4, <1>9 DEF RootInterrupted, Workers, Room, Least
  <2>3a. workers[g].next + 1 \in Nat \ {0}
    BY <1>1 DEF Workers
  <2>4. w \in Workers
    BY <1>1, <2>2, <2>3a DEF Workers, RunningStates
  <2>4a. w.at = workers[g].at
    BY <1>1 DEF Workers
  <2>5. w.stop = workers[g].stop
    BY <1>1 DEF Workers
  <2>7. w.stop
    BY <1>9, <2>5 DEF RootInterrupted
  <2>9. w.job = workers[g].job /\ (Counted(workers[g]) => Counted(w))
    BY <1>1 DEF Workers, Counted
  <2>8. WorkerMoves(g, w)
    BY <2>1
  <2> HIDE DEF w
  <2> QED
    BY <1>9, <2>4, <2>4a, <2>5, <2>7, <2>8, <2>9, LoopStep DEF RootInterrupted, HasPart
<1>10. CASE DocumentInterrupted(g)
  <2>1. PICK n \in 0 .. Least(Part(g).hits, Room(g)) :
          WorkerMoves(g, [workers[g] EXCEPT !.found = @ + n, !.next = @ + 1,
                                            !.cancelled = TRUE, !.at = "publish"])
    BY <1>10 DEF DocumentInterrupted
  <2> DEFINE w == [workers[g] EXCEPT !.found = @ + n, !.next = @ + 1,
                                     !.cancelled = TRUE, !.at = "publish"]
  <2>2. workers[g].found + n \in 0 .. Limit
    BY <1>1, <1>3, <1>4, <1>10 DEF DocumentInterrupted, Workers, Room, Least
  <2>3a. workers[g].next + 1 \in Nat \ {0}
    BY <1>1 DEF Workers
  <2>4. w \in Workers
    BY <1>1, <2>2, <2>3a DEF Workers, RunningStates
  <2>4a. w.at = "publish"
    BY <1>1 DEF Workers
  <2>5. w.stop = workers[g].stop
    BY <1>1 DEF Workers
  <2>7. w.stop
    BY <1>10, <2>5 DEF DocumentInterrupted
  <2>9. w.job = workers[g].job /\ (Counted(workers[g]) => Counted(w))
    BY <1>1 DEF Workers, Counted
  <2>8. WorkerMoves(g, w)
    BY <2>1
  <2> HIDE DEF w
  <2> QED
    BY <1>10, <2>4, <2>4a, <2>5, <2>7, <2>8, <2>9, LoopStep DEF DocumentInterrupted, HasPart
<1>11. CASE SearchEnd(g)
  <2> DEFINE w == [workers[g] EXCEPT !.at = "publish"]
  <2>4. w \in Workers /\ w.at = "publish"
    BY <1>1 DEF Workers, RunningStates
  <2>5. w.stop = workers[g].stop
    BY <1>1 DEF Workers
  <2>6. w.cancelled = workers[g].cancelled
    BY <1>1 DEF Workers
  <2>7. w.cancelled => w.stop
    BY <1>2, <2>5, <2>6
  <2>9. w.job = workers[g].job /\ (Counted(workers[g]) => Counted(w))
    BY <1>1, <1>11, <1>w DEF Workers, Counted, SearchEnd
  <2>8. WorkerMoves(g, w)
    BY <1>11 DEF SearchEnd
  <2> HIDE DEF w
  <2> QED
    BY <1>11, <2>4, <2>5, <2>7, <2>8, <2>9, LoopStep DEF SearchEnd, HasPart
<1> QED
  BY <1>5, <1>6, <1>7, <1>8, <1>9, <1>10, <1>11 DEF SearchStep

(* Publish and the message (the tail of both worker lambdas).              *)
LEMMA PublishingStep ==
  ASSUME IInv, NEW g \in Generations, PublishResult(g) \/ PostMessage(g)
  PROVE  IInv'
<1> USE DEF IInv
<1>0. workers \in [Generations -> Workers] /\ workers[g] \in Workers
  BY DEF TypeOK
<1>1. CASE PublishResult(g)
  <2> USE <1>1 DEF PublishResult
  <2>1. ResultOf(g) \in Results
    BY <1>0 DEF ResultOf, Results, Workers
  <2>2. TypeOK'
    BY <1>0, <2>1 DEF TypeOK, Publish, Workers, RunningStates, Accepts
  <2>3. cell'.generation = cell.generation
    BY DEF TypeOK, Publish
  <2>4. GenerationInv' /\ NoPartialResultListed'
    BY <2>3 DEF GenerationInv, NoPartialResultListed
  <2>5. WorkersInv'
    BY <1>0, <2>3 DEF WorkersInv, Workers
  <2>6. ClosedIsQuiet'
    BY <1>0 DEF ClosedIsQuiet, Workers
  <2>7. PendingInv'
    <3>1. CASE Accepts(cell, ResultOf(g).generation)
      <4>1. cell'.pending = ResultOf(g) /\ g = cell.generation
        BY <3>1 DEF Publish, Accepts, ResultOf, TypeOK
      <4>2. workers[g].cancelled => ui \in Stopping
        BY <4>1 DEF WorkersInv
      <4> QED
        BY <2>3, <4>1, <4>2 DEF PendingInv, PendingIsCurrent, ResultOf
    <3>2. CASE ~Accepts(cell, ResultOf(g).generation)
      BY <3>2 DEF PendingInv, PendingIsCurrent, HasResult, Publish
    <3> QED
      BY <3>1, <3>2
  <2> QED
    BY <2>2, <2>4, <2>5, <2>6, <2>7
<1>2. CASE PostMessage(g)
  <2> USE <1>2 DEF PostMessage
  <2>1. TypeOK'
    BY <1>0 DEF TypeOK, Workers
  <2>2. GenerationInv' /\ NoPartialResultListed' /\ PendingInv'
    BY DEF GenerationInv, NoPartialResultListed, PendingInv, PendingIsCurrent, HasResult
  <2>3. WorkersInv' /\ ClosedIsQuiet'
    BY <1>0 DEF WorkersInv, ClosedIsQuiet, Workers
  <2> QED
    BY <2>1, <2>2, <2>3
<1> QED
  BY <1>1, <1>2

(* Stopping every worker, when the UI thread is on its way to a new        *)
(* generation or to the end.                                               *)
LEMMA StopStep ==
  ASSUME IInv, StopAll, UNCHANGED <<cell, posted, shown>>,
         cancelEnabled' \in BOOLEAN, job' \in Jobs \cup {NoJob},
         ui' \in {"replace", "cancel", "closing"}, ui # "closed", GenerationInv'
  PROVE  IInv'
<1> USE DEF IInv
<1>0. workers \in [Generations -> Workers]
  BY DEF TypeOK
<1>1. workers' \in [Generations -> Workers]
  BY <1>0 DEF StopAll, Workers
<1>2. TypeOK'
  BY <1>1 DEF TypeOK
<1>3. WorkersInv'
  BY <1>0 DEF WorkersInv, StopAll, Workers, Stopping
<1>4. PendingInv' /\ NoPartialResultListed' /\ ClosedIsQuiet'
  BY DEF PendingInv, PendingIsCurrent, HasResult, NoPartialResultListed, ClosedIsQuiet,
     Stopping
<1> QED
  BY <1>2, <1>3, <1>4

(* The UI thread's steps.                                                  *)
LEMMA UiStepIInv == ASSUME IInv, UiStep PROVE IInv'
<1> USE DEF IInv
<1>0. /\ workers \in [Generations -> Workers]
      /\ cell \in [generation : 0 .. MaxGenerations, pending : Results \cup {Nothing}]
  BY DEF TypeOK
<1>m. MaxGenerations \in Nat
  BY BoundsAssumption
<1>1. CASE OpenPrompt \/ DismissPrompt
  <2> USE <1>1 DEF OpenPrompt, DismissPrompt
  <2>1. TypeOK' /\ GenerationInv'
    BY DEF TypeOK, GenerationInv
  <2>2. WorkersInv' /\ PendingInv' /\ NoPartialResultListed' /\ ClosedIsQuiet'
    BY DEF WorkersInv, PendingInv, PendingIsCurrent, HasResult,
       NoPartialResultListed, ClosedIsQuiet, Stopping
  <2> QED
    BY <2>1, <2>2
<1>2. CASE AcceptPrompt
  BY <1>2, StopStep DEF AcceptPrompt, GenerationInv, TypeOK
<1>3. CASE CancelCommand
  BY <1>3, <1>0, <1>m, StopStep DEF CancelCommand, GenerationInv, TypeOK
<1>4. CASE CancelBegin
  <2> USE <1>4 DEF CancelBegin, Begin
  <2>1. cell' \in [generation : 0 .. MaxGenerations, pending : {Nothing}]
    BY <1>0, <1>m DEF GenerationInv
  <2>2. TypeOK'
    BY <2>1 DEF TypeOK
  <2>3. GenerationInv'
    BY <1>0, <1>m DEF GenerationInv
  <2>4. WorkersInv'
    <3>1. ASSUME NEW g \in Generations, workers[g].stop PROVE g # cell'.generation
      BY <1>0, <3>1 DEF WorkersInv, Generations
    <3> QED
      BY <1>0, <3>1 DEF WorkersInv, Generations
  <2>5. PendingInv'
    BY DEF PendingInv, PendingIsCurrent, HasResult
  <2>6. NoPartialResultListed' /\ ClosedIsQuiet'
    BY DEF NoPartialResultListed, ClosedIsQuiet
  <2> QED
    BY <2>2, <2>3, <2>4, <2>5, <2>6
<1>5. CASE Launch
  <2> USE <1>5 DEF Launch, Begin
  <2>1. /\ cell' \in [generation : 0 .. MaxGenerations, pending : {Nothing}]
        /\ cell'.generation = cell.generation + 1
    BY <1>0, <1>m DEF GenerationInv
  <2>2. [NoWorker EXCEPT !.at = "search", !.job = job] \in Workers
    BY NoWorkerType DEF TypeOK, Workers, RunningStates
  <2>3. workers' \in [Generations -> Workers]
    BY <1>0, <2>2 DEF Workers
  <2>4. TypeOK'
    BY <2>1, <2>3 DEF TypeOK
  <2>5. /\ [NoWorker EXCEPT !.at = "search", !.job = job].stop = FALSE
        /\ [NoWorker EXCEPT !.at = "search", !.job = job].cancelled = FALSE
    BY DEF NoWorker
  <2>6. WorkersInv'
    BY <1>0, <2>1, <2>5 DEF WorkersInv, Generations, Workers
  <2>7. GenerationInv' /\ PendingInv' /\ NoPartialResultListed' /\ ClosedIsQuiet'
    BY DEF GenerationInv, PendingInv, PendingIsCurrent, HasResult,
       NoPartialResultListed, ClosedIsQuiet
  <2> QED
    BY <2>4, <2>6, <2>7
<1>6. CASE CompleteSearch
  <2> USE <1>6 DEF CompleteSearch
  <2>1. CASE HasResult(cell)
    <3>1. /\ cell.pending \in Results /\ shown' = cell.pending
          /\ ~cell.pending.cancelled
      BY <1>0, <2>1 DEF HasResult, PendingInv, Stopping
    <3>2. cell' = [cell EXCEPT !.pending = Nothing]
      BY <2>1 DEF Taken
    <3>3. cancelEnabled' \in BOOLEAN
      BY <2>1, Zenon
    <3>3a. cell' \in [generation : 0 .. MaxGenerations, pending : Results \cup {Nothing}]
      BY <1>0, <3>2
    <3>3b. posted' \in Nat /\ shown' \in Results \cup {Nothing}
      BY <3>1 DEF TypeOK
    <3>3c. TypeOK'
      BY <3>3, <3>3a, <3>3b DEF TypeOK
    <3>4. GenerationInv' /\ WorkersInv'
      BY <1>0, <3>2 DEF GenerationInv, WorkersInv
    <3>5. PendingInv' /\ NoPartialResultListed' /\ ClosedIsQuiet'
      BY <1>0, <3>1, <3>2 DEF PendingInv, PendingIsCurrent, HasResult,
         NoPartialResultListed, ClosedIsQuiet
    <3> QED
      BY <3>3c, <3>4, <3>5
  <2>2. CASE ~HasResult(cell)
    <3>1. TypeOK'
      BY <2>2 DEF TypeOK
    <3>2. GenerationInv' /\ WorkersInv' /\ NoPartialResultListed' /\ ClosedIsQuiet'
      BY <2>2 DEF GenerationInv, WorkersInv, NoPartialResultListed, ClosedIsQuiet
    <3>3. PendingInv'
      BY <2>2 DEF PendingInv, PendingIsCurrent, HasResult
    <3> QED
      BY <3>1, <3>2, <3>3
  <2> QED
    BY <2>1, <2>2
<1>7. CASE Close
  BY <1>7, StopStep DEF Close, GenerationInv, TypeOK
<1>8. CASE JoinAll
  <2> USE <1>8 DEF JoinAll
  <2>1. workers' \in [Generations -> Workers]
    BY <1>0 DEF Workers
  <2>2. TypeOK'
    BY <2>1 DEF TypeOK
  <2>3. GenerationInv' /\ PendingInv' /\ NoPartialResultListed'
    BY DEF GenerationInv, PendingInv, PendingIsCurrent, HasResult,
       NoPartialResultListed, Stopping
  <2>4. WorkersInv' /\ ClosedIsQuiet'
    BY <1>0 DEF WorkersInv, ClosedIsQuiet, Workers, Stopping
  <2> QED
    BY <2>2, <2>3, <2>4
<1> QED
  BY <1>1, <1>2, <1>3, <1>4, <1>5, <1>6, <1>7, <1>8 DEF UiStep, Prompt

(* Every step keeps the invariant.                                         *)
LEMMA StepIInv == IInv /\ [Next]_vars => IInv'
<1> SUFFICES ASSUME IInv, [Next]_vars PROVE IInv'
  OBVIOUS
<1>1. CASE UiStep
  BY <1>1, UiStepIInv
<1>2. ASSUME NEW g \in Generations, WorkerStep(g) PROVE IInv'
  BY <1>2, SearchingStep, PublishingStep DEF WorkerStep
<1>3. CASE UNCHANGED vars
  BY <1>3 DEF vars, IInv, TypeOK, GenerationInv, WorkersInv, PendingInv,
     PendingIsCurrent, HasResult, NoPartialResultListed, ClosedIsQuiet
<1> QED
  BY <1>1, <1>2, <1>3 DEF Next

LEMMA Invariance == Spec => []IInv
  BY InitIInv, StepIInv, PTL DEF Spec

-----------------------------------------------------------------------------
(* Every variable keeps its type: no search exceeds the limit of matches,  *)
(* whatever is stopped where (StartFolderSearch).                          *)
THEOREM TypeCorrect == Spec => []TypeOK
<1>1. IInv => TypeOK
  BY DEF IInv
<1> QED
  BY Invariance, <1>1, PTL

(* No overtaken worker leaves a result behind (LatestOperation::Publish).  *)
THEOREM CurrentPending == Spec => []PendingIsCurrent
<1>1. IInv => PendingIsCurrent
  BY DEF IInv, PendingInv
<1> QED
  BY Invariance, <1>1, PTL

(* A result is listed only while it is that of the newest generation       *)
(* (CompleteSearch).                                                       *)
THEOREM ListedWhenCurrent == Spec => ListsCurrentResult
<1>1. IInv /\ [Next]_vars => [shown' # shown => shown'.generation = cell.generation]_vars
  <2> SUFFICES ASSUME IInv, Next, shown' # shown
               PROVE  shown'.generation = cell.generation
    OBVIOUS
  <2>1. CompleteSearch
    BY DEF Next, UiStep, Prompt, OpenPrompt, DismissPrompt, AcceptPrompt, CancelCommand,
       CancelBegin, Launch, Close, JoinAll, WorkerStep, SearchStep, StopBeforeRoot,
       LimitReached, QueryRejected, PartSearched, RootInterrupted, DocumentInterrupted,
       SearchEnd, WorkerMoves, PublishResult, PostMessage
  <2>2. HasResult(cell) /\ shown' = cell.pending
    BY <2>1 DEF CompleteSearch
  <2> QED
    BY <2>2 DEF IInv, PendingInv, PendingIsCurrent
<1> QED
  BY Invariance, <1>1, PTL DEF Spec, ListsCurrentResult

(* The matches of a search that was told to stop are never listed          *)
(* (CancelFolderSearch).                                                   *)
THEOREM PartialNeverListed == Spec => []NoPartialResultListed
<1>1. IInv => NoPartialResultListed
  BY DEF IInv
<1> QED
  BY Invariance, <1>1, PTL

(* No worker outlives the window (StopWorkers).                            *)
THEOREM ShutdownQuiet == Spec => []ClosedIsQuiet
<1>1. IInv => ClosedIsQuiet
  BY DEF IInv
<1> QED
  BY Invariance, <1>1, PTL

-----------------------------------------------------------------------------
(* The Cancel command.  Its invariant holds in every state of the UI       *)
(* thread: while it is on its way to a new generation the workers go on.   *)

(* What the Cancel command is on for, wherever the UI thread is.           *)
CancelInv ==
  cancelEnabled =>
    /\ cell.generation > 0
    /\ \/ workers[cell.generation].at \in {"search", "publish"}
       \/ HasResult(cell) /\ (posted > 0 \/ workers[cell.generation].at = "post")

LEMMA CancelStep == ASSUME IInv, CancelInv, Next PROVE CancelInv'
<1>1. /\ workers \in [Generations -> Workers] /\ posted \in Nat
      /\ cell \in [generation : 0 .. MaxGenerations, pending : Results \cup {Nothing}]
      /\ MaxGenerations \in Nat
  BY BoundsAssumption DEF IInv, TypeOK
<1>2. cell.generation > 0 => cell.generation \in Generations
  BY <1>1 DEF Generations
<1>3. CASE Prompt \/ CancelCommand \/ Close
  <2>1. UNCHANGED <<cell, posted, cancelEnabled>>
    BY <1>3 DEF Prompt, OpenPrompt, DismissPrompt, AcceptPrompt, CancelCommand, Close
  <2>2. \A g \in Generations : workers'[g].at = workers[g].at
    BY <1>1, <1>3 DEF Prompt, OpenPrompt, DismissPrompt, AcceptPrompt, CancelCommand, Close,
       StopAll, Workers
  <2> QED
    BY <1>2, <2>1, <2>2 DEF CancelInv, HasResult
<1>4. CASE CancelBegin
  BY <1>4 DEF CancelBegin, CancelInv
<1>5. CASE Launch
  <2>1. cell'.generation \in Generations
    BY <1>1, <1>5 DEF Launch, Begin, IInv, GenerationInv, Generations
  <2>2. workers'[cell'.generation].at = "search"
    BY <1>5, <2>1 DEF Launch, NoWorker
  <2> QED
    BY <2>1, <2>2 DEF CancelInv, Generations
<1>6. CASE CompleteSearch
  BY <1>6 DEF CompleteSearch, CancelInv, HasResult
<1>7. CASE JoinAll
  <2>1. \A g \in Generations :
          workers'[g].at = IF workers[g].at = "done" THEN "joined" ELSE workers[g].at
    BY <1>1, <1>7 DEF JoinAll, Workers
  <2> QED
    BY <1>2, <1>7, <2>1 DEF JoinAll, CancelInv, HasResult
<1>8. ASSUME NEW g \in Generations, SearchStep(g) PROVE CancelInv'
  <2>1. /\ UNCHANGED <<cell, posted, cancelEnabled>>
        /\ workers[g].at = "search" /\ workers'[g].at \in {"search", "publish"}
        /\ \A h \in Generations : h # g => workers'[h] = workers[h]
    BY <1>8, SearchingStep DEF LoopMoves
  <2> QED
    BY <1>2, <2>1 DEF CancelInv, HasResult
<1>9. ASSUME NEW g \in Generations, PublishResult(g) PROVE CancelInv'
  <2>1. cell'.generation = cell.generation /\ UNCHANGED <<posted, cancelEnabled>>
    BY <1>1, <1>9 DEF PublishResult, Publish
  <2>2. CASE g = cell.generation
    <3>1. cell'.pending = ResultOf(g) /\ workers'[g].at = "post"
      BY <1>1, <1>9, <2>2 DEF PublishResult, Publish, Accepts, ResultOf, Workers
    <3>2. ResultOf(g).generation = g /\ Nothing.generation = 0
      BY DEF ResultOf, Nothing
    <3>3. HasResult(cell')
      BY <3>1, <3>2 DEF HasResult, Generations
    <3> QED
      BY <2>1, <2>2, <3>1, <3>3 DEF CancelInv, HasResult
  <2>3. CASE g # cell.generation
    <3>1. cell' = cell
      BY <1>9, <2>3 DEF PublishResult, Publish, Accepts, ResultOf
    <3>2. \A h \in Generations : h # g => workers'[h] = workers[h]
      BY <1>1, <1>9 DEF PublishResult
    <3> QED
      BY <1>2, <2>1, <2>3, <3>1, <3>2 DEF CancelInv, HasResult
  <2> QED
    BY <2>2, <2>3
<1>10. ASSUME NEW g \in Generations, PostMessage(g) PROVE CancelInv'
  <2>1. /\ UNCHANGED <<cell, cancelEnabled>> /\ posted' > 0 /\ workers[g].at = "post"
        /\ \A h \in Generations : h # g => workers'[h] = workers[h]
    BY <1>1, <1>10 DEF PostMessage
  <2> QED
    BY <1>2, <2>1 DEF CancelInv, HasResult
<1> QED
  BY <1>3, <1>4, <1>5, <1>6, <1>7, <1>8, <1>9, <1>10 DEF Next, UiStep, WorkerStep

(* The Cancel command is on only while a worker of the current search runs *)
(* or its result is on the way to the UI thread (CancelFolderSearch,       *)
(* CompleteSearch).                                                        *)
THEOREM CancelHasWork == Spec => []CancelMeansRunning
<1>1. Init => CancelInv
  BY DEF Init, CancelInv
<1>2. IInv /\ CancelInv /\ [Next]_vars => CancelInv'
  <2>1. IInv /\ CancelInv /\ Next => CancelInv'
    BY CancelStep
  <2>2. CancelInv /\ UNCHANGED vars => CancelInv'
    BY DEF CancelInv, HasResult, vars
  <2> QED
    BY <2>1, <2>2
<1>3. CancelInv => CancelMeansRunning
  BY DEF CancelInv, CancelMeansRunning
<1> QED
  BY Invariance, <1>1, <1>2, <1>3, PTL DEF Spec

-----------------------------------------------------------------------------
(* What is listed as complete.                                             *)

FinishedStates == {"post", "done", "joined"}

(* A result tells what its worker found, and the worker is past its loop.  *)
IsResult(ws, r) ==
  LET w == ws[r.generation]
  IN /\ r.generation \in Generations /\ w.at \in FinishedStates
     /\ r = [generation |-> r.generation, found |-> w.found, truncated |-> w.truncated,
             cancelled |-> w.cancelled, error |-> w.error]

CompleteInv == /\ \A g \in Generations : Counted(workers[g])
               /\ HasResult(cell) => IsResult(workers, cell.pending)
               /\ shown # Nothing => IsResult(workers, shown)

(* Of a worker nothing changes once it has finished, except where it is.   *)
Settled == \A g \in Generations :
             workers[g].at \in FinishedStates =>
               /\ workers'[g].at \in FinishedStates
               /\ workers'[g].found = workers[g].found
               /\ workers'[g].truncated = workers[g].truncated
               /\ workers'[g].cancelled = workers[g].cancelled
               /\ workers'[g].error = workers[g].error

LEMMA CountedFromStart ==
  ASSUME NEW w, w.job.parts \in Parts, w.next = 1, w.found = 0,
         w.at = "search" \/ w.job.parts = <<>>
  PROVE  Counted(w)
<1>1. HitsUpTo(w.job.parts)[0] = 0 /\ Len(w.job.parts) \in Nat
  BY HitsUpToSums DEF Parts
<1> QED
  BY <1>1 DEF Counted

LEMMA CountedAlike ==
  ASSUME NEW w, NEW v, Counted(w), v.job = w.job, v.next = w.next, v.found = w.found,
         v.truncated = w.truncated, v.cancelled = w.cancelled, v.error = w.error,
         v.at = "search" => w.at = "search", w.at = "search" => v.at = "search"
  PROVE  Counted(v)
BY DEF Counted

(* Every step lets a worker count on, and leaves a finished one alone.     *)
LEMMA CountingStep ==
  ASSUME IInv, \A g \in Generations : Counted(workers[g]), Next
  PROVE  Settled /\ \A g \in Generations : Counted(workers'[g])
<1>1. workers \in [Generations -> Workers]
  BY DEF IInv, TypeOK
<1>2. CASE OpenPrompt \/ DismissPrompt \/ CancelBegin \/ CompleteSearch
  BY <1>2 DEF OpenPrompt, DismissPrompt, CancelBegin, CompleteSearch, Settled
<1>3. CASE StopAll
  <2>1. ASSUME NEW g \in Generations
        PROVE  workers'[g] = workers[g] \/ workers'[g] = [workers[g] EXCEPT !.stop = TRUE]
    BY <1>1, <1>3 DEF StopAll
  <2>2. ASSUME NEW g \in Generations
        PROVE  /\ workers'[g].at = workers[g].at /\ workers'[g].job = workers[g].job
               /\ workers'[g].next = workers[g].next
               /\ workers'[g].found = workers[g].found
               /\ workers'[g].truncated = workers[g].truncated
               /\ workers'[g].cancelled = workers[g].cancelled
               /\ workers'[g].error = workers[g].error
    <3>1. workers[g] \in Workers
      BY <1>1
    <3>2. CASE workers'[g] = workers[g]
      BY <3>2, Zenon
    <3>3. CASE workers'[g] = [workers[g] EXCEPT !.stop = TRUE]
      BY <3>1, <3>3 DEF Workers
    <3> QED
      BY <2>1, <3>2, <3>3
  <2>3. \A g \in Generations : Counted(workers'[g])
    BY <2>2, CountedAlike
  <2>4. Settled
    BY <2>2 DEF Settled
  <2> QED
    BY <2>3, <2>4
<1>4. CASE JoinAll \/ Launch
  <2>1. ASSUME NEW g \in Generations,
               ~(Launch /\ g = cell'.generation)
        PROVE  \/ workers'[g] = workers[g]
               \/ workers[g].at = "done" /\ workers'[g] = [workers[g] EXCEPT !.at = "joined"]
    BY <1>1, <1>4, <2>1 DEF JoinAll, Launch
  <2>2. ASSUME NEW g \in Generations,
               ~(Launch /\ g = cell'.generation)
        PROVE  /\ \/ workers'[g].at = workers[g].at
                  \/ workers[g].at = "done" /\ workers'[g].at = "joined"
               /\ workers'[g].job = workers[g].job
               /\ workers'[g].next = workers[g].next
               /\ workers'[g].found = workers[g].found
               /\ workers'[g].truncated = workers[g].truncated
               /\ workers'[g].cancelled = workers[g].cancelled
               /\ workers'[g].error = workers[g].error
    BY <1>1, <2>1, <2>2, ZenonT(30) DEF Workers
  <2>3. ASSUME NEW g \in Generations, Launch, g = cell'.generation
        PROVE  workers[g].at = "none" /\ Counted(workers'[g])
    <3>1. g = cell.generation + 1
      BY <2>3 DEF Launch, Begin
    <3>2. workers[g].at = "none"
      BY <3>1 DEF IInv, WorkersInv, TypeOK
    <3>3. workers'[g] = [NoWorker EXCEPT !.at = "search", !.job = job]
      BY <2>3 DEF Launch
    <3>4. /\ workers'[g].at = "search" /\ workers'[g].job = job
          /\ workers'[g].next = 1 /\ workers'[g].found = 0
      BY <3>3 DEF NoWorker
    <3>5. job.parts \in Parts
      BY JobParts DEF IInv, TypeOK
    <3> QED
      BY <3>2, <3>4, <3>5, CountedFromStart
  <2>4. ASSUME NEW g \in Generations PROVE Counted(workers'[g])
    <3>1. CASE Launch /\ g = cell'.generation
      BY <2>3, <3>1
    <3>2. CASE ~(Launch /\ g = cell'.generation)
      BY <2>2, <3>2, CountedAlike
    <3> QED
      BY <3>1, <3>2
  <2>5. Settled
    BY <2>2, <2>3 DEF Settled, FinishedStates
  <2> QED
    BY <2>4, <2>5
<1>5. ASSUME NEW g \in Generations, SearchStep(g)
      PROVE  Settled /\ \A h \in Generations : Counted(workers'[h])
  <2>1. LoopMoves(g)
    BY <1>5, SearchingStep
  <2> QED
    BY <1>1, <2>1 DEF LoopMoves, Settled, ResultOf, FinishedStates
<1>6. ASSUME NEW g \in Generations, PublishResult(g) \/ PostMessage(g)
      PROVE  Settled /\ \A h \in Generations : Counted(workers'[h])
  <2>1. PICK a \in FinishedStates :
          workers' = [workers EXCEPT ![g].at = a] /\ workers[g].at \in {"publish", "post"}
    BY <1>6 DEF PublishResult, PostMessage, FinishedStates
  <2>2. ASSUME NEW h \in Generations
        PROVE  /\ workers'[h].at = IF h = g THEN a ELSE workers[h].at
               /\ workers'[h].job = workers[h].job
               /\ workers'[h].next = workers[h].next
               /\ workers'[h].found = workers[h].found
               /\ workers'[h].truncated = workers[h].truncated
               /\ workers'[h].cancelled = workers[h].cancelled
               /\ workers'[h].error = workers[h].error
    BY <1>1, <2>1 DEF Workers
  <2>3. ASSUME NEW h \in Generations PROVE Counted(workers'[h])
    <3>1. workers'[h].at = "search" <=> workers[h].at = "search"
      BY <2>1, <2>2 DEF FinishedStates
    <3> QED
      BY <2>2, <3>1, CountedAlike
  <2>4. Settled
    BY <2>1, <2>2 DEF Settled
  <2> QED
    BY <2>3, <2>4
<1> QED
  BY <1>2, <1>3, <1>4, <1>5, <1>6 DEF Next, UiStep, Prompt, AcceptPrompt, CancelCommand, Close,
     WorkerStep

LEMMA CompleteStep == ASSUME IInv, CompleteInv, Next PROVE CompleteInv'
<1>1. Settled /\ \A g \in Generations : Counted(workers'[g])
  BY CountingStep DEF CompleteInv
<1>2. ASSUME NEW r, IsResult(workers, r) PROVE IsResult(workers', r)
  BY <1>1, <1>2 DEF IsResult, Settled
<1>3. HasResult(cell') => IsResult(workers', cell'.pending)
  <2>1. CASE cell'.pending = cell.pending
    BY <1>2, <2>1 DEF CompleteInv, HasResult
  <2>2. CASE cell'.pending = Nothing
    BY <2>2 DEF HasResult
  <2>3. ASSUME NEW g \in Generations, PublishResult(g), cell'.pending # cell.pending
        PROVE  IsResult(workers', cell'.pending)
    <3>1. workers \in [Generations -> Workers]
          /\ cell \in [generation : 0 .. MaxGenerations, pending : Results \cup {Nothing}]
      BY DEF IInv, TypeOK
    <3>2. cell'.pending = ResultOf(g) /\ workers'[g].at \in FinishedStates
      BY <2>3, <3>1 DEF PublishResult, Publish, FinishedStates, Workers
    <3>3. /\ workers'[g].found = workers[g].found
          /\ workers'[g].truncated = workers[g].truncated
          /\ workers'[g].cancelled = workers[g].cancelled
          /\ workers'[g].error = workers[g].error
      BY <2>3, <3>1 DEF PublishResult, Workers
    <3> QED
      BY <3>2, <3>3 DEF IsResult, ResultOf
  <2>4. CASE UiStep
    <3>1. cell'.pending = cell.pending \/ cell'.pending = Nothing
      <4>1. CASE CancelBegin \/ Launch
        BY <4>1 DEF CancelBegin, Launch, Begin
      <4>2. CASE CompleteSearch
        BY <4>2 DEF CompleteSearch, Taken, IInv, TypeOK
      <4> QED
        BY <2>4, <4>1, <4>2 DEF UiStep, Prompt, OpenPrompt, DismissPrompt, AcceptPrompt,
           CancelCommand, Close, JoinAll
    <3> QED
      BY <2>1, <2>2, <3>1
  <2>5. ASSUME NEW g \in Generations, SearchStep(g) \/ PostMessage(g)
        PROVE  cell' = cell
    <3>1. SearchStep(g) => cell' = cell
      BY SearchingStep DEF LoopMoves
    <3> QED
      BY <2>5, <3>1 DEF PostMessage
  <2> QED
    BY <2>1, <2>3, <2>4, <2>5 DEF Next, WorkerStep
<1>4. shown' # Nothing => IsResult(workers', shown')
  <2>1. shown' = shown \/ CompleteSearch
    <3>1. \A g \in Generations : SearchStep(g) => shown' = shown
      BY SearchingStep DEF LoopMoves
    <3> QED
      BY <3>1 DEF Next, UiStep, Prompt, OpenPrompt, DismissPrompt, AcceptPrompt,
         CancelCommand, CancelBegin, Launch, Close, JoinAll, WorkerStep, PublishResult,
         PostMessage
  <2>2. shown' # shown => HasResult(cell) /\ shown' = cell.pending
    BY <2>1 DEF CompleteSearch
  <2>3. shown' # Nothing => IsResult(workers, shown')
    BY <2>2 DEF CompleteInv
  <2> QED
    BY <1>2, <2>3
<1> QED
  BY <1>1, <1>3, <1>4 DEF CompleteInv

(* A folder search listed without "(truncated)", "cancelled" or an error   *)
(* lists every match of every root (StartFolderSearch).                    *)
THEOREM CompleteIsComplete == Spec => []CompleteMeansComplete
<1>1. Init => CompleteInv
  <2> SUFFICES ASSUME Init PROVE CompleteInv
    OBVIOUS
  <2>1. ASSUME NEW g \in Generations PROVE Counted(workers[g])
    <3>1. workers[g] = NoWorker
      BY DEF Init
    <3>2. NoJob.parts \in Parts /\ NoJob.parts = <<>>
      BY JobParts DEF NoJob
    <3>3. NoWorker.job = NoJob /\ NoWorker.next = 1 /\ NoWorker.found = 0
      BY DEF NoWorker
    <3> QED
      BY <3>1, <3>2, <3>3, CountedFromStart
  <2> QED
    BY <2>1 DEF Init, Empty, CompleteInv, HasResult
<1>2. IInv /\ CompleteInv /\ [Next]_vars => CompleteInv'
  <2>1. IInv /\ CompleteInv /\ Next => CompleteInv'
    BY CompleteStep
  <2>2. CompleteInv /\ UNCHANGED vars => CompleteInv'
    BY DEF CompleteInv, HasResult, IsResult, vars
  <2> QED
    BY <2>1, <2>2
<1>3. IInv /\ CompleteInv => CompleteMeansComplete
  <2> SUFFICES ASSUME IInv, CompleteInv, shown # Nothing, NEW g, g = shown.generation,
                      ~workers[g].job.documents, ~shown.truncated, ~shown.cancelled,
                      ~shown.error
               PROVE  /\ shown.found = Total(workers[g].job)
                      /\ \A i \in DOMAIN workers[g].job.parts : ~workers[g].job.parts[i].cut
    BY DEF CompleteMeansComplete
  <2>1. g \in Generations /\ workers[g].at # "search" /\ shown = ResultOf(g)
    BY DEF CompleteInv, IsResult, FinishedStates, ResultOf
  <2>2. /\ shown.found = workers[g].found /\ shown.truncated = workers[g].truncated
        /\ shown.cancelled = workers[g].cancelled /\ shown.error = workers[g].error
    BY <2>1 DEF ResultOf
  <2>3. Counted(workers[g])
    BY <2>1 DEF CompleteInv
  <2>4. workers[g].job.parts \in Parts /\ workers[g].next \in Nat
    BY <2>1, JobParts DEF IInv, TypeOK, Workers
  <2>5. /\ workers[g].next - 1 = Len(workers[g].job.parts)
        /\ Len(workers[g].job.parts) \in Nat
    <3>1. Len(workers[g].job.parts) \in Nat
      BY <2>4 DEF Parts
    <3>2. ~workers[g].truncated /\ ~workers[g].cancelled /\ ~workers[g].error
      BY <2>2, Zenon
    <3>3. workers[g].next = Len(workers[g].job.parts) + 1
      BY <2>1, <2>3, <3>2 DEF Counted
    <3> QED
      BY <2>4, <3>1, <3>3
  <2>6. DOMAIN workers[g].job.parts = 1 .. Len(workers[g].job.parts)
    BY <2>4 DEF Parts
  <2>7. ~workers[g].truncated /\ ~workers[g].cancelled /\ ~workers[g].error
    BY <2>2, Zenon
  <2> QED
    BY <2>2, <2>3, <2>5, <2>6, <2>7 DEF Counted, Total
<1> QED
  BY Invariance, <1>1, <1>2, <1>3, PTL DEF Spec
=============================================================================
