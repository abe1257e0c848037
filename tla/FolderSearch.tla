----------------------------- MODULE FolderSearch -----------------------------
(***************************************************************************)
(* Find in Files (main.cpp): the prompt, the worker thread of each search, *)
(* the hand-off of its result through LatestOperation, the window messages *)
(* that announce it, cancellation, and the shutdown of the workers.        *)
(*                                                                         *)
(* A search is named by the generation it was started with.  Its job is    *)
(* the sequence of parts it looks at - the workspace roots, or the open    *)
(* named documents - and a part is the number of matches it holds.         *)
(***************************************************************************)
EXTENDS LatestOperation, Sequences

CONSTANTS MaxGenerations,  \* bound: calls to LatestOperation::Begin
          Limit,           \* the 5000 matches a search returns at most
          Jobs             \* the searches the user may ask for

(* What a search looks through: open documents or workspace roots.  "bad"  *)
(* is a query std::wregex rejects; a root is "cut" when its scan stopped   *)
(* at the limit of entries.                                                *)
JobsAssumption ==
  \A search \in Jobs : /\ search.documents \in BOOLEAN /\ search.bad \in BOOLEAN
                       /\ search.parts \in Seq([hits : Nat, cut : BOOLEAN])

ASSUME BoundsAssumption ==
  MaxGenerations \in Nat /\ Limit \in Nat \ {0} /\ JobsAssumption

VARIABLES
  cell,           \* search_operations_
  workers,        \* search_workers_ and their threads, by generation
  posted,         \* kSearchCompleteMessage messages in the window's queue
  ui,             \* where the UI thread is
  job,            \* the search that was asked for, while it is being started
  cancelEnabled,  \* the Cancel Folder Search command
  shown           \* search_results_, as listed in the results pane

vars == <<cell, workers, posted, ui, job, cancelEnabled, shown>>

NoJob == [documents |-> FALSE, bad |-> FALSE, parts |-> <<>>]

Generations == 1 .. MaxGenerations

(* One worker: at = "none" before it is started, "search" in its loop,     *)
(* "publish" and "post" after it, "done" once it has stored its done flag, *)
(* "joined" when the thread object is gone.                                *)
NoWorker == [at |-> "none", stop |-> FALSE, job |-> NoJob, next |-> 1,
             found |-> 0, truncated |-> FALSE, cancelled |-> FALSE,
             error |-> FALSE]

Init == /\ cell = Empty
        /\ workers = [g \in Generations |-> NoWorker]
        /\ posted = 0
        /\ ui = "idle"
        /\ job = NoJob
        /\ cancelEnabled = FALSE
        /\ shown = Nothing

RunningStates == {"search", "publish", "post"}

StopAll == workers' = [g \in Generations |->
                         IF workers[g].at \in {"none", "joined"} THEN workers[g]
                         ELSE [workers[g] EXCEPT !.stop = TRUE]]

-----------------------------------------------------------------------------
(* The UI thread.                                                          *)

(* The dialog runs a message loop of its own: messages are still handled.  *)
OpenPrompt == /\ ui = "idle"
              /\ cell.generation + 2 <= MaxGenerations
              /\ ui' = "prompt"
              /\ UNCHANGED <<cell, workers, posted, job, cancelEnabled, shown>>

DismissPrompt == /\ ui = "prompt"
                 /\ ui' = "idle"
                 /\ UNCHANGED <<cell, workers, posted, job, cancelEnabled, shown>>

(* StartFolderSearch after the prompt: CancelFolderSearch stops every      *)
(* worker, then begins a generation; the search begins another.            *)
AcceptPrompt == /\ ui = "prompt"
                /\ job' \in Jobs
                /\ StopAll
                /\ ui' = "replace"
                /\ UNCHANGED <<cell, posted, cancelEnabled, shown>>

CancelCommand == /\ ui = "idle" /\ cancelEnabled
                 /\ cell.generation < MaxGenerations
                 /\ StopAll
                 /\ ui' = "cancel"
                 /\ UNCHANGED <<cell, posted, job, cancelEnabled, shown>>

(* Mutant: the stop requests are not followed by a new generation.         *)
MutantCancelKeepsGeneration ==
  /\ ui \in {"replace", "cancel"}
  /\ cancelEnabled' = FALSE
  /\ ui' = IF ui = "replace" THEN "launch" ELSE "idle"
  /\ UNCHANGED <<cell, workers, posted, job, shown>>

CancelBegin == /\ ui \in {"replace", "cancel"}
               /\ cell' = Begin(cell)
               /\ cancelEnabled' = FALSE
               /\ ui' = IF ui = "replace" THEN "launch" ELSE "idle"
               /\ UNCHANGED <<workers, posted, job, shown>>

(* ReapCompletedWorkers joins the workers that are done; the new worker    *)
(* takes the new generation with it.                                       *)
Launch ==
  /\ ui = "launch"
  /\ cell' = Begin(cell)
  /\ workers' = [g \in Generations |->
                   IF g = cell'.generation
                   THEN [NoWorker EXCEPT !.at = "search", !.job = job]
                   ELSE IF workers[g].at = "done"
                   THEN [workers[g] EXCEPT !.at = "joined"] ELSE workers[g]]
  /\ cancelEnabled' = TRUE
  /\ job' = NoJob
  /\ ui' = "idle"
  /\ UNCHANGED <<posted, shown>>

(* Mutant: the Cancel command stays on after the result is listed.         *)
MutantCompleteLeavesCancel ==
  /\ ui \in {"idle", "prompt"} /\ posted > 0
  /\ posted' = posted - 1
  /\ IF HasResult(cell)
     THEN shown' = cell.pending /\ cell' = Taken(cell)
     ELSE UNCHANGED <<shown, cell>>
  /\ UNCHANGED <<workers, ui, job, cancelEnabled>>

(* CompleteSearch, for every message: the message's generation is unused.  *)
CompleteSearch ==
  /\ ui \in {"idle", "prompt"} /\ posted > 0
  /\ posted' = posted - 1
  /\ IF HasResult(cell)
     THEN /\ shown' = cell.pending
          /\ cell' = Taken(cell)
          /\ cancelEnabled' = FALSE
     ELSE UNCHANGED <<shown, cell, cancelEnabled>>
  /\ UNCHANGED <<workers, ui, job>>

(* StopWorkers asks every worker to stop, then joins them one by one.      *)
Close == /\ ui = "idle"
         /\ StopAll
         /\ ui' = "closing"
         /\ UNCHANGED <<cell, posted, job, cancelEnabled, shown>>

(* Mutant: the workers are detached, not joined.                           *)
MutantCloseWithoutJoin ==
  /\ ui = "closing"
  /\ ui' = "closed"
  /\ UNCHANGED <<cell, workers, posted, job, cancelEnabled, shown>>

JoinAll == /\ ui = "closing"
           /\ \A g \in Generations : workers[g].at \notin RunningStates
           /\ workers' = [g \in Generations |->
                            IF workers[g].at = "done"
                            THEN [workers[g] EXCEPT !.at = "joined"]
                            ELSE workers[g]]
           /\ ui' = "closed"
           /\ UNCHANGED <<cell, posted, job, cancelEnabled, shown>>

-----------------------------------------------------------------------------
(* A worker.                                                               *)

(* Mutant: one match more than the limit.                                  *)
MutantRoom(g) == Limit + 1 - workers[g].found

Room(g) == Limit - workers[g].found

Least(a, b) == IF a < b THEN a ELSE b

Part(g) == workers[g].job.parts[workers[g].next]

Documents(g) == workers[g].job.documents

HasPart(g) == /\ workers[g].at = "search"
              /\ workers[g].next <= Len(workers[g].job.parts)

WorkerMoves(g, w) == /\ workers' = [workers EXCEPT ![g] = w]
                     /\ UNCHANGED <<cell, posted, ui, job, cancelEnabled, shown>>

(* The loop over the roots tests the stop request before each root.        *)
StopBeforeRoot(g) ==
  /\ HasPart(g) /\ ~Documents(g) /\ workers[g].stop
  /\ WorkerMoves(g, [workers[g] EXCEPT !.cancelled = TRUE, !.at = "publish"])

LimitReached(g) ==
  /\ HasPart(g) /\ Room(g) = 0
  /\ WorkerMoves(g, [workers[g] EXCEPT !.truncated = TRUE, !.at = "publish"])

(* std::wregex rejects the query: the error ends the search.               *)
QueryRejected(g) ==
  /\ HasPart(g) /\ Room(g) > 0 /\ workers[g].job.bad
  /\ WorkerMoves(g, [workers[g] EXCEPT !.error = TRUE, !.at = "publish"])

(* Mutant: a root's truncation is not merged, like a document's.           *)
MutantTruncationLost(g) ==
  /\ HasPart(g) /\ Room(g) > 0 /\ ~workers[g].job.bad
  /\ Documents(g) => ~workers[g].stop
  /\ WorkerMoves(g, [workers[g] EXCEPT
                       !.found = @ + Least(Part(g).hits, Room(g)),
                       !.next = @ + 1])

(* A part searched to its end or to the limit.  A root's truncation reaches *)
(* the result; the loop over the documents keeps a part's matches only.    *)
PartSearched(g) ==
  /\ HasPart(g) /\ Room(g) > 0 /\ ~workers[g].job.bad
  /\ Documents(g) => ~workers[g].stop
  /\ WorkerMoves(g,
       [workers[g] EXCEPT
          !.found = @ + Least(Part(g).hits, Room(g)),
          !.next = @ + 1,
          !.truncated = \/ @
                         \/ /\ ~Documents(g)
                            /\ Part(g).cut \/ Part(g).hits >= Room(g)])

(* The stop request arrives inside a root, some of whose matches are kept, *)
(* or is found after a document.                                           *)
RootInterrupted(g) ==
  /\ HasPart(g) /\ Room(g) > 0 /\ ~workers[g].job.bad
  /\ ~Documents(g) /\ workers[g].stop
  /\ \E n \in 0 .. Least(Part(g).hits, Room(g) - 1) :
       WorkerMoves(g, [workers[g] EXCEPT !.found = @ + n, !.next = @ + 1,
                                         !.cancelled = TRUE])

DocumentInterrupted(g) ==
  /\ HasPart(g) /\ Room(g) > 0 /\ ~workers[g].job.bad
  /\ Documents(g) /\ workers[g].stop
  /\ \E n \in 0 .. Least(Part(g).hits, Room(g)) :
       WorkerMoves(g, [workers[g] EXCEPT !.found = @ + n, !.next = @ + 1,
                                         !.cancelled = TRUE, !.at = "publish"])

SearchEnd(g) ==
  /\ workers[g].at = "search"
  /\ workers[g].next > Len(workers[g].job.parts)
  /\ WorkerMoves(g, [workers[g] EXCEPT !.at = "publish"])

ResultOf(g) == [generation |-> g, found |-> workers[g].found,
                truncated |-> workers[g].truncated,
                cancelled |-> workers[g].cancelled, error |-> workers[g].error]

PublishResult(g) ==
  /\ workers[g].at = "publish"
  /\ cell' = Publish(cell, ResultOf(g))
  /\ workers' = [workers EXCEPT ![g].at = IF Accepts(cell, g) THEN "post" ELSE "done"]
  /\ UNCHANGED <<posted, ui, job, cancelEnabled, shown>>

(* Mutant: a published result is not announced.                            *)
MutantNoMessage(g) ==
  /\ workers[g].at = "post"
  /\ workers' = [workers EXCEPT ![g].at = "done"]
  /\ UNCHANGED <<cell, posted, ui, job, cancelEnabled, shown>>

PostMessage(g) ==
  /\ workers[g].at = "post"
  /\ posted' = posted + 1
  /\ workers' = [workers EXCEPT ![g].at = "done"]
  /\ UNCHANGED <<cell, ui, job, cancelEnabled, shown>>

-----------------------------------------------------------------------------
Prompt == OpenPrompt \/ DismissPrompt \/ AcceptPrompt

UiStep == Prompt \/ CancelCommand \/ CancelBegin \/ Launch \/ CompleteSearch
            \/ Close \/ JoinAll

SearchStep(g) == \/ StopBeforeRoot(g) \/ LimitReached(g) \/ QueryRejected(g)
                 \/ PartSearched(g) \/ RootInterrupted(g)
                 \/ DocumentInterrupted(g) \/ SearchEnd(g)

WorkerStep(g) == SearchStep(g) \/ PublishResult(g) \/ PostMessage(g)

Next == UiStep \/ \E g \in Generations : WorkerStep(g)

(* The workers run, the UI thread finishes a handler it has begun and the  *)
(* message loop delivers what is queued.  The user is not obliged to do    *)
(* anything.                                                               *)
Fairness == /\ \A g \in Generations : WF_vars(WorkerStep(g))
            /\ WF_vars(CancelBegin \/ Launch \/ JoinAll)
            /\ WF_vars(CompleteSearch)

Spec == Init /\ [][Next]_vars /\ Fairness

-----------------------------------------------------------------------------
Results == [generation : Generations, found : 0 .. Limit, truncated : BOOLEAN,
            cancelled : BOOLEAN, error : BOOLEAN]

Workers == [at : RunningStates \cup {"none", "done", "joined"}, stop : BOOLEAN,
            job : Jobs \cup {NoJob}, next : Nat \ {0}, found : 0 .. Limit,
            truncated : BOOLEAN, cancelled : BOOLEAN, error : BOOLEAN]

(* Every variable stays in the set of values the code can give it; no      *)
(* search returns more matches than the limit.                             *)
TypeOK ==
  /\ cell \in [generation : 0 .. MaxGenerations, pending : Results \cup {Nothing}]
  /\ workers \in [Generations -> Workers]
  /\ posted \in Nat
  /\ ui \in {"idle", "prompt", "replace", "cancel", "launch", "closing", "closed"}
  /\ job \in Jobs \cup {NoJob} /\ cancelEnabled \in BOOLEAN
  /\ shown \in Results \cup {Nothing}

(* What the UI could take is of the newest generation: a worker that was   *)
(* overtaken between its last look at the stop request and its Publish     *)
(* leaves nothing behind (LatestOperation::Publish, CHANGELOG 0.1.1).      *)
PendingIsCurrent == HasResult(cell) => cell.pending.generation = cell.generation

(* A listed result was current when it was listed: no completion message,  *)
(* however late or of whichever worker, brings back a search that has been *)
(* cancelled or replaced (CompleteSearch).                                 *)
ListsCurrentResult ==
  [][shown' # shown => shown'.generation = cell.generation]_vars

(* The partial matches a stopped worker collected are never listed: every  *)
(* stop request is followed by a new generation before the UI can take     *)
(* anything (CancelFolderSearch).                                          *)
NoPartialResultListed == shown # Nothing => ~shown.cancelled

(* The Cancel command is on only while there is something to cancel: a     *)
(* worker of the current generation, or its undelivered result with a      *)
(* message under way to deliver it.                                        *)
CancelMeansRunning ==
  cancelEnabled /\ ui \in {"idle", "prompt"} =>
    /\ cell.generation > 0
    /\ \/ workers[cell.generation].at \in {"search", "publish"}
       \/ HasResult(cell) /\ (posted > 0 \/ workers[cell.generation].at = "post")

(* The matches of the first n parts, for every n; a function, since the    *)
(* proofs reason by induction over n.                                      *)
HitsUpTo(parts) ==
  LET sum[n \in 0 .. Len(parts)] == IF n = 0 THEN 0 ELSE sum[n - 1] + parts[n].hits
  IN sum

Total(search) == HitsUpTo(search.parts)[Len(search.parts)]

(* A folder search reported without "(truncated)", "cancelled" or an error *)
(* lists every match of every root (StartFolderSearch, the roots variant). *)
CompleteMeansComplete ==
  shown # Nothing =>
    LET search == workers[shown.generation].job
    IN ~search.documents /\ ~shown.truncated /\ ~shown.cancelled /\ ~shown.error
         => /\ shown.found = Total(search)
            /\ \A i \in DOMAIN search.parts : ~search.parts[i].cut

(* After the shutdown no thread is left that could touch the hand-off cell *)
(* or the window (StopWorkers).                                            *)
ClosedIsQuiet ==
  ui = "closed" => \A g \in Generations : workers[g].at \in {"none", "joined"}

(* Every search comes to an end the user can see: its result is listed, or *)
(* it is cancelled, replaced, or the window closes.                        *)
SearchConcludes == cancelEnabled ~> ~cancelEnabled \/ ui = "closed"
=============================================================================
