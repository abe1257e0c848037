-------------------------------- MODULE Tabs --------------------------------
(***************************************************************************)
(* The open documents as tabs: opening, pinning, sorting and closing them, *)
(* with the question whether to save; and the recovery of unsaved texts    *)
(* from the snapshots that a timer takes (main.cpp, recovery.cpp).         *)
(*                                                                         *)
(* The question and the recovery manager run message loops of their own,   *)
(* in which the timer and the activation by a second launch still arrive.  *)
(* What a save does is DocumentSync, what a launch restores is             *)
(* SessionLifecycle: here it restores nothing.                             *)
(***************************************************************************)
EXTENDS RecoveryStore

CONSTANTS Paths,     \* files that are opened: positive numbers, by their names
          MaxId,     \* bound: documents of one launch
          MaxSteps,  \* bound: commands of the user, and activations
          Texts,     \* what a document is edited to
          MaxClock   \* bound: timer ticks that are due for snapshots

ASSUME PathsAssumption == Paths \subseteq Nat \ {0}
ASSUME TabsAssumption ==
  /\ MaxId \in Nat \ {0} /\ MaxSteps \in Nat /\ MaxClock \in Nat
  /\ \A key \in (-MaxId .. -1) \cup Paths : SafeName[key] \in Nat

VARIABLES
  order,     \* workspace_: ids of the documents in the order of their tabs
  active,    \* the active document
  docs,      \* of every id: title, path (0: untitled), dirty and text
  pinned,    \* pinned_documents_
  nextId,    \* next_id_
  box,       \* the document the question is about, or 0
  closing,   \* the loop over tabs to close: whom it keeps and what is left
  listing,   \* the list in the recovery manager, <<>> when it is closed
  files,     \* the recovery directory
  clock,     \* snapshots are due at ticks of this clock
  steps,     \* commands and activations so far
  lastTick,  \* history: what the last tick wrote
  began      \* history: order and pins when the loop began

tabs     == <<order, active, docs, pinned, nextId>>
recovery == <<files, clock, lastTick>>
tabsVars == <<tabs, box, closing, listing, recovery, steps, began>>

FileText == "text of the file"

NoLoop == [keep |-> 0, direction |-> 0, left |-> <<>>]

UntitledRank == 100  \* untitled documents sort behind the others ...
RecoveredRank == 50  \* ... and recovered ones between

Untitled(id) == [title |-> UntitledRank + id, path |-> 0, dirty |-> FALSE, text |-> FileText]

TabsInit ==
  /\ order = <<1>> /\ active = 1 /\ docs = [id \in {1} |-> Untitled(1)]
  /\ pinned = {} /\ nextId = 2
  /\ box = 0 /\ closing = NoLoop /\ listing = <<>>
  /\ files = {} /\ clock = 0 /\ steps = 0 /\ lastTick = {}
  /\ began = [order |-> order, pinned |-> {}]

IsIdle == box = 0 /\ closing = NoLoop /\ listing = <<>>

Command == IsIdle /\ steps < MaxSteps /\ steps' = steps + 1

Ids == ToSet(order)
Index(id, sequence) == CHOOSE i \in DOMAIN sequence : sequence[i] = id

-----------------------------------------------------------------------------
(* Opening and editing.                                                    *)

(* A document is added behind the others and becomes the active one.       *)
Add(document) ==
  /\ nextId <= MaxId
  /\ order' = Append(order, nextId)
  /\ docs' = [id \in Ids \cup {nextId} |-> IF id = nextId THEN document ELSE docs[id]]
  /\ active' = nextId /\ nextId' = nextId + 1
  /\ UNCHANGED pinned

NewDocument ==
  /\ Command
  /\ Add(Untitled(nextId))
  /\ UNCHANGED <<box, closing, listing, recovery, began>>

(* By the user, or at any time through a second launch.                    *)
OpenPath(path) ==
  LET open == {id \in Ids : docs[id].path = path}
  IN  /\ steps < MaxSteps /\ steps' = steps + 1
      /\ \/ /\ \E i \in DOMAIN order :
                 /\ order[i] \in open /\ \A j \in 1 .. i - 1 : order[j] \notin open
                 /\ active' = order[i]
            /\ UNCHANGED <<order, docs, pinned, nextId>>
         \/ /\ open = {}
            /\ Add([title |-> path, path |-> path, dirty |-> FALSE, text |-> FileText])
      /\ UNCHANGED <<box, closing, listing, recovery, began>>

Edit ==
  /\ Command
  /\ \E text \in Texts : docs' = [docs EXCEPT ![active].dirty = TRUE, ![active].text = text]
  /\ UNCHANGED <<order, active, pinned, nextId, box, closing, listing, recovery, began>>

Select ==
  /\ Command
  /\ active' \in Ids
  /\ UNCHANGED <<order, docs, pinned, nextId, box, closing, listing, recovery, began>>

(* The documents after one is saved, an untitled one under any path.       *)
Saved(id) ==
  {[docs EXCEPT ![id].path = path, ![id].title = path, ![id].dirty = FALSE] :
     path \in IF docs[id].path = 0 THEN Paths ELSE {docs[id].path}}

SaveActive ==
  /\ Command
  /\ docs' \in Saved(active)
  /\ UNCHANGED <<order, active, pinned, nextId, box, closing, listing, recovery, began>>

(* The timer saves what has a path, where it can.                          *)
AutoSaveIfDue ==
  /\ \E saved \in SUBSET {id \in Ids : docs[id].dirty /\ docs[id].path # 0} :
       docs' = [id \in Ids |-> IF id \in saved THEN [docs[id] EXCEPT !.dirty = FALSE]
                               ELSE docs[id]]
  /\ UNCHANGED <<order, active, pinned, nextId, box, closing, listing, recovery, steps, began>>

-----------------------------------------------------------------------------
(* The order of the tabs.                                                  *)

Move(id, index) == InsertAt(RemoveAt(order, Index(id, order)), index + 1, id)

TogglePinActive ==
  /\ Command
  /\ IF active \in pinned
     THEN pinned' = pinned \ {active} /\ UNCHANGED order
     ELSE pinned' = pinned \cup {active} /\ order' = Move(active, 0)
  /\ UNCHANGED <<active, docs, nextId, box, closing, listing, recovery, began>>

(* Pinned tabs first, then by title; equal ones stay in their order.       *)
SortsBefore(a, b) ==
  \/ a \in pinned /\ b \notin pinned
  \/ /\ (a \in pinned) = (b \in pinned)
     /\ \/ docs[a].title < docs[b].title
        \/ docs[a].title = docs[b].title /\ Index(a, order) < Index(b, order)

SortTabs ==
  /\ Command
  /\ order' \in Bijection(DOMAIN order, Ids)
  /\ \A i, j \in DOMAIN order : i < j => SortsBefore(order'[i], order'[j])
  /\ UNCHANGED <<active, docs, pinned, nextId, box, closing, listing, recovery, began>>

-----------------------------------------------------------------------------
(* Closing.                                                                *)

(* Mutant: a closed document stays pinned.                                 *)
LeavesPinned(id, documents) ==
  LET rest == Ids \ {id}
  IN  /\ pinned' = pinned
      /\ \/ /\ rest # {}
            /\ order' = RemoveAt(order, Index(id, order))
            /\ docs' = [other \in rest |-> documents[other]]
            /\ active' \in IF active = id THEN rest ELSE {active}
            /\ UNCHANGED nextId
         \/ /\ rest = {} /\ nextId <= MaxId
            /\ order' = <<nextId>> /\ active' = nextId /\ nextId' = nextId + 1
            /\ docs' = [only \in {nextId} |-> Untitled(nextId)]

(* The document leaves the documents there are then; which tab follows as  *)
(* the active one is the tab control's choice.  The last one is followed   *)
(* by an empty document.                                                   *)
Leaves(id, documents) ==
  LET rest == Ids \ {id}
  IN  /\ pinned' = pinned \ {id}
      /\ \/ /\ rest # {}
            /\ order' = RemoveAt(order, Index(id, order))
            /\ docs' = [other \in rest |-> documents[other]]
            /\ active' \in IF active = id THEN rest ELSE {active}
            /\ UNCHANGED nextId
         \/ /\ rest = {} /\ nextId <= MaxId
            /\ order' = <<nextId>> /\ active' = nextId /\ nextId' = nextId + 1
            /\ docs' = [only \in {nextId} |-> Untitled(nextId)]

(* CloseActive, for a document that was made active: a dirty one is asked  *)
(* about, a clean one is closed at once.                                   *)
AskOrClose(id) ==
  \/ /\ docs[id].dirty
     /\ box' = id /\ active' = id /\ UNCHANGED <<order, docs, pinned, nextId>>
  \/ ~docs[id].dirty /\ Leaves(id, docs) /\ UNCHANGED box

CloseActive ==
  /\ Command
  /\ AskOrClose(active)
  /\ UNCHANGED <<closing, listing, recovery, began>>

(* The tabs on one side of the active one (-1, 1) or all others (0), but   *)
(* for the pinned ones.                                                    *)
CloseRelativeTabs(direction) ==
  LET here == Index(active, order)
      isOnSide(i) == direction = 0 \/ (direction < 0 /\ i < here) \/ (direction > 0 /\ i > here)
      close == {id \in Ids \ (pinned \cup {active}) : isOnSide(Index(id, order))}
  IN  /\ Command /\ close # {}
      /\ \E left \in [1 .. Cardinality(close) -> close] :
           /\ \A i, j \in DOMAIN left : i < j => Index(left[i], order) < Index(left[j], order)
           /\ closing' = [keep |-> active, direction |-> direction, left |-> left]
      /\ began' = [order |-> order, pinned |-> pinned]
      /\ UNCHANGED <<tabs, box, listing, recovery>>

(* Mutant: the tab is not made active before CloseActive.                  *)
CloseNextActive ==
  /\ box = 0 /\ closing.left # <<>>
  /\ AskOrClose(active)
  /\ closing' = [closing EXCEPT !.left = Tail(@)]
  /\ UNCHANGED <<listing, recovery, steps, began>>

CloseNext ==
  /\ box = 0 /\ closing.left # <<>>
  /\ AskOrClose(Head(closing.left))
  /\ closing' = [closing EXCEPT !.left = Tail(@)]
  /\ UNCHANGED <<listing, recovery, steps, began>>

(* The loop is through, or was cancelled: the kept tab is active again.    *)
CloseFinished ==
  /\ box = 0 /\ closing # NoLoop /\ closing.left = <<>>
  /\ active' = IF closing.keep \in Ids THEN closing.keep ELSE active
  /\ closing' = NoLoop
  /\ began' = [order |-> order, pinned |-> {}]
  /\ UNCHANGED <<order, docs, pinned, nextId, box, listing, recovery, steps>>

(* Answers.  Cancel, or a save that fails, ends a loop.                    *)
AnswerCancel ==
  /\ box # 0
  /\ box' = 0 /\ closing' = [closing EXCEPT !.left = <<>>]
  /\ UNCHANGED <<tabs, listing, recovery, steps, began>>

AnswerNo ==
  /\ box # 0
  /\ Leaves(box, docs)
  /\ box' = 0
  /\ UNCHANGED <<closing, listing, recovery, steps, began>>

(* The document that is active now is saved, then the one that was asked   *)
(* about is closed.                                                        *)
AnswerYes ==
  /\ box # 0
  /\ \E saved \in Saved(active) : Leaves(box, saved)
  /\ box' = 0
  /\ UNCHANGED <<closing, listing, recovery, steps, began>>

-----------------------------------------------------------------------------
(* Recovery.                                                               *)

Key(id) == IF docs[id].path = 0 THEN -id ELSE docs[id].path

(* What the directory may be after a document's turn, if it is written.    *)
SnapshotTaken(directory, id, written, now) ==
  IF id \notin written THEN {directory}
  ELSE SaveSnapshot(directory, Key(id), docs[id].title, docs[id].text, now)

(* What it may be after the documents, in the order of the tabs.           *)
SnapshotsTaken(written, now) ==
  LET taken[n \in 0 .. Len(order)] ==
        IF n = 0 THEN {files}
        ELSE UNION {SnapshotTaken(directory, order[n], written, now) : directory \in taken[n - 1]}
  IN  taken[Len(order)]

(* Every dirty document is written; a write that fails leaves nothing, as  *)
(* do those that are left when the process ends on the way.                *)
SaveRecoverySnapshotsIfDue ==
  /\ clock < MaxClock
  /\ clock' = clock + 1
  /\ \E written \in SUBSET {id \in Ids : docs[id].dirty} :
       /\ files' \in SnapshotsTaken(written, clock')
       /\ lastTick' = IF Cardinality(written) > Retention THEN {}
                      ELSE {[key |-> Key(id), text |-> docs[id].text] : id \in written}
  /\ UNCHANGED <<tabs, box, closing, listing, steps, began>>

ShowRecoveryManager ==
  /\ Command /\ files # {}
  /\ listing' = List(files)
  /\ UNCHANGED <<tabs, box, closing, recovery, began>>

(* An entry whose file a tick has pruned stays in the list.                *)
DeleteSnapshot ==
  \E i \in DOMAIN listing :
    /\ listing[i] \in files
    /\ listing' = RemoveAt(listing, i)
    /\ files' = files \ {listing[i]}
    /\ lastTick' = lastTick \ {[key |-> listing[i].key, text |-> listing[i].text]}
    /\ UNCHANGED <<tabs, box, closing, clock, steps, began>>

(* The text comes back as a new, clean document; nothing happens if the    *)
(* file is gone.                                                           *)
RestoreSnapshot ==
  \E i \in DOMAIN listing :
    /\ listing' = <<>>
    /\ IF listing[i] \in files
       THEN Add([title |-> RecoveredRank + listing[i].title, path |-> 0,
                 dirty |-> FALSE, text |-> listing[i].text])
       ELSE UNCHANGED tabs
    /\ UNCHANGED <<box, closing, recovery, steps, began>>

CloseRecoveryManager ==
  /\ listing # <<>>
  /\ listing' = <<>>
  /\ UNCHANGED <<tabs, box, closing, recovery, steps, began>>

(* The program ends and is launched again: the numbers begin anew.         *)
TabsRelaunch ==
  /\ order' = <<1>> /\ active' = 1 /\ docs' = [id \in {1} |-> Untitled(1)]
  /\ pinned' = {} /\ nextId' = 2
  /\ box' = 0 /\ closing' = NoLoop /\ listing' = <<>>
  /\ began' = [order |-> <<1>>, pinned |-> {}]
  /\ UNCHANGED <<recovery, steps>>

-----------------------------------------------------------------------------
TabsNext ==
  \/ NewDocument \/ \E path \in Paths : OpenPath(path)
  \/ Edit \/ Select \/ SaveActive \/ AutoSaveIfDue
  \/ TogglePinActive \/ SortTabs
  \/ CloseActive \/ \E direction \in {-1, 0, 1} : CloseRelativeTabs(direction)
  \/ CloseNext \/ CloseFinished
  \/ AnswerCancel \/ AnswerNo \/ AnswerYes
  \/ SaveRecoverySnapshotsIfDue
  \/ ShowRecoveryManager \/ DeleteSnapshot \/ RestoreSnapshot \/ CloseRecoveryManager
  \/ TabsRelaunch

TabsSpec == TabsInit /\ [][TabsNext]_tabsVars

DocumentRecords == [title : Nat, path : Paths \cup {0}, dirty : BOOLEAN,
                    text : Texts \cup {FileText}]
Snapshots == [name : Nat, ticks : Nat, created : 1 .. MaxClock, key : Int, title : Nat,
              text : Texts \cup {FileText}]

(* Types: every tab has a document; the active one, those that are pinned, *)
(* the one the question is about and all that a loop closes are open.      *)
TabsTypeOK ==
  /\ order # <<>> /\ IsInjective(order)
  /\ nextId \in 2 .. MaxId + 1 /\ Ids \subseteq 1 .. nextId - 1
  /\ docs \in [Ids -> DocumentRecords]
  /\ active \in Ids /\ pinned \subseteq Ids /\ box \in Ids \cup {0}
  /\ closing.keep \in Ids \cup {0} /\ closing.direction \in {-1, 0, 1}
  /\ IsInjective(closing.left) /\ ToSet(closing.left) \subseteq Ids \ {closing.keep, box}
  /\ listing \in Seq(Snapshots) /\ files \subseteq Snapshots
  /\ clock \in 0 .. MaxClock /\ steps \in 0 .. MaxSteps
  /\ lastTick \subseteq [key : Int, text : Texts \cup {FileText}]

(* The tab was on the side that the loop closes when it began, not pinned. *)
IsMeant(id) ==
  LET here  == Index(closing.keep, began.order)
      there == Index(id, began.order)
  IN  /\ id \in ToSet(began.order) \ (began.pinned \cup {closing.keep})
      /\ closing.direction < 0 => there < here
      /\ closing.direction > 0 => there > here

(* main.cpp:3002, 3060: a document with unsaved text is closed only after  *)
(* the answer No, or after Yes when it was saved; or when the question was *)
(* open while a second launch made another document the active one.  A     *)
(* loop closes no tab but those that were on its side when it began, and   *)
(* never a pinned one, whatever is opened meanwhile.                       *)
ClosingIsCareful ==
  [][~TabsRelaunch =>
       \A id \in Ids \ ToSet(order') :
         /\ docs[id].dirty => AnswerNo \/ AnswerYes
         /\ closing # NoLoop => IsMeant(id)]_tabsVars

(* main.cpp:1942, recovery.cpp:45: what a tick wrote of the documents that *)
(* had unsaved text, if they are no more than the store keeps, is in the   *)
(* store until the next tick, through closing them and launching again,    *)
(* unless the user deletes it.                                             *)
TickIsRecoverable ==
  \A snapshot \in lastTick :
    \E f \in files : f.key = snapshot.key /\ f.text = snapshot.text
=============================================================================
