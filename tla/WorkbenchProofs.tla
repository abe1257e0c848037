--------------------------- MODULE WorkbenchProofs ---------------------------
(***************************************************************************)
(* The window's tabs, workspace and macros: a loop over tabs closes what   *)
(* it was meant to close, and no document with unsaved text goes without   *)
(* an answer; items are changed only inside of the workspace's roots; a    *)
(* launch gives back the lists and the macros that were written; and a     *)
(* macro that is played repeats what was typed, but for characters beyond  *)
(* U+FFFF.  For every set of paths and texts, every disk, and every number *)
(* of documents, commands, roots, items, macros and characters.            *)
(***************************************************************************)
EXTENDS Workbench, DataLemmas, SequenceTheorems, FiniteSetTheorems, TLAPS

-----------------------------------------------------------------------------
(* Without one of its elements, a sequence has the others.                 *)
LEMMA Removing ==
  ASSUME NEW S, NEW s \in Seq(S), IsInjective(s), NEW e \in ToSet(s)
  PROVE  /\ RemoveAt(s, Index(e, s)) \in Seq(S)
         /\ IsInjective(RemoveAt(s, Index(e, s)))
         /\ ToSet(RemoveAt(s, Index(e, s))) = ToSet(s) \ {e}
<1> DEFINE k == Index(e, s)
<1>1. k \in 1 .. Len(s) /\ s[k] = e
  BY DEF Index, ToSet
<1> HIDE DEF k
<1> QED
  BY <1>1, WithoutPlace DEF k

-----------------------------------------------------------------------------
(* The tabs are those of different documents; the active one and the one   *)
(* that is asked about are among them.                                     *)
Ordered ==
  /\ order \in Seq(Nat \ {0}) /\ IsInjective(order)
  /\ nextId \in Nat \ {0} /\ \A id \in Ids : id < nextId
  /\ active \in Ids /\ box \in Ids \cup {0}

(* What a loop has left to close, and the document it asks about, it was   *)
(* meant to close.                                                         *)
Loop ==
  /\ closing \in [keep : Nat, direction : {-1, 0, 1}, left : Seq(Nat \ {0})]
  /\ IsInjective(closing.left)
  /\ ToSet(closing.left) \subseteq Ids \ {box}
  /\ closing # NoLoop => /\ \A id \in ToSet(closing.left) : IsMeant(id)
                         /\ box # 0 => IsMeant(box)

IInv == Ordered /\ Loop

LEMMA Positive == Ordered => Ids \subseteq Nat \ {0}
<1> SUFFICES ASSUME Ordered PROVE \A id \in Ids : id \in Nat \ {0}
  OBVIOUS
<1>1. order \in Seq(Nat \ {0})
  BY DEF Ordered
<1> QED BY <1>1, Elements DEF Ids

(* A document is added.                                                    *)
LEMMA Adding ==
  ASSUME Ordered, NEW STATE document, Add(document), UNCHANGED box
  PROVE  Ordered' /\ Ids' = Ids \cup {nextId}
<1>1. /\ order' = Append(order, nextId) /\ active' = nextId /\ nextId' = nextId + 1
      /\ box' = box
  BY DEF Add
<1>2. order \in Seq(Nat \ {0}) /\ IsInjective(order) /\ nextId \in Nat \ {0}
      /\ nextId \notin ToSet(order)
  BY DEF Ordered, Ids
<1>3. /\ order' \in Seq(Nat \ {0}) /\ IsInjective(order')
      /\ Ids' = Ids \cup {nextId}
  BY <1>1, <1>2, Appending DEF Ids
<1>4. \A id \in Ids' : id < nextId'
  BY <1>1, <1>2, <1>3, Positive DEF Ordered
<1> QED BY <1>1, <1>2, <1>3, <1>4 DEF Ordered

(* A document leaves, and no other.                                        *)
LEMMA Leaving ==
  ASSUME Ordered, NEW STATE id, id \in Ids, NEW STATE documents,
         Leaves(id, documents), box' \in {0, box}, box \in {0, id}, box' # id
  PROVE  Ordered' /\ Ids \ {id} \subseteq Ids'
<1>1. order \in Seq(Nat \ {0}) /\ IsInjective(order) /\ nextId \in Nat \ {0}
      /\ active \in Ids /\ \A other \in Ids : other < nextId
  BY DEF Ordered
<1>2. box' = 0
  OBVIOUS
<1>3. CASE /\ Ids \ {id} # {}
           /\ order' = RemoveAt(order, Index(id, order))
           /\ active' \in IF active = id THEN Ids \ {id} ELSE {active}
           /\ nextId' = nextId
  <2>1. /\ order' \in Seq(Nat \ {0}) /\ IsInjective(order')
        /\ Ids' = Ids \ {id}
    BY <1>1, <1>3, Removing DEF Ids
  <2>2. active' \in Ids'
    BY <1>1, <1>3, <2>1
  <2> QED BY <1>1, <1>2, <1>3, <2>1, <2>2 DEF Ordered
<1>4. CASE /\ Ids \ {id} = {}
           /\ order' = <<nextId>> /\ active' = nextId /\ nextId' = nextId + 1
  <2>1. order' \in Seq(Nat \ {0}) /\ Len(order') = 1 /\ order'[1] = nextId
    BY <1>1, <1>4
  <2>2. Ids' = {nextId} /\ IsInjective(order')
    BY <2>1, <1>4 DEF Ids, ToSet, IsInjective
  <2> QED BY <1>1, <1>2, <1>4, <2>1, <2>2 DEF Ordered
<1> QED BY <1>3, <1>4 DEF Leaves

(* As long as a loop's documents stay, it goes on as it was.               *)
LEMMA LoopStays ==
  ASSUME Loop, UNCHANGED <<closing, began, box>>, Ids \subseteq Ids'
  PROVE  Loop'
BY DEF Loop, IsMeant

LEMMA NoLoopLoops ==
  ASSUME closing' = NoLoop PROVE Loop'
<1>1. NoLoop.left = <<>> /\ NoLoop \in [keep : Nat, direction : {-1, 0, 1}, left : Seq(Nat \ {0})]
  BY DEF NoLoop
<1>2. ToSet(<<>>) = {} /\ IsInjective(<<>>)
  BY DEF ToSet, IsInjective
<1> QED BY <1>1, <1>2 DEF Loop

-----------------------------------------------------------------------------
(* The invariant holds at the beginning, and each action keeps it.         *)

LEMMA Beginning == TabsInit => IInv
<1> SUFFICES ASSUME TabsInit PROVE IInv
  OBVIOUS
<1>1. order = <<1>> /\ active = 1 /\ nextId = 2 /\ box = 0 /\ closing = NoLoop
  BY DEF TabsInit
<1>2. Ids = {1} /\ order \in Seq(Nat \ {0}) /\ IsInjective(order)
  BY <1>1 DEF Ids, ToSet, IsInjective
<1>3. Ordered
  BY <1>1, <1>2 DEF Ordered
<1>4. NoLoop.left = <<>> /\ NoLoop \in [keep : Nat, direction : {-1, 0, 1}, left : Seq(Nat \ {0})]
  BY DEF NoLoop
<1>5. ToSet(<<>>) = {} /\ IsInjective(<<>>)
  BY DEF ToSet, IsInjective
<1> QED BY <1>1, <1>3, <1>4, <1>5 DEF IInv, Loop

LEMMA Idle == IsIdle => box = 0 /\ closing = NoLoop
BY DEF IsIdle

(* Actions that open documents, change or save them, or only move on the   *)
(* recovery store.                                                         *)
LEMMA AddingStep ==
  ASSUME IInv, NEW STATE document, Add(document), UNCHANGED <<box, closing, began>>
  PROVE  IInv' /\ Ids \subseteq Ids'
BY Adding, LoopStays DEF IInv

LEMMA QuietStep ==
  ASSUME IInv, UNCHANGED <<order, nextId, box, closing, began>>, active' \in Ids
  PROVE  IInv' /\ Ids' = Ids
<1>1. Ids' = Ids
  BY DEF Ids
<1> QED BY <1>1, LoopStays DEF IInv, Ordered

LEMMA OpenStep ==
  ASSUME IInv, NEW path \in Paths, OpenPath(path)
  PROVE  IInv' /\ Ids \subseteq Ids'
<1>1. UNCHANGED <<box, closing, began>>
  BY DEF OpenPath
<1>2. CASE \E i \in DOMAIN order : active' = order[i] /\ UNCHANGED <<order, nextId>>
  <2>1. active' \in Ids
    BY <1>2 DEF Ids, ToSet
  <2> QED BY <1>1, <1>2, <2>1, QuietStep
<1>3. CASE Add([title |-> path, path |-> path, dirty |-> FALSE, text |-> FileText])
  BY <1>1, <1>3, AddingStep
<1> QED BY <1>2, <1>3 DEF OpenPath

LEMMA PinStep ==
  ASSUME IInv, TogglePinActive
  PROVE  IInv' /\ Ids' = Ids
<1>1. UNCHANGED <<active, nextId, box, closing, began>>
  BY DEF TogglePinActive
<1>2. CASE UNCHANGED order
  BY <1>1, <1>2, QuietStep DEF IInv, Ordered
<1>3. CASE order' = Move(active, 0)
  <2> DEFINE rest == RemoveAt(order, Index(active, order))
  <2>1. /\ order \in Seq(Nat \ {0}) /\ IsInjective(order)
        /\ active \in ToSet(order) /\ active \in Nat \ {0}
    BY Positive DEF IInv, Ordered, Ids
  <2>2. /\ rest \in Seq(Nat \ {0}) /\ IsInjective(rest)
        /\ ToSet(rest) = ToSet(order) \ {active}
    BY <2>1, Removing
  <2> HIDE DEF rest
  <2>3. order' = InsertAt(rest, 1, active)
    BY <1>3 DEF Move, rest
  <2>4. /\ order' \in Seq(Nat \ {0}) /\ IsInjective(order')
        /\ ToSet(order') = ToSet(order)
    <3>1. active \notin ToSet(rest)
      BY <2>2
    <3>2. /\ InsertAt(rest, 1, active) \in Seq(Nat \ {0})
          /\ IsInjective(InsertAt(rest, 1, active))
          /\ ToSet(InsertAt(rest, 1, active)) = ToSet(rest) \cup {active}
      <4> DEFINE S == Nat \ {0}
      <4>1. rest \in Seq(S) /\ IsInjective(rest) /\ active \in S /\ active \notin ToSet(rest)
        BY <2>1, <2>2, <3>1
      <4> HIDE DEF S
      <4>2. /\ InsertAt(rest, 1, active) \in Seq(S)
            /\ IsInjective(InsertAt(rest, 1, active))
            /\ ToSet(InsertAt(rest, 1, active)) = ToSet(rest) \cup {active}
        BY <4>1, Prepending
      <4> QED BY <4>2 DEF S
    <3>3. ToSet(rest) \cup {active} = ToSet(order)
      BY <2>1, <2>2
    <3> QED BY <2>3, <3>2, <3>3
  <2>5. Ids' = Ids
    BY <2>4 DEF Ids
  <2> QED BY <1>1, <2>4, <2>5, LoopStays DEF IInv, Ordered
<1> QED BY <1>2, <1>3 DEF TogglePinActive

LEMMA SortStep ==
  ASSUME IInv, SortTabs
  PROVE  IInv' /\ Ids' = Ids
<1>1. UNCHANGED <<active, nextId, box, closing, began>>
  BY DEF SortTabs
<1>2. order \in Seq(Nat \ {0}) /\ DOMAIN order = 1 .. Len(order) /\ Len(order) \in Nat
  BY DEF IInv, Ordered
<1>3. /\ order' \in [1 .. Len(order) -> Ids] /\ IsInjective(order')
      /\ \A id \in Ids : \E i \in 1 .. Len(order) : order'[i] = id
  BY <1>2 DEF SortTabs, Bijection, Injection, Surjection
<1>4. Ids \subseteq Nat \ {0}
  BY Positive DEF IInv
<1>5. order' \in Seq(Nat \ {0}) /\ DOMAIN order' = 1 .. Len(order)
  <2>1. order' \in [1 .. Len(order) -> Nat \ {0}]
    BY <1>3, <1>4
  <2> QED BY <1>2, <2>1
<1>6. Ids' = Ids
  BY <1>3, <1>5 DEF Ids, ToSet
<1> QED BY <1>1, <1>3, <1>5, <1>6, LoopStays DEF IInv, Ordered

(* Closing.                                                                *)
LEMMA CloseActiveStep ==
  ASSUME IInv, CloseActive
  PROVE  /\ IInv' /\ closing = NoLoop
         /\ \A id \in Ids \ Ids' : ~docs[id].dirty
<1>1. box = 0 /\ closing = NoLoop /\ closing' = NoLoop /\ active \in Ids
  BY Idle DEF CloseActive, Command, IInv, Ordered
<1>2. CASE docs[active].dirty /\ box' = active /\ active' = active /\ UNCHANGED <<order, nextId>>
  <2>1. Ids' = Ids
    BY <1>2 DEF Ids
  <2> QED BY <1>1, <1>2, <2>1, NoLoopLoops DEF IInv, Ordered
<1>3. CASE ~docs[active].dirty /\ Leaves(active, docs) /\ UNCHANGED box
  <2>1. active # 0
    BY <1>1, Positive DEF IInv
  <2>2. Ordered' /\ Ids \ {active} \subseteq Ids'
    BY <1>1, <1>3, <2>1, Leaving DEF IInv
  <2> QED BY <1>1, <1>3, <2>2, NoLoopLoops DEF IInv
<1> QED BY <1>2, <1>3 DEF CloseActive, AskOrClose

LEMMA CloseRelativeStep ==
  ASSUME IInv, NEW direction \in {-1, 0, 1}, CloseRelativeTabs(direction)
  PROVE  IInv' /\ Ids' = Ids
<1>1. UNCHANGED <<order, active, nextId, box>> /\ box = 0
  BY Idle DEF CloseRelativeTabs, tabs, Command
<1>2. Ids' = Ids
  BY <1>1 DEF Ids
<1> DEFINE here == Index(active, order)
           close == {id \in Ids \ (pinned \cup {active}) :
                       \/ direction = 0
                       \/ direction < 0 /\ Index(id, order) < here
                       \/ direction > 0 /\ Index(id, order) > here}
<1>3. PICK left \in [1 .. Cardinality(close) -> close] :
        /\ \A i, j \in DOMAIN left : i < j => Index(left[i], order) < Index(left[j], order)
        /\ closing' = [keep |-> active, direction |-> direction, left |-> left]
        /\ began' = [order |-> order, pinned |-> pinned]
  BY DEF CloseRelativeTabs
<1>4. Ids \subseteq Nat \ {0} /\ active \in Ids /\ nextId \in Nat \ {0}
  BY Positive DEF IInv, Ordered
<1>5. close \subseteq Ids \ {active}
  OBVIOUS
<1>6. Cardinality(close) \in Nat
  <2>1. Ids \subseteq 1 .. nextId
    BY <1>4 DEF IInv, Ordered
  <2>2. IsFiniteSet(1 .. nextId)
    BY <1>4, FS_Interval
  <2>3. close \subseteq 1 .. nextId
    BY <2>1, <1>5
  <2> HIDE DEF close
  <2>4. IsFiniteSet(close)
    BY <2>2, <2>3, FS_Subset
  <2> QED BY <2>4, FS_CardinalityType
<1>7. left \in Seq(Nat \ {0}) /\ DOMAIN left = 1 .. Cardinality(close)
  <2> DEFINE n == Cardinality(close)
  <2>1. left \in [1 .. n -> Nat \ {0}] /\ n \in Nat
    BY <1>4, <1>5, <1>6
  <2> HIDE DEF n
  <2>2. left \in Seq(Nat \ {0}) /\ DOMAIN left = 1 .. n
    BY <2>1
  <2> QED BY <2>2 DEF n
<1>8. \A id \in Ids : Index(id, order) \in Nat
  <2>1. DOMAIN order = 1 .. Len(order) /\ Len(order) \in Nat
    BY DEF IInv, Ordered
  <2> QED BY <2>1 DEF Index, Ids, ToSet
<1> HIDE DEF close, here
<1>9. IsInjective(left)
  <2> SUFFICES ASSUME NEW i \in 1 .. Cardinality(close), NEW j \in 1 .. Cardinality(close), i # j
               PROVE  left[i] # left[j]
    BY <1>7 DEF IsInjective
  <2>1. Index(left[i], order) \in Nat /\ Index(left[j], order) \in Nat
    BY <1>5, <1>8
  <2>2. i < j \/ j < i
    BY <1>6, SMT
  <2>3. Index(left[i], order) # Index(left[j], order)
    BY <2>1, <2>2, <1>3, <1>7
  <2> QED BY <2>3
<1>10. ToSet(left) \subseteq close
  BY <1>7 DEF ToSet
<1>11. ASSUME NEW id \in ToSet(left) PROVE IsMeant(id)'
  <2>1. id \in Ids \ (pinned \cup {active})
    BY <1>10 DEF close
  <2>2. /\ direction < 0 => Index(id, order) < Index(active, order)
        /\ direction > 0 => Index(id, order) > Index(active, order)
    BY <1>10 DEF close, here
  <2> QED BY <2>1, <2>2, <1>3 DEF IsMeant, Ids
<1>12. Loop'
  <2>1. closing'.left = left /\ box' = 0
    BY <1>1, <1>3
  <2>2. closing' \in [keep : Nat, direction : {-1, 0, 1}, left : Seq(Nat \ {0})]
    BY <1>3, <1>4, <1>7
  <2>3. ToSet(left) \subseteq Ids \ {0}
    BY <1>4, <1>5, <1>10
  <2> QED BY <1>2, <1>9, <1>11, <2>1, <2>2, <2>3 DEF Loop
<1>13. Ordered'
  BY <1>1, <1>2 DEF IInv, Ordered
<1> QED BY <1>2, <1>12, <1>13 DEF IInv

LEMMA CloseNextStep ==
  ASSUME IInv, CloseNext
  PROVE  /\ IInv'
         /\ \A id \in Ids \ Ids' : ~docs[id].dirty /\ IsMeant(id)
<1> DEFINE next == Head(closing.left)
<1>1. /\ box = 0 /\ closing.left # <<>> /\ UNCHANGED began
      /\ closing' = [closing EXCEPT !.left = Tail(@)]
  BY DEF CloseNext
<1>2. /\ closing \in [keep : Nat, direction : {-1, 0, 1}, left : Seq(Nat \ {0})]
      /\ IsInjective(closing.left) /\ ToSet(closing.left) \subseteq Ids \ {0}
      /\ closing # NoLoop
  BY <1>1 DEF IInv, Loop, NoLoop
<1>3. /\ Tail(closing.left) \in Seq(Nat \ {0}) /\ IsInjective(Tail(closing.left))
      /\ next \in ToSet(closing.left)
      /\ ToSet(Tail(closing.left)) = ToSet(closing.left) \ {next}
  BY <1>1, <1>2, Shortening
<1> HIDE DEF next
<1>4. /\ closing' \in [keep : Nat, direction : {-1, 0, 1}, left : Seq(Nat \ {0})]
      /\ closing'.left = Tail(closing.left)
      /\ closing'.keep = closing.keep /\ closing'.direction = closing.direction
  BY <1>1, <1>2, <1>3
<1>5. \A id : IsMeant(id)' <=> IsMeant(id)
  BY <1>1, <1>4 DEF IsMeant
<1>6. next \in Ids /\ next # 0 /\ IsMeant(next)
      /\ \A id \in ToSet(closing.left) : IsMeant(id)
  BY <1>2, <1>3 DEF IInv, Loop
<1>7. CASE docs[next].dirty /\ box' = next /\ active' = next /\ UNCHANGED <<order, nextId>>
  <2>1. Ids' = Ids
    BY <1>7 DEF Ids
  <2>2. Ordered'
    BY <1>6, <1>7, <2>1 DEF IInv, Ordered
  <2>3. Loop'
    BY <1>2, <1>3, <1>4, <1>5, <1>6, <1>7, <2>1 DEF Loop
  <2> QED BY <2>1, <2>2, <2>3 DEF IInv
<1>8. CASE ~docs[next].dirty /\ Leaves(next, docs) /\ UNCHANGED box
  <2>1. Ordered' /\ Ids \ {next} \subseteq Ids'
    BY <1>1, <1>6, <1>8, Leaving DEF IInv
  <2>2. ToSet(closing'.left) \subseteq Ids' \ {0}
    BY <1>2, <1>3, <1>4, <2>1
  <2>3. Loop'
    BY <1>1, <1>3, <1>4, <1>5, <1>6, <1>8, <2>2 DEF Loop
  <2> QED BY <1>6, <1>8, <2>1, <2>3 DEF IInv
<1> QED BY <1>7, <1>8 DEF CloseNext, AskOrClose, next

LEMMA CloseFinishedStep ==
  ASSUME IInv, CloseFinished
  PROVE  IInv' /\ Ids' = Ids
<1>1. UNCHANGED <<order, nextId, box>> /\ closing' = NoLoop
  BY DEF CloseFinished
<1>2. Ids' = Ids /\ active' \in Ids
  BY <1>1 DEF CloseFinished, IInv, Ordered, Ids
<1> QED BY <1>1, <1>2, NoLoopLoops DEF IInv, Ordered

(* The answers.                                                            *)
LEMMA CancelStep ==
  ASSUME IInv, AnswerCancel
  PROVE  IInv' /\ Ids' = Ids
<1>1. /\ UNCHANGED <<order, active, nextId, began>> /\ box' = 0
      /\ closing' = [closing EXCEPT !.left = <<>>]
  BY DEF AnswerCancel, tabs
<1>2. Ids' = Ids
  BY <1>1 DEF Ids
<1>3. closing' \in [keep : Nat, direction : {-1, 0, 1}, left : Seq(Nat \ {0})]
      /\ closing'.left = <<>>
  <2>1. closing \in [keep : Nat, direction : {-1, 0, 1}, left : Seq(Nat \ {0})]
        /\ <<>> \in Seq(Nat \ {0})
    BY DEF IInv, Loop
  <2> QED BY <1>1, <2>1
<1>4. ToSet(<<>>) = {} /\ IsInjective(<<>>)
  BY DEF ToSet, IsInjective
<1>5. Loop'
  BY <1>1, <1>3, <1>4 DEF Loop
<1> QED BY <1>1, <1>2, <1>5 DEF IInv, Ordered

LEMMA AnswerStep ==
  ASSUME IInv, box # 0, NEW STATE documents, Leaves(box, documents), box' = 0,
         UNCHANGED <<closing, began>>
  PROVE  /\ IInv'
         /\ \A id \in Ids \ Ids' : closing # NoLoop => IsMeant(id)
<1>1. box \in Ids
  BY DEF IInv, Ordered
<1>2. Ordered' /\ Ids \ {box} \subseteq Ids'
  BY <1>1, Leaving DEF IInv
<1>3. Ids' \subseteq Nat \ {0}
  <2>1. order' \in Seq(Nat \ {0})
    BY <1>2 DEF Ordered
  <2> QED BY <2>1, Elements DEF Ids
<1>4. Loop'
  BY <1>2, <1>3 DEF IInv, Loop, IsMeant
<1> QED BY <1>2, <1>4 DEF IInv, Loop

-----------------------------------------------------------------------------
(* What a step may not do, as the property says it.                        *)
Careful ==
  ~TabsRelaunch =>
    \A id \in Ids \ ToSet(order') :
      /\ docs[id].dirty => AnswerNo \/ AnswerYes
      /\ closing # NoLoop => IsMeant(id)

LEMMA NothingCloses == Ids \subseteq Ids' => Careful
BY DEF Careful, Ids

LEMMA RestoreStep ==
  ASSUME IInv, RestoreSnapshot
  PROVE  IInv' /\ Ids \subseteq Ids'
<1>1. PICK i \in DOMAIN listing :
        /\ IF listing[i] \in files
           THEN Add([title |-> RecoveredRank + listing[i].title, path |-> 0,
                     dirty |-> FALSE, text |-> listing[i].text])
           ELSE UNCHANGED tabs
        /\ UNCHANGED <<box, closing, recovery, steps, began>>
  BY DEF RestoreSnapshot
<1>2. CASE listing[i] \in files
  BY <1>1, <1>2, AddingStep
<1>3. CASE listing[i] \notin files
  <2>1. UNCHANGED <<order, nextId, active, box, closing, began>> /\ active' \in Ids
    BY <1>1, <1>3 DEF tabs, IInv, Ordered
  <2> QED BY <2>1, QuietStep
<1> QED BY <1>2, <1>3

LEMMA RelaunchStep ==
  ASSUME TabsRelaunch
  PROVE  IInv'
<1>1. order' = <<1>> /\ active' = 1 /\ nextId' = 2 /\ box' = 0 /\ closing' = NoLoop
  BY DEF TabsRelaunch
<1>2. Ids' = {1} /\ order' \in Seq(Nat \ {0}) /\ IsInjective(order')
  BY <1>1 DEF Ids, ToSet, IsInjective
<1> QED BY <1>1, <1>2, NoLoopLoops DEF IInv, Ordered

LEMMA ClosingStep ==
  ASSUME IInv, [TabsNext]_tabsVars
  PROVE  IInv' /\ [Careful]_tabsVars
<1>0. active \in Ids
  BY DEF IInv, Ordered
<1>1. CASE NewDocument
  <2>1. Add(Untitled(nextId)) /\ UNCHANGED <<box, closing, began>>
    BY <1>1 DEF NewDocument
  <2> QED BY <2>1, AddingStep, NothingCloses
<1>2. CASE \E path \in Paths : OpenPath(path)
  BY <1>2, OpenStep, NothingCloses
<1>3. CASE Edit \/ Select \/ SaveActive \/ AutoSaveIfDue
  <2>1. UNCHANGED <<order, nextId, box, closing, began>> /\ active' \in Ids
    BY <1>0, <1>3 DEF Edit, Select, SaveActive, AutoSaveIfDue
  <2> QED BY <2>1, QuietStep, NothingCloses
<1>4. CASE TogglePinActive
  BY <1>4, PinStep, NothingCloses
<1>5. CASE SortTabs
  BY <1>5, SortStep, NothingCloses
<1>6. CASE CloseActive
  <2>1. IInv' /\ closing = NoLoop /\ \A id \in Ids \ Ids' : ~docs[id].dirty
    BY <1>6, CloseActiveStep
  <2> QED BY <2>1 DEF Careful, Ids
<1>7. CASE \E direction \in {-1, 0, 1} : CloseRelativeTabs(direction)
  BY <1>7, CloseRelativeStep, NothingCloses
<1>8. CASE CloseNext
  <2>1. IInv' /\ \A id \in Ids \ Ids' : ~docs[id].dirty /\ IsMeant(id)
    BY <1>8, CloseNextStep
  <2> QED BY <2>1 DEF Careful, Ids
<1>9. CASE CloseFinished
  BY <1>9, CloseFinishedStep, NothingCloses
<1>10. CASE AnswerCancel
  BY <1>10, CancelStep, NothingCloses
<1>11. CASE AnswerNo
  <2>1. box # 0 /\ Leaves(box, docs) /\ box' = 0 /\ UNCHANGED <<closing, began>>
    BY <1>11 DEF AnswerNo
  <2>2. IInv' /\ \A id \in Ids \ Ids' : closing # NoLoop => IsMeant(id)
    BY <2>1, AnswerStep
  <2> QED BY <1>11, <2>2 DEF Careful, Ids
<1>12. CASE AnswerYes
  <2>1. PICK saved \in Saved(active) : Leaves(box, saved)
    BY <1>12 DEF AnswerYes
  <2>2. box # 0 /\ box' = 0 /\ UNCHANGED <<closing, began>>
    BY <1>12 DEF AnswerYes
  <2>3. IInv' /\ \A id \in Ids \ Ids' : closing # NoLoop => IsMeant(id)
    BY <2>1, <2>2, AnswerStep
  <2> QED BY <1>12, <2>3 DEF Careful, Ids
<1>13. CASE \/ SaveRecoverySnapshotsIfDue \/ ShowRecoveryManager
            \/ DeleteSnapshot \/ CloseRecoveryManager
  <2>1. UNCHANGED <<order, active, nextId, box, closing, began>>
    BY <1>13 DEF SaveRecoverySnapshotsIfDue, ShowRecoveryManager, DeleteSnapshot,
                 CloseRecoveryManager, tabs
  <2> QED BY <1>0, <2>1, QuietStep, NothingCloses
<1>14. CASE RestoreSnapshot
  BY <1>14, RestoreStep, NothingCloses
<1>15. CASE TabsRelaunch
  BY <1>15, RelaunchStep DEF Careful
<1>16. CASE UNCHANGED tabsVars
  <2>1. UNCHANGED <<order, active, nextId, box, closing, began>>
    BY <1>16 DEF tabsVars, tabs
  <2> QED BY <1>0, <1>16, <2>1, QuietStep
<1> QED BY <1>1, <1>2, <1>3, <1>4, <1>5, <1>6, <1>7, <1>8, <1>9, <1>10, <1>11, <1>12,
           <1>13, <1>14, <1>15, <1>16 DEF TabsNext


-----------------------------------------------------------------------------
(* The snapshots that there can be at a time, and the stores of them: no   *)
(* two files have one name.                                                *)
SnapshotsAt(now) ==
  [name : Nat, ticks : Nat, created : 1 .. now, key : Int, title : Nat,
   text : Texts \cup {FileText}]

HasOneOfEach(F) == \A f, g \in F : (f.name = g.name /\ f.ticks = g.ticks) => f = g

Stores(now) == {F \in SUBSET SnapshotsAt(now) : IsFiniteSet(F) /\ HasOneOfEach(F)}

(* The files of a store are listed in a strict order.                      *)
IsOrdered(F) ==
  /\ \A f \in F : ~IsListedBefore(f, f)
  /\ \A f, g \in F : f # g => IsListedBefore(f, g) \/ IsListedBefore(g, f)
  /\ \A f, g, h \in F : IsListedBefore(f, g) /\ IsListedBefore(g, h) => IsListedBefore(f, h)

LEMMA StoreIsOrdered ==
  ASSUME NEW now \in Nat, NEW F \in Stores(now) PROVE IsOrdered(F)
<1>1. \A f \in F : f.name \in Nat /\ f.ticks \in Nat /\ f.created \in Nat
  BY DEF Stores, SnapshotsAt
<1>2. \A f, g \in F : f # g => f.name # g.name \/ f.ticks # g.ticks
  BY DEF Stores, HasOneOfEach
<1>4. ASSUME NEW f \in F PROVE ~IsListedBefore(f, f)
  BY <1>1 DEF IsListedBefore
<1>5. ASSUME NEW f \in F, NEW g \in F, f # g
      PROVE  IsListedBefore(f, g) \/ IsListedBefore(g, f)
  <2>1. /\ f.name \in Nat /\ f.ticks \in Nat /\ f.created \in Nat
        /\ g.name \in Nat /\ g.ticks \in Nat /\ g.created \in Nat
    BY <1>1
  <2>2. f.name # g.name \/ f.ticks # g.ticks
    BY <1>2, <1>5
  <2> QED
    BY <2>1, <2>2 DEF IsListedBefore
<1>6. ASSUME NEW f \in F, NEW g \in F, NEW h \in F,
             IsListedBefore(f, g), IsListedBefore(g, h)
      PROVE  IsListedBefore(f, h)
  <2>1. /\ f.name \in Nat /\ f.ticks \in Nat /\ f.created \in Nat
        /\ g.name \in Nat /\ g.ticks \in Nat /\ g.created \in Nat
        /\ h.name \in Nat /\ h.ticks \in Nat /\ h.created \in Nat
    BY <1>1
  <2> QED
    BY <1>6, <2>1 DEF IsListedBefore
<1> QED
  BY <1>4, <1>5, <1>6 DEF IsOrdered

(* The places of the files are the numbers up to how many there are.       *)
PlacesOf(F) == [f \in F |-> Place(f, F)]

LEMMA PlacesAreInjective ==
  ASSUME NEW F, IsFiniteSet(F), IsOrdered(F)
  PROVE  PlacesOf(F) \in Injection(F, 1 .. Cardinality(F))
<1> DEFINE Before(f) == {g \in F : IsListedBefore(g, f)}
<1>1. Cardinality(F) \in Nat
  BY FS_CardinalityType
<1>2. ASSUME NEW f \in F
      PROVE  IsFiniteSet(Before(f)) /\ Cardinality(Before(f)) \in Nat
             /\ Place(f, F) = Cardinality(Before(f)) + 1
  <2>1. Before(f) \in SUBSET F
    OBVIOUS
  <2>2. IsFiniteSet(Before(f))
    BY <2>1, FS_Subset
  <2> QED
    BY <2>2, FS_CardinalityType DEF Place
<1>3. ASSUME NEW f \in F PROVE Place(f, F) \in 1 .. Cardinality(F)
  <2>1. Before(f) \in SUBSET F /\ f \notin Before(f)
    BY DEF IsOrdered
  <2>2. Cardinality(Before(f)) <= Cardinality(F) /\ Cardinality(Before(f)) # Cardinality(F)
    BY <2>1, FS_Subset
  <2>3. Cardinality(Before(f)) \in Nat /\ Place(f, F) = Cardinality(Before(f)) + 1
    BY <1>2
  <2> HIDE DEF Before
  <2> QED
    BY <1>1, <2>2, <2>3
<1>4. ASSUME NEW f \in F, NEW g \in F, IsListedBefore(g, f)
      PROVE  Place(g, F) < Place(f, F)
  <2>1. Before(g) \in SUBSET Before(f) /\ g \in Before(f) /\ g \notin Before(g)
    BY <1>4 DEF IsOrdered
  <2>2. /\ Cardinality(Before(g)) <= Cardinality(Before(f))
        /\ Cardinality(Before(g)) # Cardinality(Before(f))
    BY <1>2, <2>1, FS_Subset
  <2>3. /\ Cardinality(Before(f)) \in Nat /\ Place(f, F) = Cardinality(Before(f)) + 1
        /\ Cardinality(Before(g)) \in Nat /\ Place(g, F) = Cardinality(Before(g)) + 1
    BY <1>2
  <2> HIDE DEF Before
  <2> QED
    BY <2>2, <2>3
<1>5. ASSUME NEW f \in F, NEW g \in F, f # g PROVE Place(f, F) # Place(g, F)
  <2>1. Place(f, F) \in Int /\ Place(g, F) \in Int
    BY <1>1, <1>3
  <2>2. Place(f, F) < Place(g, F) \/ Place(g, F) < Place(f, F)
    BY <1>4, <1>5 DEF IsOrdered
  <2> QED
    BY <2>1, <2>2
<1> QED
  BY <1>3, <1>5 DEF PlacesOf, Injection, IsInjective

(* A listing has every file once.                                          *)
LEMMA ListHasFiles ==
  ASSUME NEW F, IsFiniteSet(F), IsOrdered(F)
  PROVE  /\ List(F) \in Seq(F) /\ Len(List(F)) = Cardinality(F)
         /\ ToSet(List(F)) = F /\ IsInjective(List(F))
<1> DEFINE C == Cardinality(F)
           p == PlacesOf(F)
<1>1. C \in Nat
  BY FS_CardinalityType
<1>2. p \in Injection(F, 1 .. C)
  BY PlacesAreInjective
<1>3. IsFiniteSet(1 .. C) /\ Cardinality(1 .. C) = C
  BY <1>1, FS_Interval
<1>4. p \in Surjection(F, 1 .. C)
  BY <1>2, <1>3, FS_Injection
<1>5. /\ \A f \in F : Place(f, F) \in 1 .. C
      /\ \A f, g \in F : Place(f, F) = Place(g, F) => f = g
      /\ \A i \in 1 .. C : \E f \in F : Place(f, F) = i
  <2>1. \A f \in F : p[f] = Place(f, F)
    BY DEF PlacesOf
  <2> HIDE DEF C, p
  <2>2. /\ \A f \in F : p[f] \in 1 .. C
        /\ \A f, g \in F : p[f] = p[g] => f = g
        /\ \A i \in 1 .. C : \E f \in F : p[f] = i
    BY <1>2, <1>4 DEF Injection, Surjection, IsInjective
  <2> QED
    BY <2>1, <2>2
<1> DEFINE s == List(F)
<1>6. s = [i \in 1 .. C |-> CHOOSE f \in F : Place(f, F) = i]
  BY DEF List
<1> HIDE DEF C, p, s
<1>7. \A i \in 1 .. C : s[i] \in F /\ Place(s[i], F) = i
  BY <1>5, <1>6
<1>8. s \in [1 .. C -> F]
  BY <1>6, <1>7
<1>9. s \in Seq(F) /\ Len(s) = C
  BY <1>1, <1>8
<1>10. ToSet(s) = F
  <2>1. \A f \in F : s[Place(f, F)] = f
    BY <1>5, <1>7
  <2> QED
    BY <1>5, <1>8, <2>1 DEF ToSet
<1>11. IsInjective(s)
  BY <1>7, <1>8 DEF IsInjective
<1> QED
  BY <1>9, <1>10, <1>11 DEF s, C

(* Pruning leaves a store, whatever it fails to remove.                    *)
LEMMA PruningIsStore ==
  ASSUME NEW now \in Nat, NEW F \in Stores(now), NEW G \in Prunings(F)
  PROVE  G \in Stores(now) /\ G \subseteq F
<1>1. G \in SUBSET F /\ IsFiniteSet(F) /\ F \in SUBSET SnapshotsAt(now) /\ HasOneOfEach(F)
  BY DEF Prunings, Stores
<1>2. IsFiniteSet(G)
  BY <1>1, FS_Subset
<1> QED
  BY <1>1, <1>2 DEF Stores, HasOneOfEach

(* There always is a number that makes a new name.                         *)
LEMMA TicksAreFree ==
  ASSUME NEW now \in Nat, NEW F, IsFiniteSet(F), NEW name
  PROVE  /\ FreeTicks(F, name, now) \in Nat
         /\ FileAt(name, FreeTicks(F, name, now), F) = {}
<1> DEFINE C == Cardinality(F)
           T == {i \in Nat : i <= C /\ FileAt(name, now + i, F) = {}}
           x == [i \in 0 .. C |-> CHOOSE f \in F : f.name = name /\ f.ticks = now + i]
<1>1. C \in Nat
  BY FS_CardinalityType
<1> HIDE DEF C
<1>2. ASSUME T = {} PROVE FALSE
  <2>1. ASSUME NEW i \in 0 .. C PROVE \E f \in F : f.name = name /\ f.ticks = now + i
    <3>1. i \in Nat /\ i <= C /\ i \notin T
      BY <1>1, <1>2
    <3>2. FileAt(name, now + i, F) # {}
      BY <3>1
    <3> QED
      BY <3>2 DEF FileAt
  <2>2. ASSUME NEW i \in 0 .. C
        PROVE  x[i] \in F /\ x[i].name = name /\ x[i].ticks = now + i
    <3>1. x[i] = CHOOSE f \in F : f.name = name /\ f.ticks = now + i
      OBVIOUS
    <3>2. \E f \in F : f.name = name /\ f.ticks = now + i
      BY <2>1
    <3> HIDE DEF x
    <3> QED
      BY <3>1, <3>2
  <2>3. x \in [0 .. C -> F]
    BY <2>2
  <2>4. x \in Injection(0 .. C, F)
    <3> HIDE DEF x
    <3>1. \A i, j \in 0 .. C : x[i] = x[j] => i = j
      BY <1>1, <2>2
    <3> QED
      BY <2>3, <3>1 DEF Injection, IsInjective
  <2>5. Cardinality(0 .. C) <= C
    <3> HIDE DEF x
    <3> QED
      BY <2>4, FS_Injection DEF C
  <2>6. Cardinality(0 .. C) = C + 1
    <3>1. 0 \in Int /\ C \in Int /\ ~(0 > C)
      BY <1>1
    <3>2. Cardinality(0 .. C) = C - 0 + 1
      BY <3>1, FS_Interval
    <3> QED
      BY <1>1, <3>2
  <2> QED
    BY <1>1, <2>5, <2>6
<1>3. PICK m \in T : \A k \in T : m <= k
  <2>1. T \in SUBSET Nat
    OBVIOUS
  <2> QED
    BY <1>2, <2>1, Smallest
<1> DEFINE IsFree(t) == /\ FileAt(name, t, F) = {}
                        /\ \A earlier \in now .. t - 1 : FileAt(name, earlier, F) # {}
<1>4. now + m \in now .. now + C /\ IsFree(now + m)
  <2>1. m \in Nat /\ m <= C /\ FileAt(name, now + m, F) = {}
    BY <1>3
  <2>2. ASSUME NEW t \in now .. (now + m) - 1 PROVE FileAt(name, t, F) # {}
    <3>1. t - now \in Nat /\ t - now < m /\ now + (t - now) = t
      BY <2>1
    <3>2. t - now \notin T
      BY <1>3, <2>1, <3>1
    <3> QED
      BY <1>1, <2>1, <3>1, <3>2
  <2> QED
    BY <1>1, <2>1, <2>2
<1>5. FreeTicks(F, name, now) = CHOOSE t \in now .. now + C : IsFree(t)
  BY DEF FreeTicks, C
<1> HIDE DEF IsFree
<1>6. FreeTicks(F, name, now) \in now .. now + C /\ IsFree(FreeTicks(F, name, now))
  BY <1>4, <1>5
<1> QED
  BY <1>1, <1>6 DEF IsFree

(* The files that were written now; they are the first in the list.        *)
Recent(F, now) == {f \in F : f.created = now}

LEMMA RecentIsKept ==
  ASSUME NEW now \in Nat, NEW F \in Stores(now), Cardinality(Recent(F, now)) <= Retention,
         NEW G \in Prunings(F)
  PROVE  Recent(F, now) \subseteq G
<1> SUFFICES ASSUME NEW f \in Recent(F, now) PROVE ~(Place(f, F) > Retention)
  BY DEF Prunings, Recent
<1> DEFINE Before == {g \in F : IsListedBefore(g, f)}
           R == Recent(F, now)
<1>1. IsFiniteSet(F) /\ IsOrdered(F) /\ F \in SUBSET SnapshotsAt(now)
  BY StoreIsOrdered DEF Stores
<1>2. R \in SUBSET F /\ f \in F /\ f.created = now /\ f \in R
  BY DEF Recent
<1>3. IsFiniteSet(R) /\ Cardinality(R) \in Nat
  BY <1>1, <1>2, FS_Subset, FS_CardinalityType
<1>4. Before \in SUBSET R
  <2> SUFFICES ASSUME NEW g \in F, IsListedBefore(g, f) PROVE g.created = now
    BY DEF Recent
  <2>1. g.created \in 1 .. now
    BY <1>1 DEF SnapshotsAt
  <2> QED
    BY <1>2, <2>1 DEF IsListedBefore
<1>5. f \notin Before
  BY <1>1, <1>2 DEF IsOrdered
<1>6. /\ IsFiniteSet(Before) /\ Cardinality(Before) <= Cardinality(R)
      /\ Cardinality(Before) # Cardinality(R)
  <2> HIDE DEF Before, R
  <2> QED
    BY <1>2, <1>3, <1>4, <1>5, FS_Subset
<1>7. Cardinality(Before) \in Nat
  BY <1>6, FS_CardinalityType
<1>8. Place(f, F) = Cardinality(Before) + 1
  BY DEF Place
<1> HIDE DEF Before
<1> QED
  BY <1>3, <1>6, <1>7, <1>8, RetentionAssumption DEF R

(* A snapshot is written: it is kept, with those that were written now, if *)
(* they are no more than can be kept.                                      *)
IsSaved(F, G, key, text, now) ==
  /\ G \in Stores(now)
  /\ Cardinality(Recent(F, now)) < Retention =>
       /\ Cardinality(Recent(G, now)) <= Cardinality(Recent(F, now)) + 1
       /\ Recent(F, now) \subseteq Recent(G, now)
       /\ \E g \in Recent(G, now) : g.key = key /\ g.text = text

LEMMA SnapshotIsSaved ==
  ASSUME NEW now \in Nat \ {0}, NEW F \in Stores(now), NEW key \in Int, SafeName[key] \in Nat,
         NEW title \in Nat, NEW text \in Texts \cup {FileText},
         NEW G \in SaveSnapshot(F, key, title, text, now)
  PROVE  IsSaved(F, G, key, text, now)
<1> DEFINE name  == SafeName[key]
           ticks == FreeTicks(F, name, now)
           new   == [name |-> name, ticks |-> ticks, created |-> now,
                     key |-> key, title |-> title, text |-> text]
           H == F \cup {new}
<1>1. F \in SUBSET SnapshotsAt(now) /\ IsFiniteSet(F) /\ HasOneOfEach(F)
  BY DEF Stores
<1>2. ticks \in Nat /\ FileAt(name, ticks, F) = {}
  <2> HIDE DEF name
  <2> QED
    BY <1>1, TicksAreFree
<1>3. G \in Prunings(H)
  BY <1>2 DEF SaveSnapshot
<1>4. new \in SnapshotsAt(now) /\ new.name = name /\ new.ticks = ticks /\ new.created = now
        /\ new.key = key /\ new.text = text
  BY <1>2 DEF SnapshotsAt
<1> HIDE DEF new, ticks, name
<1>5. \A f \in F : ~(f.name = name /\ f.ticks = ticks)
  BY <1>2 DEF FileAt
<1>6. H \in Stores(now)
  <2>1. IsFiniteSet(H)
    BY <1>1, FS_AddElement
  <2>2. HasOneOfEach(H)
    BY <1>1, <1>4, <1>5 DEF HasOneOfEach
  <2> QED
    BY <1>1, <1>4, <2>1, <2>2 DEF Stores
<1>7. G \in Stores(now) /\ G \subseteq H
  BY <1>3, <1>6, PruningIsStore
<1>8. Recent(H, now) = Recent(F, now) \cup {new} /\ new \notin Recent(F, now)
  BY <1>4, <1>5 DEF Recent
<1>9. IsFiniteSet(Recent(F, now)) /\ Cardinality(Recent(F, now)) \in Nat
  <2>1. Recent(F, now) \in SUBSET F
    BY DEF Recent
  <2> QED
    BY <1>1, <2>1, FS_Subset, FS_CardinalityType
<1>10. Cardinality(Recent(H, now)) = Cardinality(Recent(F, now)) + 1
  BY <1>8, <1>9, FS_AddElement
<1>11. ASSUME Cardinality(Recent(F, now)) < Retention
       PROVE  Recent(G, now) = Recent(H, now)
  <2>1. Cardinality(Recent(H, now)) <= Retention
    BY <1>9, <1>10, <1>11, RetentionAssumption
  <2>2. Recent(H, now) \subseteq G
    BY <1>3, <1>6, <2>1, RecentIsKept
  <2> QED
    BY <1>7, <2>2 DEF Recent
<1>12. new \in Recent(H, now) /\ Recent(F, now) \subseteq Recent(H, now)
  BY <1>8
<1> HIDE DEF H
<1>13. ASSUME Cardinality(Recent(F, now)) < Retention
       PROVE  /\ Cardinality(Recent(G, now)) <= Cardinality(Recent(F, now)) + 1
              /\ Recent(F, now) \subseteq Recent(G, now)
              /\ \E g \in Recent(G, now) : g.key = key /\ g.text = text
  <2>1. Recent(G, now) = Recent(H, now)
    BY <1>11, <1>13
  <2>2. Cardinality(Recent(G, now)) <= Cardinality(Recent(F, now)) + 1
    BY <1>9, <1>10, <2>1
  <2> QED
    BY <1>4, <1>12, <2>1, <2>2
<1> QED
  BY <1>7, <1>13 DEF IsSaved

(* What can be written of the documents.                                   *)
Storable ==
  \A id \in Ids : /\ Key(id) \in Int /\ SafeName[Key(id)] \in Nat
                  /\ docs[id].title \in Nat /\ docs[id].text \in Texts \cup {FileText}

LEMMA TakenIsStore ==
  ASSUME NEW now \in Nat \ {0}, NEW F \in Stores(now), Storable, NEW id \in Ids, NEW wrote,
         NEW G \in SnapshotTaken(F, id, wrote, now)
  PROVE  /\ G \in Stores(now)
         /\ id \notin wrote => G = F
         /\ id \in wrote => IsSaved(F, G, Key(id), docs[id].text, now)
<1>1. CASE id \notin wrote
  BY <1>1 DEF SnapshotTaken
<1>2. CASE id \in wrote
  <2>1. /\ Key(id) \in Int /\ SafeName[Key(id)] \in Nat
        /\ docs[id].title \in Nat /\ docs[id].text \in Texts \cup {FileText}
    BY DEF Storable
  <2>2. G \in SaveSnapshot(F, Key(id), docs[id].title, docs[id].text, now)
    BY <1>2 DEF SnapshotTaken
  <2>3. IsSaved(F, G, Key(id), docs[id].text, now)
    BY <2>1, <2>2, SnapshotIsSaved
  <2> QED
    BY <1>2, <2>3 DEF IsSaved
<1> QED
  BY <1>1, <1>2

(* What the directory may be after each document.                          *)
TakenFrom(X, n, wrote, now) == UNION {SnapshotTaken(F, order[n], wrote, now) : F \in X}

Taking(f, wrote, now) ==
  f[0] = {files} /\ \A n \in 1 .. Len(order) : f[n] = TakenFrom(f[n - 1], n, wrote, now)

LEMMA SnapshotsAreTaken ==
  ASSUME NEW now \in Nat \ {0}, files \in Stores(now), order \in Seq(Nat), Storable, NEW wrote
  PROVE  \E f \in [0 .. Len(order) -> SUBSET Stores(now)] :
           Taking(f, wrote, now) /\ SnapshotsTaken(wrote, now) = f[Len(order)]
<1> DEFINE next(n, X) == UNION {SnapshotTaken(F, order[n], wrote, now) : F \in X}
           IsIt(g) == g = [n \in 0 .. Len(order) |->
                             IF n = 0 THEN {files} ELSE next(n, g[n - 1])]
           Directories == SUBSET Stores(now)
           step == [p \in (1 .. Len(order)) \X Directories |-> next(p[1], p[2])]
           h == CHOOSE g : IsIt(g)
<1>1. Len(order) \in Nat /\ {files} \in Directories
  OBVIOUS
<1>2. ASSUME NEW n \in 1 .. Len(order), NEW X \in Directories PROVE next(n, X) \in Directories
  <2>1. order[n] \in Ids
    BY DEF Ids, ToSet
  <2>2. ASSUME NEW F \in X, NEW G \in SnapshotTaken(F, order[n], wrote, now)
        PROVE  G \in Stores(now)
    BY <2>1, TakenIsStore
  <2> QED
    BY <2>2
<1>3. SnapshotsTaken(wrote, now) = h[Len(order)]
  BY DEF SnapshotsTaken
<1> HIDE DEF next, Directories
<1>4. /\ step \in [(1 .. Len(order)) \X Directories -> Directories]
      /\ \A n \in 1 .. Len(order), X \in Directories : step[<<n, X>>] = next(n, X)
  BY <1>2
<1> HIDE DEF step
<1>5. PICK f \in [0 .. Len(order) -> Directories] : Recursive(f, {files}, step, Len(order))
  BY <1>1, <1>4, Recursion
<1>6. IsIt(f)
  <2>1. ASSUME NEW n \in 0 .. Len(order)
        PROVE  f[n] = IF n = 0 THEN {files} ELSE next(n, f[n - 1])
    <3>1. CASE n = 0
      BY <1>5, <3>1 DEF Recursive
    <3>2. CASE n # 0
      <4>1. n \in 1 .. Len(order) /\ n - 1 \in 0 .. Len(order)
        BY <1>1, <3>2
      <4>2. f[n - 1] \in Directories /\ f[n] = step[<<n, f[n - 1]>>]
        BY <1>5, <4>1 DEF Recursive
      <4> QED
        BY <1>4, <3>2, <4>1, <4>2, Zenon
    <3> QED
      BY <3>1, <3>2
  <2> QED
    BY <2>1
<1>7. IsIt(h)
  <2> HIDE DEF IsIt
  <2> QED
    BY <1>6, Zenon
<1> HIDE DEF h
<1>8. h = [n \in 0 .. Len(order) |-> h[n]] /\ h[0] = {files}
  BY <1>1, <1>7
<1>9. ASSUME NEW n \in 1 .. Len(order) PROVE h[n] = next(n, h[n - 1])
  <2>1. n \in 0 .. Len(order) /\ n # 0
    BY <1>1
  <2> QED
    BY <1>7, <2>1
<1> HIDE DEF IsIt
<1>10. StepsFrom(h, {files}, step, Len(order), Directories)
  BY <1>4, <1>8, <1>9 DEF StepsFrom
<1>11. h \in [0 .. Len(order) -> Directories]
  BY <1>1, <1>4, <1>10, RecursionStays
<1>12. Taking(h, wrote, now)
  BY <1>8, <1>9 DEF Taking, TakenFrom, next
<1> QED
  BY <1>3, <1>11, <1>12 DEF Directories

(* After n documents: what was written of them is kept.                    *)
IdsUpTo(n) == {order[i] : i \in 1 .. n}

KeptUpTo(n, F, wrote, now) ==
  /\ Cardinality(Recent(F, now)) <= Cardinality(IdsUpTo(n) \cap wrote)
  /\ \A id \in IdsUpTo(n) \cap wrote :
       \E g \in Recent(F, now) : g.key = Key(id) /\ g.text = docs[id].text

LEMMA OneMoreIsKept ==
  ASSUME NEW now \in Nat \ {0}, order \in Seq(Nat), IsInjective(order), Storable,
         NEW wrote \in SUBSET Ids, IsFiniteSet(wrote), Cardinality(wrote) <= Retention,
         NEW n \in 1 .. Len(order), NEW F \in Stores(now), KeptUpTo(n - 1, F, wrote, now),
         NEW G \in SnapshotTaken(F, order[n], wrote, now)
  PROVE  KeptUpTo(n, G, wrote, now)
<1> DEFINE W == IdsUpTo(n - 1) \cap wrote
           V == IdsUpTo(n) \cap wrote
           id == order[n]
<1>1. n \in Nat /\ id \in Ids /\ \A i \in 1 .. Len(order) : order[i] = id => i = n
  BY DEF Ids, ToSet, IsInjective
<1>2. IdsUpTo(n) = IdsUpTo(n - 1) \cup {id} /\ id \notin IdsUpTo(n - 1)
  <2>1. 1 .. n = (1 .. n - 1) \cup {n} /\ \A i \in 1 .. n - 1 : i \in 1 .. Len(order) /\ i # n
    BY <1>1
  <2> QED
    BY <1>1, <2>1 DEF IdsUpTo
<1>3. V = IF id \in wrote THEN W \cup {id} ELSE W
  BY <1>2
<1>4. id \notin W /\ W \in SUBSET wrote /\ V \in SUBSET wrote
  BY <1>2
<1>5. /\ IsFiniteSet(W) /\ IsFiniteSet(V) /\ Cardinality(W) \in Nat /\ Cardinality(V) \in Nat
      /\ Cardinality(V) <= Cardinality(wrote) /\ Cardinality(wrote) \in Nat
  <2> HIDE DEF W, V
  <2> QED
    BY <1>4, FS_Subset, FS_CardinalityType
<1>6. /\ Cardinality(Recent(F, now)) <= Cardinality(W)
      /\ \A a \in W : \E g \in Recent(F, now) : g.key = Key(a) /\ g.text = docs[a].text
  BY DEF KeptUpTo
<1>7. IsFiniteSet(Recent(F, now)) /\ Cardinality(Recent(F, now)) \in Nat
  <2>1. Recent(F, now) \in SUBSET F /\ IsFiniteSet(F)
    BY DEF Recent, Stores
  <2> QED
    BY <2>1, FS_Subset, FS_CardinalityType
<1>8. /\ Cardinality(Recent(G, now)) <= Cardinality(V)
      /\ \A a \in V : \E g \in Recent(G, now) : g.key = Key(a) /\ g.text = docs[a].text
  <2>1. CASE id \notin wrote
    <3>1. G = F
      BY <2>1 DEF SnapshotTaken
    <3> HIDE DEF W, V
    <3> QED
      BY <1>3, <1>6, <2>1, <3>1
  <2>2. CASE id \in wrote
    <3>1. IsSaved(F, G, Key(id), docs[id].text, now)
      BY <1>1, <2>2, TakenIsStore
    <3> HIDE DEF W, V, id
    <3>2. Cardinality(V) = Cardinality(W) + 1
      BY <1>3, <1>4, <1>5, <2>2, FS_AddElement
    <3>3. Cardinality(Recent(F, now)) < Retention
      BY <1>5, <1>6, <1>7, <3>2, RetentionAssumption
    <3>4. /\ Cardinality(Recent(G, now)) <= Cardinality(Recent(F, now)) + 1
          /\ Recent(F, now) \subseteq Recent(G, now)
          /\ \E g \in Recent(G, now) : g.key = Key(id) /\ g.text = docs[id].text
      BY <3>1, <3>3 DEF IsSaved
    <3>5. Cardinality(Recent(G, now)) \in Nat
      <4>1. G \in Stores(now) /\ Recent(G, now) \in SUBSET G
        BY <3>1 DEF IsSaved, Recent
      <4>2. IsFiniteSet(G)
        BY <4>1 DEF Stores
      <4> QED
        BY <4>1, <4>2, FS_Subset, FS_CardinalityType
    <3>6. Cardinality(Recent(G, now)) <= Cardinality(V)
      BY <1>5, <1>6, <1>7, <3>2, <3>4, <3>5
    <3>7. ASSUME NEW a \in V
          PROVE  \E g \in Recent(G, now) : g.key = Key(a) /\ g.text = docs[a].text
      <4>1. CASE a = id
        BY <3>4, <4>1
      <4>2. CASE a \in W
        BY <1>6, <3>4, <4>2
      <4> QED
        BY <1>3, <2>2, <4>1, <4>2
    <3> QED
      BY <3>6, <3>7
  <2> QED
    BY <2>1, <2>2
<1> QED
  BY <1>8 DEF KeptUpTo

(* All documents that were written are in the store, if it can keep them.  *)
LEMMA TickKeeps ==
  ASSUME NEW now \in Nat \ {0}, files \in Stores(now - 1),
         order \in Seq(Nat), IsInjective(order), Storable,
         NEW wrote \in SUBSET Ids, NEW G \in SnapshotsTaken(wrote, now)
  PROVE  /\ G \in Stores(now)
         /\ Cardinality(wrote) <= Retention =>
              \A id \in wrote : \E g \in G : g.key = Key(id) /\ g.text = docs[id].text
<1> DEFINE N == Len(order)
<1>1. N \in Nat /\ now - 1 \in Nat /\ (now - 1) + 1 = now
  OBVIOUS
<1>2. files \in Stores(now) /\ Recent(files, now) = {}
  <2>1. files \in SUBSET SnapshotsAt(now - 1) /\ IsFiniteSet(files) /\ HasOneOfEach(files)
    BY DEF Stores
  <2>2. \A f \in files : f \in SnapshotsAt(now) /\ f.created # now
    <3>1. \A c \in 1 .. now - 1 : c \in 1 .. now /\ c # now
      OBVIOUS
    <3> QED
      BY <2>1, <3>1 DEF SnapshotsAt
  <2> QED
    BY <2>1, <2>2 DEF Stores, Recent
<1>3. PICK f \in [0 .. N -> SUBSET Stores(now)] :
        Taking(f, wrote, now) /\ SnapshotsTaken(wrote, now) = f[N]
  BY <1>2, SnapshotsAreTaken
<1>4. \A n \in 1 .. N : /\ f[n - 1] \in SUBSET Stores(now)
                        /\ f[n] = TakenFrom(f[n - 1], n, wrote, now)
  <2>1. \A n \in 1 .. N : n - 1 \in 0 .. N
    BY <1>1
  <2> QED
    BY <1>3, <2>1 DEF Taking
<1>5. G \in f[N] /\ G \in Stores(now) /\ f[0] = {files}
  BY <1>1, <1>3 DEF Taking
<1>7. IsFiniteSet(wrote)
  <2>1. order \in Surjection(1 .. N, Ids)
    BY DEF Surjection, Ids, ToSet
  <2>2. IsFiniteSet(1 .. N)
    BY <1>1, FS_Interval
  <2>3. IsFiniteSet(Ids)
    BY <2>1, <2>2, FS_Surjection
  <2> QED
    BY <2>3, FS_Subset
<1>8. ASSUME Cardinality(wrote) <= Retention
      PROVE  \A F \in f[N] : KeptUpTo(N, F, wrote, now)
  <2> DEFINE S == {n \in Nat : n <= N => \A F \in f[n] : KeptUpTo(n, F, wrote, now)}
  <2>1. 0 \in S
    <3>1. IdsUpTo(0) = {}
      BY DEF IdsUpTo
    <3>2. Cardinality({}) = 0
      BY FS_EmptySet
    <3> QED
      BY <1>2, <1>5, <3>1, <3>2 DEF KeptUpTo
  <2>2. ASSUME NEW n \in Nat, n \in S PROVE n + 1 \in S
    <3> SUFFICES ASSUME n + 1 <= N, NEW H \in f[n + 1] PROVE KeptUpTo(n + 1, H, wrote, now)
      OBVIOUS
    <3>1. n + 1 \in 1 .. N /\ (n + 1) - 1 = n /\ n <= N
      BY <1>1
    <3>2. f[n] \in SUBSET Stores(now) /\ H \in TakenFrom(f[n], n + 1, wrote, now)
      BY <1>4, <3>1
    <3>3. PICK F \in f[n] : H \in SnapshotTaken(F, order[n + 1], wrote, now)
      BY <3>2 DEF TakenFrom
    <3>4. KeptUpTo((n + 1) - 1, F, wrote, now) /\ F \in Stores(now)
      BY <2>2, <3>1, <3>2
    <3> QED
      BY <1>7, <1>8, <3>1, <3>3, <3>4, OneMoreIsKept
  <2>3. Nat \subseteq S
    <3> HIDE DEF S
    <3> QED
      BY <2>1, <2>2, Induction
  <2> QED
    BY <1>1, <2>3
<1>9. ASSUME Cardinality(wrote) <= Retention, NEW id \in wrote
      PROVE  \E g \in G : g.key = Key(id) /\ g.text = docs[id].text
  <2>1. id \in IdsUpTo(N)
    BY DEF IdsUpTo, Ids, ToSet
  <2> QED
    BY <1>5, <1>8, <1>9, <2>1 DEF KeptUpTo, Recent
<1> QED
  BY <1>5, <1>9

-----------------------------------------------------------------------------
(* The recovery directory: a store of the clock's time that has what the   *)
(* last tick wrote.                                                        *)
StoreInv ==
  /\ clock \in 0 .. MaxClock
  /\ files \in Stores(clock)
  /\ listing \in Seq(SnapshotsAt(clock))
  /\ lastTick \subseteq [key : Int, text : Texts \cup {FileText}]
  /\ TickIsRecoverable

(* The documents of the tabs, the pins, and the tab that a loop keeps.     *)
DocumentsInv ==
  /\ docs \in [Ids -> DocumentRecords] /\ pinned \subseteq Ids
  /\ nextId <= MaxId + 1

LEMMA StoreInvInit == TabsInit => StoreInv
<1> SUFFICES ASSUME TabsInit PROVE StoreInv
  OBVIOUS
<1>1. files = {} /\ clock = 0 /\ listing = <<>> /\ lastTick = {}
  BY DEF TabsInit
<1>2. {} \in Stores(0)
  BY FS_EmptySet DEF Stores, HasOneOfEach
<1>4. <<>> \in Seq(SnapshotsAt(0))
  BY EmptySeq
<1> QED
  BY <1>1, <1>2, <1>4, TabsAssumption DEF StoreInv, TickIsRecoverable

(* Snapshots of a time are those of a later one too.                       *)
LEMMA SnapshotsGrow ==
  ASSUME NEW now \in Nat
  PROVE  SnapshotsAt(now) \subseteq SnapshotsAt(now + 1)
<1>1. \A c \in 1 .. now : c \in 1 .. now + 1
  OBVIOUS
<1> QED
  BY <1>1 DEF SnapshotsAt

LEMMA DocumentsAreStorable ==
  ASSUME Ordered, DocumentsInv PROVE Storable
<1> SUFFICES ASSUME NEW id \in Ids
             PROVE  /\ Key(id) \in Int /\ SafeName[Key(id)] \in Nat
                    /\ docs[id].title \in Nat /\ docs[id].text \in Texts \cup {FileText}
  BY DEF Storable
<1>1. id \in Nat \ {0} /\ id < nextId /\ nextId <= MaxId + 1 /\ nextId \in Nat
  BY Positive DEF Ordered, DocumentsInv
<1>2. docs[id] \in DocumentRecords
  BY DEF DocumentsInv
<1>3. /\ docs[id].path \in Paths \cup {0} /\ docs[id].title \in Nat
      /\ docs[id].text \in Texts \cup {FileText}
  BY <1>2 DEF DocumentRecords
<1>4. Key(id) \in (-MaxId .. -1) \cup Paths
  <2>1. CASE docs[id].path = 0
    <3>1. -id \in -MaxId .. -1
      BY <1>1, TabsAssumption
    <3> QED
      BY <2>1, <3>1 DEF Key
  <2>2. CASE docs[id].path # 0
    BY <1>3, <2>2 DEF Key
  <2> QED
    BY <2>1, <2>2
<1>5. Key(id) \in Int
  <2>1. \A x \in -MaxId .. -1 : x \in Int
    BY TabsAssumption
  <2>2. \A x \in Paths : x \in Int
    BY PathsAssumption
  <2> QED
    BY <1>4, <2>1, <2>2
<1> QED
  BY <1>3, <1>4, <1>5, TabsAssumption

LEMMA TickStep ==
  ASSUME Ordered, DocumentsInv, StoreInv, SaveRecoverySnapshotsIfDue
  PROVE  StoreInv'
<1> DEFINE now == clock + 1
<1>1. clock < MaxClock /\ clock' = now /\ clock \in Nat /\ now \in Nat \ {0} /\ now - 1 = clock
      /\ now \in 0 .. MaxClock /\ UNCHANGED listing
  BY TabsAssumption DEF SaveRecoverySnapshotsIfDue, StoreInv
<1>2. PICK wrote \in SUBSET Ids :
        /\ files' \in SnapshotsTaken(wrote, now)
        /\ lastTick' = IF Cardinality(wrote) > Retention THEN {}
                       ELSE {[key |-> Key(id), text |-> docs[id].text] : id \in wrote}
  BY <1>1 DEF SaveRecoverySnapshotsIfDue
<1>3. Storable
  BY DocumentsAreStorable
<1> HIDE DEF now
<1>4. files \in Stores(now - 1)
  BY <1>1 DEF StoreInv
<1>5. order \in Seq(Nat) /\ IsInjective(order)
  <2>1. order \in Seq(Nat \ {0}) /\ IsInjective(order)
    BY DEF Ordered
  <2> QED
    BY <2>1
<1>6. /\ files' \in Stores(now)
      /\ Cardinality(wrote) <= Retention =>
           \A id \in wrote : \E g \in files' : g.key = Key(id) /\ g.text = docs[id].text
  BY <1>1, <1>2, <1>3, <1>4, <1>5, TickKeeps
<1>7. listing' \in Seq(SnapshotsAt(now))
  <2>1. listing \in Seq(SnapshotsAt(clock)) /\ SnapshotsAt(clock) \subseteq SnapshotsAt(now)
    BY <1>1, SnapshotsGrow DEF StoreInv, now
  <2> QED
    BY <1>1, <2>1
<1>8. lastTick' \subseteq [key : Int, text : Texts \cup {FileText}]
  <2>1. \A id \in wrote : Key(id) \in Int /\ docs[id].text \in Texts \cup {FileText}
    BY <1>3 DEF Storable
  <2> QED
    BY <1>2, <2>1
<1>9. \A snapshot \in lastTick' : \E f \in files' : f.key = snapshot.key /\ f.text = snapshot.text
  <2>1. CASE Cardinality(wrote) > Retention
    BY <1>2, <2>1
  <2>2. CASE ~(Cardinality(wrote) > Retention)
    <3>1. Cardinality(wrote) <= Retention
      <4>1. order \in Surjection(1 .. Len(order), Ids) /\ Len(order) \in Nat
        BY <1>5 DEF Surjection, Ids, ToSet
      <4>2. IsFiniteSet(1 .. Len(order))
        BY <4>1, FS_Interval
      <4>3. IsFiniteSet(Ids)
        BY <4>1, <4>2, FS_Surjection
      <4>4. Cardinality(wrote) \in Nat
        BY <4>3, FS_Subset, FS_CardinalityType
      <4> QED
        BY <2>2, <4>4, RetentionAssumption
    <3>2. ASSUME NEW snapshot \in lastTick'
          PROVE  \E f \in files' : f.key = snapshot.key /\ f.text = snapshot.text
      <4>1. PICK id \in wrote : snapshot = [key |-> Key(id), text |-> docs[id].text]
        BY <1>2, <2>2
      <4>2. snapshot.key = Key(id) /\ snapshot.text = docs[id].text
        BY <4>1
      <4> QED
        BY <1>6, <3>1, <4>2
    <3> QED
      BY <3>2
  <2> QED
    BY <2>1, <2>2
<1> QED
  BY <1>1, <1>6, <1>7, <1>8, <1>9 DEF StoreInv, TickIsRecoverable

LEMMA DeleteStep ==
  ASSUME StoreInv, DeleteSnapshot
  PROVE  StoreInv'
<1>1. PICK i \in DOMAIN listing :
        /\ listing[i] \in files
        /\ listing' = RemoveAt(listing, i)
        /\ files' = files \ {listing[i]}
        /\ lastTick' = lastTick \ {[key |-> listing[i].key, text |-> listing[i].text]}
        /\ UNCHANGED clock
  BY DEF DeleteSnapshot
<1> DEFINE x == listing[i]
<1>2. listing' \in Seq(SnapshotsAt(clock))
  <2>1. listing \in Seq(SnapshotsAt(clock)) /\ i \in 1 .. Len(listing)
    BY DEF StoreInv
  <2> QED
    BY <1>1, <2>1, WithoutOne
<1> HIDE DEF x
<1>3. files' = files \ {x} /\ lastTick' = lastTick \ {[key |-> x.key, text |-> x.text]}
      /\ files \in Stores(clock)
  BY <1>1 DEF x, StoreInv
<1>4. files' \in Stores(clock)
  <2>1. IsFiniteSet(files \ {x})
    BY <1>3, FS_Subset DEF Stores
  <2> QED
    BY <1>3, <2>1 DEF Stores, HasOneOfEach
<1>5. ASSUME NEW snapshot \in lastTick'
      PROVE  \E f \in files' : f.key = snapshot.key /\ f.text = snapshot.text
  <2>1. PICK f \in files : f.key = snapshot.key /\ f.text = snapshot.text
    BY <1>3 DEF StoreInv, TickIsRecoverable
  <2>2. snapshot \in [key : Int, text : Texts \cup {FileText}]
    BY <1>3 DEF StoreInv
  <2>3. f # x
    BY <1>3, <2>1, <2>2
  <2> QED
    BY <1>3, <2>1, <2>3
<1>6. lastTick' \subseteq [key : Int, text : Texts \cup {FileText}] /\ clock' = clock
  BY <1>1 DEF StoreInv
<1> QED
  BY <1>2, <1>4, <1>5, <1>6 DEF StoreInv, TickIsRecoverable

LEMMA StoreStays ==
  ASSUME StoreInv, UNCHANGED recovery, listing' \in {<<>>, listing}
  PROVE  StoreInv'
<1>1. <<>> \in Seq(SnapshotsAt(clock))
  BY EmptySeq
<1>2. UNCHANGED <<files, clock, lastTick>>
  BY DEF recovery
<1> QED
  BY <1>1, <1>2 DEF StoreInv, TickIsRecoverable

LEMMA ShowStep ==
  ASSUME StoreInv, ShowRecoveryManager
  PROVE  StoreInv'
<1>1. files \in Stores(clock) /\ clock \in Nat /\ listing' = List(files) /\ UNCHANGED recovery
  BY TabsAssumption DEF StoreInv, ShowRecoveryManager
<1>2. List(files) \in Seq(files)
  BY <1>1, StoreIsOrdered, ListHasFiles DEF Stores
<1>3. List(files) \in Seq(SnapshotsAt(clock))
  BY <1>1, <1>2 DEF Stores
<1>4. UNCHANGED <<files, clock, lastTick>>
  BY <1>1 DEF recovery
<1> QED
  BY <1>1, <1>3, <1>4 DEF StoreInv, TickIsRecoverable

LEMMA StoreStep ==
  ASSUME Ordered, DocumentsInv, StoreInv, TabsNext
  PROVE  StoreInv'
<1>1. CASE \/ NewDocument \/ \E path \in Paths : OpenPath(path)
           \/ Edit \/ Select \/ SaveActive \/ AutoSaveIfDue
           \/ TogglePinActive \/ SortTabs
           \/ CloseActive \/ \E direction \in {-1, 0, 1} : CloseRelativeTabs(direction)
           \/ CloseNext \/ CloseFinished
           \/ AnswerCancel \/ AnswerNo \/ AnswerYes
  <2>1. UNCHANGED <<listing, recovery>>
    BY <1>1, Zenon DEF NewDocument, OpenPath, Edit, Select, SaveActive, AutoSaveIfDue,
         TogglePinActive, SortTabs, CloseActive, CloseRelativeTabs, CloseNext, CloseFinished,
         AnswerCancel, AnswerNo, AnswerYes
  <2> QED
    BY <2>1, StoreStays
<1>2. CASE RestoreSnapshot \/ CloseRecoveryManager \/ TabsRelaunch
  <2>1. UNCHANGED recovery /\ listing' = <<>>
    BY <1>2, Zenon DEF RestoreSnapshot, CloseRecoveryManager, TabsRelaunch
  <2> QED
    BY <2>1, StoreStays
<1> QED
  BY <1>1, <1>2, TickStep, DeleteStep, ShowStep DEF TabsNext

-----------------------------------------------------------------------------
(* The documents and the pins.                                             *)

LEMMA UntitledIsRecord == ASSUME NEW id \in Nat PROVE Untitled(id) \in DocumentRecords
<1>1. UntitledRank + id \in Nat
  BY DEF UntitledRank
<1> QED
  BY <1>1 DEF Untitled, DocumentRecords

LEMMA DocumentsInit == TabsInit => DocumentsInv
<1> SUFFICES ASSUME TabsInit PROVE DocumentsInv
  OBVIOUS
<1>1. Ids = {1} /\ docs = [id \in {1} |-> Untitled(1)] /\ pinned = {} /\ nextId = 2
  BY DEF TabsInit, Ids, ToSet
<1>2. Untitled(1) \in DocumentRecords
  BY UntitledIsRecord
<1>3. 2 <= MaxId + 1
  BY TabsAssumption
<1> QED
  BY <1>1, <1>2, <1>3 DEF DocumentsInv

(* The tabs stay, their documents are changed.                             *)
LEMMA DocumentsStay ==
  ASSUME DocumentsInv, UNCHANGED <<order, nextId>>, pinned' \subseteq Ids,
         docs' \in [Ids -> DocumentRecords]
  PROVE  DocumentsInv'
BY DEF DocumentsInv, Ids

LEMMA DocumentAdded ==
  ASSUME Ordered, DocumentsInv, NEW STATE document, document \in DocumentRecords,
         Add(document), UNCHANGED box
  PROVE  DocumentsInv'
<1>1. Ids' = Ids \cup {nextId}
  BY Adding
<1>2. /\ nextId <= MaxId /\ nextId' = nextId + 1 /\ UNCHANGED pinned
      /\ docs' = [id \in Ids \cup {nextId} |-> IF id = nextId THEN document ELSE docs[id]]
  BY DEF Add
<1>3. nextId' <= MaxId + 1
  BY <1>2, TabsAssumption DEF Ordered
<1>4. docs' \in [Ids' -> DocumentRecords]
  BY <1>1, <1>2 DEF DocumentsInv
<1> QED
  BY <1>1, <1>2, <1>3, <1>4 DEF DocumentsInv

LEMMA DocumentLeft ==
  ASSUME Ordered, DocumentsInv, NEW STATE id, id \in Ids, NEW STATE documents,
         documents \in [Ids -> DocumentRecords], Leaves(id, documents)
  PROVE  DocumentsInv'
<1>1. order \in Seq(Nat \ {0}) /\ IsInjective(order) /\ nextId \in Nat \ {0}
      /\ pinned' = pinned \ {id} /\ pinned \subseteq Ids /\ nextId <= MaxId + 1
  BY DEF Ordered, DocumentsInv, Leaves
<1>2. CASE /\ Ids \ {id} # {}
           /\ order' = RemoveAt(order, Index(id, order))
           /\ docs' = [other \in Ids \ {id} |-> documents[other]]
           /\ nextId' = nextId
  <2>1. Ids' = Ids \ {id}
    BY <1>1, <1>2, Removing DEF Ids
  <2>2. docs' \in [Ids' -> DocumentRecords]
    BY <1>2, <2>1
  <2> QED
    BY <1>1, <1>2, <2>1, <2>2 DEF DocumentsInv
<1>3. CASE /\ Ids \ {id} = {} /\ nextId <= MaxId
           /\ order' = <<nextId>> /\ nextId' = nextId + 1
           /\ docs' = [only \in {nextId} |-> Untitled(nextId)]
  <2>1. Ids' = {nextId}
    BY <1>3 DEF Ids, ToSet
  <2>2. docs' \in [Ids' -> DocumentRecords]
    BY <1>1, <1>3, <2>1, UntitledIsRecord
  <2>3. pinned' = {}
    BY <1>1, <1>3
  <2>4. nextId' <= MaxId + 1
    BY <1>1, <1>3, TabsAssumption
  <2> QED
    BY <2>1, <2>2, <2>3, <2>4 DEF DocumentsInv
<1> QED
  BY <1>2, <1>3 DEF Leaves

LEMMA SavedAreRecords ==
  ASSUME DocumentsInv, NEW STATE id, id \in Ids
  PROVE  \A saved \in Saved(id) : saved \in [Ids -> DocumentRecords]
<1> SUFFICES ASSUME NEW saved \in Saved(id) PROVE saved \in [Ids -> DocumentRecords]
  OBVIOUS
<1>1. docs \in [Ids -> DocumentRecords] /\ docs[id] \in DocumentRecords
  BY DEF DocumentsInv
<1> DEFINE P == IF docs[id].path = 0 THEN Paths ELSE {docs[id].path}
<1>2. PICK path \in P :
        saved = [docs EXCEPT ![id].path = path, ![id].title = path, ![id].dirty = FALSE]
  BY Zenon DEF Saved
<1>3. path \in Paths
  BY <1>1, <1>2 DEF DocumentRecords
<1>4. path \in Nat
  BY <1>3, PathsAssumption
<1> QED
  BY <1>1, <1>2, <1>3, <1>4 DEF DocumentRecords

LEMMA DocumentClosed ==
  ASSUME Ordered, DocumentsInv, NEW STATE id, id \in Ids, AskOrClose(id)
  PROVE  DocumentsInv'
<1>1. CASE UNCHANGED <<order, docs, pinned, nextId>>
  BY <1>1, DocumentsStay DEF DocumentsInv
<1>2. CASE Leaves(id, docs)
  BY <1>2, DocumentLeft DEF DocumentsInv
<1> QED
  BY <1>1, <1>2 DEF AskOrClose

LEMMA DocumentsStep ==
  ASSUME IInv, DocumentsInv, StoreInv, TabsNext
  PROVE  DocumentsInv'
<1>0. /\ Ordered /\ active \in Ids /\ nextId \in Nat /\ box \in Ids \cup {0}
      /\ docs \in [Ids -> DocumentRecords] /\ pinned \subseteq Ids
  BY DEF IInv, Ordered, DocumentsInv
<1>1. CASE NewDocument
  <2>1. Add(Untitled(nextId)) /\ UNCHANGED box
    BY <1>1 DEF NewDocument
  <2> QED
    BY <1>0, <2>1, UntitledIsRecord, DocumentAdded
<1>2. CASE \E path \in Paths : OpenPath(path)
  <2>1. PICK path \in Paths : OpenPath(path)
    BY <1>2
  <2>2. CASE UNCHANGED <<order, docs, pinned, nextId>>
    BY <1>0, <2>2, DocumentsStay
  <2> DEFINE document == [title |-> path, path |-> path, dirty |-> FALSE, text |-> FileText]
  <2>3. CASE Add(document)
    <3>1. document \in DocumentRecords
      BY PathsAssumption DEF DocumentRecords
    <3>2. UNCHANGED box
      BY <2>1 DEF OpenPath
    <3> HIDE DEF document
    <3> QED
      BY <1>0, <2>3, <3>1, <3>2, DocumentAdded
  <2> QED
    BY <2>1, <2>2, <2>3 DEF OpenPath
<1>3. CASE Edit
  <2>1. PICK text \in Texts :
          docs' = [docs EXCEPT ![active].dirty = TRUE, ![active].text = text]
    BY <1>3 DEF Edit
  <2>2. docs' \in [Ids -> DocumentRecords]
    BY <1>0, <2>1 DEF DocumentRecords
  <2> QED
    BY <1>0, <1>3, <2>2, DocumentsStay DEF Edit
<1>4. CASE SaveActive
  <2>1. docs' \in [Ids -> DocumentRecords]
    BY <1>0, <1>4, SavedAreRecords DEF SaveActive
  <2> QED
    BY <1>0, <1>4, <2>1, DocumentsStay DEF SaveActive
<1>5. CASE AutoSaveIfDue
  <2>1. PICK saved \in SUBSET Ids :
          docs' = [id \in Ids |-> IF id \in saved THEN [docs[id] EXCEPT !.dirty = FALSE]
                                  ELSE docs[id]]
    BY <1>5 DEF AutoSaveIfDue
  <2>2. docs' \in [Ids -> DocumentRecords]
    BY <1>0, <2>1 DEF DocumentRecords
  <2> QED
    BY <1>0, <1>5, <2>2, DocumentsStay DEF AutoSaveIfDue
<1>6. CASE TogglePinActive
  <2>1. Ids' = Ids /\ pinned' \subseteq Ids /\ UNCHANGED <<docs, nextId>>
    BY <1>0, <1>6, PinStep DEF TogglePinActive
  <2> QED
    BY <1>0, <2>1 DEF DocumentsInv
<1>7. CASE SortTabs
  <2>1. Ids' = Ids /\ UNCHANGED <<docs, pinned, nextId>>
    BY <1>7, SortStep DEF SortTabs
  <2> QED
    BY <1>0, <2>1 DEF DocumentsInv
<1>8. CASE CloseActive
  BY <1>0, <1>8, DocumentClosed DEF CloseActive
<1>9. CASE CloseNext
  <2>1. Head(closing.left) \in Ids
    <3>1. closing.left # <<>> /\ closing.left \in Seq(Nat \ {0})
          /\ IsInjective(closing.left) /\ ToSet(closing.left) \subseteq Ids
      BY <1>9 DEF CloseNext, IInv, Loop
    <3> QED
      BY <3>1, Shortening
  <2> QED
    BY <1>0, <1>9, <2>1, DocumentClosed DEF CloseNext
<1>10. CASE AnswerNo \/ AnswerYes
  <2>1. box \in Ids
    BY <1>0, <1>10 DEF AnswerNo, AnswerYes
  <2>2. CASE AnswerNo
    BY <1>0, <2>1, <2>2, DocumentLeft DEF AnswerNo
  <2>3. CASE AnswerYes
    <3>1. PICK saved \in Saved(active) : Leaves(box, saved)
      BY <2>3 DEF AnswerYes
    <3> QED
      BY <1>0, <2>1, <3>1, SavedAreRecords, DocumentLeft
  <2> QED
    BY <1>10, <2>2, <2>3
<1>11. CASE RestoreSnapshot
  <2>1. PICK i \in DOMAIN listing :
          /\ IF listing[i] \in files
             THEN Add([title |-> RecoveredRank + listing[i].title, path |-> 0,
                       dirty |-> FALSE, text |-> listing[i].text])
             ELSE UNCHANGED tabs
          /\ UNCHANGED box
    BY <1>11 DEF RestoreSnapshot
  <2>2. CASE listing[i] \notin files
    BY <1>0, <2>1, <2>2, DocumentsStay DEF tabs
  <2>3. CASE listing[i] \in files
    <3> DEFINE document == [title |-> RecoveredRank + listing[i].title, path |-> 0,
                            dirty |-> FALSE, text |-> listing[i].text]
    <3>1. listing[i] \in SnapshotsAt(clock)
      BY <2>3 DEF StoreInv, Stores
    <3>2. listing[i].title \in Nat /\ listing[i].text \in Texts \cup {FileText}
      BY <3>1 DEF SnapshotsAt
    <3>3. document \in DocumentRecords
      BY <3>2 DEF DocumentRecords, RecoveredRank
    <3>4. Add(document)
      BY <2>1, <2>3
    <3> HIDE DEF document
    <3> QED
      BY <1>0, <2>1, <3>3, <3>4, DocumentAdded
  <2> QED
    BY <2>2, <2>3
<1>12. CASE TabsRelaunch
  <2>1. order' = <<1>> /\ nextId' = 2 /\ pinned' = {} /\ docs' = [id \in {1} |-> Untitled(1)]
    BY <1>12 DEF TabsRelaunch
  <2>2. Ids' = {1}
    BY <2>1 DEF Ids, ToSet
  <2>3. Untitled(1) \in DocumentRecords /\ 2 <= MaxId + 1
    BY UntitledIsRecord, TabsAssumption
  <2> QED
    BY <2>1, <2>2, <2>3 DEF DocumentsInv
<1>13. CASE \/ Select \/ \E direction \in {-1, 0, 1} : CloseRelativeTabs(direction)
            \/ CloseFinished \/ AnswerCancel
            \/ SaveRecoverySnapshotsIfDue \/ ShowRecoveryManager \/ DeleteSnapshot
            \/ CloseRecoveryManager
  <2>1. UNCHANGED <<order, docs, pinned, nextId>>
    BY <1>13, Zenon DEF Select, CloseRelativeTabs, CloseFinished, AnswerCancel,
         SaveRecoverySnapshotsIfDue, ShowRecoveryManager, DeleteSnapshot,
         CloseRecoveryManager, tabs
  <2> QED
    BY <1>0, <2>1, DocumentsStay
<1> QED
  BY <1>1, <1>2, <1>3, <1>4, <1>5, <1>6, <1>7, <1>8, <1>9, <1>10, <1>11, <1>12, <1>13
     DEF TabsNext

-----------------------------------------------------------------------------
(* The types of the tabs.                                                  *)

(* The tab that a loop keeps is not closed.                                *)
KeptIsOpen == closing.keep \in Ids \cup {0}

LEMMA KeptStaysOpen ==
  ASSUME KeptIsOpen, UNCHANGED closing, Ids \subseteq Ids' PROVE KeptIsOpen'
BY DEF KeptIsOpen

LEMMA KeptIsNotMeant ==
  ASSUME NEW id, IsMeant(id) PROVE id # closing.keep
BY DEF IsMeant

LEMMA KeptStep ==
  ASSUME IInv, KeptIsOpen, TabsNext
  PROVE  KeptIsOpen'
<1>1. CASE \/ NewDocument \/ \E path \in Paths : OpenPath(path)
           \/ Edit \/ Select \/ SaveActive \/ AutoSaveIfDue
           \/ TogglePinActive \/ SortTabs
           \/ SaveRecoverySnapshotsIfDue \/ ShowRecoveryManager \/ DeleteSnapshot
           \/ RestoreSnapshot \/ CloseRecoveryManager
  <2>1. UNCHANGED closing
    BY <1>1, Zenon DEF NewDocument, OpenPath, Edit, Select, SaveActive, AutoSaveIfDue,
         TogglePinActive, SortTabs, SaveRecoverySnapshotsIfDue, ShowRecoveryManager,
         DeleteSnapshot, RestoreSnapshot, CloseRecoveryManager
  <2>2. CASE NewDocument
    <3>1. Add(Untitled(nextId)) /\ UNCHANGED <<box, closing, began>>
      BY <2>2 DEF NewDocument
    <3>2. Ids \subseteq Ids'
      BY <3>1, AddingStep
    <3> QED
      BY <2>1, <3>2, KeptStaysOpen
  <2>3. CASE \E path \in Paths : OpenPath(path)
    BY <2>1, <2>3, OpenStep, KeptStaysOpen
  <2>4. CASE \/ Edit \/ Select \/ SaveActive \/ AutoSaveIfDue
             \/ SaveRecoverySnapshotsIfDue \/ ShowRecoveryManager \/ DeleteSnapshot
             \/ CloseRecoveryManager
    <3>1. UNCHANGED order
      BY <2>4, Zenon DEF Edit, Select, SaveActive, AutoSaveIfDue, SaveRecoverySnapshotsIfDue,
           ShowRecoveryManager, DeleteSnapshot, CloseRecoveryManager, tabs
    <3> QED
      BY <2>1, <3>1, KeptStaysOpen DEF Ids
  <2>5. CASE TogglePinActive \/ SortTabs
    BY <2>1, <2>5, PinStep, SortStep, KeptStaysOpen
  <2>6. CASE RestoreSnapshot
    BY <2>1, <2>6, RestoreStep, KeptStaysOpen
  <2> QED
    BY <1>1, <2>2, <2>3, <2>4, <2>5, <2>6
<1>2. CASE CloseActive
  <2>1. closing = NoLoop /\ UNCHANGED closing
    BY <1>2, CloseActiveStep DEF CloseActive
  <2> QED
    BY <2>1 DEF KeptIsOpen, NoLoop
<1>3. CASE \E direction \in {-1, 0, 1} : CloseRelativeTabs(direction)
  <2>1. closing'.keep = active
    BY <1>3 DEF CloseRelativeTabs
  <2>2. Ids' = Ids /\ active \in Ids
    BY <1>3, CloseRelativeStep DEF IInv, Ordered
  <2> QED
    BY <2>1, <2>2 DEF KeptIsOpen
<1>4. CASE CloseNext
  <2>1. closing \in [keep : Nat, direction : {-1, 0, 1}, left : Seq(Nat \ {0})]
    BY DEF IInv, Loop
  <2>2. closing' = [closing EXCEPT !.left = Tail(@)]
    BY <1>4 DEF CloseNext
  <2>3. closing'.keep = closing.keep
    BY <2>1, <2>2
  <2>4. \A id \in Ids \ Ids' : id # closing.keep
    BY <1>4, CloseNextStep, KeptIsNotMeant
  <2> QED
    BY <2>3, <2>4 DEF KeptIsOpen
<1>5. CASE CloseFinished \/ TabsRelaunch
  <2>1. closing' = NoLoop
    BY <1>5 DEF CloseFinished, TabsRelaunch
  <2> QED
    BY <2>1 DEF KeptIsOpen, NoLoop
<1>6. CASE AnswerCancel
  <2>1. closing \in [keep : Nat, direction : {-1, 0, 1}, left : Seq(Nat \ {0})]
    BY DEF IInv, Loop
  <2>2. closing' = [closing EXCEPT !.left = <<>>]
    BY <1>6 DEF AnswerCancel
  <2>3. closing'.keep = closing.keep
    BY <2>1, <2>2
  <2>4. Ids' = Ids
    BY <1>6, CancelStep
  <2> QED
    BY <2>3, <2>4 DEF KeptIsOpen
<1>7. CASE AnswerNo \/ AnswerYes
  <2>1. PICK documents : Leaves(box, documents)
    BY <1>7 DEF AnswerNo, AnswerYes
  <2>2. box # 0 /\ box' = 0 /\ UNCHANGED <<closing, began>>
    BY <1>7 DEF AnswerNo, AnswerYes
  <2>3. \A id \in Ids \ Ids' : closing # NoLoop => IsMeant(id)
    BY <2>1, <2>2, AnswerStep
  <2>4. \A id \in Ids \ Ids' : closing # NoLoop => id # closing.keep
    BY <2>3, KeptIsNotMeant
  <2>5. CASE closing = NoLoop
    BY <2>2, <2>5 DEF KeptIsOpen, NoLoop
  <2>6. CASE closing # NoLoop
    BY <2>2, <2>4, <2>6 DEF KeptIsOpen
  <2> QED
    BY <2>5, <2>6
<1> QED
  BY <1>1, <1>2, <1>3, <1>4, <1>5, <1>6, <1>7 DEF TabsNext

LEMMA StepsStep ==
  ASSUME steps \in 0 .. MaxSteps, TabsNext
  PROVE  steps' \in 0 .. MaxSteps
<1>1. UNCHANGED steps \/ (steps < MaxSteps /\ steps' = steps + 1)
  BY Zenon DEF TabsNext, NewDocument, OpenPath, Edit, Select, SaveActive, AutoSaveIfDue,
     TogglePinActive, SortTabs, CloseActive, CloseRelativeTabs, CloseNext, CloseFinished,
     AnswerCancel, AnswerNo, AnswerYes, SaveRecoverySnapshotsIfDue, ShowRecoveryManager,
     DeleteSnapshot, RestoreSnapshot, CloseRecoveryManager, TabsRelaunch, Command
<1> QED
  BY <1>1, TabsAssumption

(* The invariant of the tabs and the recovery store.                       *)
TabsInv == IInv /\ DocumentsInv /\ KeptIsOpen /\ StoreInv /\ steps \in 0 .. MaxSteps

LEMMA TabsInvInit == TabsInit => TabsInv
<1> SUFFICES ASSUME TabsInit PROVE TabsInv
  OBVIOUS
<1>1. KeptIsOpen /\ steps \in 0 .. MaxSteps
  BY TabsAssumption DEF TabsInit, KeptIsOpen, NoLoop
<1> QED
  BY <1>1, Beginning, DocumentsInit, StoreInvInit DEF TabsInv

LEMMA TabsInvStep ==
  ASSUME TabsInv, [TabsNext]_tabsVars
  PROVE  TabsInv'
<1>1. IInv'
  BY ClosingStep DEF TabsInv
<1>2. CASE TabsNext
  <2>1. DocumentsInv' /\ KeptIsOpen' /\ StoreInv' /\ steps' \in 0 .. MaxSteps
    BY <1>2, DocumentsStep, KeptStep, StoreStep, StepsStep DEF TabsInv, IInv
  <2> QED
    BY <1>1, <2>1 DEF TabsInv
<1>3. CASE UNCHANGED tabsVars
  <2>1. UNCHANGED <<order, active, docs, pinned, nextId, closing, listing, recovery, steps>>
    BY <1>3 DEF tabsVars, tabs
  <2>2. DocumentsInv'
    BY <2>1, DocumentsStay DEF TabsInv, DocumentsInv
  <2>3. KeptIsOpen' /\ StoreInv'
    BY <2>1, StoreStays, KeptStaysOpen DEF TabsInv, Ids
  <2> QED
    BY <1>1, <2>1, <2>2, <2>3 DEF TabsInv
<1> QED
  BY <1>2, <1>3

LEMMA TabsInvHasTypes == TabsInv => TabsTypeOK
<1> SUFFICES ASSUME TabsInv PROVE TabsTypeOK
  OBVIOUS
<1>1. order # <<>> /\ IsInjective(order)
  <2>1. ToSet(<<>>) = {} /\ active \in ToSet(order)
    BY DEF ToSet, TabsInv, IInv, Ordered, Ids
  <2> QED
    BY <2>1 DEF TabsInv, IInv, Ordered
<1>2. nextId \in 2 .. MaxId + 1 /\ Ids \subseteq 1 .. nextId - 1
  <2>1. /\ nextId \in Nat /\ nextId <= MaxId + 1 /\ active \in Ids
        /\ \A id \in Ids : id \in Nat \ {0} /\ id < nextId
    BY Positive DEF TabsInv, IInv, Ordered, DocumentsInv
  <2> QED
    BY <2>1, TabsAssumption
<1>3. docs \in [Ids -> DocumentRecords] /\ active \in Ids /\ pinned \subseteq Ids
      /\ box \in Ids \cup {0}
  BY DEF TabsInv, DocumentsInv, IInv, Ordered
<1>4. /\ closing.keep \in Ids \cup {0} /\ closing.direction \in {-1, 0, 1}
      /\ IsInjective(closing.left) /\ ToSet(closing.left) \subseteq Ids \ {closing.keep, box}
  <2>1. /\ closing \in [keep : Nat, direction : {-1, 0, 1}, left : Seq(Nat \ {0})]
        /\ IsInjective(closing.left) /\ ToSet(closing.left) \subseteq Ids \ {box}
        /\ closing # NoLoop => \A id \in ToSet(closing.left) : IsMeant(id)
    BY DEF TabsInv, IInv, Loop
  <2>2. CASE closing = NoLoop
    BY <2>1, <2>2 DEF NoLoop, TabsInv, KeptIsOpen, ToSet
  <2>3. CASE closing # NoLoop
    BY <2>1, <2>3, KeptIsNotMeant DEF TabsInv, KeptIsOpen
  <2> QED
    BY <2>2, <2>3
<1>5. clock \in 0 .. MaxClock /\ SnapshotsAt(clock) \subseteq Snapshots
  <2>1. clock \in 0 .. MaxClock
    BY DEF TabsInv, StoreInv
  <2>2. \A c \in 1 .. clock : c \in 1 .. MaxClock
    BY <2>1, TabsAssumption
  <2> QED
    BY <2>1, <2>2 DEF SnapshotsAt, Snapshots
<1>6. listing \in Seq(Snapshots)
  <2>1. listing \in Seq(SnapshotsAt(clock))
    BY DEF TabsInv, StoreInv
  <2> QED
    BY <1>5, <2>1
<1>7. /\ files \subseteq Snapshots
      /\ lastTick \subseteq [key : Int, text : Texts \cup {FileText}]
  BY <1>5 DEF TabsInv, StoreInv, Stores
<1> QED
  BY <1>1, <1>2, <1>3, <1>4, <1>5, <1>6, <1>7 DEF TabsTypeOK, TabsInv


-----------------------------------------------------------------------------
(* The workspace's lists, its tree and its disk.                           *)

(* The sequences that come out while values are filtered.                  *)
Keeping(f, values, S) ==
  f[0] = <<>> /\ \A n \in 1 .. Len(values) :
                   f[n] = IF values[n] \in S THEN Append(f[n - 1], values[n]) ELSE f[n - 1]

LEMMA AmongIsKept ==
  ASSUME NEW V, NEW values \in Seq(V), NEW S
  PROVE  \E f \in [0 .. Len(values) -> Seq(V)] :
           Keeping(f, values, S) /\ Among(values, S) = f[Len(values)]
<1> DEFINE next(n, x) == IF values[n] \in S THEN Append(x, values[n]) ELSE x
           IsIt(g) == g = [n \in 0 .. Len(values) |->
                             IF n = 0 THEN <<>> ELSE next(n, g[n - 1])]
           step == [p \in (1 .. Len(values)) \X Seq(V) |-> next(p[1], p[2])]
           h == CHOOSE g : IsIt(g)
<1>1. Len(values) \in Nat /\ <<>> \in Seq(V)
  BY EmptySeq
<1>2. ASSUME NEW n \in 1 .. Len(values), NEW x \in Seq(V) PROVE next(n, x) \in Seq(V)
  BY <1>1
<1>3. Among(values, S) = h[Len(values)]
  BY DEF Among
<1> HIDE DEF next
<1>4. /\ step \in [(1 .. Len(values)) \X Seq(V) -> Seq(V)]
      /\ \A n \in 1 .. Len(values), x \in Seq(V) : step[<<n, x>>] = next(n, x)
  BY <1>2
<1> HIDE DEF step
<1>5. PICK f \in [0 .. Len(values) -> Seq(V)] : Recursive(f, <<>>, step, Len(values))
  BY <1>1, <1>4, Recursion
<1>6. IsIt(f)
  <2>1. ASSUME NEW n \in 0 .. Len(values)
        PROVE  f[n] = IF n = 0 THEN <<>> ELSE next(n, f[n - 1])
    <3>1. CASE n = 0
      BY <1>5, <3>1 DEF Recursive
    <3>2. CASE n # 0
      <4>1. n \in 1 .. Len(values) /\ n - 1 \in 0 .. Len(values)
        BY <1>1, <3>2
      <4>2. f[n - 1] \in Seq(V) /\ f[n] = step[<<n, f[n - 1]>>]
        BY <1>5, <4>1 DEF Recursive
      <4> QED
        BY <1>4, <3>2, <4>1, <4>2, Zenon
    <3> QED
      BY <3>1, <3>2
  <2> QED
    BY <2>1
<1>7. IsIt(h)
  <2> HIDE DEF IsIt
  <2> QED
    BY <1>6, Zenon
<1> HIDE DEF h
<1>8. h = [n \in 0 .. Len(values) |-> h[n]] /\ h[0] = <<>>
  BY <1>1, <1>7
<1>9. ASSUME NEW n \in 1 .. Len(values) PROVE h[n] = next(n, h[n - 1])
  <2>1. n \in 0 .. Len(values) /\ n # 0
    BY <1>1
  <2> QED
    BY <1>7, <2>1
<1> HIDE DEF IsIt
<1>10. StepsFrom(h, <<>>, step, Len(values), Seq(V))
  BY <1>4, <1>8, <1>9 DEF StepsFrom
<1>11. h \in [0 .. Len(values) -> Seq(V)]
  BY <1>1, <1>4, <1>10, RecursionStays
<1>12. Keeping(h, values, S)
  BY <1>8, <1>9 DEF Keeping, next
<1> QED
  BY <1>3, <1>11, <1>12

(* s begins with the first k of values.                                    *)
BeginsAlike(s, k, values) == Len(s) >= k /\ \A i \in 1 .. k : s[i] = values[i]

(* What is kept are the values of the set; nothing is kept twice.          *)
IsAmong(s, n, values, S) ==
  /\ Len(s) <= n /\ IsInjective(s)
  /\ \A x : x \in ToSet(s) <=> x \in S /\ \E i \in 1 .. n : values[i] = x
  /\ \A k \in 0 .. n : (\A i \in 1 .. k : values[i] \in S) => BeginsAlike(s, k, values)

(* The next of the values is kept or it is not.                            *)
LEMMA AmongStep ==
  ASSUME NEW V, NEW values \in Seq(V), IsInjective(values), NEW S,
         NEW n \in Nat, n + 1 <= Len(values), NEW s \in Seq(V), IsAmong(s, n, values, S)
  PROVE  IsAmong(IF values[n + 1] \in S THEN Append(s, values[n + 1]) ELSE s, n + 1, values, S)
<1> DEFINE e == values[n + 1]
<1>1. /\ n + 1 \in 1 .. Len(values) /\ e \in V /\ Len(s) \in Nat /\ n \in Nat
      /\ \A i \in 1 .. n : i \in 1 .. Len(values) /\ i # n + 1
  OBVIOUS
<1>2. \A i, j \in 1 .. Len(values) : values[i] = values[j] => i = j
  BY Elements
<1>3. \A i \in 1 .. n : values[i] # e
  BY <1>1, <1>2
<1>4. \A i \in 1 .. n + 1 : i \in 1 .. n \/ i = n + 1
  BY <1>1
<1>5. \A i \in 1 .. n : i \in 1 .. n + 1
  BY <1>1
<1>6. n + 1 \in 1 .. n + 1
  BY <1>1
<1>7. ASSUME NEW x
      PROVE  (\E i \in 1 .. n + 1 : values[i] = x) <=> x = e \/ \E i \in 1 .. n : values[i] = x
  BY <1>4, <1>5, <1>6, Zenon
<1> HIDE DEF e
<1>8. CASE e \in S
  <2>1. e \notin ToSet(s)
    BY <1>3 DEF IsAmong
  <2>2. /\ Append(s, e) \in Seq(V) /\ IsInjective(Append(s, e))
        /\ ToSet(Append(s, e)) = ToSet(s) \cup {e}
    BY <1>1, <2>1, Appending DEF IsAmong
  <2>3. Len(Append(s, e)) = Len(s) + 1 /\ Append(s, e)[Len(s) + 1] = e
        /\ \A i \in 1 .. Len(s) : Append(s, e)[i] = s[i]
    BY <1>1, AppendProperties
  <2>4. Len(Append(s, e)) <= n + 1
    BY <1>1, <2>3 DEF IsAmong
  <2>5. ASSUME NEW x
        PROVE  x \in ToSet(Append(s, e)) <=> x \in S /\ \E i \in 1 .. n + 1 : values[i] = x
    <3>1. x \in ToSet(s) <=> x \in S /\ \E i \in 1 .. n : values[i] = x
      BY Zenon DEF IsAmong
    <3>2. x \in ToSet(Append(s, e)) <=> x \in ToSet(s) \/ x = e
      BY <2>2, Zenon
    <3>3. x = e => x \in S
      BY <1>8, Zenon
    <3> QED
      BY <1>7, <3>1, <3>2, <3>3, Zenon
  <2>6. ASSUME NEW k \in 0 .. n + 1, \A i \in 1 .. k : values[i] \in S
        PROVE  BeginsAlike(Append(s, e), k, values)
    <3>1. CASE k \in 0 .. n
      <4>1. BeginsAlike(s, k, values)
        BY <2>6, <3>1, Zenon DEF IsAmong
      <4>2. \A i \in 1 .. k : i \in 1 .. Len(s)
        BY <1>1, <3>1, <4>1 DEF BeginsAlike
      <4>3. \A i \in 1 .. k : Append(s, e)[i] = values[i]
        BY <2>3, <4>1, <4>2, Zenon DEF BeginsAlike
      <4>4. Len(Append(s, e)) >= k
        BY <1>1, <2>3, <3>1, <4>1 DEF BeginsAlike
      <4> QED
        BY <4>3, <4>4 DEF BeginsAlike
    <3>2. CASE k = n + 1
      <4>0. n \in 0 .. n /\ Len(s) <= n
        BY <1>1 DEF IsAmong
      <4>1. BeginsAlike(s, n, values)
        BY <1>5, <2>6, <3>2, <4>0, Zenon DEF IsAmong
      <4>2. Len(s) = n /\ \A i \in 1 .. n : s[i] = values[i]
        BY <1>1, <4>0, <4>1 DEF BeginsAlike
      <4>3. Len(Append(s, e)) = n + 1 /\ Append(s, e)[n + 1] = e
        BY <2>3, <4>2
      <4>4. ASSUME NEW i \in 1 .. n + 1 PROVE Append(s, e)[i] = values[i]
        <5>1. CASE i = n + 1
          BY <4>3, <5>1, Zenon DEF e
        <5>2. CASE i \in 1 .. n
          <6>1. Append(s, e)[i] = s[i]
            BY <2>3, <4>2, <5>2, Zenon
          <6> QED
            BY <4>2, <5>2, <6>1, Zenon
        <5> QED
          BY <1>4, <5>1, <5>2
      <4> QED
        BY <1>1, <3>2, <4>3, <4>4 DEF BeginsAlike
    <3> QED
      BY <1>1, <3>1, <3>2
  <2>7. IsAmong(Append(s, e), n + 1, values, S)
    BY <2>2, <2>4, <2>5, <2>6, Zenon DEF IsAmong
  <2> QED
    BY <1>8, <2>7, Zenon DEF e
<1>9. CASE e \notin S
  <2>1. Len(s) <= n + 1
    BY <1>1 DEF IsAmong
  <2>2. ASSUME NEW x
        PROVE  x \in ToSet(s) <=> x \in S /\ \E i \in 1 .. n + 1 : values[i] = x
    <3>1. x \in ToSet(s) <=> x \in S /\ \E i \in 1 .. n : values[i] = x
      BY Zenon DEF IsAmong
    <3>2. x = e => x \notin S
      BY <1>9, Zenon
    <3> QED
      BY <1>7, <3>1, <3>2, Zenon
  <2>3. ASSUME NEW k \in 0 .. n + 1, \A i \in 1 .. k : values[i] \in S
        PROVE  BeginsAlike(s, k, values)
    <3>1. k # n + 1
      BY <1>6, <1>9, <2>3, Zenon DEF e
    <3>2. k \in 0 .. n
      BY <1>1, <3>1
    <3> QED
      BY <2>3, <3>2, Zenon DEF IsAmong
  <2>4. IsAmong(s, n + 1, values, S)
    BY <2>1, <2>2, <2>3, Zenon DEF IsAmong
  <2> QED
    BY <1>9, <2>4, Zenon DEF e
<1> QED
  BY <1>8, <1>9

(* What was kept so far is as Among says it.                               *)
LEMMA AmongHas ==
  ASSUME NEW V, NEW values \in Seq(V), IsInjective(values), NEW S
  PROVE  Among(values, S) \in Seq(V) /\ IsAmong(Among(values, S), Len(values), values, S)
<1>1. PICK f \in [0 .. Len(values) -> Seq(V)] :
        Keeping(f, values, S) /\ Among(values, S) = f[Len(values)]
  BY AmongIsKept
<1> DEFINE T == {n \in Nat : n <= Len(values) => IsAmong(f[n], n, values, S)}
<1>2. Len(values) \in Nat /\ \A n \in 0 .. Len(values) : f[n] \in Seq(V)
  OBVIOUS
<1>3. 0 \in T
  <2>1. f[0] = <<>> /\ Len(<<>>) = 0 /\ DOMAIN <<>> = {}
    BY <1>1 DEF Keeping
  <2>2. IsInjective(<<>>) /\ ToSet(<<>>) = {}
    BY <2>1 DEF IsInjective, ToSet
  <2>3. (\A i \in 1 .. 0 : FALSE) /\ \A k \in 0 .. 0 : BeginsAlike(<<>>, k, values)
    BY <2>1 DEF BeginsAlike
  <2>4. IsAmong(<<>>, 0, values, S)
    <3>1. Len(<<>>) <= 0
      BY <2>1
    <3> QED
      BY <2>1, <2>2, <2>3, <3>1, Zenon DEF IsAmong
  <2> QED
    BY <2>1, <2>4
<1>4. ASSUME NEW n \in Nat, n \in T PROVE n + 1 \in T
  <2>1. SUFFICES ASSUME n + 1 <= Len(values) PROVE IsAmong(f[n + 1], n + 1, values, S)
    OBVIOUS
  <2>2. n + 1 \in 1 .. Len(values) /\ (n + 1) - 1 = n /\ n \in 0 .. Len(values)
    BY <1>2, <2>1
  <2>3. IsAmong(f[n], n, values, S)
    BY <1>4, <2>2
  <2>4. f[n + 1] = IF values[n + 1] \in S THEN Append(f[n], values[n + 1]) ELSE f[n]
    BY <1>1, <2>2 DEF Keeping
  <2>5. IsAmong(IF values[n + 1] \in S THEN Append(f[n], values[n + 1]) ELSE f[n],
                n + 1, values, S)
    <3>1. f[n] \in Seq(V)
      BY <1>2, <2>2
    <3> QED
      BY <2>1, <2>3, <3>1, AmongStep, Zenon
  <2> QED
    BY <2>4, <2>5
<1> HIDE DEF T
<1>5. Len(values) \in T
  BY <1>2, <1>3, <1>4, Induction
<1>6. IsAmong(f[Len(values)], Len(values), values, S)
  BY <1>5 DEF T
<1> QED
  BY <1>1, <1>2, <1>6

(* In terms of the sets of what is in a list.                              *)
LEMMA AmongIs ==
  ASSUME NEW V, NEW values \in Seq(V), IsInjective(values), NEW S
  PROVE  /\ Among(values, S) \in Seq(V) /\ IsInjective(Among(values, S))
         /\ ToSet(Among(values, S)) = ToSet(values) \cap S
         /\ Len(Among(values, S)) <= Len(values)
         /\ ToSet(values) \subseteq S => Among(values, S) = values
         /\ \A k \in 0 .. Len(values) : (\A i \in 1 .. k : values[i] \in S)
              => BeginsAlike(Among(values, S), k, values)
<1> DEFINE s == Among(values, S)
<1>1. s \in Seq(V) /\ IsAmong(s, Len(values), values, S)
  BY AmongHas
<1> HIDE DEF s
<1>2. \A x : x \in ToSet(values) <=> \E i \in 1 .. Len(values) : x = values[i]
  BY Elements
<1>3. ToSet(s) = ToSet(values) \cap S
  BY <1>1, <1>2, Zenon DEF IsAmong
<1>4. ASSUME ToSet(values) \subseteq S PROVE s = values
  <2>1. \A i \in 1 .. Len(values) : values[i] \in S
    BY <1>2, <1>4, Zenon
  <2>2. Len(values) \in Nat /\ Len(values) \in 0 .. Len(values) /\ Len(s) \in Nat
    BY <1>1
  <2>3. Len(s) <= Len(values) /\ BeginsAlike(s, Len(values), values)
    BY <1>1, <2>1, <2>2, Zenon DEF IsAmong
  <2>4. Len(s) = Len(values) /\ \A i \in 1 .. Len(values) : s[i] = values[i]
    BY <2>2, <2>3 DEF BeginsAlike
  <2> QED
    BY <1>1, <2>4, SeqEqual
<1> QED
  BY <1>1, <1>3, <1>4 DEF s, IsAmong


-----------------------------------------------------------------------------
(* The lists of the catalog.                                               *)

(* Without x, a list has the others in their order.                        *)
LEMMA WithoutIs ==
  ASSUME NEW list, IsList(list), NEW path
  PROVE  /\ IsList(Without(list, path))
         /\ ToSet(Without(list, path)) = ToSet(list) \ {path}
         /\ Len(Without(list, path)) <= Len(list)
         /\ path \notin ToSet(list) => Without(list, path) = list
         /\ \A k \in 0 .. Len(list) : (\A i \in 1 .. k : list[i] # path)
              => BeginsAlike(Without(list, path), k, list)
<1> DEFINE S == ToSet(list) \ {path}
<1>1. list \in Seq(PathsOfItems) /\ IsInjective(list)
  BY DEF IsList
<1>2. /\ Among(list, S) \in Seq(PathsOfItems) /\ IsInjective(Among(list, S))
      /\ ToSet(Among(list, S)) = ToSet(list) \cap S
      /\ Len(Among(list, S)) <= Len(list)
      /\ ToSet(list) \subseteq S => Among(list, S) = list
      /\ \A k \in 0 .. Len(list) : (\A i \in 1 .. k : list[i] \in S)
           => BeginsAlike(Among(list, S), k, list)
  BY <1>1, AmongIs
<1>3. Without(list, path) = Among(list, S)
  BY DEF Without
<1>4. ASSUME NEW k \in 0 .. Len(list), \A i \in 1 .. k : list[i] # path
      PROVE  BeginsAlike(Among(list, S), k, list)
  <2>1. \A i \in 1 .. Len(list) : list[i] \in ToSet(list)
    BY <1>1, Elements
  <2>2. \A i \in 1 .. k : list[i] \in S
    BY <1>1, <1>4, <2>1
  <2> QED
    BY <1>2, <2>2, Zenon
<1> QED
  BY <1>2, <1>3, <1>4 DEF IsList

(* A path comes first; as many others as there is room for follow.         *)
LEMMA AddRecentIs ==
  ASSUME CatalogAssumption, NEW values, IsList(values), NEW path \in PathsOfItems
  PROVE  /\ IsList(AddRecent(values, path)) /\ Len(AddRecent(values, path)) <= RecentLimit
         /\ ToSet(AddRecent(values, path)) \subseteq ToSet(values) \cup {path}
         /\ \/ Len(AddRecent(values, path)) = RecentLimit
            \/ ToSet(AddRecent(values, path)) = ToSet(values) \cup {path}
         /\ Len(AddRecent(values, path)) > 0 => AddRecent(values, path)[1] = path
         /\ \A i \in 1 .. Len(AddRecent(values, path)) - 1 :
              AddRecent(values, path)[i + 1] = Without(values, path)[i]
<1> DEFINE w == Without(values, path)
           n == IF Len(w) + 1 < RecentLimit THEN Len(w) + 1 ELSE RecentLimit
           r == AddRecent(values, path)
<1>1. w \in Seq(PathsOfItems) /\ IsInjective(w) /\ ToSet(w) = ToSet(values) \ {path}
  BY WithoutIs DEF IsList
<1>2. r = SubSeq(<<path>> \o w, 1,
                 IF Len(<<path>> \o w) < RecentLimit THEN Len(<<path>> \o w) ELSE RecentLimit)
  BY DEF AddRecent
<1> HIDE DEF w, r
<1>3. RecentLimit \in Nat /\ Len(w) \in Nat
  BY <1>1 DEF CatalogAssumption
<1>4. /\ <<path>> \o w \in Seq(PathsOfItems) /\ Len(<<path>> \o w) = Len(w) + 1
      /\ (<<path>> \o w)[1] = path
      /\ \A i \in 1 .. Len(w) : (<<path>> \o w)[i + 1] = w[i]
  <2>1. <<path>> \in Seq(PathsOfItems) /\ Len(<<path>>) = 1 /\ <<path>>[1] = path
    OBVIOUS
  <2> QED
    BY <1>1, <1>3, <2>1, ConcatProperties
<1>5. n \in 0 .. Len(w) + 1 /\ n <= RecentLimit
  BY <1>3
<1>6. r = SubSeq(<<path>> \o w, 1, n)
  BY <1>2, <1>4
<1> HIDE DEF n
<1>7. r \in Seq(PathsOfItems) /\ Len(r) = n /\ \A i \in 1 .. n : r[i] = (<<path>> \o w)[i]
  <2>1. \A i \in 1 .. n : (<<path>> \o w)[i] \in PathsOfItems
    BY <1>3, <1>4, <1>5
  <2> QED
    BY <1>5, <1>6, <2>1, SubSeqProperties
<1>8. n > 0 => r[1] = path
  BY <1>4, <1>5, <1>7
<1>9. ASSUME NEW i \in 1 .. n - 1 PROVE i \in 1 .. Len(w) /\ r[i + 1] = w[i]
  <2>1. i + 1 \in 1 .. n /\ i \in 1 .. Len(w)
    BY <1>3, <1>5
  <2> QED
    BY <1>4, <1>7, <2>1
<1>10. \A i, j \in 1 .. Len(w) : w[i] = w[j] => i = j
  BY <1>1, Elements
<1>11. \A i \in 1 .. Len(w) : w[i] # path /\ w[i] \in ToSet(values)
  <2>1. \A x : x \in ToSet(w) <=> \E i \in 1 .. Len(w) : x = w[i]
    BY <1>1, Elements
  <2> QED
    BY <1>1, <2>1, Zenon
<1>12. \A i \in 1 .. n : i = 1 \/ (i - 1 \in 1 .. n - 1 /\ (i - 1) + 1 = i)
  BY <1>5
<1>13. \A i \in 1 .. n : i = 1 \/ (i - 1 \in 1 .. Len(w) /\ r[i] = w[i - 1])
  BY <1>9, <1>12
<1>14. IsInjective(r)
  <2>1. ASSUME NEW i \in 1 .. n, NEW j \in 1 .. n, r[i] = r[j] PROVE i = j
    <3>0. r[1] = path
      <4>1. n > 0
        BY <1>5
      <4> QED
        BY <1>8, <4>1
    <3>1. CASE i = 1 \/ j = 1
      <4>1. \A k \in 1 .. n : k = 1 \/ r[k] # path
        BY <1>11, <1>13, Zenon
      <4> QED
        BY <2>1, <3>0, <3>1, <4>1, Zenon
    <3>2. CASE i # 1 /\ j # 1
      <4>1. i - 1 \in 1 .. Len(w) /\ j - 1 \in 1 .. Len(w) /\ w[i - 1] = w[j - 1]
        BY <1>13, <2>1, <3>2
      <4>2. i - 1 = j - 1
        BY <1>10, <4>1
      <4> QED
        BY <1>5, <4>2
    <3> QED
      BY <3>1, <3>2
  <2> QED
    BY <1>7, <2>1, Elements
<1>15. \A x : x \in ToSet(r) <=> \E i \in 1 .. n : x = r[i]
  BY <1>7, Elements
<1>16. ToSet(r) \subseteq ToSet(values) \cup {path}
  <2>1. ASSUME NEW x \in ToSet(r) PROVE x \in ToSet(values) \cup {path}
    <3>1. PICK i \in 1 .. n : x = r[i]
      BY <1>15, Zenon
    <3>2. CASE i = 1
      <4>1. n > 0
        BY <1>5, <3>1
      <4> QED
        BY <1>8, <3>1, <3>2, <4>1
    <3>3. CASE i # 1
      <4>1. r[i] \in ToSet(values)
        BY <1>11, <1>13, <3>3, Zenon
      <4> QED
        BY <3>1, <4>1, Zenon
    <3> QED
      BY <3>2, <3>3
  <2> QED
    BY <2>1
<1>17. ASSUME n # RecentLimit PROVE ToSet(values) \cup {path} \subseteq ToSet(r)
  <2>1. n = Len(w) + 1 /\ 1 \in 1 .. n /\ n > 0
    BY <1>3, <1>17 DEF n
  <2>2. path \in ToSet(r)
    BY <1>8, <1>15, <2>1, Zenon
  <2>3. ASSUME NEW x \in ToSet(values), x # path PROVE x \in ToSet(r)
    <3>1. x \in ToSet(w)
      BY <1>1, <2>3
    <3>2. PICK i \in 1 .. Len(w) : x = w[i]
      <4>1. \A y : y \in ToSet(w) <=> \E i \in 1 .. Len(w) : y = w[i]
        BY <1>1, Elements
      <4> QED
        BY <3>1, <4>1, Zenon
    <3>3. i \in 1 .. n - 1 /\ i + 1 \in 1 .. n
      BY <1>3, <2>1
    <3>4. x = r[i + 1]
      BY <1>9, <3>2, <3>3, Zenon
    <3> QED
      BY <1>15, <3>3, <3>4, Zenon
  <2> QED
    BY <2>2, <2>3
<1>18. IsList(r)
  BY <1>7, <1>14 DEF IsList
<1>19. \A i \in 1 .. Len(r) - 1 : r[i + 1] = w[i]
  BY <1>7, <1>9
<1> QED
  BY <1>5, <1>7, <1>8, <1>16, <1>17, <1>18, <1>19 DEF r, w

(* A favorite is there once.                                               *)
LEMMA SetFavoriteIs ==
  ASSUME NEW values, IsList(values), NEW path \in PathsOfItems, NEW isFavorite
  PROVE  /\ IsList(SetFavorite(values, path, isFavorite))
         /\ isFavorite /\ path \notin ToSet(values)
              => SetFavorite(values, path, isFavorite) = Append(values, path)
<1> DEFINE w == Without(values, path)
<1>1. /\ w \in Seq(PathsOfItems) /\ IsInjective(w) /\ ToSet(w) = ToSet(values) \ {path}
      /\ path \notin ToSet(values) => w = values
  BY WithoutIs DEF IsList
<1>2. SetFavorite(values, path, isFavorite) = w \o (IF isFavorite THEN <<path>> ELSE <<>>)
  BY DEF SetFavorite
<1> HIDE DEF w
<1>3. CASE isFavorite
  <2>1. SetFavorite(values, path, isFavorite) = Append(w, path)
    BY <1>1, <1>2, <1>3, AppendIsConcat
  <2>2. path \notin ToSet(w)
    BY <1>1
  <2>3. Append(w, path) \in Seq(PathsOfItems) /\ IsInjective(Append(w, path))
    BY <1>1, <2>2, Appending
  <2> QED
    BY <1>1, <2>1, <2>3 DEF IsList
<1>4. CASE ~isFavorite
  <2>1. SetFavorite(values, path, isFavorite) = w
    BY <1>1, <1>2, <1>4, ConcatEmptySeq
  <2> QED
    BY <1>1, <1>4, <2>1 DEF IsList
<1> QED
  BY <1>3, <1>4

(* The lists of a workspace, as its operations keep them.                  *)
AllLists == {all \in ListRecords : IsLists(all)}

(* A root is added at the end, once.                                       *)
LEMMA AddRootIs ==
  ASSUME CatalogAssumption, NEW all \in AllLists, NEW path \in PathsOfItems
  PROVE  /\ AddRoot(all, path) \in AllLists
         /\ AddRoot(all, path).favorites = all.favorites
         /\ ~IsDirectory(path) \/ path \in ToSet(all.roots) => AddRoot(all, path) = all
         /\ IsDirectory(path) /\ path \notin ToSet(all.roots)
              => /\ AddRoot(all, path).roots = Append(all.roots, path)
                 /\ AddRoot(all, path).recent = AddRecent(all.recent, path)
<1>1. all \in ListRecords /\ IsLists(all) /\ IsList(all.roots) /\ IsList(all.recent)
  BY DEF AllLists, IsLists
<1>2. Contains(all.roots, path) <=> path \in ToSet(all.roots)
  <2>1. all.roots \in Seq(PathsOfItems)
    BY <1>1 DEF IsList
  <2> QED
    BY <2>1, Elements DEF Contains
<1>3. CASE ~IsDirectory(path) \/ path \in ToSet(all.roots)
  BY <1>2, <1>3, Zenon DEF AddRoot
<1>4. CASE IsDirectory(path) /\ path \notin ToSet(all.roots)
  <2> DEFINE r == AddRecent(all.recent, path)
             t == Append(all.roots, path)
  <2>1. AddRoot(all, path) = [all EXCEPT !.roots = Append(all.roots, path),
                                         !.recent = AddRecent(all.recent, path)]
    BY <1>2, <1>4, Zenon DEF AddRoot
  <2>2. AddRoot(all, path) = [roots |-> t, recent |-> r, favorites |-> all.favorites]
    <3> HIDE DEF r
    <3>1. AddRoot(all, path) = [all EXCEPT !.roots = t, !.recent = r]
      BY <2>1 DEF r
    <3> HIDE DEF t
    <3> QED
      BY <1>1, <3>1 DEF ListRecords
  <2>3. /\ IsList(r) /\ Len(r) <= RecentLimit
        /\ Len(r) = RecentLimit \/ ToSet(r) = ToSet(all.recent) \cup {path}
    BY <1>1, AddRecentIs, Zenon
  <2>4. IsList(t) /\ ToSet(t) = ToSet(all.roots) \cup {path}
    BY <1>1, <1>4, Appending DEF IsList
  <2> HIDE DEF r, t
  <2>5. IsLists([roots |-> t, recent |-> r, favorites |-> all.favorites])
    <3> DEFINE a == [roots |-> t, recent |-> r, favorites |-> all.favorites]
    <3>1. a.roots = t /\ a.recent = r /\ a.favorites = all.favorites
      OBVIOUS
    <3>2. a \in ListRecords
      BY <1>1, <2>3, <2>4 DEF ListRecords, IsList
    <3> HIDE DEF a
    <3>3. IsList(all.favorites) /\ (ToSet(all.roots) \subseteq ToSet(all.recent)
                                      \/ Len(all.recent) = RecentLimit)
      BY <1>1 DEF IsLists
    <3>4. Len(all.recent) = RecentLimit => Len(r) = RecentLimit
      <4>0. RecentLimit \in Nat /\ Len(r) \in Nat
        BY <2>3 DEF CatalogAssumption, IsList
      <4>1. SUFFICES ASSUME Len(all.recent) = RecentLimit, Len(r) # RecentLimit PROVE FALSE
        OBVIOUS
      <4>2. ToSet(all.recent) \subseteq ToSet(r) /\ Len(r) < Len(all.recent)
        BY <2>3, <4>0, <4>1
      <4> QED
        BY <1>1, <2>3, <4>2, FewerCannotHold DEF IsList
    <3> QED
      BY <2>3, <2>4, <3>1, <3>2, <3>3, <3>4 DEF IsLists, a
  <2>6. [roots |-> t, recent |-> r, favorites |-> all.favorites] \in AllLists
    BY <2>5 DEF AllLists, IsLists
  <2> QED
    BY <1>4, <2>2, <2>6 DEF r, t
<1> QED
  BY <1>1, <1>3, <1>4 DEF AllLists


-----------------------------------------------------------------------------
(* What is read from the catalog's file.                                   *)

(* Roots, recents and favorites are read one by one.                       *)
AddingRoots(f, all, paths) ==
  f[0] = all /\ \A n \in 1 .. Len(paths) : f[n] = AddRoot(f[n - 1], paths[n])

LEMMA AddRootsGoOn ==
  ASSUME CatalogAssumption, NEW all \in AllLists, NEW paths \in Seq(PathsOfItems)
  PROVE  \E f \in [0 .. Len(paths) -> AllLists] :
           AddingRoots(f, all, paths) /\ AddRoots(all, paths) = f[Len(paths)]
<1> DEFINE next(n, x) == AddRoot(x, paths[n])
           IsIt(g) == g = [n \in 0 .. Len(paths) |->
                             IF n = 0 THEN all ELSE next(n, g[n - 1])]
           step == [p \in (1 .. Len(paths)) \X AllLists |-> next(p[1], p[2])]
           h == CHOOSE g : IsIt(g)
<1>1. Len(paths) \in Nat /\ all \in AllLists
  OBVIOUS
<1>2. ASSUME NEW n \in 1 .. Len(paths), NEW x \in AllLists PROVE next(n, x) \in AllLists
  BY AddRootIs
<1>3. AddRoots(all, paths) = h[Len(paths)]
  BY DEF AddRoots
<1> HIDE DEF next
<1>4. /\ step \in [(1 .. Len(paths)) \X AllLists -> AllLists]
      /\ \A n \in 1 .. Len(paths), x \in AllLists : step[<<n, x>>] = next(n, x)
  BY <1>2
<1> HIDE DEF step
<1>5. PICK f \in [0 .. Len(paths) -> AllLists] : Recursive(f, all, step, Len(paths))
  BY <1>1, <1>4, Recursion
<1>6. IsIt(f)
  <2>1. ASSUME NEW n \in 0 .. Len(paths)
        PROVE  f[n] = IF n = 0 THEN all ELSE next(n, f[n - 1])
    <3>1. CASE n = 0
      BY <1>5, <3>1 DEF Recursive
    <3>2. CASE n # 0
      <4>1. n \in 1 .. Len(paths) /\ n - 1 \in 0 .. Len(paths)
        BY <1>1, <3>2
      <4>2. f[n - 1] \in AllLists /\ f[n] = step[<<n, f[n - 1]>>]
        BY <1>5, <4>1 DEF Recursive
      <4> QED
        BY <1>4, <3>2, <4>1, <4>2, Zenon
    <3> QED
      BY <3>1, <3>2
  <2> QED
    BY <2>1
<1>7. IsIt(h)
  <2> HIDE DEF IsIt
  <2> QED
    BY <1>6, Zenon
<1> HIDE DEF h
<1>8. h = [n \in 0 .. Len(paths) |-> h[n]] /\ h[0] = all
  BY <1>1, <1>7
<1>9. ASSUME NEW n \in 1 .. Len(paths) PROVE h[n] = next(n, h[n - 1])
  <2>1. n \in 0 .. Len(paths) /\ n # 0
    BY <1>1
  <2> QED
    BY <1>7, <2>1
<1> HIDE DEF IsIt
<1>10. StepsFrom(h, all, step, Len(paths), AllLists)
  BY <1>4, <1>8, <1>9 DEF StepsFrom
<1>11. h \in [0 .. Len(paths) -> AllLists]
  BY <1>1, <1>4, <1>10, RecursionStays
<1>12. AddingRoots(h, all, paths)
  BY <1>8, <1>9 DEF AddingRoots, next
<1> QED
  BY <1>3, <1>11, <1>12

(* The lists that recents may be.                                          *)
RecentLists == {values \in Seq(PathsOfItems) : IsList(values) /\ Len(values) <= RecentLimit}

AddingRecents(f, values, paths) ==
  f[0] = values /\ \A n \in 1 .. Len(paths) : f[n] = AddRecent(f[n - 1], paths[n])

LEMMA AddRecentsGoOn ==
  ASSUME CatalogAssumption, NEW values \in RecentLists, NEW paths \in Seq(PathsOfItems)
  PROVE  \E f \in [0 .. Len(paths) -> RecentLists] :
           AddingRecents(f, values, paths) /\ AddRecents(values, paths) = f[Len(paths)]
<1> DEFINE next(n, x) == AddRecent(x, paths[n])
           IsIt(g) == g = [n \in 0 .. Len(paths) |->
                             IF n = 0 THEN values ELSE next(n, g[n - 1])]
           step == [p \in (1 .. Len(paths)) \X RecentLists |-> next(p[1], p[2])]
           h == CHOOSE g : IsIt(g)
<1>1. Len(paths) \in Nat /\ values \in RecentLists
  OBVIOUS
<1>2. ASSUME NEW n \in 1 .. Len(paths), NEW x \in RecentLists PROVE next(n, x) \in RecentLists
  BY AddRecentIs DEF RecentLists, IsList
<1>3. AddRecents(values, paths) = h[Len(paths)]
  BY DEF AddRecents
<1> HIDE DEF next
<1>4. /\ step \in [(1 .. Len(paths)) \X RecentLists -> RecentLists]
      /\ \A n \in 1 .. Len(paths), x \in RecentLists : step[<<n, x>>] = next(n, x)
  BY <1>2
<1> HIDE DEF step
<1>5. PICK f \in [0 .. Len(paths) -> RecentLists] : Recursive(f, values, step, Len(paths))
  BY <1>1, <1>4, Recursion
<1>6. IsIt(f)
  <2>1. ASSUME NEW n \in 0 .. Len(paths)
        PROVE  f[n] = IF n = 0 THEN values ELSE next(n, f[n - 1])
    <3>1. CASE n = 0
      BY <1>5, <3>1 DEF Recursive
    <3>2. CASE n # 0
      <4>1. n \in 1 .. Len(paths) /\ n - 1 \in 0 .. Len(paths)
        BY <1>1, <3>2
      <4>2. f[n - 1] \in RecentLists /\ f[n] = step[<<n, f[n - 1]>>]
        BY <1>5, <4>1 DEF Recursive
      <4> QED
        BY <1>4, <3>2, <4>1, <4>2, Zenon
    <3> QED
      BY <3>1, <3>2
  <2> QED
    BY <2>1
<1>7. IsIt(h)
  <2> HIDE DEF IsIt
  <2> QED
    BY <1>6, Zenon
<1> HIDE DEF h
<1>8. h = [n \in 0 .. Len(paths) |-> h[n]] /\ h[0] = values
  BY <1>1, <1>7
<1>9. ASSUME NEW n \in 1 .. Len(paths) PROVE h[n] = next(n, h[n - 1])
  <2>1. n \in 0 .. Len(paths) /\ n # 0
    BY <1>1
  <2> QED
    BY <1>7, <2>1
<1> HIDE DEF IsIt
<1>10. StepsFrom(h, values, step, Len(paths), RecentLists)
  BY <1>4, <1>8, <1>9 DEF StepsFrom
<1>11. h \in [0 .. Len(paths) -> RecentLists]
  BY <1>1, <1>4, <1>10, RecursionStays
<1>12. AddingRecents(h, values, paths)
  BY <1>8, <1>9 DEF AddingRecents, next
<1> QED
  BY <1>3, <1>11, <1>12

(* The lists that favorites may be.                                        *)
FavoriteLists == {values \in Seq(PathsOfItems) : IsList(values)}

AddingFavorites(f, paths) ==
  f[0] = <<>> /\ \A n \in 1 .. Len(paths) : f[n] = SetFavorite(f[n - 1], paths[n], TRUE)

LEMMA AddFavoritesGoOn ==
  ASSUME NEW paths \in Seq(PathsOfItems)
  PROVE  \E f \in [0 .. Len(paths) -> FavoriteLists] :
           AddingFavorites(f, paths) /\ AddFavorites(paths) = f[Len(paths)]
<1> DEFINE next(n, x) == SetFavorite(x, paths[n], TRUE)
           IsIt(g) == g = [n \in 0 .. Len(paths) |->
                             IF n = 0 THEN <<>> ELSE next(n, g[n - 1])]
           step == [p \in (1 .. Len(paths)) \X FavoriteLists |-> next(p[1], p[2])]
           h == CHOOSE g : IsIt(g)
<1>1. Len(paths) \in Nat /\ <<>> \in FavoriteLists
  BY EmptySeq DEF FavoriteLists, IsList, IsInjective
<1>2. ASSUME NEW n \in 1 .. Len(paths), NEW x \in FavoriteLists PROVE next(n, x) \in FavoriteLists
  <2>1. paths[n] \in PathsOfItems /\ IsList(x)
    BY DEF FavoriteLists
  <2>2. IsList(SetFavorite(x, paths[n], TRUE))
    BY <2>1, SetFavoriteIs, Zenon
  <2> QED
    BY <2>2 DEF FavoriteLists, IsList
<1>3. AddFavorites(paths) = h[Len(paths)]
  BY DEF AddFavorites
<1> HIDE DEF next
<1>4. /\ step \in [(1 .. Len(paths)) \X FavoriteLists -> FavoriteLists]
      /\ \A n \in 1 .. Len(paths), x \in FavoriteLists : step[<<n, x>>] = next(n, x)
  BY <1>2
<1> HIDE DEF step
<1>5. PICK f \in [0 .. Len(paths) -> FavoriteLists] : Recursive(f, <<>>, step, Len(paths))
  BY <1>1, <1>4, Recursion
<1>6. IsIt(f)
  <2>1. ASSUME NEW n \in 0 .. Len(paths)
        PROVE  f[n] = IF n = 0 THEN <<>> ELSE next(n, f[n - 1])
    <3>1. CASE n = 0
      BY <1>5, <3>1 DEF Recursive
    <3>2. CASE n # 0
      <4>1. n \in 1 .. Len(paths) /\ n - 1 \in 0 .. Len(paths)
        BY <1>1, <3>2
      <4>2. f[n - 1] \in FavoriteLists /\ f[n] = step[<<n, f[n - 1]>>]
        BY <1>5, <4>1 DEF Recursive
      <4> QED
        BY <1>4, <3>2, <4>1, <4>2, Zenon
    <3> QED
      BY <3>1, <3>2
  <2> QED
    BY <2>1
<1>7. IsIt(h)
  <2> HIDE DEF IsIt
  <2> QED
    BY <1>6, Zenon
<1> HIDE DEF h
<1>8. h = [n \in 0 .. Len(paths) |-> h[n]] /\ h[0] = <<>>
  BY <1>1, <1>7
<1>9. ASSUME NEW n \in 1 .. Len(paths) PROVE h[n] = next(n, h[n - 1])
  <2>1. n \in 0 .. Len(paths) /\ n # 0
    BY <1>1
  <2> QED
    BY <1>7, <2>1
<1> HIDE DEF IsIt
<1>10. StepsFrom(h, <<>>, step, Len(paths), FavoriteLists)
  BY <1>4, <1>8, <1>9 DEF StepsFrom
<1>11. h \in [0 .. Len(paths) -> FavoriteLists]
  BY <1>1, <1>4, <1>10, RecursionStays
<1>12. AddingFavorites(h, paths)
  BY <1>8, <1>9 DEF AddingFavorites, next
<1> QED
  BY <1>3, <1>11, <1>12


(* The first k of a sequence.                                              *)
LEMMA PrefixIs ==
  ASSUME NEW V, NEW s \in Seq(V), NEW t \in Seq(V)
  PROVE  IsPrefix(s, t) <=> BeginsAlike(t, Len(s), s)
<1>1. Len(s) \in Nat /\ Len(t) \in Nat
  OBVIOUS
<1>2. SubSeq(s, 1, Len(s)) = s
  BY SubSeqFull
<1>3. CASE Len(s) <= Len(t)
  <2>1. \A i \in 1 .. Len(s) : t[i] \in V
    BY <1>1, <1>3
  <2>2. /\ SubSeq(t, 1, Len(s)) \in Seq(V) /\ Len(SubSeq(t, 1, Len(s))) = Len(s)
        /\ \A i \in 1 .. Len(s) : SubSeq(t, 1, Len(s))[i] = t[i]
    BY <1>1, <2>1, SubSeqProperties
  <2>3. ASSUME SubSeq(t, 1, Len(s)) = s PROVE \A i \in 1 .. Len(s) : s[i] = t[i]
    BY <2>2, <2>3
  <2>4. ASSUME \A i \in 1 .. Len(s) : s[i] = t[i] PROVE SubSeq(t, 1, Len(s)) = s
    <3>1. \A i \in 1 .. Len(s) : SubSeq(t, 1, Len(s))[i] = s[i]
      BY <2>2, <2>4
    <3> QED
      BY <2>2, <3>1, SeqEqual
  <2> QED
    BY <1>1, <1>2, <1>3, <2>3, <2>4 DEF IsPrefix, BeginsAlike
<1>4. CASE ~(Len(s) <= Len(t))
  BY <1>1, <1>4 DEF IsPrefix, BeginsAlike
<1> QED
  BY <1>3, <1>4

(* The favourites come back as they were.                                  *)
LEMMA FavoritesReturn ==
  ASSUME NEW list, IsList(list)
  PROVE  AddFavorites(list) = list
<1>1. list \in Seq(PathsOfItems) /\ IsInjective(list) /\ Len(list) \in Nat
  BY DEF IsList
<1>2. PICK f \in [0 .. Len(list) -> FavoriteLists] :
        AddingFavorites(f, list) /\ AddFavorites(list) = f[Len(list)]
  BY <1>1, AddFavoritesGoOn
<1>3. \A i, j \in 1 .. Len(list) : list[i] = list[j] => i = j
  BY <1>1, Elements
<1>4. \A n \in 0 .. Len(list) : IsList(f[n]) /\ f[n] \in Seq(PathsOfItems)
  BY DEF FavoriteLists
<1> DEFINE Same(n) == Len(f[n]) = n /\ \A i \in 1 .. n : f[n][i] = list[i]
           T == {n \in Nat : n <= Len(list) => Same(n)}
<1>5. 0 \in T
  <2>1. f[0] = <<>>
    BY <1>2 DEF AddingFavorites
  <2>2. Len(f[0]) = 0
    BY <2>1
  <2> QED
    BY <2>2
<1>6. ASSUME NEW n \in Nat, n \in T PROVE n + 1 \in T
  <2>1. SUFFICES ASSUME n + 1 <= Len(list) PROVE Same(n + 1)
    OBVIOUS
  <2>2. /\ n + 1 \in 1 .. Len(list) /\ (n + 1) - 1 = n /\ n \in 0 .. Len(list)
        /\ \A i \in 1 .. n : i \in 1 .. Len(list) /\ i # n + 1
    BY <1>1, <2>1
  <2>3. Same(n)
    BY <1>1, <1>6, <2>1
  <2>4. list[n + 1] \in PathsOfItems /\ IsList(f[n]) /\ f[n] \in Seq(PathsOfItems)
    BY <1>1, <1>4, <2>2
  <2>5. f[n + 1] = SetFavorite(f[n], list[n + 1], TRUE)
    BY <1>2, <2>2 DEF AddingFavorites
  <2>6. list[n + 1] \notin ToSet(f[n])
    <3>1. \A x : x \in ToSet(f[n]) <=> \E i \in 1 .. Len(f[n]) : x = f[n][i]
      BY <2>4, Elements
    <3>2. ASSUME NEW i \in 1 .. n PROVE list[n + 1] # f[n][i]
      <4>1. f[n][i] = list[i]
        BY <2>3
      <4> QED
        BY <1>3, <2>2, <4>1, Zenon
    <3>3. Len(f[n]) = n
      BY <2>3
    <3> HIDE DEF Same
    <3> QED
      BY <3>1, <3>2, <3>3
  <2>7. f[n + 1] = Append(f[n], list[n + 1])
    BY <2>4, <2>5, <2>6, SetFavoriteIs, Zenon
  <2>8. /\ Len(Append(f[n], list[n + 1])) = Len(f[n]) + 1
        /\ \A i \in 1 .. Len(f[n]) : Append(f[n], list[n + 1])[i] = f[n][i]
        /\ Append(f[n], list[n + 1])[Len(f[n]) + 1] = list[n + 1]
    BY <2>4, AppendProperties
  <2>9. \A i \in 1 .. n + 1 : i \in 1 .. n \/ i = n + 1
    BY <2>2
  <2> QED
    BY <2>3, <2>7, <2>8, <2>9
<1>7. Same(Len(list))
  <2>1. Len(list) \in T
    <3> HIDE DEF T
    <3> QED
      BY <1>1, <1>5, <1>6, Induction
  <2> HIDE DEF Same
  <2> QED
    BY <1>1, <2>1
<1>8. f[Len(list)] \in Seq(PathsOfItems)
  BY <1>1, <1>4
<1> QED
  BY <1>1, <1>2, <1>7, <1>8, SeqEqual

(* The recent ones come back, in the opposite order, before what there was. *)
PushedOn(r, n, list, before) ==
  /\ Len(r) >= n /\ \A i \in 1 .. n : r[i] = list[n + 1 - i]
  /\ ToSet(r) \subseteq before \cup ToSet(list)

(* One more is pushed on: it is the first now.                             *)
LEMMA PushStep ==
  ASSUME CatalogAssumption, NEW list \in RecentLists, NEW before,
         NEW n \in Nat, n + 1 <= Len(list), NEW r \in RecentLists, PushedOn(r, n, list, before)
  PROVE  PushedOn(AddRecent(r, list[n + 1]), n + 1, list, before)
<1> DEFINE e == list[n + 1]
           w == Without(r, e)
           t == AddRecent(r, e)
<1>1. /\ list \in Seq(PathsOfItems) /\ IsInjective(list) /\ Len(list) \in Nat
      /\ Len(list) <= RecentLimit /\ RecentLimit \in Nat
      /\ r \in Seq(PathsOfItems) /\ IsList(r) /\ Len(r) \in Nat
  BY DEF RecentLists, IsList, CatalogAssumption
<1>2. /\ n + 1 \in 1 .. Len(list) /\ e \in PathsOfItems
      /\ \A i \in 1 .. n : n + 1 - i \in 1 .. Len(list) /\ n + 1 - i # n + 1
  BY <1>1
<1>3. \A i, j \in 1 .. Len(list) : list[i] = list[j] => i = j
  BY <1>1, Elements
<1>4. \A i \in 1 .. n : r[i] # e
  BY <1>2, <1>3 DEF PushedOn
<1>5. n \in 0 .. Len(r)
  BY <1>1 DEF PushedOn
<1>6. /\ IsList(w) /\ BeginsAlike(w, n, r) /\ ToSet(w) = ToSet(r) \ {e}
      /\ e \notin ToSet(r) => w = r
  <2> HIDE DEF e
  <2> QED
    BY <1>1, <1>4, <1>5, WithoutIs, Zenon
<1>7. /\ IsList(t) /\ Len(t) <= RecentLimit /\ ToSet(t) \subseteq ToSet(r) \cup {e}
      /\ Len(t) = RecentLimit \/ ToSet(t) = ToSet(r) \cup {e}
      /\ Len(t) > 0 => t[1] = e
      /\ \A i \in 1 .. Len(t) - 1 : t[i + 1] = w[i]
  <2> HIDE DEF e
  <2> QED
    BY <1>1, <1>2, AddRecentIs, Zenon
<1>8. w \in Seq(PathsOfItems) /\ t \in Seq(PathsOfItems) /\ Len(w) \in Nat /\ Len(t) \in Nat
  BY <1>6, <1>7 DEF IsList
<1>9. Len(t) >= n + 1
  <2>1. CASE Len(t) = RecentLimit
    BY <1>1, <2>1
  <2>2. CASE ToSet(t) = ToSet(r) \cup {e}
    <3>1. Append(w, e) \in Seq(PathsOfItems) /\ IsInjective(Append(w, e))
          /\ ToSet(Append(w, e)) = ToSet(w) \cup {e} /\ Len(Append(w, e)) = Len(w) + 1
      <4>1. e \notin ToSet(w) /\ IsInjective(w)
        BY <1>6 DEF IsList
      <4> HIDE DEF e, w
      <4> QED
        BY <1>2, <1>8, <4>1, Appending, AppendProperties
    <3>2. ToSet(Append(w, e)) \subseteq ToSet(t)
      BY <1>6, <2>2, <3>1
    <3>3. ~(Len(t) < Len(w) + 1)
      <4> HIDE DEF e, w, t
      <4> QED
        BY <1>8, <3>1, <3>2, FewerCannotHold
    <3>4. Len(w) >= n
      BY <1>6 DEF BeginsAlike
    <3> HIDE DEF e, w, t
    <3> QED
      BY <1>8, <3>3, <3>4
  <2> QED
    BY <1>7, <2>1, <2>2
<1>10. ASSUME NEW i \in 1 .. n + 1 PROVE t[i] = list[(n + 1) + 1 - i]
  <2>1. CASE i = 1
    <3>1. t[1] = e
      BY <1>7, <1>8, <1>9
    <3> QED
      BY <2>1, <3>1
  <2>2. CASE i # 1
    <3>1. i - 1 \in 1 .. n /\ i - 1 \in 1 .. Len(t) - 1 /\ (i - 1) + 1 = i
            /\ n + 1 - (i - 1) = (n + 1) + 1 - i
      BY <1>8, <1>9, <2>2
    <3>2. t[i] = w[i - 1]
      BY <1>7, <3>1
    <3>3. w[i - 1] = r[i - 1]
      BY <1>6, <3>1 DEF BeginsAlike
    <3>4. r[i - 1] = list[n + 1 - (i - 1)]
      BY <3>1 DEF PushedOn
    <3> QED
      BY <3>1, <3>2, <3>3, <3>4
  <2> QED
    BY <2>1, <2>2
<1>11. ToSet(t) \subseteq before \cup ToSet(list)
  <2>1. e \in ToSet(list)
    BY <1>1, <1>2, Elements
  <2> QED
    BY <1>7, <2>1 DEF PushedOn
<1> QED
  BY <1>9, <1>10, <1>11 DEF PushedOn

(* Recents that were written are read as they were.                        *)
LEMMA RecentsReturn ==
  ASSUME CatalogAssumption, NEW values \in RecentLists, NEW list \in RecentLists,
         ToSet(values) \subseteq ToSet(list) \/ Len(list) = RecentLimit
  PROVE  AddRecents(values, list) \in RecentLists /\ ToSet(AddRecents(values, list)) = ToSet(list)
<1>1. /\ list \in Seq(PathsOfItems) /\ IsInjective(list) /\ Len(list) \in Nat
      /\ RecentLimit \in Nat
  BY DEF RecentLists, IsList, CatalogAssumption
<1>2. PICK f \in [0 .. Len(list) -> RecentLists] :
        AddingRecents(f, values, list) /\ AddRecents(values, list) = f[Len(list)]
  BY <1>1, AddRecentsGoOn
<1> DEFINE T == {n \in Nat : n <= Len(list) => PushedOn(f[n], n, list, ToSet(values))}
<1>3. 0 \in T
  <2>1. f[0] = values /\ Len(values) \in Nat
    BY <1>2 DEF AddingRecents, RecentLists
  <2>2. PushedOn(values, 0, list, ToSet(values))
    BY <2>1 DEF PushedOn
  <2> QED
    BY <2>1, <2>2
<1>4. ASSUME NEW n \in Nat, n \in T PROVE n + 1 \in T
  <2>1. SUFFICES ASSUME n + 1 <= Len(list) PROVE PushedOn(f[n + 1], n + 1, list, ToSet(values))
    OBVIOUS
  <2>2. n + 1 \in 1 .. Len(list) /\ (n + 1) - 1 = n /\ n \in 0 .. Len(list)
    BY <1>1, <2>1
  <2>3. f[n + 1] = AddRecent(f[n], list[n + 1])
    BY <1>2, <2>2 DEF AddingRecents
  <2>4. f[n] \in RecentLists /\ PushedOn(f[n], n, list, ToSet(values))
    BY <1>1, <1>2, <1>4, <2>1, <2>2
  <2> QED
    BY <2>1, <2>3, <2>4, PushStep, Zenon
<1> HIDE DEF T
<1>5. Len(list) \in T
  BY <1>1, <1>3, <1>4, Induction
<1> DEFINE r == f[Len(list)]
<1>6. r \in RecentLists /\ PushedOn(r, Len(list), list, ToSet(values))
  BY <1>1, <1>2, <1>5 DEF T
<1> HIDE DEF r
<1>7. /\ r \in Seq(PathsOfItems) /\ Len(r) \in Nat /\ Len(r) <= RecentLimit
      /\ Len(r) >= Len(list)
      /\ \A i \in 1 .. Len(list) : r[i] = list[Len(list) + 1 - i]
      /\ ToSet(r) \subseteq ToSet(values) \cup ToSet(list)
  BY <1>6 DEF RecentLists, PushedOn
<1>8. \A x : x \in ToSet(r) <=> \E i \in 1 .. Len(r) : x = r[i]
  BY <1>7, Elements
<1>9. \A x : x \in ToSet(list) <=> \E i \in 1 .. Len(list) : x = list[i]
  BY <1>1, Elements
<1>10. \A i \in 1 .. Len(list) : /\ Len(list) + 1 - i \in 1 .. Len(list) /\ i \in 1 .. Len(r)
                                 /\ Len(list) + 1 - (Len(list) + 1 - i) = i
  BY <1>1, <1>7
<1>11. ToSet(list) \subseteq ToSet(r)
  <2>1. ASSUME NEW x \in ToSet(list) PROVE x \in ToSet(r)
    <3>1. PICK i \in 1 .. Len(list) : x = list[i]
      BY <1>9, Zenon
    <3>2. Len(list) + 1 - i \in 1 .. Len(list) /\ Len(list) + 1 - i \in 1 .. Len(r)
            /\ Len(list) + 1 - (Len(list) + 1 - i) = i
      BY <1>10, Zenon
    <3>3. r[Len(list) + 1 - i] = list[Len(list) + 1 - (Len(list) + 1 - i)]
      BY <1>7, <3>2, Zenon
    <3>4. r[Len(list) + 1 - i] = x
      BY <3>1, <3>2, <3>3, Zenon
    <3> QED
      BY <1>8, <3>2, <3>4, Zenon
  <2> QED
    BY <2>1
<1>12. ToSet(r) \subseteq ToSet(list)
  <2>1. CASE ToSet(values) \subseteq ToSet(list)
    BY <1>7, <2>1
  <2>2. CASE Len(list) = RecentLimit
    <3>1. Len(r) = Len(list)
      BY <1>1, <1>7, <2>2
    <3>2. ASSUME NEW x \in ToSet(r) PROVE x \in ToSet(list)
      <4>1. PICK i \in 1 .. Len(list) : x = r[i]
        BY <1>8, <3>1, Zenon
      <4> QED
        BY <1>7, <1>9, <1>10, <4>1, Zenon
    <3> QED
      BY <3>2
  <2> QED
    BY <2>1, <2>2
<1> QED
  BY <1>2, <1>6, <1>11, <1>12 DEF r

(* There may be no lists.                                                  *)
NoListsAtAll == NoLists \in AllLists /\ NoLists.roots = <<>> /\ NoLists.recent = <<>>
                  /\ NoLists.favorites = <<>>

LEMMA NoListsAreLists == ASSUME CatalogAssumption PROVE NoListsAtAll
<1>1. <<>> \in Seq(PathsOfItems) /\ Len(<<>>) = 0 /\ DOMAIN <<>> = {}
  BY EmptySeq
<1>2. NoLists.roots = <<>> /\ NoLists.recent = <<>> /\ NoLists.favorites = <<>>
  BY DEF NoLists
<1>3. NoLists \in ListRecords
  BY <1>1 DEF NoLists, ListRecords
<1>4. IsList(<<>>)
  BY <1>1 DEF IsList, IsInjective
<1>5. RecentLimit \in Nat /\ ToSet(<<>>) \subseteq ToSet(<<>>)
  BY DEF CatalogAssumption
<1>6. IsLists(NoLists)
  <2>1. Len(<<>>) <= RecentLimit
    BY <1>1, <1>5
  <2> QED
    BY <1>2, <1>3, <1>4, <1>5, <2>1 DEF IsLists
<1> QED
  BY <1>2, <1>3, <1>6 DEF AllLists, NoListsAtAll

(* Read so far: the roots that are directories; they alone are recent.     *)
ReadUpTo(all, kept, n, list) ==
  /\ all.roots = kept /\ all.favorites = <<>>
  /\ ToSet(all.recent) \subseteq ToSet(kept)
  /\ \A x \in ToSet(kept) : \E i \in 1 .. n : x = list[i]

(* One more root is read.                                                  *)
LEMMA ReadingStep ==
  ASSUME CatalogAssumption, NEW list, IsList(list), NEW n \in Nat, n + 1 <= Len(list),
         NEW all \in AllLists, NEW kept \in Seq(PathsOfItems), ReadUpTo(all, kept, n, list),
         NEW S, S = {p \in ToSet(list) : IsDirectory(p)}
  PROVE  ReadUpTo(AddRoot(all, list[n + 1]),
                  IF list[n + 1] \in S THEN Append(kept, list[n + 1]) ELSE kept, n + 1, list)
<1> DEFINE e == list[n + 1]
<1>1. /\ list \in Seq(PathsOfItems) /\ IsInjective(list) /\ n + 1 \in 1 .. Len(list)
      /\ Len(list) \in Nat
      /\ \A i \in 1 .. n : i \in 1 .. Len(list) /\ i \in 1 .. n + 1 /\ i # n + 1
      /\ n + 1 \in 1 .. n + 1
  BY DEF IsList
<1>2. e \in PathsOfItems /\ e \in ToSet(list)
  BY <1>1, Elements
<1>3. \A i, j \in 1 .. Len(list) : list[i] = list[j] => i = j
  BY <1>1, Elements
<1>4. e \notin ToSet(kept)
  BY <1>1, <1>3 DEF ReadUpTo
<1>5. e \in S <=> IsDirectory(e)
  BY <1>2
<1>6. /\ AddRoot(all, e) \in AllLists
      /\ AddRoot(all, e).favorites = all.favorites
      /\ ~IsDirectory(e) \/ e \in ToSet(all.roots) => AddRoot(all, e) = all
      /\ IsDirectory(e) /\ e \notin ToSet(all.roots)
              => /\ AddRoot(all, e).roots = Append(all.roots, e)
                 /\ AddRoot(all, e).recent = AddRecent(all.recent, e)
  <2> HIDE DEF e
  <2> QED
    BY <1>2, AddRootIs
<1>7. CASE e \in S
  <2>1. /\ AddRoot(all, e).roots = Append(kept, e) /\ AddRoot(all, e).favorites = <<>>
        /\ AddRoot(all, e).recent = AddRecent(all.recent, e)
    BY <1>4, <1>5, <1>6, <1>7, Zenon DEF ReadUpTo
  <2>2. ToSet(AddRecent(all.recent, e)) \subseteq ToSet(all.recent) \cup {e}
    <3>1. IsList(all.recent)
      BY DEF AllLists, IsLists
    <3> HIDE DEF e
    <3> QED
      BY <1>2, <3>1, AddRecentIs
  <2>3. ToSet(Append(kept, e)) = ToSet(kept) \cup {e}
    <3>1. IsInjective(kept)
      BY DEF AllLists, IsLists, IsList, ReadUpTo
    <3> HIDE DEF e
    <3> QED
      BY <1>2, <1>4, <3>1, Appending
  <2>4. ASSUME NEW x \in ToSet(Append(kept, e)) PROVE \E i \in 1 .. n + 1 : x = list[i]
    <3>1. x = e \/ x \in ToSet(kept)
      BY <2>3
    <3>2. x \in ToSet(kept) => \E i \in 1 .. n : x = list[i]
      BY Zenon DEF ReadUpTo
    <3> QED
      BY <1>1, <3>1, <3>2, Zenon
  <2>5. ToSet(AddRecent(all.recent, e)) \subseteq ToSet(Append(kept, e))
    BY <2>2, <2>3 DEF ReadUpTo
  <2>6. ReadUpTo(AddRoot(all, e), Append(kept, e), n + 1, list)
    BY <2>1, <2>4, <2>5, Zenon DEF ReadUpTo
  <2> QED
    BY <1>7, <2>6
<1>8. CASE e \notin S
  <2>1. AddRoot(all, e) = all
    BY <1>5, <1>6, <1>8
  <2>2. ReadUpTo(all, kept, n + 1, list)
    <3>1. ASSUME NEW x \in ToSet(kept) PROVE \E i \in 1 .. n + 1 : x = list[i]
      BY <1>1, Zenon DEF ReadUpTo
    <3> QED
      BY <3>1, Zenon DEF ReadUpTo
  <2> QED
    BY <1>8, <2>1, <2>2
<1> QED
  BY <1>7, <1>8

(* Roots that were written are read as they were.                          *)
LEMMA RootsReturn ==
  ASSUME CatalogAssumption, NEW list, IsList(list)
  PROVE  /\ AddRoots(NoLists, list) \in AllLists
         /\ AddRoots(NoLists, list).roots = Among(list, {p \in ToSet(list) : IsDirectory(p)})
         /\ AddRoots(NoLists, list).favorites = <<>>
         /\ ToSet(AddRoots(NoLists, list).recent) \subseteq ToSet(list)
<1> DEFINE S == {p \in ToSet(list) : IsDirectory(p)}
<1>1. list \in Seq(PathsOfItems) /\ IsInjective(list) /\ Len(list) \in Nat
  BY DEF IsList
<1>2. NoListsAtAll
  BY NoListsAreLists
<1>3. PICK f \in [0 .. Len(list) -> AllLists] :
        AddingRoots(f, NoLists, list) /\ AddRoots(NoLists, list) = f[Len(list)]
  BY <1>1, <1>2, AddRootsGoOn DEF NoListsAtAll
<1>4. PICK g \in [0 .. Len(list) -> Seq(PathsOfItems)] :
        Keeping(g, list, S) /\ Among(list, S) = g[Len(list)]
  <2> HIDE DEF S
  <2> QED
    BY <1>1, AmongIsKept
<1> DEFINE T == {n \in Nat : n <= Len(list) => ReadUpTo(f[n], g[n], n, list)}
<1>5. 0 \in T
  <2>1. f[0] = NoLists /\ g[0] = <<>>
    BY <1>3, <1>4 DEF AddingRoots, Keeping
  <2>2. ToSet(<<>>) = {}
    BY DEF ToSet
  <2>3. ReadUpTo(NoLists, <<>>, 0, list)
    BY <1>2, <2>2 DEF ReadUpTo, NoListsAtAll
  <2> QED
    BY <2>1, <2>3
<1>6. ASSUME NEW n \in Nat, n \in T PROVE n + 1 \in T
  <2>1. SUFFICES ASSUME n + 1 <= Len(list) PROVE ReadUpTo(f[n + 1], g[n + 1], n + 1, list)
    OBVIOUS
  <2>2. n + 1 \in 1 .. Len(list) /\ (n + 1) - 1 = n /\ n \in 0 .. Len(list)
    BY <1>1, <2>1
  <2>3. ReadUpTo(f[n], g[n], n, list)
    BY <1>6, <2>2
  <2>4. f[n] \in AllLists /\ g[n] \in Seq(PathsOfItems)
    BY <2>2
  <2>5. f[n + 1] = AddRoot(f[n], list[n + 1])
    BY <1>3, <2>2 DEF AddingRoots
  <2>6. g[n + 1] = IF list[n + 1] \in S THEN Append(g[n], list[n + 1]) ELSE g[n]
    BY <1>4, <2>2 DEF Keeping
  <2>7. ReadUpTo(AddRoot(f[n], list[n + 1]),
                 IF list[n + 1] \in S THEN Append(g[n], list[n + 1]) ELSE g[n], n + 1, list)
    <3>1. S = {p \in ToSet(list) : IsDirectory(p)}
      OBVIOUS
    <3> HIDE DEF S
    <3> QED
      BY <2>1, <2>3, <2>4, <3>1, ReadingStep, Zenon
  <2> HIDE DEF S
  <2> QED
    BY <2>5, <2>6, <2>7
<1> HIDE DEF T
<1>7. Len(list) \in T
  BY <1>1, <1>5, <1>6, Induction
<1>8. ReadUpTo(f[Len(list)], g[Len(list)], Len(list), list)
  BY <1>1, <1>7 DEF T
<1>9. ToSet(f[Len(list)].recent) \subseteq ToSet(list)
  BY <1>1, <1>8, Elements DEF ReadUpTo
<1>10. f[Len(list)] \in AllLists
  BY <1>1
<1> QED
  BY <1>3, <1>4, <1>8, <1>9, <1>10, Zenon DEF ReadUpTo

(* Roots that are added come behind those there are.                       *)
AddedTo(r, all, paths) ==
  /\ r.favorites = all.favorites
  /\ BeginsAlike(r.roots, Len(all.roots), all.roots)
  /\ ToSet(r.roots) \subseteq ToSet(all.roots) \cup ToSet(paths)
  /\ (\A path \in ToSet(paths) : IsDirectory(path) => path \in ToSet(all.roots)) => r = all

(* A session's root is added to those there are.                           *)
LEMMA AddedStep ==
  ASSUME CatalogAssumption, NEW all \in AllLists, NEW paths \in Seq(PathsOfItems),
         NEW r \in AllLists, AddedTo(r, all, paths), NEW path \in ToSet(paths)
  PROVE  AddedTo(AddRoot(r, path), all, paths)
<1>1. path \in PathsOfItems
  BY Elements
<1>2. /\ AddRoot(r, path) \in AllLists
      /\ AddRoot(r, path).favorites = r.favorites
      /\ ~IsDirectory(path) \/ path \in ToSet(r.roots) => AddRoot(r, path) = r
      /\ IsDirectory(path) /\ path \notin ToSet(r.roots)
              => /\ AddRoot(r, path).roots = Append(r.roots, path)
                 /\ AddRoot(r, path).recent = AddRecent(r.recent, path)
  BY <1>1, AddRootIs
<1>3. CASE ~IsDirectory(path) \/ path \in ToSet(r.roots)
  BY <1>2, <1>3
<1>4. CASE IsDirectory(path) /\ path \notin ToSet(r.roots)
  <2>1. AddRoot(r, path).favorites = all.favorites /\ AddRoot(r, path).roots = Append(r.roots, path)
    BY <1>2, <1>4 DEF AddedTo
  <2>2. r.roots \in Seq(PathsOfItems) /\ IsInjective(r.roots) /\ all.roots \in Seq(PathsOfItems)
    BY DEF AllLists, IsLists, IsList
  <2>3. ToSet(Append(r.roots, path)) = ToSet(r.roots) \cup {path}
    BY <1>1, <1>4, <2>2, Appending
  <2>4. /\ Len(Append(r.roots, path)) = Len(r.roots) + 1
        /\ \A i \in 1 .. Len(r.roots) : Append(r.roots, path)[i] = r.roots[i]
    BY <1>1, <2>2, AppendProperties
  <2>5. BeginsAlike(Append(r.roots, path), Len(all.roots), all.roots)
    <3>1. BeginsAlike(r.roots, Len(all.roots), all.roots)
      BY DEF AddedTo
    <3>2. Len(r.roots) \in Nat /\ Len(all.roots) \in Nat /\ Len(r.roots) >= Len(all.roots)
      BY <2>2, <3>1 DEF BeginsAlike
    <3>3. \A i \in 1 .. Len(all.roots) : i \in 1 .. Len(r.roots)
      BY <3>2
    <3>4. Len(Append(r.roots, path)) >= Len(all.roots)
      BY <2>4, <3>2
    <3>5. \A i \in 1 .. Len(all.roots) : Append(r.roots, path)[i] = all.roots[i]
      BY <2>4, <3>1, <3>3, Zenon DEF BeginsAlike
    <3> QED
      BY <3>4, <3>5 DEF BeginsAlike
  <2>6. ToSet(Append(r.roots, path)) \subseteq ToSet(all.roots) \cup ToSet(paths)
    BY <2>3 DEF AddedTo
  <2>7. ~\A p \in ToSet(paths) : IsDirectory(p) => p \in ToSet(all.roots)
    <3>1. SUFFICES ASSUME \A p \in ToSet(paths) : IsDirectory(p) => p \in ToSet(all.roots)
                   PROVE  FALSE
      OBVIOUS
    <3>2. r = all /\ path \in ToSet(all.roots)
      BY <1>4, <3>1, Zenon DEF AddedTo
    <3> QED
      BY <1>4, <3>2
  <2> QED
    BY <2>1, <2>5, <2>6, <2>7, Zenon DEF AddedTo
<1> QED
  BY <1>3, <1>4

(* All roots of the session are among the workspace's.                     *)
LEMMA SessionRootsAdded ==
  ASSUME CatalogAssumption, NEW all \in AllLists, NEW paths \in Seq(PathsOfItems)
  PROVE  AddRoots(all, paths) \in AllLists /\ AddedTo(AddRoots(all, paths), all, paths)
<1>1. Len(paths) \in Nat /\ all.roots \in Seq(PathsOfItems)
  BY DEF AllLists, IsLists, IsList
<1>2. PICK f \in [0 .. Len(paths) -> AllLists] :
        AddingRoots(f, all, paths) /\ AddRoots(all, paths) = f[Len(paths)]
  BY AddRootsGoOn
<1> DEFINE T == {n \in Nat : n <= Len(paths) => AddedTo(f[n], all, paths)}
<1>3. 0 \in T
  <2>1. f[0] = all
    BY <1>2 DEF AddingRoots
  <2>2. Len(all.roots) \in Nat
    BY <1>1
  <2>3. BeginsAlike(all.roots, Len(all.roots), all.roots)
    BY <2>2 DEF BeginsAlike
  <2>4. AddedTo(all, all, paths)
    BY <2>3 DEF AddedTo
  <2> QED
    BY <2>1, <2>4
<1>4. ASSUME NEW n \in Nat, n \in T PROVE n + 1 \in T
  <2>1. SUFFICES ASSUME n + 1 <= Len(paths) PROVE AddedTo(f[n + 1], all, paths)
    OBVIOUS
  <2>2. n + 1 \in 1 .. Len(paths) /\ (n + 1) - 1 = n /\ n \in 0 .. Len(paths)
    BY <1>1, <2>1
  <2>3. f[n] \in AllLists /\ AddedTo(f[n], all, paths)
    BY <1>4, <2>2
  <2>4. f[n + 1] = AddRoot(f[n], paths[n + 1])
    BY <1>2, <2>2 DEF AddingRoots
  <2>5. paths[n + 1] \in ToSet(paths)
    BY <2>2, Elements
  <2> QED
    BY <2>3, <2>4, <2>5, AddedStep, Zenon
<1> HIDE DEF T
<1>5. Len(paths) \in T
  BY <1>1, <1>3, <1>4, Induction
<1> QED
  BY <1>1, <1>2, <1>5 DEF T

(* What the catalog's file gives back.                                     *)
LEMMA DeserializedIs ==
  ASSUME CatalogAssumption, NEW all, IsLists(all)
  PROVE  /\ Deserialize(all) \in AllLists
         /\ Deserialize(all).favorites = all.favorites
         /\ Deserialize(all).roots = Among(all.roots, {p \in ToSet(all.roots) : IsDirectory(p)})
         /\ ToSet(Deserialize(all).recent) = ToSet(all.recent)
<1> DEFINE rooted == AddRoots(NoLists, all.roots)
<1>1. /\ IsList(all.roots) /\ IsList(all.recent) /\ IsList(all.favorites)
      /\ all.recent \in RecentLists /\ all \in ListRecords
      /\ ToSet(all.roots) \subseteq ToSet(all.recent) \/ Len(all.recent) = RecentLimit
  BY DEF IsLists, RecentLists, IsList
<1>2. /\ rooted \in AllLists /\ ToSet(rooted.recent) \subseteq ToSet(all.roots)
      /\ rooted.roots = Among(all.roots, {p \in ToSet(all.roots) : IsDirectory(p)})
  BY <1>1, RootsReturn
<1> HIDE DEF rooted
<1>3. rooted.recent \in RecentLists
  BY <1>2 DEF AllLists, IsLists, IsList, RecentLists
<1>4. ToSet(rooted.recent) \subseteq ToSet(all.recent) \/ Len(all.recent) = RecentLimit
  BY <1>1, <1>2
<1> DEFINE back == AddRecents(rooted.recent, all.recent)
<1>5. back \in RecentLists /\ ToSet(back) = ToSet(all.recent)
  BY <1>1, <1>3, <1>4, RecentsReturn
<1> HIDE DEF back
<1>6. AddFavorites(all.favorites) = all.favorites
  BY <1>1, FavoritesReturn
<1>7. Deserialize(all) = [roots |-> rooted.roots, recent |-> back, favorites |-> all.favorites]
  BY <1>6, Zenon DEF Deserialize, rooted, back
<1> DEFINE d == [roots |-> rooted.roots, recent |-> back, favorites |-> all.favorites]
<1>8. d.roots = rooted.roots /\ d.recent = back /\ d.favorites = all.favorites
  OBVIOUS
<1>9. d \in ListRecords
  BY <1>1, <1>2, <1>5 DEF ListRecords, AllLists, RecentLists
<1> HIDE DEF d
<1>10. IsList(rooted.roots) /\ IsList(back) /\ Len(back) <= RecentLimit
  BY <1>2, <1>5 DEF AllLists, IsLists, RecentLists
<1>11. ToSet(rooted.roots) \subseteq ToSet(back) \/ Len(back) = RecentLimit
  <2>1. CASE ToSet(all.roots) \subseteq ToSet(all.recent)
    <3>1. ToSet(rooted.roots) \subseteq ToSet(all.roots)
      BY <1>1, <1>2, AmongIs DEF IsList
    <3> QED
      BY <1>5, <2>1, <3>1
  <2>2. CASE Len(all.recent) = RecentLimit
    <3>1. RecentLimit \in Nat /\ Len(back) \in Nat
      BY <1>10 DEF CatalogAssumption, IsList
    <3>2. ~(Len(back) < Len(all.recent))
      BY <1>1, <1>5, <1>10, FewerCannotHold DEF IsList
    <3> QED
      BY <1>10, <2>2, <3>1, <3>2
  <2> QED
    BY <1>1, <2>1, <2>2
<1>12. IsLists(d)
  BY <1>1, <1>8, <1>9, <1>10, <1>11 DEF IsLists
<1> QED
  BY <1>2, <1>5, <1>7, <1>8, <1>9, <1>12 DEF AllLists, d

-----------------------------------------------------------------------------
(* Paths and their text.                                                   *)

(* The text of a path at its places: a separator before each name, and     *)
(* with one more at the end it has one behind each place.                  *)
Spelled(text, path, place) ==
  /\ place[0] = 0 /\ Len(text) = place[Len(path)] + 1
  /\ \A k \in 0 .. Len(path) : text[place[k] + 1] = SEPARATOR
  /\ \A k \in 1 .. Len(path) :
       /\ place[k] = place[k - 1] + 1 + Len(path[k])
       /\ \A j \in 1 .. Len(path[k]) : text[place[k - 1] + 1 + j] = path[k][j]

(* No name has the separator, and no path is without names.                *)
LEMMA NamesHaveNoSeparator ==
  ASSUME NEW name \in NamesOfItems
  PROVE  name \in Seq(Nat) /\ \A i \in 1 .. Len(name) : name[i] # SEPARATOR
BY DEF NamesOfItems, Contains

LEMMA PathHasNames ==
  ASSUME NEW path \in PathsOfItems
  PROVE  Len(path) \in Nat /\ \A k \in 1 .. Len(path) : path[k] \in NamesOfItems
BY DEF PathsOfItems

(* The names of a path follow each other in its text.                      *)
LEMMA PlacesRise ==
  ASSUME NEW path \in PathsOfItems, NEW place \in [0 .. Len(path) -> Nat],
         \A k \in 1 .. Len(path) : place[k] = place[k - 1] + 1 + Len(path[k])
  PROVE  \A k \in 0 .. Len(path) : place[k] <= place[Len(path)]
<1> DEFINE N == Len(path)
           T == {d \in Nat : d <= N => place[N - d] <= place[N]}
<1>1. N \in Nat /\ \A k \in 1 .. N : Len(path[k]) \in Nat
  BY PathHasNames, NamesHaveNoSeparator
<1>2. \A k \in 0 .. N : place[k] \in Nat
  OBVIOUS
<1>3. 0 \in T
  BY <1>1, <1>2
<1>4. ASSUME NEW d \in Nat, d \in T PROVE d + 1 \in T
  <2>1. SUFFICES ASSUME d + 1 <= N PROVE place[N - (d + 1)] <= place[N]
    OBVIOUS
  <2>2. /\ N - d \in 1 .. N /\ (N - d) - 1 = N - (d + 1) /\ N - (d + 1) \in 0 .. N
        /\ d <= N /\ N - d \in 0 .. N /\ N \in 0 .. N
    BY <1>1, <2>1
  <2>3. place[N - d] <= place[N]
    BY <1>4, <2>2
  <2>4. place[N - d] = place[N - (d + 1)] + 1 + Len(path[N - d]) /\ Len(path[N - d]) \in Nat
    BY <1>1, <2>2
  <2>5. place[N - d] \in Nat /\ place[N] \in Nat /\ place[N - (d + 1)] \in Nat
    BY <1>2, <2>2
  <2> QED
    BY <2>3, <2>4, <2>5
<1> HIDE DEF T
<1>5. Nat \subseteq T
  BY <1>3, <1>4, Induction
<1>6. ASSUME NEW k \in 0 .. N PROVE place[k] <= place[N]
  <2>1. N - k \in Nat /\ N - (N - k) = k /\ N - k <= N
    BY <1>1
  <2>2. N - k \in T
    BY <1>5, <2>1
  <2> QED
    BY <2>1, <2>2 DEF T
<1> QED
  BY <1>6

(* TextOf writes the names, each behind a separator.                       *)
LEMMA TextIsSpelled ==
  ASSUME NEW path \in PathsOfItems
  PROVE  /\ TextOf(path) \o <<SEPARATOR>> \in Seq(Nat)
         /\ \E place \in [0 .. Len(path) -> Nat] :
              Spelled(TextOf(path) \o <<SEPARATOR>>, path, place)
<1> DEFINE parts == [i \in DOMAIN path |-> <<SEPARATOR>> \o path[i]]
           text == TextOf(path)
           N == Len(path)
<1>1. N \in Nat /\ DOMAIN path = 1 .. N /\ path \in Seq(NamesOfItems)
  BY DEF PathsOfItems
<1>2. \A k \in 1 .. N : path[k] \in Seq(Nat) /\ Len(path[k]) \in Nat
  BY PathHasNames, NamesHaveNoSeparator
<1>3. ASSUME NEW k \in 1 .. N
      PROVE  /\ <<SEPARATOR>> \o path[k] \in Seq(Nat)
             /\ Len(<<SEPARATOR>> \o path[k]) = 1 + Len(path[k])
             /\ (<<SEPARATOR>> \o path[k])[1] = SEPARATOR
             /\ \A j \in 1 .. Len(path[k]) : (<<SEPARATOR>> \o path[k])[1 + j] = path[k][j]
  <2> DEFINE name == path[k]
  <2>1. name \in Seq(Nat)
    BY <1>2
  <2> HIDE DEF name
  <2>2. <<SEPARATOR>> \in Seq(Nat) /\ Len(<<SEPARATOR>>) = 1 /\ <<SEPARATOR>>[1] = SEPARATOR
    BY DEF SEPARATOR
  <2>3. /\ <<SEPARATOR>> \o name \in Seq(Nat)
        /\ Len(<<SEPARATOR>> \o name) = 1 + Len(name)
        /\ (<<SEPARATOR>> \o name)[1] = SEPARATOR
        /\ \A j \in 1 .. Len(name) : (<<SEPARATOR>> \o name)[1 + j] = name[j]
    BY <2>1, <2>2, ConcatProperties
  <2> QED
    BY <2>3 DEF name
<1>4. /\ parts \in Seq(Seq(Nat)) /\ Len(parts) = N
      /\ \A k \in 1 .. N : parts[k] = <<SEPARATOR>> \o path[k]
  <2>1. parts \in [1 .. N -> Seq(Nat)]
    BY <1>1, <1>3
  <2>2. parts \in Seq(Seq(Nat))
    BY <1>1, <2>1
  <2>3. DOMAIN parts = 1 .. N
    BY <1>1
  <2> QED
    BY <1>1, <2>2, <2>3
<1>5. text = FlattenSeq(parts)
  BY DEF TextOf
<1> HIDE DEF parts, text
<1>6. text \in Seq(Nat)
  BY <1>4, <1>5, Flattened
<1>7. PICK place \in [0 .. N -> Nat] : Laid(text, parts, place)
  BY <1>4, <1>5, Flattened
<1> DEFINE all == text \o <<SEPARATOR>>
<1>8. /\ all \in Seq(Nat)
      /\ Len(text) \in Nat /\ Len(all) = Len(text) + 1 /\ all[Len(text) + 1] = SEPARATOR
      /\ \A i \in 1 .. Len(text) : all[i] = text[i]
  <2>1. <<SEPARATOR>> \in Seq(Nat) /\ Len(<<SEPARATOR>>) = 1 /\ <<SEPARATOR>>[1] = SEPARATOR
    BY DEF SEPARATOR
  <2> QED
    BY <1>6, <2>1, ConcatProperties
<1> HIDE DEF all
<1>9. \A k \in 0 .. N : place[k] \in Nat
  OBVIOUS
<1>10. \A k \in 1 .. N : place[k] = place[k - 1] + 1 + Len(path[k])
  <2> SUFFICES ASSUME NEW k \in 1 .. N PROVE place[k] = place[k - 1] + 1 + Len(path[k])
    OBVIOUS
  <2>1. place[k] = place[k - 1] + Len(parts[k])
    BY <1>4, <1>7 DEF Laid
  <2>2. Len(parts[k]) = 1 + Len(path[k]) /\ Len(path[k]) \in Nat
    BY <1>2, <1>3, <1>4, Zenon
  <2>3. k - 1 \in 0 .. N
    BY <1>1
  <2>4. place[k - 1] \in Nat
    BY <1>9, <2>3
  <2> QED
    BY <2>1, <2>2, <2>4
<1>11. place[0] = 0 /\ Len(text) = place[N]
  BY <1>4, <1>7 DEF Laid
<1>12. \A k \in 0 .. N : place[k] <= place[N]
  BY <1>1, <1>2, <1>10, PlacesRise
<1>13. ASSUME NEW k \in 1 .. N, NEW j \in 1 .. Len(parts[k])
       PROVE  all[place[k - 1] + j] = parts[k][j]
  <2>1. text[place[k - 1] + j] = parts[k][j] /\ place[k] = place[k - 1] + Len(parts[k])
    BY <1>4, <1>7 DEF Laid
  <2>2. k - 1 \in 0 .. N /\ k \in 0 .. N
    BY <1>1
  <2>3. place[k - 1] \in Nat /\ place[k] \in Nat /\ place[k] <= Len(text) /\ Len(text) \in Nat
    BY <1>8, <1>9, <1>11, <1>12, <2>2
  <2>4. Len(parts[k]) \in Nat
    BY <1>2, <1>3, <1>4
  <2>5. place[k - 1] + j \in 1 .. Len(text)
    BY <2>1, <2>3, <2>4
  <2> QED
    BY <1>8, <2>1, <2>5
<1>14. ASSUME NEW k \in 1 .. N, NEW j \in 1 .. Len(path[k])
       PROVE  all[place[k - 1] + 1 + j] = path[k][j]
  <2>0. k - 1 \in 0 .. N
    BY <1>1
  <2>3. place[k - 1] \in Nat
    BY <1>9, <2>0
  <2>4. parts[k] = <<SEPARATOR>> \o path[k]
    BY <1>4
  <2>5. parts[k][1 + j] = path[k][j]
    BY <1>3, <2>4, Zenon
  <2>6. Len(path[k]) \in Nat /\ Len(parts[k]) = 1 + Len(path[k])
    BY <1>2, <1>3, <2>4, Zenon
  <2>1. Len(path[k]) \in Nat /\ Len(parts[k]) = 1 + Len(path[k])
          /\ parts[k][1 + j] = path[k][j] /\ place[k - 1] \in Nat
    BY <2>3, <2>5, <2>6
  <2>2. 1 + j \in 1 .. Len(parts[k]) /\ place[k - 1] + (1 + j) = place[k - 1] + 1 + j
    BY <2>1
  <2> QED
    BY <1>13, <2>1, <2>2
<1>15. ASSUME NEW k \in 0 .. N PROVE all[place[k] + 1] = SEPARATOR
  <2>1. CASE k = N
    BY <1>8, <1>11, <2>1
  <2>2. CASE k # N
    <3>1. k + 1 \in 1 .. N /\ (k + 1) - 1 = k
      <4>1. \A n \in Nat : \A m \in 0 .. n : m # n => m + 1 \in 1 .. n /\ (m + 1) - 1 = m
        OBVIOUS
      <4>2. N \in Nat
        BY <1>1
      <4> HIDE DEF N
      <4> QED
        BY <2>2, <4>1, <4>2
    <3>2. parts[k + 1] = <<SEPARATOR>> \o path[k + 1]
      BY <1>4, <3>1
    <3>3. parts[k + 1][1] = SEPARATOR /\ Len(parts[k + 1]) = 1 + Len(path[k + 1])
      BY <1>3, <3>1, <3>2
    <3>4. 1 \in 1 .. Len(parts[k + 1])
      BY <1>2, <3>1, <3>3
    <3>5. all[place[(k + 1) - 1] + 1] = parts[k + 1][1]
      BY <1>13, <3>1, <3>4, Zenon
    <3> QED
      BY <3>1, <3>3, <3>5
  <2> QED
    BY <2>1, <2>2
<1>16. Spelled(all, path, place)
  BY <1>8, <1>10, <1>11, <1>14, <1>15, Zenon DEF Spelled
<1> QED
  BY <1>8, <1>16 DEF all, text

(* What the texts have in common up to a name's end.                       *)
SameUpTo(k, r, p, a, b) ==
  /\ k <= Len(p) /\ a[k] = b[k] /\ \A i \in 1 .. k : r[i] = p[i]

(* A name and what ends it, behind a place.                                *)
Reads(text, m, name) ==
  /\ \A j \in 1 .. Len(name) : text[m + j] = name[j]
  /\ text[m + Len(name) + 1] = SEPARATOR

(* Two readings of a text at one place give one name.                      *)
LEMMA SameName ==
  ASSUME NEW x \in NamesOfItems, NEW y \in NamesOfItems, NEW s, NEW t, NEW m \in Nat,
         Len(s) \in Nat, BeginsAlike(t, Len(s), s), Reads(s, m, x), Reads(t, m, y),
         Len(s) >= m + Len(x) + 1
  PROVE  x = y
<1>1. /\ x \in Seq(Nat) /\ y \in Seq(Nat) /\ Len(x) \in Nat /\ Len(y) \in Nat
      /\ \A i \in 1 .. Len(x) : x[i] # SEPARATOR
      /\ \A i \in 1 .. Len(y) : y[i] # SEPARATOR
  BY NamesHaveNoSeparator
<1>2. \A j \in 1 .. Len(x) + 1 : m + j \in 1 .. Len(s)
  BY <1>1
<1>3. \A j \in 1 .. Len(x) + 1 : s[m + j] = t[m + j]
  BY <1>2 DEF BeginsAlike
<1>4. ~(Len(x) < Len(y))
  <2>1. SUFFICES ASSUME Len(x) < Len(y) PROVE FALSE
    OBVIOUS
  <2>2. Len(x) + 1 \in 1 .. Len(y) /\ Len(x) + 1 \in 1 .. Len(x) + 1
          /\ m + (Len(x) + 1) = m + Len(x) + 1
    BY <1>1, <2>1
  <2>3. t[m + (Len(x) + 1)] = y[Len(x) + 1] /\ s[m + (Len(x) + 1)] = t[m + (Len(x) + 1)]
    BY <1>3, <2>2 DEF Reads
  <2> QED
    BY <1>1, <2>2, <2>3 DEF Reads
<1>5. ~(Len(y) < Len(x))
  <2>1. SUFFICES ASSUME Len(y) < Len(x) PROVE FALSE
    OBVIOUS
  <2>2. Len(y) + 1 \in 1 .. Len(x) /\ Len(y) + 1 \in 1 .. Len(x) + 1
          /\ m + (Len(y) + 1) = m + Len(y) + 1
    BY <1>1, <2>1
  <2>3. s[m + (Len(y) + 1)] = x[Len(y) + 1] /\ s[m + (Len(y) + 1)] = t[m + (Len(y) + 1)]
    BY <1>3, <2>2 DEF Reads
  <2> QED
    BY <1>1, <2>2, <2>3 DEF Reads
<1>6. Len(x) = Len(y)
  BY <1>1, <1>4, <1>5
<1>7. ASSUME NEW j \in 1 .. Len(x) PROVE x[j] = y[j]
  <2>1. j \in 1 .. Len(x) + 1 /\ j \in 1 .. Len(y)
    BY <1>1, <1>6
  <2>2. s[m + j] = x[j] /\ t[m + j] = y[j] /\ s[m + j] = t[m + j]
    BY <1>3, <2>1 DEF Reads
  <2> QED
    BY <2>2
<1> QED
  BY <1>1, <1>6, <1>7, SeqEqual

(* Two paths that agree up to a name agree on it, if one text begins       *)
(* with the other.                                                         *)
LEMMA NextNameIsSame ==
  ASSUME NEW r \in PathsOfItems, NEW p \in PathsOfItems, NEW s, NEW t,
         NEW a \in [0 .. Len(r) -> Nat], NEW b \in [0 .. Len(p) -> Nat],
         Spelled(s, r, a), Spelled(t, p, b), Len(s) <= Len(t),
         \A k \in 0 .. Len(r) : a[k] <= a[Len(r)],
         \A i \in 1 .. Len(s) : s[i] = t[i],
         NEW k \in Nat, k + 1 <= Len(r), SameUpTo(k, r, p, a, b)
  PROVE  SameUpTo(k + 1, r, p, a, b)
<1>1. /\ Len(r) \in Nat /\ Len(p) \in Nat
      /\ k + 1 \in 1 .. Len(r) /\ (k + 1) - 1 = k /\ k \in 0 .. Len(r) /\ k + 1 \in 0 .. Len(r)
  BY PathHasNames
<1>2. /\ r[k + 1] \in NamesOfItems /\ r[k + 1] \in Seq(Nat) /\ Len(r[k + 1]) \in Nat
  BY <1>1, PathHasNames, NamesHaveNoSeparator
<1>3. /\ a[k] \in Nat /\ a[k + 1] \in Nat /\ a[Len(r)] \in Nat /\ a[k] = b[k]
      /\ a[k + 1] = a[k] + 1 + Len(r[k + 1]) /\ a[k + 1] <= a[Len(r)]
      /\ Len(s) = a[Len(r)] + 1
  <2>1. a[k] \in Nat /\ a[k + 1] \in Nat /\ a[k + 1] <= a[Len(r)]
    BY <1>1
  <2>2. a[Len(r)] \in Nat
    <3>1. Len(r) \in 0 .. Len(r)
      BY <1>1
    <3> QED
      BY <3>1
  <2>3. a[k + 1] = a[(k + 1) - 1] + 1 + Len(r[k + 1])
    BY <1>1, Zenon DEF Spelled
  <2>4. Len(s) = a[Len(r)] + 1 /\ a[k] = b[k]
    BY DEF Spelled, SameUpTo
  <2> QED
    BY <1>1, <2>1, <2>2, <2>3, <2>4
<1>4. k # Len(p)
  <2>1. SUFFICES ASSUME k = Len(p) PROVE FALSE
    OBVIOUS
  <2>2. Len(t) = b[k] + 1
    BY <2>1 DEF Spelled
  <2> QED
    BY <1>2, <1>3, <2>2
<1>5. k + 1 \in 1 .. Len(p) /\ k + 1 \in 0 .. Len(p) /\ k \in 0 .. Len(p)
  BY <1>1, <1>4 DEF SameUpTo
<1>6. p[k + 1] \in NamesOfItems /\ p[k + 1] \in Seq(Nat) /\ Len(p[k + 1]) \in Nat
  BY <1>5, PathHasNames, NamesHaveNoSeparator
<1>7. b[k + 1] = b[k] + 1 + Len(p[k + 1]) /\ b[k + 1] \in Nat
  BY <1>1, <1>5 DEF Spelled
<1> DEFINE m == a[k] + 1
           x == r[k + 1]
           y == p[k + 1]
<1>8. m \in Nat /\ m + Len(x) = a[k + 1] /\ m + Len(y) = b[k + 1]
  BY <1>2, <1>3, <1>6, <1>7, SMTT(30)
<1>9. \A j \in 1 .. Len(x) : s[m + j] = x[j]
  BY <1>1 DEF Spelled
<1>10. \A j \in 1 .. Len(y) : t[m + j] = y[j]
  <2>1. \A j \in 1 .. Len(p[k + 1]) : t[b[k] + 1 + j] = p[k + 1][j]
    BY <1>1, <1>5 DEF Spelled
  <2> QED
    BY <1>3, <2>1
<1>11. s[a[k + 1] + 1] = SEPARATOR /\ t[b[k + 1] + 1] = SEPARATOR
  BY <1>1, <1>5 DEF Spelled
<1>12. Len(s) \in Nat /\ Len(s) >= m + Len(x) + 1
  BY <1>3, <1>8
<1>13. x = y
  <2>1. x \in NamesOfItems /\ y \in NamesOfItems
    BY <1>2, <1>6
  <2>2. s[m + Len(x) + 1] = SEPARATOR /\ t[m + Len(y) + 1] = SEPARATOR
    BY <1>8, <1>11
  <2>3. BeginsAlike(t, Len(s), s) /\ Reads(s, m, x) /\ Reads(t, m, y)
    BY <1>9, <1>10, <2>2 DEF BeginsAlike, Reads
  <2> HIDE DEF m, x, y
  <2> QED
    BY <1>8, <1>12, <2>1, <2>3, SameName, Zenon
<1>14. a[k + 1] = b[k + 1]
  BY <1>8, <1>13
<1>15. \A i \in 1 .. k + 1 : i \in 1 .. k \/ i = k + 1
  BY <1>1
<1>16. \A i \in 1 .. k + 1 : r[i] = p[i]
  BY <1>13, <1>15 DEF SameUpTo
<1> QED
  BY <1>5, <1>14, <1>16 DEF SameUpTo

(* A text begins with a root's text and ends or goes on with a separator   *)
(* just when the path begins with the root.                                *)
LEMMA TextsAreOfPaths ==
  ASSUME NEW r \in PathsOfItems, NEW p \in PathsOfItems,
         IsPrefix(TextOf(r) \o <<SEPARATOR>>, TextOf(p) \o <<SEPARATOR>>)
  PROVE  BeginsAlike(p, Len(r), r)
<1> DEFINE s == TextOf(r) \o <<SEPARATOR>>
           t == TextOf(p) \o <<SEPARATOR>>
<1>1. PICK a \in [0 .. Len(r) -> Nat] : Spelled(s, r, a)
  BY TextIsSpelled
<1>2. PICK b \in [0 .. Len(p) -> Nat] : Spelled(t, p, b)
  BY TextIsSpelled
<1>3. s \in Seq(Nat) /\ t \in Seq(Nat)
  BY TextIsSpelled
<1>4. Len(s) <= Len(t) /\ \A i \in 1 .. Len(s) : s[i] = t[i]
  <2>1. IsPrefix(s, t)
    OBVIOUS
  <2> HIDE DEF s, t
  <2>2. BeginsAlike(t, Len(s), s)
    BY <1>3, <2>1, PrefixIs
  <2> QED
    BY <1>3, <2>2 DEF BeginsAlike
<1> HIDE DEF s, t
<1>5. Len(r) \in Nat /\ Len(p) \in Nat
  BY PathHasNames
<1>6. \A k \in 0 .. Len(r) : a[k] <= a[Len(r)]
  BY <1>1, PlacesRise DEF Spelled
<1> DEFINE T == {k \in Nat : k <= Len(r) => SameUpTo(k, r, p, a, b)}
<1>7. 0 \in T
  BY <1>1, <1>2, <1>5 DEF SameUpTo, Spelled
<1>8. ASSUME NEW k \in Nat, k \in T PROVE k + 1 \in T
  <2>1. SUFFICES ASSUME k + 1 <= Len(r) PROVE SameUpTo(k + 1, r, p, a, b)
    OBVIOUS
  <2>2. SameUpTo(k, r, p, a, b)
    BY <1>5, <1>8, <2>1
  <2> QED
    BY <1>1, <1>2, <1>4, <1>6, <2>1, <2>2, NextNameIsSame
<1> HIDE DEF T
<1>9. Len(r) \in T
  BY <1>5, <1>7, <1>8, Induction
<1> QED
  BY <1>5, <1>9 DEF T, SameUpTo, BeginsAlike

-----------------------------------------------------------------------------
(* What the operations make of the disk.                                   *)

(* The directory something is in.                                          *)
IsParent(q, p) ==
  /\ q \in PathsOfItems /\ Len(p) \in Nat /\ Len(p) >= 1 /\ Len(q) = Len(p) - 1
  /\ \A i \in 1 .. Len(p) - 1 : q[i] = p[i]

LEMMA ParentIs ==
  ASSUME NEW p \in PathsOfItems, p # <<>>
  PROVE  IsParent(Front(p), p)
<1>1. p \in Seq(NamesOfItems) /\ Len(p) \in Nat
  BY DEF PathsOfItems
<1>2. Len(p) # 0
  BY <1>1, EmptySeq
<1>3. \A i \in 1 .. Len(p) - 1 : p[i] \in NamesOfItems
  BY <1>1
<1>4. Len(p) - 1 \in 0 .. Len(p)
  BY <1>1, <1>2
<1>5. /\ SubSeq(p, 1, Len(p) - 1) \in Seq(NamesOfItems)
      /\ Len(SubSeq(p, 1, Len(p) - 1)) = Len(p) - 1
      /\ \A i \in 1 .. Len(p) - 1 : SubSeq(p, 1, Len(p) - 1)[i] = p[i]
  <2> DEFINE f == SubSeq(p, 1, Len(p) - 1)
  <2>1. /\ f \in Seq(NamesOfItems)
        /\ Len(f) = IF 1 <= Len(p) - 1 THEN (Len(p) - 1) - 1 + 1 ELSE 0
        /\ \A i \in 1 .. (Len(p) - 1) - 1 + 1 : f[i] = p[1 + i - 1]
    BY <1>1, <1>3, <1>4, SubSeqProperties
  <2> HIDE DEF f
  <2>2. /\ (Len(p) - 1) - 1 + 1 = Len(p) - 1
        /\ \A i \in 1 .. Len(p) - 1 : 1 + i - 1 = i
    BY <1>1
  <2>3. Len(f) = Len(p) - 1
    <3>1. \A n \in Nat : n # 0 => (IF 1 <= n - 1 THEN (n - 1) - 1 + 1 ELSE 0) = n - 1
      OBVIOUS
    <3>2. (IF 1 <= Len(p) - 1 THEN (Len(p) - 1) - 1 + 1 ELSE 0) = Len(p) - 1
      BY <1>1, <1>2, <3>1, Zenon
    <3>3. Len(f) = IF 1 <= Len(p) - 1 THEN (Len(p) - 1) - 1 + 1 ELSE 0
      BY <2>1
    <3> QED
      BY <3>2, <3>3
  <2> QED
    BY <2>1, <2>2, <2>3 DEF f
<1> QED
  BY <1>1, <1>2, <1>5 DEF Front, PathsOfItems, IsParent

(* Paths are the same if their names are.                                  *)
LEMMA SamePath ==
  ASSUME NEW p \in PathsOfItems, NEW q \in PathsOfItems, Len(p) = Len(q),
         \A i \in 1 .. Len(p) : p[i] = q[i]
  PROVE  p = q
BY SeqEqual DEF PathsOfItems

LEMMA PathPrefix ==
  ASSUME NEW p \in PathsOfItems, NEW q \in PathsOfItems
  PROVE  IsPrefix(p, q) <=> BeginsAlike(q, Len(p), p)
BY PrefixIs DEF PathsOfItems

(* Everything above an item exists, and is a directory.                    *)
LEMMA ParentsExist ==
  ASSUME NEW d, IsDisk(d), NEW q \in PathsOfItems, q # <<>>,
         NEW p \in DOMAIN d, BeginsAlike(p, Len(q), q)
  PROVE  q \in DOMAIN d /\ (p # q => d[q] = "directory")
<1> DEFINE Under(x, n) == Len(x) = Len(q) + n /\ BeginsAlike(x, Len(q), q)
           Found(n) == q \in DOMAIN d /\ (n # 0 => d[q] = "directory")
           T == {n \in Nat : \A x \in DOMAIN d : Under(x, n) => Found(n)}
<1>1. Len(q) \in Nat /\ Len(q) >= 1
  <2>1. Len(q) \in Nat
    BY PathHasNames
  <2> QED
    BY ParentIs DEF IsParent
<1>2. \A x \in DOMAIN d : x \in PathsOfItems /\ x # <<>>
  BY DEF IsDisk
<1>3. 0 \in T
  <2>1. ASSUME NEW x \in DOMAIN d, Under(x, 0) PROVE Found(0)
    <3>1. Len(x) = Len(q) /\ \A i \in 1 .. Len(x) : x[i] = q[i]
      BY <1>1, <2>1 DEF BeginsAlike
    <3>2. x = q
      BY <1>2, <3>1, SamePath
    <3> QED
      BY <3>2
  <2> QED
    BY <2>1
<1>4. ASSUME NEW n \in Nat, n \in T PROVE n + 1 \in T
  <2>1. SUFFICES ASSUME NEW x \in DOMAIN d, Under(x, n + 1) PROVE Found(n + 1)
    BY DEF T
  <2>2. IsParent(Front(x), x)
    BY <1>2, ParentIs
  <2>3. Len(x) = Len(q) + (n + 1) /\ \A i \in 1 .. Len(q) : x[i] = q[i]
    BY <2>1 DEF BeginsAlike
  <2>4. Len(x) > 1 /\ Len(Front(x)) = Len(q) + n
          /\ \A i \in 1 .. Len(q) : i \in 1 .. Len(x) - 1
    BY <1>1, <2>2, <2>3 DEF IsParent
  <2>5. Front(x) \in DOMAIN d /\ d[Front(x)] = "directory"
    BY <2>4 DEF IsDisk
  <2>6. Under(Front(x), n)
    <3>1. \A i \in 1 .. Len(q) : Front(x)[i] = q[i]
      BY <2>2, <2>3, <2>4, Zenon DEF IsParent
    <3>2. Len(Front(x)) >= Len(q)
      BY <1>1, <2>4
    <3> QED
      BY <2>4, <3>1, <3>2 DEF BeginsAlike
  <2>7. Found(n)
    <3> HIDE DEF Under, Found
    <3> QED
      BY <1>4, <2>5, <2>6
  <2>8. CASE n = 0
    <3>1. Len(Front(x)) = Len(q) /\ \A i \in 1 .. Len(q) : Front(x)[i] = q[i]
      BY <1>1, <2>6, <2>8 DEF BeginsAlike
    <3>2. Front(x) = q
      BY <1>2, <2>5, <3>1, SamePath
    <3> QED
      BY <2>5, <2>7, <3>2
  <2> QED
    BY <2>7, <2>8
<1> HIDE DEF T
<1>5. Len(p) - Len(q) \in T
  <2>1. Len(p) \in Nat /\ Len(p) >= Len(q)
    BY <1>2, PathHasNames DEF BeginsAlike
  <2>2. Len(p) - Len(q) \in Nat
    BY <1>1, <2>1
  <2> QED
    BY <1>3, <1>4, <2>2, Induction
<1>6. Under(p, Len(p) - Len(q))
  <2>1. Len(p) \in Nat
    BY <1>2, PathHasNames
  <2> QED
    BY <1>1, <2>1
<1>7. Found(Len(p) - Len(q))
  <2> HIDE DEF Under, Found
  <2> QED
    BY <1>5, <1>6 DEF T
<1>8. ASSUME p # q PROVE Len(p) - Len(q) # 0
  <2>1. SUFFICES ASSUME Len(p) = Len(q) PROVE FALSE
    BY <1>1, <1>2, PathHasNames
  <2> QED
    BY <1>2, <1>8, <2>1, SamePath DEF BeginsAlike
<1> QED
  BY <1>7, <1>8

(* A disk with one more item, or without a directory and all below it,     *)
(* is a disk.                                                              *)
LEMMA CreatedIsDisk ==
  ASSUME NEW d, IsDisk(d), NEW target \in PathsOfItems, target # <<>>, target \notin DOMAIN d,
         NEW kind \in Kinds,
         Len(target) > 1 => Front(target) \in DOMAIN d /\ d[Front(target)] = "directory",
         NEW new, DOMAIN new = DOMAIN d \cup {target}, new[target] = kind,
         \A p \in DOMAIN d : new[p] = d[p]
  PROVE  IsDisk(new)
<1>1. DOMAIN new = DOMAIN d \cup {target} /\ new[target] = kind
      /\ \A p \in DOMAIN d : new[p] = d[p]
  OBVIOUS
<1>2. ASSUME NEW p \in DOMAIN new
      PROVE  /\ p \in PathsOfItems /\ p # <<>> /\ new[p] \in Kinds
             /\ Len(p) > 1 => Front(p) \in DOMAIN new /\ new[Front(p)] = "directory"
  BY <1>1 DEF IsDisk
<1> QED
  BY <1>2 DEF IsDisk

LEMMA RemovedIsDisk ==
  ASSUME IsDisk(disk), NEW path \in PathsOfItems
  PROVE  /\ IsDisk(Removed(path))
         /\ DOMAIN Removed(path) = {q \in DOMAIN disk : ~IsPrefix(path, q)}
         /\ \A q \in DOMAIN Removed(path) : Removed(path)[q] = disk[q]
<1> DEFINE new == Removed(path)
<1>1. /\ DOMAIN new = {q \in DOMAIN disk : ~IsPrefix(path, q)}
      /\ \A q \in DOMAIN new : new[q] = disk[q]
  BY DEF Removed
<1> HIDE DEF new
<1>2. ASSUME NEW p \in DOMAIN new
      PROVE  /\ p \in PathsOfItems /\ p # <<>> /\ new[p] \in Kinds
             /\ Len(p) > 1 => Front(p) \in DOMAIN new /\ new[Front(p)] = "directory"
  <2>1. p \in DOMAIN disk /\ new[p] = disk[p] /\ ~IsPrefix(path, p)
    BY <1>1
  <2>2. p \in PathsOfItems /\ p # <<>> /\ new[p] \in Kinds
    BY <2>1 DEF IsDisk
  <2>3. ASSUME Len(p) > 1 PROVE Front(p) \in DOMAIN new /\ new[Front(p)] = "directory"
    <3>1. Front(p) \in DOMAIN disk /\ disk[Front(p)] = "directory"
      BY <2>1, <2>3 DEF IsDisk
    <3>2. IsParent(Front(p), p)
      BY <2>2, ParentIs
    <3>3. ~IsPrefix(path, Front(p))
      <4>1. SUFFICES ASSUME BeginsAlike(Front(p), Len(path), path)
                     PROVE  BeginsAlike(p, Len(path), path)
        BY <2>1, <2>2, <3>2, PathPrefix DEF IsParent
      <4>2. Len(path) \in Nat /\ Len(p) \in Nat /\ Len(path) <= Len(p) - 1
        BY <3>2, <4>1, PathHasNames DEF BeginsAlike, IsParent
      <4>3. \A i \in 1 .. Len(path) : i \in 1 .. Len(p) - 1
        BY <4>2
      <4>4. \A i \in 1 .. Len(path) : p[i] = path[i]
        BY <3>2, <4>1, <4>3 DEF BeginsAlike, IsParent
      <4> QED
        BY <4>2, <4>4 DEF BeginsAlike
    <3> QED
      BY <1>1, <3>1, <3>3
  <2> QED
    BY <2>2, <2>3
<1>3. IsDisk(new)
  BY <1>2 DEF IsDisk
<1> QED
  BY <1>1, <1>3 DEF new

(* A renamed path differs in one name.                                     *)
RenamedAt(p, k, name, q) ==
  /\ q \in PathsOfItems /\ Len(q) = Len(p)
  /\ \A i \in 1 .. Len(p) : q[i] = IF i = k THEN name ELSE p[i]

(* The path with its last name replaced.                                   *)
LEMMA TargetIs ==
  ASSUME NEW source \in PathsOfItems, source # <<>>, NEW name \in NamesOfItems
  PROVE  RenamedAt(source, Len(source), name, Append(Front(source), name))
<1>1. IsParent(Front(source), source)
  BY ParentIs
<1> DEFINE f == Front(source)
<1>2. f \in Seq(NamesOfItems) /\ Len(source) \in Nat /\ Len(f) = Len(source) - 1
      /\ \A i \in 1 .. Len(source) - 1 : f[i] = source[i]
  BY <1>1 DEF IsParent, PathsOfItems
<1> HIDE DEF f
<1>3. /\ Append(f, name) \in Seq(NamesOfItems) /\ Len(Append(f, name)) = Len(f) + 1
      /\ Append(f, name)[Len(f) + 1] = name
      /\ \A i \in 1 .. Len(f) : Append(f, name)[i] = f[i]
  BY <1>2, AppendProperties
<1>4. Len(Append(f, name)) = Len(source) /\ Append(f, name)[Len(source)] = name
  BY <1>2, <1>3
<1>5. \A i \in 1 .. Len(source) : i # Len(source) => i \in 1 .. Len(source) - 1
  BY <1>2
<1>6. \A i \in 1 .. Len(source) - 1 : Append(f, name)[i] = source[i]
  BY <1>2, <1>3
<1> QED
  BY <1>3, <1>4, <1>5, <1>6 DEF RenamedAt, PathsOfItems, f

LEMMA MovedIs ==
  ASSUME NEW source \in PathsOfItems, source # <<>>, NEW name \in NamesOfItems, NEW target,
         RenamedAt(source, Len(source), name, target), NEW p \in PathsOfItems
  PROVE  /\ IsPrefix(source, p) => RenamedAt(p, Len(source), name, Moved(p, source, target))
         /\ ~IsPrefix(source, p) => Moved(p, source, target) = p
<1>1. SUFFICES ASSUME IsPrefix(source, p)
               PROVE  RenamedAt(p, Len(source), name, Moved(p, source, target))
  BY DEF Moved
<1> DEFINE L == Len(source)
           rest == SubSeq(p, L + 1, Len(p))
<1>2. BeginsAlike(p, L, source)
  BY <1>1, PathPrefix
<1>3. L \in Nat /\ Len(p) \in Nat /\ L <= Len(p) /\ p \in Seq(NamesOfItems)
      /\ \A i \in 1 .. L : p[i] = source[i]
  BY <1>2, PathHasNames DEF BeginsAlike, PathsOfItems
<1>4. Moved(p, source, target) = target \o rest
  BY <1>1 DEF Moved
<1> HIDE DEF L
<1>5. /\ rest \in Seq(NamesOfItems) /\ Len(rest) = Len(p) - L
      /\ \A i \in 1 .. Len(p) - L : rest[i] = p[L + i]
  <2>1. \A i \in L + 1 .. Len(p) : p[i] \in NamesOfItems
    BY <1>3
  <2>2. L + 1 \in 1 .. Len(p) + 1 /\ Len(p) \in L .. Len(p)
    BY <1>3
  <2>3. L + 1 <= Len(p) + 1
    BY <1>3
  <2>4. /\ rest \in Seq(NamesOfItems)
        /\ Len(rest) = IF L + 1 <= Len(p) THEN Len(p) - (L + 1) + 1 ELSE 0
        /\ \A i \in 1 .. Len(p) - (L + 1) + 1 : rest[i] = p[(L + 1) + i - 1]
    BY <1>3, <2>1, SubSeqProperties
  <2>5. Len(p) - (L + 1) + 1 = Len(p) - L /\ \A i \in 1 .. Len(p) - L : (L + 1) + i - 1 = L + i
    BY <1>3
  <2>6. Len(rest) = Len(p) - L
    BY <1>3, <2>4
  <2> HIDE DEF rest
  <2> QED
    BY <2>4, <2>5, <2>6
<1> HIDE DEF rest
<1>6. /\ target \in Seq(NamesOfItems) /\ Len(target) = L
      /\ \A i \in 1 .. L : target[i] = IF i = L THEN name ELSE source[i]
  BY DEF RenamedAt, PathsOfItems, L
<1>7. /\ target \o rest \in Seq(NamesOfItems) /\ Len(target \o rest) = Len(p)
      /\ \A i \in 1 .. Len(p) : (target \o rest)[i] = IF i <= L THEN target[i] ELSE rest[i - L]
  <2>1. /\ target \o rest \in Seq(NamesOfItems) /\ Len(target \o rest) = Len(target) + Len(rest)
        /\ \A i \in 1 .. Len(target) + Len(rest) :
             (target \o rest)[i] = IF i <= Len(target) THEN target[i] ELSE rest[i - Len(target)]
    BY <1>5, <1>6, ConcatProperties
  <2>2. Len(target) + Len(rest) = Len(p)
    BY <1>3, <1>5, <1>6
  <2> QED
    BY <1>6, <2>1, <2>2
<1>8. ASSUME NEW i \in 1 .. Len(p)
      PROVE  (target \o rest)[i] = IF i = L THEN name ELSE p[i]
  <2>1. CASE i <= L
    <3>1. i \in 1 .. L
      BY <1>3, <2>1
    <3> QED
      BY <1>3, <1>6, <1>7, <2>1, <3>1
  <2>2. CASE ~(i <= L)
    <3>1. i - L \in 1 .. Len(p) - L /\ L + (i - L) = i /\ i # L
      BY <1>3, <2>2
    <3> QED
      BY <1>5, <1>7, <2>2, <3>1
  <2> QED
    BY <2>1, <2>2
<1> QED
  BY <1>4, <1>7, <1>8 DEF RenamedAt, PathsOfItems, L

(* What a longer path begins with.                                         *)
LEMMA FrontOf ==
  ASSUME NEW path \in PathsOfItems, NEW p \in PathsOfItems, p # <<>>
  PROVE  BeginsAlike(Front(p), Len(path), path)
           <=> BeginsAlike(p, Len(path), path) /\ Len(path) < Len(p)
<1>1. IsParent(Front(p), p)
  BY ParentIs
<1>2. Len(path) \in Nat /\ Len(p) \in Nat /\ Len(Front(p)) = Len(p) - 1
        /\ \A i \in 1 .. Len(p) - 1 : Front(p)[i] = p[i]
  BY <1>1, PathHasNames DEF IsParent
<1>3. Len(path) <= Len(p) - 1 => \A i \in 1 .. Len(path) : i \in 1 .. Len(p) - 1
  BY <1>2
<1> QED
  BY <1>2, <1>3 DEF BeginsAlike

(* What the renaming of an item needs: nothing has the new name.           *)
Renaming(d, source, name, target) ==
  /\ IsDisk(d) /\ source \in DOMAIN d /\ source \in PathsOfItems /\ source # <<>>
  /\ name \in NamesOfItems
  /\ RenamedAt(source, Len(source), name, target) /\ target \notin DOMAIN d

(* A rename replaces a name in the middle of each path that it moves.      *)
LEMMA RenamingMoves ==
  ASSUME NEW d, NEW source, NEW name, NEW target, Renaming(d, source, name, target),
         NEW p \in DOMAIN d
  PROVE  /\ p \in PathsOfItems /\ p # <<>>
         /\ Moved(p, source, target) \in PathsOfItems /\ Len(Moved(p, source, target)) = Len(p)
         /\ ~BeginsAlike(p, Len(target), target)
         /\ ~IsPrefix(source, p) => Moved(p, source, target) = p
         /\ IsPrefix(source, p) =>
              /\ RenamedAt(p, Len(source), name, Moved(p, source, target))
              /\ BeginsAlike(p, Len(source), source)
              /\ BeginsAlike(Moved(p, source, target), Len(target), target)
<1> DEFINE m == Moved(p, source, target)
           L == Len(source)
<1>1. p \in PathsOfItems /\ p # <<>>
  BY DEF Renaming, IsDisk
<1>2. /\ IsPrefix(source, p) => RenamedAt(p, L, name, m)
      /\ ~IsPrefix(source, p) => m = p
  BY <1>1, MovedIs DEF Renaming
<1> HIDE DEF m, L
<1>3. m \in PathsOfItems /\ Len(m) = Len(p)
  BY <1>1, <1>2 DEF RenamedAt
<1>4. L \in Nat /\ L >= 1
  BY PathHasNames, ParentIs DEF Renaming, IsParent, L
<1>5. target \in PathsOfItems /\ Len(target) = L
        /\ \A i \in 1 .. L : target[i] = IF i = L THEN name ELSE source[i]
  BY DEF Renaming, RenamedAt, L
<1>6. target # <<>>
  BY <1>4, <1>5
<1>7. ~BeginsAlike(p, Len(target), target)
  BY <1>5, <1>6, ParentsExist DEF Renaming
<1>8. ASSUME IsPrefix(source, p)
      PROVE  BeginsAlike(p, L, source) /\ BeginsAlike(m, Len(target), target)
  <2>1. BeginsAlike(p, L, source)
    BY <1>1, <1>8, PathPrefix DEF Renaming, L
  <2>2. Len(p) \in Nat /\ Len(p) >= L /\ \A i \in 1 .. L : i \in 1 .. Len(p) /\ p[i] = source[i]
    BY <1>1, <1>4, <2>1, PathHasNames DEF BeginsAlike
  <2>3. \A i \in 1 .. Len(p) : m[i] = IF i = L THEN name ELSE p[i]
    BY <1>2, <1>8 DEF RenamedAt
  <2>4. \A i \in 1 .. L : m[i] = target[i]
    BY <1>5, <2>2, <2>3
  <2> QED
    BY <1>3, <1>5, <2>1, <2>2, <2>4 DEF BeginsAlike
<1> QED
  BY <1>1, <1>2, <1>3, <1>7, <1>8 DEF m, L

LEMMA RenamingIsInjective ==
  ASSUME NEW d, NEW source, NEW name, NEW target, Renaming(d, source, name, target),
         NEW p \in DOMAIN d, NEW q \in DOMAIN d,
         Moved(p, source, target) = Moved(q, source, target)
  PROVE  p = q
<1>1. ASSUME NEW x \in DOMAIN d, NEW y \in DOMAIN d, IsPrefix(source, x),
             Moved(x, source, target) = Moved(y, source, target)
      PROVE  IsPrefix(source, y)
  <2>1. BeginsAlike(Moved(x, source, target), Len(target), target)
    BY <1>1, RenamingMoves
  <2>2. ~BeginsAlike(y, Len(target), target)
    BY RenamingMoves
  <2>3. Moved(y, source, target) # y
    BY <1>1, <2>1, <2>2
  <2> QED
    BY <2>3, RenamingMoves
<1>2. CASE IsPrefix(source, p)
  <2>1. IsPrefix(source, q)
    BY <1>1, <1>2
  <2> DEFINE m == Moved(p, source, target)
             L == Len(source)
  <2>2. /\ RenamedAt(p, L, name, m) /\ BeginsAlike(p, L, source) /\ p \in PathsOfItems
        /\ RenamedAt(q, L, name, m) /\ BeginsAlike(q, L, source) /\ q \in PathsOfItems
    BY <1>2, <2>1, RenamingMoves
  <2>3. L \in Nat
    BY PathHasNames DEF Renaming
  <2> HIDE DEF m, L
  <2>4. Len(p) = Len(q) /\ Len(p) \in Nat
    BY <2>2, PathHasNames DEF RenamedAt
  <2>5. ASSUME NEW i \in 1 .. Len(p) PROVE p[i] = q[i]
    <3>1. CASE i = L
      <4>1. p[i] = source[i] /\ q[i] = source[i]
        BY <2>2, <2>3, <3>1 DEF BeginsAlike
      <4> QED
        BY <4>1
    <3>2. CASE i # L
      <4>1. m[i] = p[i] /\ m[i] = q[i]
        BY <2>2, <2>4, <3>2 DEF RenamedAt
      <4> QED
        BY <4>1
    <3> QED
      BY <3>1, <3>2
  <2> QED
    BY <2>2, <2>4, <2>5, SamePath
<1>3. CASE ~IsPrefix(source, p)
  <2>1. ~IsPrefix(source, q)
    BY <1>1, <1>3
  <2> QED
    BY <1>3, <2>1, RenamingMoves
<1> QED
  BY <1>2, <1>3

(* What the disk has after a rename.                                       *)
LEMMA RenamedHas ==
  ASSUME NEW d, NEW source, NEW name, NEW target, Renaming(d, source, name, target)
  PROVE  /\ \A p : p \in DOMAIN Renamed(d, source, target)
                     <=> \E q \in DOMAIN d : p = Moved(q, source, target)
         /\ \A q \in DOMAIN d : Renamed(d, source, target)[Moved(q, source, target)] = d[q]
<1>1. \A p : p \in DOMAIN Renamed(d, source, target)
               <=> \E q \in DOMAIN d : p = Moved(q, source, target)
  BY DEF Renamed
<1>2. ASSUME NEW q \in DOMAIN d
      PROVE  Renamed(d, source, target)[Moved(q, source, target)] = d[q]
  <2> DEFINE m == Moved(q, source, target)
             c == CHOOSE x \in DOMAIN d : Moved(x, source, target) = m
  <2>1. Renamed(d, source, target)[m] = d[c]
    BY DEF Renamed
  <2>2. c \in DOMAIN d /\ Moved(c, source, target) = m
    BY Zenon
  <2> HIDE DEF c
  <2>3. c = q
    BY <2>2, RenamingIsInjective
  <2> QED
    BY <2>1, <2>3
<1> QED
  BY <1>1, <1>2

LEMMA MovedParent ==
  ASSUME NEW d, NEW source, NEW name, NEW target, Renaming(d, source, name, target),
         NEW q \in DOMAIN d, Len(q) > 1
  PROVE  /\ Front(q) \in DOMAIN d /\ d[Front(q)] = "directory"
         /\ Front(Moved(q, source, target)) = Moved(Front(q), source, target)
<1> DEFINE m == Moved(q, source, target)
           f == Front(q)
           L == Len(source)
<1>1. /\ q \in PathsOfItems /\ q # <<>> /\ m \in PathsOfItems /\ Len(m) = Len(q)
      /\ ~IsPrefix(source, q) => m = q
      /\ IsPrefix(source, q) => RenamedAt(q, L, name, m) /\ BeginsAlike(q, L, source)
  BY RenamingMoves
<1>2. f \in DOMAIN d /\ d[f] = "directory" /\ f \in PathsOfItems
  BY DEF Renaming, IsDisk
<1>3. /\ f \in PathsOfItems
      /\ ~IsPrefix(source, f) => Moved(f, source, target) = f
      /\ IsPrefix(source, f) => RenamedAt(f, L, name, Moved(f, source, target))
  BY <1>2, RenamingMoves
<1>4. BeginsAlike(f, L, source) <=> BeginsAlike(q, L, source) /\ L < Len(q)
  BY <1>1, FrontOf DEF Renaming
<1>5. /\ IsPrefix(source, f) <=> BeginsAlike(f, L, source)
      /\ IsPrefix(source, q) <=> BeginsAlike(q, L, source)
  BY <1>1, <1>2, PathPrefix DEF Renaming
<1>6. CASE ~IsPrefix(source, q)
  BY <1>1, <1>2, <1>3, <1>4, <1>5, <1>6
<1>7. CASE IsPrefix(source, q)
  <2>1. IsParent(f, q)
    BY <1>1, ParentIs
  <2>2. m # <<>>
    <3>1. Len(m) > 1
      BY <1>1
    <3> QED
      BY <3>1
  <2>3. IsParent(Front(m), m)
    BY <1>1, <2>2, ParentIs
  <2> DEFINE g == Moved(f, source, target)
             h == Front(m)
  <2> HIDE DEF m, f, L, g
  <2>4. /\ Len(q) \in Nat /\ Len(f) = Len(q) - 1
        /\ \A i \in 1 .. Len(q) - 1 : f[i] = q[i]
    BY <2>1 DEF IsParent
  <2> HIDE DEF h
  <2>5. /\ h \in PathsOfItems /\ Len(h) = Len(q) - 1
        /\ \A i \in 1 .. Len(q) - 1 : h[i] = m[i]
    BY <1>1, <2>3 DEF IsParent, h
  <2>6. \A i \in 1 .. Len(q) : m[i] = IF i = L THEN name ELSE q[i]
    BY <1>1, <1>7 DEF RenamedAt
  <2>7. g \in PathsOfItems /\ Len(g) = Len(q) - 1
          /\ \A i \in 1 .. Len(q) - 1 : g[i] = IF i = L THEN name ELSE q[i]
    <3>1. CASE IsPrefix(source, f)
      <4>1. RenamedAt(f, L, name, g)
        BY <1>3, <3>1 DEF g
      <4> QED
        BY <2>4, <4>1 DEF RenamedAt
    <3>2. CASE ~IsPrefix(source, f)
      <4>1. g = f
        BY <1>3, <3>2 DEF g
      <4>2. ~(L < Len(q))
        BY <1>1, <1>4, <1>5, <1>7, <3>2
      <4>3. L \in Nat
        BY PathHasNames DEF Renaming, L
      <4>4. \A i \in 1 .. Len(q) - 1 : i # L
        BY <2>4, <4>2, <4>3
      <4> QED
        BY <1>3, <2>4, <4>1, <4>4
    <3> QED
      BY <3>1, <3>2
  <2>8. \A i \in 1 .. Len(q) - 1 : h[i] = g[i]
    <3>1. \A i \in 1 .. Len(q) - 1 : i \in 1 .. Len(q)
      BY <2>4
    <3> QED
      BY <2>5, <2>6, <2>7, <3>1
  <2>9. h = g
    BY <2>5, <2>7, <2>8, SamePath
  <2> QED
    BY <1>2, <2>9 DEF m, f, g, h
<1> QED
  BY <1>6, <1>7

(* A renamed disk is a disk.                                               *)
LEMMA RenamedIsDisk ==
  ASSUME NEW d, NEW source, NEW name, NEW target, Renaming(d, source, name, target)
  PROVE  IsDisk(Renamed(d, source, target))
<1> DEFINE new == Renamed(d, source, target)
<1>1. /\ \A p : p \in DOMAIN new <=> \E q \in DOMAIN d : p = Moved(q, source, target)
      /\ \A q \in DOMAIN d : new[Moved(q, source, target)] = d[q]
  BY RenamedHas
<1> HIDE DEF new
<1>2. ASSUME NEW p \in DOMAIN new
      PROVE  /\ p \in PathsOfItems /\ p # <<>> /\ new[p] \in Kinds
             /\ Len(p) > 1 => Front(p) \in DOMAIN new /\ new[Front(p)] = "directory"
  <2>1. PICK q \in DOMAIN d : p = Moved(q, source, target)
    BY <1>1
  <2>2. /\ q \in PathsOfItems /\ q # <<>> /\ p \in PathsOfItems /\ Len(p) = Len(q)
    BY <2>1, RenamingMoves
  <2>3. Len(q) \in Nat /\ Len(q) >= 1
    BY <2>2, ParentIs DEF IsParent
  <2>4. p # <<>>
    BY <2>2, <2>3
  <2>5. new[p] = d[q] /\ d[q] \in Kinds
    BY <1>1, <2>1 DEF Renaming, IsDisk
  <2>6. ASSUME Len(p) > 1 PROVE Front(p) \in DOMAIN new /\ new[Front(p)] = "directory"
    <3>1. /\ Front(q) \in DOMAIN d /\ d[Front(q)] = "directory"
          /\ Front(p) = Moved(Front(q), source, target)
      BY <2>1, <2>2, <2>6, MovedParent
    <3> QED
      BY <1>1, <3>1
  <2> QED
    BY <2>2, <2>4, <2>5, <2>6
<1> QED
  BY <1>2 DEF IsDisk, new

(* It changes what was below the source and what comes below the target.   *)
LEMMA RenamedChanges ==
  ASSUME NEW d, NEW source, NEW name, NEW target, Renaming(d, source, name, target),
         NEW new, new = Renamed(d, source, target), NEW path
  PROVE  /\ path \in DOMAIN d /\ path \notin DOMAIN new => BeginsAlike(path, Len(source), source)
         /\ path \in DOMAIN new /\ path \notin DOMAIN d
              => /\ path \in PathsOfItems /\ Len(path) >= Len(source)
                 /\ \A i \in 1 .. Len(source) - 1 : path[i] = source[i]
         /\ path \in DOMAIN d /\ path \in DOMAIN new => new[path] = d[path]
<1>1. /\ \A p : p \in DOMAIN new <=> \E q \in DOMAIN d : p = Moved(q, source, target)
      /\ \A q \in DOMAIN d : new[Moved(q, source, target)] = d[q]
  BY RenamedHas
<1>2. ASSUME path \in DOMAIN d, path \notin DOMAIN new
      PROVE  BeginsAlike(path, Len(source), source)
  <2>1. Moved(path, source, target) # path
    BY <1>1, <1>2
  <2> QED
    BY <1>2, <2>1, RenamingMoves
<1>3. ASSUME path \in DOMAIN new, path \notin DOMAIN d
      PROVE  /\ path \in PathsOfItems /\ Len(path) >= Len(source)
             /\ \A i \in 1 .. Len(source) - 1 : path[i] = source[i]
  <2>1. PICK q \in DOMAIN d : path = Moved(q, source, target)
    BY <1>1, <1>3
  <2>2. IsPrefix(source, q)
    BY <1>3, <2>1, RenamingMoves
  <2>3. /\ RenamedAt(q, Len(source), name, path) /\ BeginsAlike(q, Len(source), source)
        /\ q \in PathsOfItems
    BY <2>1, <2>2, RenamingMoves
  <2>4. Len(q) \in Nat /\ Len(source) \in Nat /\ Len(source) <= Len(q)
          /\ \A i \in 1 .. Len(source) : q[i] = source[i]
    BY <2>3, PathHasNames DEF BeginsAlike, Renaming
  <2>5. \A i \in 1 .. Len(q) : path[i] = IF i = Len(source) THEN name ELSE q[i]
    BY <2>3 DEF RenamedAt
  <2>6. \A i \in 1 .. Len(source) - 1 : i \in 1 .. Len(q) /\ i \in 1 .. Len(source)
          /\ i # Len(source)
    BY <2>4
  <2>7. path \in PathsOfItems /\ Len(path) = Len(q)
    BY <2>3 DEF RenamedAt
  <2> QED
    BY <2>4, <2>5, <2>6, <2>7
<1>4. ASSUME path \in DOMAIN d, path \in DOMAIN new PROVE new[path] = d[path]
  <2>1. PICK q \in DOMAIN d : path = Moved(q, source, target)
    BY <1>1, <1>4
  <2>2. ~IsPrefix(source, q)
    <3>1. ~BeginsAlike(path, Len(target), target)
      BY <1>4, RenamingMoves
    <3> QED
      BY <2>1, <3>1, RenamingMoves
  <2>3. path = q
    BY <2>1, <2>2, RenamingMoves
  <2> QED
    BY <1>1, <2>1, <2>3
<1> QED
  BY <1>2, <1>3, <1>4

-----------------------------------------------------------------------------
(* The inductive invariant: the types, and that a written file has the     *)
(* lists.                                                                  *)
ListsOK ==
  /\ IsLists(Lists) /\ IsLists(catalogFile)
  /\ written \in BOOLEAN /\ (written => catalogFile = Lists)

(* The tree has paths, whatever is on the disk by now; the selected one is *)
(* among them.                                                             *)
TreeOK ==
  /\ {current, selected} \cup tree \cup loaded \subseteq PathsOfItems
  /\ selected \in tree \cup {NoPath}

PromptOK ==
  /\ prompt.kind \in {"none", "create", "rename", "recycle"} /\ prompt.path \in PathsOfItems
  /\ prompt.target \in PathsOfItems /\ prompt.taken \in BOOLEAN
  /\ prompt = [kind |-> prompt.kind, path |-> prompt.path, target |-> prompt.target,
               taken |-> prompt.taken]

(* What was checked stays so; if something is where the item is to go, it  *)
(* came after the check.                                                   *)
TargetOK ==
  prompt.target # NoPath =>
    /\ prompt.kind \in {"create", "rename"} /\ IsWithinWorkspaceRoots(prompt.path, roots)
    /\ \E name \in NamesOfItems : prompt.target = Target(name)
    /\ prompt.kind = "rename" => ~Contains(roots, prompt.path)
    /\ prompt.target \in DOMAIN disk => prompt.taken

(* The invariant.                                                          *)
CatalogInv ==
  /\ IsDisk(disk) /\ ListsOK /\ TreeOK /\ PromptOK /\ TargetOK
  /\ IsList(sessionRoots) /\ changes \in 0 .. MaxChanges

LEMMA CatalogInvHasTypes == CatalogInv => CatalogTypeOK
<1>1. ASSUME PromptOK
      PROVE  prompt \in [kind : {"none", "create", "rename", "recycle"}, path : PathsOfItems,
                         target : PathsOfItems, taken : BOOLEAN]
  BY <1>1 DEF PromptOK
<1> QED
  BY <1>1 DEF CatalogInv, CatalogTypeOK, ListsOK, TreeOK

LEMMA NoPathIsPath == NoPath \in PathsOfItems
<1>1. <<>> \in Seq(Nat) /\ Len(<<>>) = 0
  BY EmptySeq
<1>2. <<>> \in NamesOfItems
  BY <1>1 DEF NamesOfItems, Contains
<1> QED
  BY <1>2 DEF NoPath, PathsOfItems

(* Nothing is to be created or renamed; or what was checked stays so.       *)
LEMMA NoTarget == ASSUME prompt'.target = NoPath PROVE TargetOK'
BY DEF TargetOK

LEMMA TargetStays ==
  ASSUME TargetOK, UNCHANGED <<roots, prompt>>, DOMAIN disk' \subseteq DOMAIN disk
  PROVE  TargetOK'
BY DEF TargetOK, Target

(* The lists in the file and those of the session are lists.               *)
LEMMA ListsAre ==
  ASSUME NEW all, IsLists(all)
  PROVE  /\ all \in AllLists /\ IsList(all.roots) /\ IsList(all.recent) /\ IsList(all.favorites)
         /\ ToSet(all.roots) \cup ToSet(all.recent) \cup ToSet(all.favorites) \subseteq PathsOfItems
<1>1. IsList(all.roots) /\ IsList(all.recent) /\ IsList(all.favorites) /\ all \in AllLists
  BY DEF IsLists, AllLists
<1>2. ASSUME NEW list, IsList(list) PROVE ToSet(list) \subseteq PathsOfItems
  BY <1>2, Elements DEF IsList
<1> QED
  BY <1>1, <1>2

LEMMA BecomesLists ==
  ASSUME NEW all \in AllLists, BecomeLists(all) PROVE Lists' = all /\ IsLists(Lists')
<1>1. all \in ListRecords /\ IsLists(all)
  BY DEF AllLists
<1>2. all = [roots |-> all.roots, recent |-> all.recent, favorites |-> all.favorites]
  BY <1>1 DEF ListRecords
<1>3. Lists' = [roots |-> roots', recent |-> recent', favorites |-> favorites']
  BY DEF Lists
<1>4. roots' = all.roots /\ recent' = all.recent /\ favorites' = all.favorites
  BY DEF BecomeLists
<1>5. Lists' = all
  BY <1>2, <1>3, <1>4, Zenon
<1> QED
  BY <1>1, <1>5

(* A write gives the file the lists, or leaves it.                         *)
LEMMA SavingKeeps ==
  ASSUME NEW all \in AllLists, BecomeLists(all), SaveWorkspaceCatalog(all), IsLists(catalogFile)
  PROVE  ListsOK'
<1>1. Lists' = all /\ IsLists(Lists') /\ IsLists(all)
  BY BecomesLists DEF AllLists
<1>2. CASE catalogFile' = all /\ written' = TRUE
  BY <1>1, <1>2 DEF ListsOK
<1>3. CASE UNCHANGED catalogFile /\ written' = FALSE
  BY <1>1, <1>3 DEF ListsOK
<1> QED
  BY <1>2, <1>3 DEF SaveWorkspaceCatalog

(* The scan is of the disk as it is.                                       *)
LEMMA ScanKeeps ==
  ASSUME CatalogAssumption, NEW all \in AllLists, NEW path \in PathsOfItems, IsDisk(disk'),
         IsLists(catalogFile), StartWorkspaceScan(path, all)
  PROVE  /\ ListsOK' /\ TreeOK'
         /\ Lists' = AddRoot(all, path)
         /\ path \in ToSet(all.roots) => Lists' = all
<1> DEFINE new == AddRoot(all, path)
<1>1. new \in AllLists /\ (path \in ToSet(all.roots) => new = all)
  BY AddRootIs
<1>2. BecomeLists(new) /\ SaveWorkspaceCatalog(new) /\ current' = path
      /\ RenderLazyWorkspaceRoots(new.roots)
  BY DEF StartWorkspaceScan
<1> HIDE DEF new
<1>3. ListsOK' /\ Lists' = new
  BY <1>1, <1>2, SavingKeeps, BecomesLists
<1>4. ToSet(new.roots) \subseteq PathsOfItems
  BY <1>1, ListsAre DEF AllLists
<1>5. \A p : Children(p)' \subseteq PathsOfItems
  BY DEF Children, IsDisk
<1>6. TreeOK'
  <2>1. selected' = NoPath /\ NoPath \in PathsOfItems
    BY <1>2, NoPathIsPath DEF RenderLazyWorkspaceRoots
  <2>2. loaded' \subseteq ToSet(new.roots)
    BY <1>2 DEF RenderLazyWorkspaceRoots
  <2>3. tree' \subseteq PathsOfItems
    BY <1>2, <1>4, <1>5 DEF RenderLazyWorkspaceRoots
  <2> QED
    BY <1>2, <1>4, <2>1, <2>2, <2>3 DEF TreeOK
<1> QED
  BY <1>1, <1>3, <1>6 DEF new

(* The last of a sequence.                                                 *)
(* The tree is rendered anew after an operation on an item.                *)
LEMMA DoneKeeps ==
  ASSUME CatalogAssumption, CatalogInv, ItemDone, IsDisk(disk') PROVE CatalogInv'
<1>1. IsLists(Lists) /\ IsLists(catalogFile) /\ Lists \in AllLists /\ Lists.roots = roots
  BY ListsAre DEF CatalogInv, ListsOK, Lists
<1>2. Last(roots) \in PathsOfItems /\ StartWorkspaceScan(Last(roots), Lists)
  <2>1. roots \in Seq(PathsOfItems)
    BY <1>1 DEF IsLists, IsList
  <2> QED
    BY <2>1, LastIs DEF ItemDone, RefreshWorkspace
<1>3. ListsOK' /\ TreeOK'
  BY <1>1, <1>2, ScanKeeps
<1>4. PromptOK'
  BY NoPathIsPath DEF ItemDone, PromptOK, NoPrompt, Question
<1>5. sessionRoots' = sessionRoots /\ changes' \in 0 .. MaxChanges
  BY DEF ItemDone, Change, CatalogInv, CatalogAssumption
<1>6. TargetOK'
  BY NoTarget DEF ItemDone, NoPrompt, Question
<1> QED
  BY <1>3, <1>4, <1>5, <1>6 DEF CatalogInv

(* What leaves the lists as they are.                                      *)
LEMMA ListsStay ==
  ASSUME ListsOK, UNCHANGED <<lists, catalogFile, written>> PROVE ListsOK'
<1>1. Lists' = Lists
  BY DEF lists, Lists
<1> QED
  BY <1>1 DEF ListsOK

(* A valid name that is typed has no separator.                            *)
LEMMA NameIs ==
  ASSUME CatalogAssumption, NEW name \in TypedNames, IsValidWorkspaceName(name)
  PROVE  name \in NamesOfItems
<1>1. name \in Seq(Nat)
  BY DEF CatalogAssumption
<1> QED
  BY <1>1 DEF IsValidWorkspaceName, NamesOfItems, Contains, SEPARATOR

(* A path with one more name.                                              *)
LEMMA ChildIs ==
  ASSUME NEW b \in PathsOfItems, NEW name \in NamesOfItems
  PROVE  /\ Append(b, name) \in PathsOfItems /\ Append(b, name) # <<>>
         /\ Len(b) \in Nat /\ Len(Append(b, name)) = Len(b) + 1
         /\ \A i \in 1 .. Len(b) : Append(b, name)[i] = b[i]
         /\ Front(Append(b, name)) = b
         /\ Len(Append(b, name)) > 1 => b # <<>>
<1> DEFINE target == Append(b, name)
<1>1. /\ target \in PathsOfItems /\ Len(target) = Len(b) + 1 /\ Len(b) \in Nat
      /\ \A i \in 1 .. Len(b) : target[i] = b[i]
  BY AppendProperties DEF PathsOfItems
<1> HIDE DEF target
<1>2. target # <<>> /\ (Len(target) > 1 => b # <<>>)
  BY <1>1
<1>3. Front(target) = b
  <2>1. IsParent(Front(target), target)
    BY <1>1, <1>2, ParentIs
  <2>2. Len(Front(target)) = Len(b) /\ \A i \in 1 .. Len(b) : Front(target)[i] = b[i]
    BY <1>1, <2>1 DEF IsParent
  <2> QED
    BY <2>1, <2>2, SamePath DEF IsParent
<1> QED
  BY <1>1, <1>2, <1>3 DEF target

(* Something is put into a directory.                                      *)
LEMMA PlacedIsDisk ==
  ASSUME IsDisk(disk), NEW b \in PathsOfItems, IsDirectory(b), NEW name \in NamesOfItems,
         NEW target, target = Append(b, name), target \notin DOMAIN disk, NEW kind \in Kinds
  PROVE  IsDisk(Placed(target, kind))
<1>1. /\ target \in PathsOfItems /\ target # <<>> /\ Front(target) = b
      /\ Len(target) > 1 => b # <<>>
  BY ChildIs
<1>2. Len(target) > 1 => Front(target) \in DOMAIN disk /\ disk[Front(target)] = "directory"
  BY <1>1 DEF IsDirectory, Drive
<1>3. /\ DOMAIN Placed(target, kind) = DOMAIN disk \cup {target}
      /\ Placed(target, kind)[target] = kind
      /\ \A p \in DOMAIN disk : Placed(target, kind)[p] = disk[p]
  BY DEF Placed
<1> QED
  BY <1>1, <1>2, <1>3, CreatedIsDisk

(* What the target is.                                                     *)
LEMMA TargetIsPath ==
  ASSUME PromptOK, NEW name \in NamesOfItems
  PROVE  /\ prompt.kind = "create" => Target(name) = Append(prompt.path, name)
         /\ prompt.kind # "create" => Target(name) = Append(Front(prompt.path), name)
         /\ Target(name) \in PathsOfItems
<1>1. Front(prompt.path) \in PathsOfItems
  <2>1. CASE prompt.path = <<>>
    <3>1. <<>> \in Seq(NamesOfItems)
      OBVIOUS
    <3>2. SubSeq(<<>>, 1, 0 - 1) = <<>>
      BY <3>1, SubSeqProperties, EmptySeq
    <3> QED
      BY <2>1, <3>1, <3>2, EmptySeq DEF Front, PathsOfItems
  <2>2. CASE prompt.path # <<>>
    BY <2>2, ParentIs DEF PromptOK, IsParent
  <2> QED
    BY <2>1, <2>2
<1> QED
  BY <1>1, ChildIs DEF Target, Parent, PromptOK

(* The check.                                                              *)
LEMMA CheckingKeeps ==
  ASSUME CatalogAssumption, CatalogInv, CheckWorkspaceItem PROVE PromptOK' /\ TargetOK'
<1>1. PICK name \in TypedNames :
        /\ IsValidWorkspaceName(name) /\ Target(name) \notin DOMAIN disk
        /\ prompt' = [prompt EXCEPT !.target = Target(name)]
  BY DEF CheckWorkspaceItem
<1>2. name \in NamesOfItems /\ PromptOK
  BY <1>1, NameIs DEF CatalogInv
<1> DEFINE target == Target(name)
<1>3. target \in PathsOfItems
  BY <1>2, TargetIsPath
<1>4. /\ prompt' = [kind |-> prompt.kind, path |-> prompt.path, target |-> target,
                    taken |-> prompt.taken]
      /\ target \notin DOMAIN disk
  BY <1>1, <1>2 DEF PromptOK
<1>5. PromptOK'
  <2> HIDE DEF target
  <2> QED
    BY <1>2, <1>3, <1>4 DEF PromptOK
<1>6. target = Target(name)'
  BY <1>4 DEF Target
<1>7. /\ prompt.kind \in {"create", "rename"} /\ IsWithinWorkspaceRoots(prompt.path, roots)
      /\ prompt.kind = "rename" => ~Contains(roots, prompt.path)
      /\ UNCHANGED <<disk, roots>>
  BY DEF CheckWorkspaceItem, lists
<1> HIDE DEF target
<1>8. /\ prompt'.kind = prompt.kind /\ prompt'.path = prompt.path /\ prompt'.target = target
  BY <1>4
<1>9. \E n \in NamesOfItems : prompt'.target = Target(n)'
  BY <1>2, <1>6, <1>8
<1>10. TargetOK'
  BY <1>4, <1>7, <1>8, <1>9 DEF TargetOK
<1> QED
  BY <1>5, <1>10

(* Something is created or renamed.                                        *)
LEMMA CreatingKeeps ==
  ASSUME CatalogAssumption, CatalogInv, CreateWorkspaceItem
  PROVE  /\ IsDisk(disk')
         /\ \/ UNCHANGED disk
            \/ \E name \in NamesOfItems, kind \in Kinds :
                 /\ Append(prompt.path, name) \notin DOMAIN disk
                 /\ disk' = Placed(Append(prompt.path, name), kind)
<1>1. /\ IsDisk(disk) /\ PromptOK /\ prompt.kind = "create"
      /\ \E name \in NamesOfItems : prompt.target = Target(name)
  BY DEF CatalogInv, TargetOK, CreateWorkspaceItem
<1>2. PICK name \in NamesOfItems : prompt.target = Append(prompt.path, name)
  BY <1>1, TargetIsPath
<1>3. CASE UNCHANGED disk
  BY <1>1, <1>3
<1>4. ASSUME prompt.target \notin DOMAIN disk, IsDirectory(prompt.path),
             NEW kind \in {"directory", "file"}, disk' = Placed(prompt.target, kind)
      PROVE  /\ IsDisk(disk') /\ kind \in Kinds
             /\ Append(prompt.path, name) \notin DOMAIN disk
             /\ disk' = Placed(Append(prompt.path, name), kind)
  <2>1. kind \in Kinds /\ prompt.path \in PathsOfItems
    BY <1>1 DEF Kinds, PromptOK
  <2> QED
    BY <1>1, <1>2, <1>4, <2>1, PlacedIsDisk
<1> QED
  BY <1>3, <1>4 DEF CreateWorkspaceItem

(* A rename is one on the disk without the file at the target.             *)
LEMMA RenamingIs ==
  ASSUME CatalogAssumption, CatalogInv, RenameWorkspaceItem
  PROVE  \/ UNCHANGED disk
         \/ \E name : /\ Renaming(Removed(prompt.target), prompt.path, name, prompt.target)
                      /\ ~IsDirectory(prompt.target)
                      /\ disk' = Renamed(Removed(prompt.target), prompt.path, prompt.target)
<1>1. SUFFICES ASSUME prompt.target # prompt.path, ~IsDirectory(prompt.target),
                      disk' = Renamed(Removed(prompt.target), prompt.path, prompt.target)
               PROVE  \E name : Renaming(Removed(prompt.target), prompt.path, name, prompt.target)
  BY DEF RenameWorkspaceItem
<1>2. /\ IsDisk(disk) /\ PromptOK /\ prompt.kind = "rename" /\ prompt.path \in DOMAIN disk
      /\ \E name \in NamesOfItems : prompt.target = Target(name)
  BY DEF CatalogInv, TargetOK, RenameWorkspaceItem
<1>3. PICK name \in NamesOfItems : prompt.target = Append(Front(prompt.path), name)
  BY <1>2, TargetIsPath
<1> DEFINE source == prompt.path
           target == prompt.target
           d == Removed(target)
<1>4. source \in PathsOfItems /\ source # <<>> /\ target \in PathsOfItems
  BY <1>2 DEF IsDisk, PromptOK
<1>5. RenamedAt(source, Len(source), name, target)
  BY <1>3, <1>4, TargetIs
<1>6. /\ IsDisk(d) /\ DOMAIN d = {q \in DOMAIN disk : ~IsPrefix(target, q)}
  BY <1>2, <1>4, RemovedIsDisk
<1> HIDE DEF d, source, target
<1>7. Len(target) = Len(source) /\ Len(target) \in Nat
  BY <1>4, <1>5, PathHasNames DEF RenamedAt
<1>8. IsPrefix(target, target)
  BY <1>4, <1>7, PathPrefix DEF BeginsAlike
<1>9. ~IsPrefix(target, source)
  <2>1. SUFFICES ASSUME BeginsAlike(source, Len(target), target) PROVE FALSE
    BY <1>4, PathPrefix
  <2>2. source = target
    BY <1>4, <1>7, <2>1, SamePath DEF BeginsAlike
  <2> QED
    BY <1>1, <2>2 DEF source, target
<1>10. source \in DOMAIN disk
  BY <1>2 DEF source
<1>11. Renaming(d, source, name, target)
  BY <1>4, <1>5, <1>6, <1>8, <1>9, <1>10 DEF Renaming
<1> QED
  BY <1>11 DEF d, source, target

(* A rename leaves what is neither the item nor the file at the target.    *)
LEMMA RenamingChanges ==
  ASSUME CatalogInv, NEW source, NEW name, NEW target, NEW new, target \in PathsOfItems,
         Renaming(Removed(target), source, name, target), ~IsDirectory(target),
         new = Renamed(Removed(target), source, target), NEW path
  PROVE  /\ path \in DOMAIN disk /\ ~(path \in DOMAIN new /\ new[path] = disk[path])
              => path = target \/ BeginsAlike(path, Len(source), source)
         /\ path \in DOMAIN new /\ path \notin DOMAIN disk
              => /\ path \in PathsOfItems /\ Len(path) >= Len(source)
                 /\ \A i \in 1 .. Len(source) - 1 : path[i] = source[i]
<1> DEFINE d == Removed(target)
<1>1. /\ IsDisk(disk) /\ DOMAIN d = {q \in DOMAIN disk : ~IsPrefix(target, q)}
      /\ \A q \in DOMAIN d : d[q] = disk[q]
  BY RemovedIsDisk DEF CatalogInv
<1>2. Renaming(d, source, name, target) /\ new = Renamed(d, source, target)
  OBVIOUS
<1> HIDE DEF d
<1>3. /\ path \in DOMAIN d /\ path \notin DOMAIN new => BeginsAlike(path, Len(source), source)
      /\ path \in DOMAIN new /\ path \notin DOMAIN d
           => /\ path \in PathsOfItems /\ Len(path) >= Len(source)
              /\ \A i \in 1 .. Len(source) - 1 : path[i] = source[i]
      /\ path \in DOMAIN d /\ path \in DOMAIN new => new[path] = d[path]
  BY <1>2, RenamedChanges
<1>4. ASSUME path \in DOMAIN disk, path \notin DOMAIN d PROVE path = target
  <2>1. path \in PathsOfItems /\ IsPrefix(target, path)
    BY <1>1, <1>4 DEF IsDisk
  <2>2. BeginsAlike(path, Len(target), target)
    BY <2>1, PathPrefix
  <2>3. target # <<>>
    BY DEF IsDirectory, Drive
  <2>4. target \in DOMAIN disk /\ (path # target => disk[target] = "directory")
    BY <1>1, <1>4, <2>2, <2>3, ParentsExist
  <2> QED
    BY <2>4 DEF IsDirectory
<1> QED
  BY <1>1, <1>3, <1>4

LEMMA AskingKeeps == ASSUME CatalogInv, AskForItem PROVE PromptOK' /\ TargetOK'
<1>1. selected \in PathsOfItems /\ NoPath \in PathsOfItems
  BY NoPathIsPath DEF CatalogInv, TreeOK
<1>2. ASSUME NEW kind \in {"create", "rename", "recycle"}, NEW path \in PathsOfItems,
             prompt' = Question(kind, path)
      PROVE  PromptOK' /\ prompt'.target = NoPath
  BY <1>1, <1>2 DEF PromptOK, Question
<1>3. CASE prompt' = Question("create",
                              IF IsDirectory(selected) THEN selected ELSE Parent(selected))
  <2>1. CASE IsDirectory(selected)
    BY <1>1, <1>2, <1>3, <2>1, NoTarget
  <2>2. CASE ~IsDirectory(selected)
    <3>1. selected # <<>>
      BY <2>2 DEF IsDirectory, Drive
    <3>2. Parent(selected) \in PathsOfItems
      BY <1>1, <3>1, ParentIs DEF Parent, IsParent
    <3> QED
      BY <1>2, <1>3, <2>2, <3>2, NoTarget
  <2> QED
    BY <2>1, <2>2
<1>4. CASE \E kind \in {"rename", "recycle"} : prompt' = Question(kind, selected)
  BY <1>1, <1>2, <1>4, NoTarget
<1> QED
  BY <1>3, <1>4 DEF AskForItem

(* A favorite is toggled.                                                  *)
LEMMA TogglingKeeps ==
  ASSUME CatalogAssumption, CatalogInv, NEW path \in PathsOfItems, ToggleFavorite(path)
  PROVE  ListsOK'
<1> DEFINE f == SetFavorite(favorites, path, ~Contains(favorites, path))
           all == [Lists EXCEPT !.favorites = f]
<1>1. IsLists(Lists) /\ IsLists(catalogFile) /\ Lists \in ListRecords
  BY DEF CatalogInv, ListsOK, IsLists
<1>2. Lists.roots = roots /\ Lists.recent = recent /\ Lists.favorites = favorites
  BY DEF Lists
<1>3. IsList(f)
  <2>1. IsList(favorites)
    BY <1>1, <1>2 DEF IsLists
  <2> QED
    BY <2>1, SetFavoriteIs
<1>4. BecomeLists(all) /\ SaveWorkspaceCatalog(all)
  BY <1>2 DEF ToggleFavorite
<1> HIDE DEF f
<1>5. all = [roots |-> roots, recent |-> recent, favorites |-> f]
  BY DEF Lists
<1>6. all.roots = roots /\ all.recent = recent /\ all.favorites = f
  BY <1>5
<1>7. all \in ListRecords
  BY <1>1, <1>2, <1>3, <1>5 DEF ListRecords, IsList
<1> HIDE DEF all
<1>8. IsLists(all)
  BY <1>1, <1>2, <1>3, <1>6, <1>7 DEF IsLists
<1>9. all \in AllLists
  BY <1>7, <1>8 DEF AllLists
<1> QED
  BY <1>1, <1>4, <1>9, SavingKeeps

(* An item is recycled, a root only leaves the lists.                      *)
LEMMA RemovingKeeps ==
  ASSUME CatalogAssumption, CatalogInv, RemoveWorkspaceRoot PROVE CatalogInv'
<1> DEFINE rest == Without(roots, selected)
           all == [Lists EXCEPT !.roots = rest]
<1>1. IsLists(Lists) /\ IsLists(catalogFile) /\ Lists \in ListRecords
  BY DEF CatalogInv, ListsOK, IsLists
<1>2. Lists.roots = roots /\ Lists.recent = recent /\ Lists.favorites = favorites
  BY DEF Lists
<1>3. IsList(rest) /\ ToSet(rest) \subseteq ToSet(roots)
  <2>1. IsList(roots)
    BY <1>1, <1>2 DEF IsLists
  <2>2. ToSet(rest) = ToSet(roots) \ {selected} /\ IsList(rest)
    BY <2>1, WithoutIs
  <2> QED
    BY <2>2
<1>4. /\ Change /\ UNCHANGED <<disk, prompt>> /\ prompt = NoPrompt
      /\ IF all.roots = <<>>
         THEN /\ tree' = {} /\ selected' = NoPath /\ UNCHANGED <<current, loaded>>
              /\ BecomeLists(all) /\ SaveWorkspaceCatalog(all)
         ELSE StartWorkspaceScan(Last(all.roots), all)
      /\ sessionRoots' \in {all.roots, sessionRoots}
  <2>1. all = [Lists EXCEPT !.roots = Without(Lists.roots, selected)]
    BY <1>2
  <2> QED
    BY <2>1 DEF RemoveWorkspaceRoot
<1> HIDE DEF rest
<1>5. all = [roots |-> rest, recent |-> recent, favorites |-> favorites]
  BY DEF Lists
<1>6. all.roots = rest /\ all.recent = recent /\ all.favorites = favorites
  BY <1>5
<1>7. all \in ListRecords
  BY <1>1, <1>2, <1>3, <1>5 DEF ListRecords, IsList
<1> HIDE DEF all
<1>8. IsLists(all)
  BY <1>1, <1>2, <1>3, <1>6, <1>7 DEF IsLists
<1>9. all \in AllLists
  BY <1>7, <1>8 DEF AllLists
<1>10. ListsOK' /\ TreeOK'
  <2>1. CASE all.roots = <<>>
    <3>1. ListsOK'
      BY <1>1, <1>4, <1>9, <2>1, SavingKeeps
    <3>2. TreeOK'
      BY <1>4, <2>1, NoPathIsPath DEF CatalogInv, TreeOK
    <3> QED
      BY <3>1, <3>2
  <2>2. CASE all.roots # <<>>
    <3>1. Last(all.roots) \in PathsOfItems
      BY <1>3, <1>6, <2>2, LastIs DEF IsList
    <3>2. IsDisk(disk') /\ StartWorkspaceScan(Last(all.roots), all)
      BY <1>4, <2>2 DEF CatalogInv
    <3> QED
      BY <1>1, <1>9, <3>1, <3>2, ScanKeeps
  <2> QED
    BY <2>1, <2>2
<1>11. PromptOK' /\ IsDisk(disk') /\ TargetOK'
  BY <1>4, NoTarget DEF CatalogInv, PromptOK, NoPrompt, Question
<1>12. IsList(sessionRoots') /\ changes' \in 0 .. MaxChanges
  BY <1>3, <1>4, <1>6 DEF CatalogInv, Change, CatalogAssumption
<1> QED
  BY <1>10, <1>11, <1>12 DEF CatalogInv

(* A launch: what it takes its lists from, and what they become.           *)
Relaunched(read, all) ==
  /\ read \in AllLists /\ all \in AllLists /\ AddedTo(all, read, sessionRoots)
  /\ Lists' \in {read, all}

(* What a launch makes of a file.                                          *)
LEMMA Relaunching ==
  ASSUME CatalogAssumption, CatalogInv, CatalogRelaunch
  PROVE  /\ CatalogInv'
         /\ Relaunched(Deserialize(catalogFile), AddRoots(Deserialize(catalogFile), sessionRoots))
<1> DEFINE read == Deserialize(catalogFile)
           all == AddRoots(read, sessionRoots)
<1>1. IsLists(catalogFile) /\ IsList(sessionRoots)
  BY DEF CatalogInv, ListsOK
<1>2. read \in AllLists
  BY <1>1, DeserializedIs
<1>3. all \in AllLists /\ AddedTo(all, read, sessionRoots)
  <2> HIDE DEF read
  <2> QED
    BY <1>1, <1>2, SessionRootsAdded DEF IsList
<1>4. /\ Change /\ prompt' = NoPrompt /\ UNCHANGED <<disk, sessionRoots>>
      /\ \/ all.roots # <<>> /\ StartWorkspaceScan(Last(all.roots), all)
         \/ /\ BecomeLists(all) \/ BecomeLists(read)
            /\ current' = NoPath /\ tree' = {} /\ loaded' = {} /\ selected' = NoPath
            /\ written' = (Lists' = catalogFile)
            /\ UNCHANGED catalogFile
  BY Zenon DEF CatalogRelaunch
<1> HIDE DEF read, all
<1>5. ListsOK' /\ TreeOK' /\ Lists' \in {read, all}
  <2>1. CASE all.roots # <<>> /\ StartWorkspaceScan(Last(all.roots), all)
    <3>1. Last(all.roots) \in PathsOfItems /\ Last(all.roots) \in ToSet(all.roots)
      <4>1. all.roots \in Seq(PathsOfItems)
        BY <1>3 DEF AllLists, IsLists, IsList
      <4> QED
        BY <2>1, <4>1, LastIs
    <3>2. IsDisk(disk')
      BY <1>4 DEF CatalogInv
    <3>3. ListsOK' /\ TreeOK' /\ Lists' = all
      BY <1>1, <1>3, <2>1, <3>1, <3>2, ScanKeeps
    <3> QED
      BY <3>3
  <2>2. CASE /\ BecomeLists(all) \/ BecomeLists(read)
             /\ current' = NoPath /\ tree' = {} /\ loaded' = {} /\ selected' = NoPath
             /\ written' = (Lists' = catalogFile)
             /\ UNCHANGED catalogFile
    <3>1. Lists' \in {read, all} /\ IsLists(Lists')
      BY <1>2, <1>3, <2>2, BecomesLists
    <3>2. IsLists(catalogFile)' /\ written' \in BOOLEAN /\ (written' => Lists' = catalogFile')
      <4>1. (Lists' = catalogFile) \in BOOLEAN
        OBVIOUS
      <4>2. written' \in BOOLEAN
        BY <2>2, <4>1, Zenon
      <4>3. written' => Lists' = catalogFile'
        BY <2>2, Zenon
      <4>4. IsLists(catalogFile)'
        BY <1>1, <2>2
      <4> QED
        BY <4>2, <4>3, <4>4
    <3>3. TreeOK'
      BY <2>2, NoPathIsPath DEF TreeOK
    <3>4. ListsOK'
      BY <3>1, <3>2 DEF ListsOK
    <3> QED
      BY <3>1, <3>3, <3>4
  <2> QED
    BY <1>4, <2>1, <2>2
<1>6. PromptOK' /\ TargetOK'
  BY <1>4, NoPathIsPath, NoTarget DEF PromptOK, NoPrompt, Question
<1>7. IsDisk(disk') /\ IsList(sessionRoots') /\ changes' \in 0 .. MaxChanges
  BY <1>4 DEF CatalogInv, Change, CatalogAssumption
<1>8. CatalogInv'
  BY <1>5, <1>6, <1>7 DEF CatalogInv
<1> QED
  BY <1>2, <1>3, <1>5, <1>8 DEF Relaunched, read, all

(* The invariant holds at the start and is kept by every step.             *)
LEMMA CatalogInvInit == CatalogAssumption /\ CatalogInit => CatalogInv
<1> SUFFICES ASSUME CatalogAssumption, CatalogInit PROVE CatalogInv
  OBVIOUS
<1>1. NoLists \in AllLists /\ IsLists(NoLists)
  BY NoListsAreLists DEF NoListsAtAll, AllLists
<1>2. Lists = NoLists /\ catalogFile = NoLists /\ written = TRUE
  BY DEF CatalogInit, Lists, NoLists
<1>3. ListsOK
  BY <1>1, <1>2 DEF ListsOK
<1>4. TreeOK /\ PromptOK /\ TargetOK
  BY NoPathIsPath DEF CatalogInit, TreeOK, PromptOK, TargetOK, NoPrompt, Question
<1>5. IsList(sessionRoots)
  <2>1. NoLists.roots = sessionRoots
    BY DEF CatalogInit, NoLists
  <2> QED
    BY <1>1, <2>1 DEF IsLists
<1> QED
  BY <1>3, <1>4, <1>5 DEF CatalogInv, CatalogInit, CatalogAssumption

LEMMA CatalogInvStep ==
  ASSUME CatalogAssumption, CatalogInv, CatalogNext PROVE CatalogInv'
<1>0. /\ IsLists(Lists) /\ IsLists(catalogFile) /\ Lists \in AllLists
      /\ ListsOK /\ TreeOK /\ PromptOK /\ TargetOK /\ IsDisk(disk)
      /\ IsList(roots)
      /\ ToSet(roots) \cup ToSet(recent) \cup ToSet(favorites) \subseteq PathsOfItems
      /\ \A p \in DOMAIN disk : p \in PathsOfItems
  <2>1. IsLists(Lists) /\ IsLists(catalogFile)
    BY DEF CatalogInv, ListsOK
  <2>2. Lists.roots = roots /\ Lists.recent = recent /\ Lists.favorites = favorites
    BY DEF Lists
  <2>3. Lists \in AllLists /\ IsList(roots)
          /\ ToSet(roots) \cup ToSet(recent) \cup ToSet(favorites) \subseteq PathsOfItems
    BY <2>1, <2>2, ListsAre
  <2> QED
    BY <2>1, <2>3 DEF CatalogInv, IsDisk
<1>1. CASE LoadWorkspaceChildren
  <2>1. PICK path \in tree \ loaded :
          tree' = tree \cup Children(path) /\ loaded' = loaded \cup {path}
    BY <1>1 DEF LoadWorkspaceChildren
  <2>2. UNCHANGED <<disk, lists, current, selected, prompt, catalogFile, sessionRoots, written,
                    changes>>
    BY <1>1 DEF LoadWorkspaceChildren
  <2>3. Children(path) \subseteq PathsOfItems
    BY <1>0 DEF Children
  <2>4. TreeOK'
    BY <1>0, <2>1, <2>2, <2>3 DEF TreeOK
  <2> QED
    BY <1>0, <2>2, <2>4, ListsStay, TargetStays DEF CatalogInv, PromptOK, lists
<1>2. CASE SelectItem
  <2>1. TreeOK'
    BY <1>0, <1>2 DEF SelectItem, TreeOK
  <2> QED
    BY <1>0, <1>2, <2>1, ListsStay, TargetStays DEF CatalogInv, PromptOK, SelectItem, lists
<1>3. CASE OpenFolder
  <2>1. PICK path \in DOMAIN disk : StartWorkspaceScan(path, Lists)
    BY <1>3 DEF OpenFolder
  <2>2. Change /\ UNCHANGED <<disk, prompt, sessionRoots>> /\ prompt = NoPrompt
    BY <1>3 DEF OpenFolder
  <2>3. ListsOK' /\ TreeOK'
    <3>1. IsDisk(disk') /\ path \in PathsOfItems
      BY <1>0, <2>2
    <3> QED
      BY <1>0, <2>1, <3>1, ScanKeeps
  <2>4. TargetOK'
    BY <2>2, NoTarget DEF NoPrompt, Question
  <2> QED
    BY <2>2, <2>3, <2>4 DEF CatalogInv, PromptOK, Change, CatalogAssumption
<1>4. CASE OpenFromManager
  <2>1. PICK path \in ToSet(favorites) \cup ToSet(recent) : StartWorkspaceScan(path, Lists)
    BY <1>4 DEF OpenFromManager
  <2>2. Change /\ UNCHANGED <<disk, prompt, sessionRoots>> /\ prompt = NoPrompt
    BY <1>4 DEF OpenFromManager
  <2>3. ListsOK' /\ TreeOK'
    <3>1. IsDisk(disk') /\ path \in PathsOfItems
      BY <1>0, <2>2
    <3> QED
      BY <1>0, <2>1, <3>1, ScanKeeps
  <2>4. TargetOK'
    BY <2>2, NoTarget DEF NoPrompt, Question
  <2> QED
    BY <2>2, <2>3, <2>4 DEF CatalogInv, PromptOK, Change, CatalogAssumption
<1>5. CASE ToggleFavoriteWorkspace
  <2>1. PICK path \in ({current} \ {NoPath}) \cup ToSet(favorites) \cup ToSet(recent) :
          ToggleFavorite(path)
    BY <1>5 DEF ToggleFavoriteWorkspace
  <2>2. /\ Change /\ UNCHANGED <<disk, current, tree, loaded, selected, prompt, sessionRoots>>
        /\ prompt = NoPrompt
    BY <1>5 DEF ToggleFavoriteWorkspace
  <2>3. path \in PathsOfItems
    BY <1>0 DEF TreeOK
  <2>4. ListsOK'
    BY <2>1, <2>3, TogglingKeeps
  <2>5. TargetOK'
    BY <2>2, NoTarget DEF NoPrompt, Question
  <2> QED
    BY <2>2, <2>4, <2>5 DEF CatalogInv, TreeOK, PromptOK, Change, CatalogAssumption
<1>6. CASE RemoveWorkspaceRoot
  BY <1>6, RemovingKeeps
<1>7. CASE AskForItem
  <2>1. PromptOK' /\ TargetOK'
    BY <1>7, AskingKeeps
  <2>2. UNCHANGED <<disk, lists, current, tree, loaded, selected, catalogFile, sessionRoots,
                    written, changes>>
    BY <1>7 DEF AskForItem
  <2> QED
    BY <1>0, <2>1, <2>2, ListsStay DEF CatalogInv, TreeOK
<1>8. CASE CancelPrompt
  <2>1. PromptOK' /\ TargetOK'
    BY <1>8, NoPathIsPath, NoTarget DEF CancelPrompt, PromptOK, NoPrompt, Question
  <2>2. UNCHANGED <<disk, lists, current, tree, loaded, selected, catalogFile, sessionRoots,
                    written, changes>>
    BY <1>8 DEF CancelPrompt
  <2> QED
    BY <1>0, <2>1, <2>2, ListsStay DEF CatalogInv, TreeOK
<1>9. CASE CreateWorkspaceItem
  <2>1. IsDisk(disk')
    BY <1>9, CreatingKeeps
  <2> QED
    BY <1>9, <2>1, DoneKeeps DEF CreateWorkspaceItem
<1>10. CASE RenameWorkspaceItem
  <2>1. IsDisk(disk')
    BY <1>0, <1>10, RenamingIs, RenamedIsDisk
  <2> QED
    BY <1>10, <2>1, DoneKeeps DEF RenameWorkspaceItem
<1>11. CASE RecycleWorkspaceItem
  <2>1. IsDisk(disk')
    BY <1>0, <1>11, RemovedIsDisk DEF RecycleWorkspaceItem, PromptOK
  <2> QED
    BY <1>11, <2>1, DoneKeeps DEF RecycleWorkspaceItem
<1>12. CASE RemoveElsewhere
  <2>1. IsDisk(disk') /\ DOMAIN disk' \subseteq DOMAIN disk
    BY <1>0, <1>12, RemovedIsDisk DEF RemoveElsewhere
  <2>2. Change /\ UNCHANGED <<lists, current, tree, loaded, selected, prompt, catalogFile,
                              sessionRoots, written>>
    BY <1>12 DEF RemoveElsewhere
  <2> QED
    BY <1>0, <2>1, <2>2, ListsStay, TargetStays
       DEF CatalogInv, TreeOK, PromptOK, Change, CatalogAssumption, lists
<1>13. CASE SnapshotSession
  <2>1. sessionRoots' = roots /\ prompt.target = NoPath
          /\ UNCHANGED <<disk, lists, current, tree, loaded, selected, prompt, catalogFile, written,
                         changes>>
    BY <1>13 DEF SnapshotSession
  <2> QED
    BY <1>0, <2>1, ListsStay, NoTarget DEF CatalogInv, TreeOK, PromptOK
<1>14. CASE CatalogRelaunch
  BY <1>14, Relaunching
<1>15. CASE CheckWorkspaceItem
  <2>1. PromptOK' /\ TargetOK'
    BY <1>15, CheckingKeeps
  <2>2. UNCHANGED <<disk, lists, current, tree, loaded, selected, catalogFile, sessionRoots,
                    written, changes>>
    BY <1>15 DEF CheckWorkspaceItem
  <2> QED
    BY <1>0, <2>1, <2>2, ListsStay DEF CatalogInv, TreeOK
<1>16. CASE CreateElsewhere
  <2>1. PICK path \in DOMAIN disk, name \in TypedNames, kind \in {"directory", "other"} :
          /\ IsDirectory(path) /\ IsValidWorkspaceName(name)
          /\ Append(path, name) \notin DOMAIN disk /\ disk' = Placed(Append(path, name), kind)
          /\ prompt' = [prompt EXCEPT !.taken = @ \/ Append(path, name) = prompt.target]
    BY <1>16 DEF CreateElsewhere
  <2>2. Change /\ UNCHANGED <<lists, current, tree, loaded, selected, catalogFile,
                              sessionRoots, written>>
    BY <1>16 DEF CreateElsewhere
  <2> DEFINE place == Append(path, name)
  <2>3. path \in PathsOfItems /\ name \in NamesOfItems /\ kind \in Kinds
    BY <1>0, <2>1, NameIs DEF Kinds
  <2>4. IsDisk(disk') /\ DOMAIN disk' = DOMAIN disk \cup {place}
    BY <1>0, <2>1, <2>3, PlacedIsDisk DEF Placed
  <2> HIDE DEF place
  <2>5. /\ prompt' = [kind |-> prompt.kind, path |-> prompt.path, target |-> prompt.target,
                      taken |-> prompt.taken \/ place = prompt.target]
    BY <1>0, <2>1 DEF PromptOK, place
  <2>6. PromptOK'
    BY <1>0, <2>5, Zenon DEF PromptOK
  <2>7. TargetOK'
    <3>1. /\ prompt'.kind = prompt.kind /\ prompt'.path = prompt.path
          /\ prompt'.target = prompt.target
          /\ prompt'.taken = (prompt.taken \/ place = prompt.target)
      BY <2>5, Zenon
    <3>2. \A n : Target(n)' = Target(n)
      BY <3>1 DEF Target
    <3>3. roots' = roots
      BY <2>2 DEF lists
    <3> QED
      BY <1>0, <2>4, <3>1, <3>2, <3>3, Zenon DEF TargetOK
  <2> QED
    BY <1>0, <2>2, <2>4, <2>6, <2>7, ListsStay DEF CatalogInv, TreeOK, Change, CatalogAssumption
<1> QED
  BY <1>1, <1>2, <1>3, <1>4, <1>5, <1>6, <1>7, <1>8, <1>9, <1>10, <1>11, <1>12, <1>13, <1>14,
     <1>15, <1>16
  DEF CatalogNext

LEMMA CatalogInvStays ==
  ASSUME CatalogInv, UNCHANGED catalogVars PROVE CatalogInv'
<1>1. UNCHANGED <<disk, lists, current, tree, loaded, selected, prompt, catalogFile,
                  sessionRoots, written, changes>>
  BY DEF catalogVars
<1> QED
  BY <1>1, ListsStay, TargetStays DEF CatalogInv, TreeOK, PromptOK, lists

(* The lists are back after a launch.                                      *)
LEMMA RestartKeeps ==
  ASSUME CatalogAssumption, CatalogInv, CatalogRelaunch, written
  PROVE  /\ favorites' = favorites
         /\ IsPrefix(Among(roots, {path \in ToSet(roots) : IsDirectory(path)}), roots')
         /\ ToSet(roots') \subseteq ToSet(roots) \cup ToSet(sessionRoots)
         /\ ToSet(sessionRoots) \subseteq ToSet(roots) => ToSet(recent') = ToSet(recent)
<1> DEFINE read == Deserialize(Lists)
           all == AddRoots(read, sessionRoots)
           kept == Among(roots, {path \in ToSet(roots) : IsDirectory(path)})
<1>1. catalogFile = Lists /\ IsLists(Lists)
  BY DEF CatalogInv, ListsOK
<1>2. Lists.roots = roots /\ Lists.recent = recent /\ Lists.favorites = favorites
  BY DEF Lists
<1>3. Relaunched(read, all)
  BY <1>1, Relaunching
<1>4. read.favorites = favorites /\ read.roots = kept /\ ToSet(read.recent) = ToSet(recent)
  BY <1>1, <1>2, DeserializedIs
<1>5. IsList(roots) /\ IsList(sessionRoots)
  BY <1>1, <1>2 DEF IsLists, CatalogInv
<1>6. ToSet(kept) = {path \in ToSet(roots) : IsDirectory(path)}
  <2>1. ToSet(kept) = ToSet(roots) \cap {path \in ToSet(roots) : IsDirectory(path)}
    BY <1>5, AmongIs DEF IsList
  <2> QED
    BY <2>1
<1> HIDE DEF read, all, kept
<1>7. Lists' \in {read, all} /\ AddedTo(all, read, sessionRoots) /\ read \in AllLists
        /\ all \in AllLists
  BY <1>3 DEF Relaunched
<1>8. roots' = Lists'.roots /\ recent' = Lists'.recent /\ favorites' = Lists'.favorites
  BY DEF Lists
<1>9. favorites' = favorites
  BY <1>4, <1>7, <1>8 DEF AddedTo
<1>10. IsPrefix(kept, roots')
  <2>1. read.roots \in Seq(PathsOfItems) /\ all.roots \in Seq(PathsOfItems)
    BY <1>7 DEF AllLists, IsLists, IsList
  <2>2. BeginsAlike(all.roots, Len(read.roots), read.roots)
    BY <1>7 DEF AddedTo
  <2>3. BeginsAlike(read.roots, Len(read.roots), read.roots)
    <3>1. Len(read.roots) \in Nat
      BY <2>1
    <3> QED
      BY <3>1 DEF BeginsAlike
  <2>4. IsPrefix(read.roots, all.roots) /\ IsPrefix(read.roots, read.roots)
    BY <2>1, <2>2, <2>3, PrefixIs
  <2> QED
    BY <1>4, <1>7, <1>8, <2>4
<1>11. ToSet(roots') \subseteq ToSet(roots) \cup ToSet(sessionRoots)
  <2>1. ToSet(all.roots) \subseteq ToSet(kept) \cup ToSet(sessionRoots)
    BY <1>4, <1>7 DEF AddedTo
  <2>2. ToSet(kept) \subseteq ToSet(roots)
    BY <1>6
  <2> QED
    BY <1>4, <1>7, <1>8, <2>1, <2>2
<1>12. ASSUME ToSet(sessionRoots) \subseteq ToSet(roots) PROVE ToSet(recent') = ToSet(recent)
  <2>1. \A path \in ToSet(sessionRoots) : IsDirectory(path) => path \in ToSet(read.roots)
    BY <1>4, <1>6, <1>12
  <2>2. all = read
    BY <1>7, <2>1, Zenon DEF AddedTo
  <2> QED
    BY <1>4, <1>7, <1>8, <2>2
<1> QED
  BY <1>9, <1>10, <1>11, <1>12 DEF kept

(* The test of the program is one of texts: it is right about the paths.   *)
LEMMA InsideIs ==
  ASSUME CatalogInv, NEW path \in PathsOfItems, IsWithinWorkspaceRoots(path, roots)
  PROVE  \E i \in DOMAIN roots : roots[i] \in PathsOfItems
                                 /\ BeginsAlike(path, Len(roots[i]), roots[i])
<1>1. PICK i \in DOMAIN roots :
        IsPrefix(TextOf(roots[i]) \o <<SEPARATOR>>, TextOf(path) \o <<SEPARATOR>>)
  BY DEF IsWithinWorkspaceRoots
<1>2. roots \in Seq(PathsOfItems)
  <2>1. Lists.roots = roots
    BY DEF Lists
  <2> QED
    BY <2>1 DEF CatalogInv, ListsOK, IsLists, IsList
<1>3. roots[i] \in PathsOfItems
  BY <1>2
<1>4. BeginsAlike(path, Len(roots[i]), roots[i])
  BY <1>1, <1>3, TextsAreOfPaths
<1> QED
  BY <1>3, <1>4

LEMMA LongerIsInside ==
  ASSUME NEW root \in PathsOfItems, NEW path \in PathsOfItems,
         BeginsAlike(path, Len(root), root), Len(path) # Len(root)
  PROVE  IsStrictPrefix(root, path)
<1>1. IsPrefix(root, path) /\ root # path
  BY PathPrefix
<1> QED
  BY <1>1 DEF IsStrictPrefix

(* Below an item that is inside the roots and is none of them.             *)
LEMMA BelowItem ==
  ASSUME CatalogInv, NEW source \in PathsOfItems, IsWithinWorkspaceRoots(source, roots),
         ~Contains(roots, source)
  PROVE  \E i \in DOMAIN roots : \A path \in PathsOfItems :
           Len(path) >= Len(source) /\ (\A k \in 1 .. Len(source) - 1 : path[k] = source[k])
             => IsStrictPrefix(roots[i], path)
<1>1. PICK i \in DOMAIN roots :
        roots[i] \in PathsOfItems /\ BeginsAlike(source, Len(roots[i]), roots[i])
  BY InsideIs
<1> DEFINE root == roots[i]
<1>2. root # source
  <2>1. roots \in Seq(PathsOfItems)
    <3>1. Lists.roots = roots
      BY DEF Lists
    <3> QED
      BY <3>1 DEF CatalogInv, ListsOK, IsLists, IsList
  <2>2. i \in 1 .. Len(roots)
    BY <2>1
  <2> QED
    BY <2>2 DEF Contains
<1>3. root \in PathsOfItems /\ BeginsAlike(source, Len(root), root)
  BY <1>1
<1> HIDE DEF root
<1>4. Len(root) \in Nat /\ Len(source) \in Nat /\ Len(root) <= Len(source)
  BY <1>3, PathHasNames DEF BeginsAlike
<1>5. Len(root) # Len(source)
  <2>1. SUFFICES ASSUME Len(root) = Len(source) PROVE FALSE
    OBVIOUS
  <2>2. root = source
    BY <1>3, <2>1, SamePath DEF BeginsAlike
  <2> QED
    BY <1>2, <2>2
<1>6. ASSUME NEW path \in PathsOfItems, Len(path) >= Len(source),
             \A k \in 1 .. Len(source) - 1 : path[k] = source[k]
      PROVE  IsStrictPrefix(root, path)
  <2>1. Len(path) \in Nat /\ Len(path) > Len(root)
    BY <1>4, <1>5, <1>6, PathHasNames
  <2>2. \A k \in 1 .. Len(root) : k \in 1 .. Len(source) - 1
    BY <1>4, <1>5
  <2>3. \A k \in 1 .. Len(root) : path[k] = root[k]
    BY <1>3, <1>6, <2>2 DEF BeginsAlike
  <2>4. BeginsAlike(path, Len(root), root) /\ Len(path) # Len(root)
    BY <1>4, <2>1, <2>3 DEF BeginsAlike
  <2> QED
    BY <1>3, <2>4, LongerIsInside
<1> QED
  BY <1>6 DEF root

(* What is created, removed or renamed is inside of a root, and is the item *)
(* or came after the check.                                                *)
Unchanged(new, path) == path \in DOMAIN disk /\ path \in DOMAIN new /\ new[path] = disk[path]

TouchedInside(new) ==
  \A path \in DOMAIN disk \cup DOMAIN new :
    ~Unchanged(new, path) =>
       /\ \E i \in DOMAIN roots : IsStrictPrefix(roots[i], path)
       /\ path \in DOMAIN disk => (\/ prompt.kind # "create" /\ IsPrefix(prompt.path, path)
                                   \/ prompt.taken /\ path = prompt.target)

LEMMA CreatingInside ==
  ASSUME CatalogAssumption, CatalogInv, CreateWorkspaceItem PROVE TouchedInside(disk')
<1> DEFINE b == prompt.path
           new == disk'
<1>1. b \in PathsOfItems /\ IsWithinWorkspaceRoots(b, roots)
  BY DEF CatalogInv, PromptOK, TargetOK, CreateWorkspaceItem
<1>2. \/ new = disk
      \/ \E name \in NamesOfItems, kind \in Kinds :
           Append(b, name) \notin DOMAIN disk /\ new = Placed(Append(b, name), kind)
  BY CreatingKeeps
<1>3. PICK i \in DOMAIN roots :
        roots[i] \in PathsOfItems /\ BeginsAlike(b, Len(roots[i]), roots[i])
  BY <1>1, InsideIs
<1> HIDE DEF b, new
<1>4. ASSUME new = disk PROVE TouchedInside(new)
  BY <1>4 DEF TouchedInside, Unchanged
<1>5. ASSUME NEW name \in NamesOfItems, NEW kind \in Kinds, Append(b, name) \notin DOMAIN disk,
             new = Placed(Append(b, name), kind)
      PROVE  TouchedInside(new)
  <2> DEFINE target == Append(b, name)
  <2>1. /\ target \in PathsOfItems /\ Len(target) = Len(b) + 1 /\ Len(b) \in Nat
        /\ \A k \in 1 .. Len(b) : target[k] = b[k]
    BY <1>1, ChildIs
  <2>2. DOMAIN new = DOMAIN disk \cup {target} /\ \A p \in DOMAIN disk : new[p] = disk[p]
          /\ target \notin DOMAIN disk
    BY <1>5 DEF Placed
  <2> HIDE DEF target
  <2> DEFINE r == roots[i]
             m == Len(r)
  <2>3. m \in Nat /\ m <= Len(b) /\ \A k \in 1 .. m : k \in 1 .. Len(b) /\ b[k] = r[k]
    BY <1>3, <2>1, PathHasNames DEF BeginsAlike
  <2> HIDE DEF m, r
  <2>4. \A k \in 1 .. m : target[k] = r[k]
    BY <2>1, <2>3, Zenon
  <2>5. Len(target) >= m /\ Len(target) # m
    BY <2>1, <2>3
  <2>6. BeginsAlike(target, m, r)
    BY <2>4, <2>5 DEF BeginsAlike
  <2>7. IsStrictPrefix(roots[i], target)
    BY <1>3, <2>1, <2>5, <2>6, LongerIsInside DEF m, r
  <2> QED
    BY <1>3, <2>2, <2>7 DEF TouchedInside, Unchanged
<1>6. TouchedInside(new)
  BY <1>2, <1>4, <1>5
<1> QED
  BY <1>6 DEF new

LEMMA RenamingInside ==
  ASSUME CatalogAssumption, CatalogInv, RenameWorkspaceItem PROVE TouchedInside(disk')
<1> DEFINE source == prompt.path
           target == prompt.target
           new == disk'
<1>1. /\ prompt.kind = "rename" /\ PromptOK /\ target \in PathsOfItems
      /\ source \in PathsOfItems /\ IsWithinWorkspaceRoots(source, roots)
      /\ ~Contains(roots, source) /\ (target \in DOMAIN disk => prompt.taken)
      /\ \E name \in NamesOfItems : target = Target(name)
  BY DEF CatalogInv, PromptOK, TargetOK, RenameWorkspaceItem
<1>2. \/ new = disk
      \/ \E name : /\ Renaming(Removed(target), source, name, target) /\ ~IsDirectory(target)
                   /\ new = Renamed(Removed(target), source, target)
  BY RenamingIs
<1>3. PICK i \in DOMAIN roots : \A path \in PathsOfItems :
           Len(path) >= Len(source) /\ (\A k \in 1 .. Len(source) - 1 : path[k] = source[k])
             => IsStrictPrefix(roots[i], path)
  <2> HIDE DEF source
  <2> QED
    BY <1>1, BelowItem
<1>4. \A path : path \in DOMAIN disk => path \in PathsOfItems
  BY DEF CatalogInv, IsDisk
<1> HIDE DEF source, target, new
<1>5. ASSUME new = disk PROVE TouchedInside(new)
  BY <1>5 DEF TouchedInside, Unchanged
<1>6. ASSUME NEW name, Renaming(Removed(target), source, name, target), ~IsDirectory(target),
             new = Renamed(Removed(target), source, target)
      PROVE  TouchedInside(new)
  <2>1. SUFFICES ASSUME NEW path \in DOMAIN disk \cup DOMAIN new, ~Unchanged(new, path)
                 PROVE  /\ IsStrictPrefix(roots[i], path)
                        /\ path \in DOMAIN disk => (\/ IsPrefix(source, path)
                                                    \/ prompt.taken /\ path = target)
    BY <1>1 DEF TouchedInside, source, target
  <2>2. /\ path \in DOMAIN disk /\ ~(path \in DOMAIN new /\ new[path] = disk[path])
             => path = target \/ BeginsAlike(path, Len(source), source)
        /\ path \in DOMAIN new /\ path \notin DOMAIN disk
             => /\ path \in PathsOfItems /\ Len(path) >= Len(source)
                /\ \A k \in 1 .. Len(source) - 1 : path[k] = source[k]
    BY <1>1, <1>6, RenamingChanges
  <2>3. CASE path \notin DOMAIN disk
    BY <1>3, <2>2, <2>3
  <2>4. CASE path \in DOMAIN disk /\ path = target
    <3>1. source # <<>> /\ RenamedAt(source, Len(source), name, target)
      BY <1>6 DEF Renaming
    <3>2. Len(source) \in Nat
      BY <1>1, PathHasNames
    <3>3. Len(target) >= Len(source) /\ \A k \in 1 .. Len(source) - 1 : target[k] = source[k]
      BY <3>1, <3>2 DEF RenamedAt
    <3> QED
      BY <1>1, <1>3, <2>4, <3>3
  <2>5. CASE path \in DOMAIN disk /\ BeginsAlike(path, Len(source), source)
    <3>1. path \in PathsOfItems /\ Len(source) \in Nat
      BY <1>1, <1>4, <2>5, PathHasNames
    <3>2. IsPrefix(source, path)
      BY <1>1, <2>5, <3>1, PathPrefix
    <3>3. Len(path) >= Len(source) /\ \A k \in 1 .. Len(source) - 1 : path[k] = source[k]
      BY <2>5, <3>1 DEF BeginsAlike
    <3> QED
      BY <1>3, <3>1, <3>2, <3>3
  <2> QED
    BY <2>1, <2>2, <2>3, <2>4, <2>5 DEF Unchanged
<1>7. TouchedInside(new)
  BY <1>2, <1>5, <1>6
<1> QED
  BY <1>7 DEF new

LEMMA RecyclingInside ==
  ASSUME CatalogAssumption, CatalogInv, RecycleWorkspaceItem PROVE TouchedInside(disk')
<1> DEFINE source == prompt.path
           new == disk'
<1>1. source \in PathsOfItems /\ IsWithinWorkspaceRoots(source, roots) /\ ~Contains(roots, source)
        /\ new = Removed(source) /\ IsDisk(disk) /\ prompt.kind # "create"
  BY DEF CatalogInv, PromptOK, RecycleWorkspaceItem
<1> HIDE DEF source, new
<1>2. PICK i \in DOMAIN roots : \A path \in PathsOfItems :
           Len(path) >= Len(source) /\ (\A k \in 1 .. Len(source) - 1 : path[k] = source[k])
             => IsStrictPrefix(roots[i], path)
  BY <1>1, BelowItem
<1>3. /\ DOMAIN new = {q \in DOMAIN disk : ~IsPrefix(source, q)}
      /\ \A q \in DOMAIN new : new[q] = disk[q]
  BY <1>1, RemovedIsDisk
<1>4. ASSUME NEW path \in DOMAIN disk \cup DOMAIN new, ~Unchanged(new, path)
      PROVE  IsStrictPrefix(roots[i], path) /\ IsPrefix(source, path)
  <2>1. path \in PathsOfItems /\ IsPrefix(source, path)
    BY <1>1, <1>3, <1>4 DEF IsDisk, Unchanged
  <2>2. BeginsAlike(path, Len(source), source) /\ Len(source) \in Nat
    BY <1>1, <2>1, PathPrefix, PathHasNames
  <2>3. Len(path) >= Len(source) /\ \A k \in 1 .. Len(source) - 1 : path[k] = source[k]
    BY <2>2 DEF BeginsAlike
  <2> QED
    BY <1>2, <2>1, <2>3
<1>5. TouchedInside(new)
  BY <1>1, <1>4 DEF TouchedInside, source
<1> QED
  BY <1>5 DEF new

(* What the commands on items touch and lose.                              *)
Inside ==
  (CreateWorkspaceItem \/ RenameWorkspaceItem \/ RecycleWorkspaceItem) =>
    /\ \A path \in Touched : \E i \in DOMAIN roots : IsStrictPrefix(roots[i], path)
    /\ \A path \in Touched \cap DOMAIN disk :
         \/ prompt.kind # "create" /\ IsPrefix(prompt.path, path)
         \/ prompt.taken /\ path = prompt.target

(* Every step keeps to the roots.                                          *)
LEMMA ItemStep == ASSUME CatalogAssumption, CatalogInv PROVE Inside
<1>1. SUFFICES ASSUME CreateWorkspaceItem \/ RenameWorkspaceItem \/ RecycleWorkspaceItem
               PROVE  Inside
  BY DEF Inside
<1>2. TouchedInside(disk')
  BY <1>1, CreatingInside, RenamingInside, RecyclingInside
<1> DEFINE new == disk'
<1>3. Touched = {path \in DOMAIN disk \cup DOMAIN new : ~Unchanged(new, path)}
  BY DEF Touched, Unchanged
<1>4. TouchedInside(new)
  BY <1>2
<1> HIDE DEF new
<1> QED
  BY <1>3, <1>4 DEF Inside, TouchedInside

-----------------------------------------------------------------------------
(* The macros and their file: in it all texts are UTF-16, and after a write *)
(* that succeeded it has the macros.                                       *)

WrittenMacros == macroFile = Serialized(macroFile) /\ (stored => macroFile = Serialized(macros))

(* An action as it is in the file.                                         *)
Filed(action) == [action EXCEPT !.text = IF IsPaired(@) THEN @ ELSE <<>>]

LEMMA FiledIs ==
  ASSUME NEW action \in Actions
  PROVE  /\ Filed(action) \in Actions /\ Filed(Filed(action)) = Filed(action)
         /\ IsPaired(action.text) => Filed(action) = action
<1> DEFINE t == IF IsPaired(action.text) THEN action.text ELSE <<>>
<1>1. IsPaired(<<>>) /\ <<>> \in Seq(Nat)
  BY EmptySeq DEF IsPaired
<1>2. PICK kind, command, text : action = [kind |-> kind, command |-> command, text |-> text]
  BY DEF Actions
<1>3. action.text = text /\ Filed(action) = [kind |-> kind, command |-> command, text |-> t]
  BY <1>2 DEF Filed
<1>4. IsPaired(t)
  BY <1>1
<1>5. Filed(action) \in Actions
  <2>1. CASE action \in [kind : {"command"}, command : Commands, text : {<<>>}]
    BY <1>2, <1>3, <2>1 DEF Actions
  <2>2. CASE action \in [kind : {"insert_text"}, command : {"none"}, text : Seq(Nat)]
    <3>1. t \in Seq(Nat) /\ kind = "insert_text" /\ command = "none"
      BY <1>1, <1>2, <2>2
    <3> HIDE DEF t
    <3> QED
      BY <1>3, <3>1 DEF Actions
  <2> QED
    BY <2>1, <2>2 DEF Actions
<1>6. IsPaired(action.text) => Filed(action) = action
  BY <1>2, <1>3
<1>7. Filed(Filed(action)) = Filed(action)
  <2> HIDE DEF t
  <2>1. Filed([kind |-> kind, command |-> command, text |-> t])
          = [kind |-> kind, command |-> command, text |-> t]
    BY <1>4 DEF Filed
  <2> QED
    BY <1>3, <2>1
<1> QED
  BY <1>5, <1>6, <1>7

LEMMA FiledAll ==
  ASSUME NEW m \in Seq(Actions), NEW l, l = [k \in DOMAIN m |-> Filed(m[k])]
  PROVE  /\ l \in Seq(Actions) /\ [k \in DOMAIN l |-> Filed(l[k])] = l
         /\ (\A k \in DOMAIN m : IsPaired(m[k].text)) => l = m
<1>1. Len(m) \in Nat /\ DOMAIN m = 1 .. Len(m) /\ \A k \in DOMAIN m : m[k] \in Actions
  OBVIOUS
<1>2. l \in [1 .. Len(m) -> Actions]
  BY <1>1, FiledIs
<1>3. l \in Seq(Actions) /\ DOMAIN l = DOMAIN m
  BY <1>1, <1>2
<1>4. \A k \in DOMAIN l : Filed(l[k]) = l[k]
  BY <1>1, <1>3, FiledIs
<1>5. l = [k \in DOMAIN l |-> l[k]] /\ m = [k \in DOMAIN m |-> m[k]]
  BY <1>3
<1>6. [k \in DOMAIN l |-> Filed(l[k])] = [k \in DOMAIN l |-> l[k]]
  BY <1>4
<1>7. ASSUME \A k \in DOMAIN m : IsPaired(m[k].text) PROVE l = m
  <2>1. \A k \in DOMAIN m : l[k] = m[k]
    BY <1>1, <1>7, FiledIs
  <2> QED
    BY <1>3, <1>5, <2>1
<1> QED
  BY <1>3, <1>5, <1>6, <1>7

MacroRecords == [name : Names, actions : Seq(Actions)]

LEMMA SerializedIs ==
  ASSUME NEW all \in Macros
  PROVE  /\ Serialized(all) \in Macros /\ Serialized(Serialized(all)) = Serialized(all)
         /\ AreTexts(all) => Serialized(all) = all
<1> DEFINE listed(macro) == [k \in DOMAIN macro.actions |-> Filed(macro.actions[k])]
           filed(macro) == [macro EXCEPT !.actions = listed(macro)]
           new == Serialized(all)
<1>1. \A any : Serialized(any) = [i \in DOMAIN any |-> filed(any[i])]
  BY DEF Serialized, Filed
<1>2. all \in Seq(MacroRecords)
  BY DEF Macros, MacroRecords
<1> HIDE DEF new
<1>3. /\ Len(all) \in Nat /\ DOMAIN all = 1 .. Len(all)
      /\ \A i \in DOMAIN all : all[i] \in MacroRecords
  BY <1>2, ElementIs
<1>4. ASSUME NEW macro \in MacroRecords
      PROVE  /\ filed(macro) \in MacroRecords /\ filed(filed(macro)) = filed(macro)
             /\ (\A k \in DOMAIN macro.actions : IsPaired(macro.actions[k].text))
                  => filed(macro) = macro
  <2>1. PICK name \in Names, m \in Seq(Actions) : macro = [name |-> name, actions |-> m]
    BY DEF MacroRecords
  <2> DEFINE l == [k \in DOMAIN m |-> Filed(m[k])]
             f == [name |-> name, actions |-> l]
  <2>2. /\ l \in Seq(Actions) /\ [k \in DOMAIN l |-> Filed(l[k])] = l
        /\ (\A k \in DOMAIN m : IsPaired(m[k].text)) => l = m
    BY FiledAll
  <2>3. macro.actions = m /\ filed(macro) = f
    BY <2>1
  <2> HIDE DEF l
  <2>4. filed(f) = f
    BY <2>2
  <2>5. f \in MacroRecords /\ (l = m => f = macro)
    BY <2>1, <2>2 DEF MacroRecords
  <2> HIDE DEF filed, f
  <2> QED
    BY <2>2, <2>3, <2>4, <2>5
<1> HIDE DEF filed
<1>5. new = [i \in DOMAIN all |-> filed(all[i])]
  BY <1>1 DEF new
<1>6. new \in [1 .. Len(all) -> MacroRecords]
  BY <1>3, <1>4, <1>5
<1>7. new \in Seq(MacroRecords) /\ DOMAIN new = DOMAIN all /\ Len(new) = Len(all)
  BY <1>3, <1>6
<1>8. Serialized(new) = new
  <2>1. \A i \in DOMAIN new : filed(new[i]) = new[i]
    BY <1>3, <1>4, <1>5, <1>7
  <2>2. Serialized(new) = [i \in DOMAIN new |-> filed(new[i])]
    BY <1>1
  <2>3. new = [i \in DOMAIN new |-> new[i]]
    BY <1>5, <1>7
  <2> QED
    BY <2>1, <2>2, <2>3
<1>9. ASSUME AreTexts(all) PROVE new = all
  <2>1. \A i \in DOMAIN all : new[i] = all[i]
    BY <1>3, <1>4, <1>5, <1>9 DEF AreTexts
  <2> QED
    BY <1>2, <1>3, <1>7, <2>1, SeqEqual
<1> QED
  BY <1>7, <1>8, <1>9 DEF new, Macros, MacroRecords

LEMMA WrittenMacrosInit == MacroInit => WrittenMacros
<1>1. <<>> \in Macros /\ AreTexts(<<>>)
  BY EmptySeq DEF Macros, AreTexts
<1>2. Serialized(<<>>) = <<>>
  BY <1>1, SerializedIs
<1> QED
  BY <1>2 DEF MacroInit, WrittenMacros

LEMMA LibraryStays ==
  ASSUME WrittenMacros, UNCHANGED <<macros, macroFile, stored>>
  PROVE  WrittenMacros'
BY DEF WrittenMacros

LEMMA WritingMacros ==
  ASSUME WrittenMacros, macros' \in Macros, WriteMacros(macros') PROVE WrittenMacros'
<1>1. Serialized(Serialized(macros')) = Serialized(macros')
  BY SerializedIs
<1> QED
  BY <1>1 DEF WriteMacros, WrittenMacros

LEMMA WrittenMacrosStep ==
  ASSUME WrittenMacros, macros' \in Macros, [MacroNext]_macroVars
  PROVE  WrittenMacros'
<1>1. CASE \/ \E c \in Keys : Type(c)
           \/ Enter
           \/ \E command \in Commands : RunCommand(command)
           \/ \E position \in 0 .. Len(editor.text) : MoveCaret(position)
           \/ DeleteBackward \/ StartMacroRecording \/ PlayMacro \/ SaveDocument
  <2>1. UNCHANGED library
    BY <1>1, Zenon DEF Type, Enter, RunCommand, MoveCaret, DeleteBackward, StartMacroRecording,
                       PlayMacro, SaveDocument
  <2> QED
    BY <2>1, LibraryStays DEF library
<1>2. CASE StopMacroRecording
  BY <1>2, LibraryStays DEF StopMacroRecording
<1>3. CASE \E name \in Names : SaveLastMacro(name)
  <2>1. WriteMacros(macros')
    BY <1>3, Zenon DEF SaveLastMacro
  <2> QED
    BY <2>1, WritingMacros
<1>4. CASE DeleteMacro
  <2>1. WriteMacros(macros')
    BY <1>4, Zenon DEF DeleteMacro
  <2> QED
    BY <2>1, WritingMacros
<1>5. CASE MacroRelaunch
  <2>1. /\ macros' = IF IsLoadable(macroFile) THEN macroFile ELSE <<>>
        /\ stored' = IsLoadable(macroFile) /\ macroFile' = macroFile
    BY <1>5 DEF MacroRelaunch
  <2> QED
    BY <2>1 DEF WrittenMacros
<1>6. CASE UNCHANGED macroVars
  <2>1. UNCHANGED library
    BY <1>6 DEF macroVars
  <2> QED
    BY <2>1, LibraryStays DEF library
<1> QED
  BY <1>1, <1>2, <1>3, <1>4, <1>5, <1>6 DEF MacroNext

LEMMA RelaunchReadsMacros ==
  ASSUME WrittenMacros, macros \in Macros, MacroRelaunch, stored, IsLoadable(macros),
         AreTexts(macros)
  PROVE  macros' = macros
BY SerializedIs DEF WrittenMacros, MacroRelaunch

-----------------------------------------------------------------------------
(* The commands on a text, by their names.                                 *)
TextCommandNames ==
  DOMAIN Orders \cup DOMAIN Cases \cup (Plain \ {"kCrlf", "kLf", "kSelectAll"})

LEMMA TransformIs ==
  ASSUME NEW command \in TextCommandNames, NEW s \in TextsOf
  PROVE  TransformOf(command, s) \in TextsOf
<1>1. \A direction, unique, ignoreCase : SortLines(s, direction, unique, ignoreCase) \in TextsOf
  BY SortLinesIs
<1>2. /\ RemoveBlankLines(s, TRUE) \in TextsOf
      /\ TrimTrailingWhitespace(s) \in TextsOf
  BY RemoveBlankLinesIs, TrimIs
<1>3. JoinLines(s, <<SPACE>>) \in TextsOf
  <2>1. <<SPACE>> \in TextsOf
    BY Few DEF SPACE
  <2> QED
    BY <2>1, JoinLinesIs
<1>4. /\ SplitLines(s, SplitColumn) \in TextsOf
      /\ TabsToSpaces(s, TabWidth) \in TextsOf
      /\ SpacesToTabs(s, TabWidth) \in TextsOf
  BY EditingAssumption, SplitLinesIs, TabsToSpacesIs, SpacesToTabsIs
<1>5. \A letterCase : ConvertCase(s, letterCase) \in TextsOf
  BY ConvertCaseIs
<1>6. /\ EscapeJsonString(s) \in TextsOf /\ UrlEncode(s) \in TextsOf
      /\ IfDecoded(UnescapeJsonString(s), s) \in TextsOf
      /\ IfDecoded(UrlDecode(s), s) \in TextsOf
  BY EscapeIs, UrlEncodeIs, UnescapeIs, UrlDecodeIs DEF IfDecoded
<1> QED
  BY <1>1, <1>2, <1>3, <1>4, <1>5, <1>6
     DEF TransformOf, TextCommandNames, Orders, Cases, Plain

-----------------------------------------------------------------------------
(* The editor: the selection lies in its text.                             *)
Editors == [text : TextsOf, from : Nat, to : Nat, ending : LineEndings]

IsEditor(d) == d \in Editors /\ d.from <= d.to /\ d.to <= Len(d.text)

(* An editor is the record of its fields.                                  *)
IsWhole(d) == d = [text |-> d.text, from |-> d.from, to |-> d.to, ending |-> d.ending]

LEMMA CaretIs ==
  ASSUME NEW d, IsWhole(d), NEW p
  PROVE  CaretAt(d, p) = [text |-> d.text, from |-> p, to |-> p, ending |-> d.ending]
<1> DEFINE r == [d EXCEPT !.from = p, !.to = p]
<1>1. r \in [text : {d.text}, from : {p}, to : {p}, ending : {d.ending}]
  BY DEF IsWhole
<1> HIDE DEF r
<1>2. r = [text |-> d.text, from |-> p, to |-> p, ending |-> d.ending]
  BY <1>1
<1> QED
  BY <1>2 DEF r, CaretAt

LEMMA PlacedIs ==
  ASSUME NEW d, IsWhole(d), NEW t, NEW p, NEW q
  PROVE  [d EXCEPT !.text = t, !.from = p, !.to = q]
           = [text |-> t, from |-> p, to |-> q, ending |-> d.ending]
<1> DEFINE r == [d EXCEPT !.text = t, !.from = p, !.to = q]
<1>1. r \in [text : {t}, from : {p}, to : {q}, ending : {d.ending}]
  BY DEF IsWhole
<1> HIDE DEF r
<1>2. r = [text |-> t, from |-> p, to |-> q, ending |-> d.ending]
  BY <1>1
<1> QED
  BY <1>2 DEF r

LEMMA EditorIs ==
  ASSUME NEW d, IsEditor(d)
  PROVE  /\ d.text \in TextsOf /\ d.from \in 0 .. Len(d.text) /\ d.to \in d.from .. Len(d.text)
         /\ d.ending \in LineEndings /\ Len(d.text) \in Nat
         /\ IsWhole(d)
<1>1. d.text \in TextsOf
  BY DEF IsEditor, Editors
<1>2. Len(d.text) \in Nat
  BY <1>1, TextIs
<1> QED
  BY <1>1, <1>2 DEF IsEditor, Editors, IsWhole

LEMMA EditorOf ==
  ASSUME NEW t \in TextsOf, NEW to \in 0 .. Len(t), NEW from \in 0 .. to,
         NEW ending \in LineEndings
  PROVE  IsEditor([text |-> t, from |-> from, to |-> to, ending |-> ending])
<1>1. Len(t) \in Nat
  BY TextIs
<1> QED
  BY <1>1 DEF IsEditor, Editors

LEMMA ReplacedIs ==
  ASSUME NEW d, d.text \in TextsOf, NEW to \in 0 .. Len(d.text), NEW from \in 0 .. to,
         NEW s \in TextsOf
  PROVE  /\ Replaced(d, from, to, s) \in TextsOf
         /\ Len(Replaced(d, from, to, s)) = from + Len(s) + (Len(d.text) - to)
<1> DEFINE t == d.text
           a == SubSeq(t, 1, from)
           b == SubSeq(t, to + 1, Len(t))
<1>1. Len(t) \in Nat /\ Len(s) \in Nat
  BY TextIs
<1>2. Replaced(d, from, to, s) = a \o s \o b
  BY DEF Replaced
<1>3. a \in TextsOf /\ Len(a) = from
  <2>1. 1 \in Nat \ {0} /\ from \in Int /\ from <= Len(t) /\ from \in Nat
    BY <1>1
  <2> HIDE DEF t
  <2>2. a \in TextsOf /\ Len(a) = IF 1 <= from THEN from - 1 + 1 ELSE 0
    BY <2>1, TextPart DEF t
  <2> QED
    BY <2>1, <2>2
<1>4. b \in TextsOf /\ Len(b) = Len(t) - to
  <2>1. to + 1 \in Nat \ {0} /\ Len(t) \in Int /\ Len(t) <= Len(t) /\ to <= Len(t)
    BY <1>1
  <2> HIDE DEF t
  <2>2. b \in TextsOf /\ Len(b) = IF to + 1 <= Len(t) THEN Len(t) - (to + 1) + 1 ELSE 0
    BY <2>1, TextPart DEF t
  <2> QED
    BY <1>1, <2>1, <2>2
<1> HIDE DEF t, a, b
<1>5. a \o s \in TextsOf /\ Len(a \o s) = from + Len(s)
  BY <1>3, Together
<1>6. a \o s \o b \in TextsOf /\ Len(a \o s \o b) = from + Len(s) + (Len(t) - to)
  BY <1>4, <1>5, Together
<1> QED
  BY <1>2, <1>6 DEF t

LEMMA InsertIs ==
  ASSUME NEW d, IsEditor(d), NEW s \in TextsOf
  PROVE  /\ IsEditor(InsertText(d, s))
         /\ InsertText(d, s) = [text |-> Replaced(d, d.from, d.to, s),
                                from |-> d.from + Len(s), to |-> d.from + Len(s),
                                ending |-> d.ending]
<1> DEFINE t == Replaced(d, d.from, d.to, s)
           p == d.from + Len(s)
<1>1. /\ d.text \in TextsOf /\ d.from \in 0 .. Len(d.text) /\ d.to \in d.from .. Len(d.text)
      /\ d.ending \in LineEndings /\ Len(d.text) \in Nat /\ Len(s) \in Nat
      /\ IsWhole(d)
  BY EditorIs, TextIs
<1>2. d.to \in 0 .. Len(d.text) /\ d.from \in 0 .. d.to
  BY <1>1
<1>3. t \in TextsOf /\ Len(t) = d.from + Len(s) + (Len(d.text) - d.to)
  BY <1>1, <1>2, ReplacedIs
<1>4. InsertText(d, s) = CaretAt([d EXCEPT !.text = t], p)
  BY DEF InsertText
<1>5. p \in 0 .. Len(t) /\ p \in 0 .. p
  <2> HIDE DEF t
  <2> QED
    BY <1>1, <1>3
<1> HIDE DEF t, p
<1>6. CaretAt([d EXCEPT !.text = t], p)
        = [text |-> t, from |-> p, to |-> p, ending |-> d.ending]
  <2> DEFINE e == [text |-> t, from |-> d.from, to |-> d.to, ending |-> d.ending]
  <2>1. [d EXCEPT !.text = t] = e
    BY <1>1 DEF IsWhole
  <2>2. IsWhole(e) /\ e.text = t /\ e.ending = d.ending
    BY DEF IsWhole
  <2> HIDE DEF e
  <2>3. CaretAt(e, p) = [text |-> e.text, from |-> p, to |-> p, ending |-> e.ending]
    BY <2>2, CaretIs
  <2> QED
    BY <2>1, <2>2, <2>3, Zenon
<1>7. IsEditor([text |-> t, from |-> p, to |-> p, ending |-> d.ending])
  BY <1>1, <1>3, <1>5, EditorOf
<1> QED
  BY <1>4, <1>6, <1>7 DEF t, p

(* Inserting one text behind another is inserting both.                    *)
LEMMA InsertTwice ==
  ASSUME NEW d, IsEditor(d), NEW s \in TextsOf, NEW u \in TextsOf
  PROVE  InsertText(InsertText(d, s), u) = InsertText(d, s \o u)
<1> DEFINE e == InsertText(d, s)
           a == SubSeq(d.text, 1, d.from)
           b == SubSeq(d.text, d.to + 1, Len(d.text))
           p == d.from + Len(s)
<1>1. /\ d.text \in TextsOf /\ d.from \in 0 .. Len(d.text) /\ d.to \in d.from .. Len(d.text)
      /\ Len(d.text) \in Nat /\ Len(s) \in Nat /\ Len(u) \in Nat
  BY EditorIs, TextIs
<1>2. /\ IsEditor(e)
      /\ e = [text |-> a \o s \o b, from |-> p, to |-> p, ending |-> d.ending]
  BY InsertIs DEF Replaced
<1>3. InsertText(e, u) = [text |-> Replaced(e, p, p, u), from |-> p + Len(u),
                          to |-> p + Len(u), ending |-> d.ending]
  <2> HIDE DEF e, p, a, b
  <2>1. InsertText(e, u) = [text |-> Replaced(e, e.from, e.to, u), from |-> e.from + Len(u),
                            to |-> e.from + Len(u), ending |-> e.ending]
    BY <1>2, InsertIs
  <2>2. e.from = p /\ e.to = p /\ e.ending = d.ending
    BY <1>2
  <2> QED
    BY <2>1, <2>2, Zenon
<1>4. s \o u \in TextsOf /\ Len(s \o u) = Len(s) + Len(u)
  BY Together
<1>5. InsertText(d, s \o u)
        = [text |-> a \o (s \o u) \o b, from |-> d.from + (Len(s) + Len(u)),
           to |-> d.from + (Len(s) + Len(u)), ending |-> d.ending]
  BY <1>4, InsertIs DEF Replaced
<1>6. a \in TextsOf /\ Len(a) = d.from
  <2>1. /\ 1 \in Nat \ {0} /\ d.from \in Int /\ d.from <= Len(d.text)
        /\ d.from = IF 1 <= d.from THEN d.from - 1 + 1 ELSE 0
    BY <1>1
  <2>2. a \in TextsOf /\ Len(a) = IF 1 <= d.from THEN d.from - 1 + 1 ELSE 0
    BY <1>1, <2>1, TextPart
  <2> QED
    BY <2>1, <2>2
<1>7. b \in TextsOf
  <2>1. d.to + 1 \in Nat \ {0} /\ Len(d.text) \in Int /\ Len(d.text) <= Len(d.text)
    BY <1>1
  <2> QED
    BY <1>1, <2>1, TextPart
<1>8. Replaced(e, p, p, u) = SubSeq(e.text, 1, p) \o u \o SubSeq(e.text, p + 1, Len(e.text))
  BY DEF Replaced
<1> HIDE DEF e, a, b
<1>9. e.text = (a \o s) \o b
  BY <1>2
<1>10. a \o s \in TextsOf /\ Len(a \o s) = p
  BY <1>6, Together
<1>11. SubSeq(e.text, 1, p) = a \o s /\ SubSeq(e.text, p + 1, Len(e.text)) = b
  <2> DEFINE x == a \o s
             t == e.text
  <2>1. x \in TextsOf /\ Len(x) = p /\ t = x \o b
    BY <1>9, <1>10
  <2> HIDE DEF x, t, p
  <2>2. Halves(t, p, x, b)
    BY <1>7, <2>1, HalvesOf
  <2> QED
    BY <2>2 DEF Halves, x, t
<1>12. ((a \o s) \o u) \o b = (a \o (s \o u)) \o b
  BY <1>6, ConcatAssociative DEF TextsOf
<1>13. p + Len(u) = d.from + (Len(s) + Len(u))
  BY <1>1
<1> QED
  BY <1>3, <1>5, <1>8, <1>11, <1>12, <1>13 DEF e

LEMMA LeastIs ==
  ASSUME NEW a \in Nat, NEW b \in Nat
  PROVE  Least(a, b) \in 0 .. b /\ \A c \in Nat : a <= c => Least(a, b) <= Least(c, b)
BY DEF Least

LEMMA ReplaceTextIs ==
  ASSUME NEW d, IsEditor(d), NEW t \in TextsOf, NEW ending \in LineEndings
  PROVE  /\ IsEditor(ReplaceDocumentText(d, t))
         /\ IsEditor([ReplaceDocumentText(d, t) EXCEPT !.ending = ending])
         /\ IsEditor([d EXCEPT !.ending = ending])
<1> DEFINE p == Least(d.from, Len(t))
           q == Least(d.to, Len(t))
           e == [text |-> t, from |-> p, to |-> q, ending |-> d.ending]
<1>1. /\ d.text \in TextsOf /\ d.from \in 0 .. Len(d.text) /\ d.to \in d.from .. Len(d.text)
      /\ d.ending \in LineEndings /\ Len(d.text) \in Nat /\ Len(t) \in Nat /\ IsWhole(d)
  BY EditorIs, TextIs
<1>2. ReplaceDocumentText(d, t) = e
  <2>1. [d EXCEPT !.text = t, !.from = p, !.to = q] = e
    <3> HIDE DEF p, q
    <3> QED
      BY <1>1, PlacedIs
  <2> QED
    BY <2>1 DEF ReplaceDocumentText
<1>3. q \in 0 .. Len(t) /\ p \in 0 .. q
  <2>1. d.from \in Nat /\ d.to \in Nat /\ d.from <= d.to
    BY <1>1
  <2>2. q \in 0 .. Len(t) /\ p \in 0 .. Len(t)
    BY <1>1, <2>1, LeastIs
  <2>3. p <= q
    BY <1>1, <2>1, LeastIs
  <2> QED
    BY <1>1, <2>2, <2>3
<1> HIDE DEF p, q
<1>4. IsEditor(e) /\ IsEditor([text |-> t, from |-> p, to |-> q, ending |-> ending])
  BY <1>1, <1>3, EditorOf
<1>5. [e EXCEPT !.ending = ending] = [text |-> t, from |-> p, to |-> q, ending |-> ending]
  OBVIOUS
<1>6. [d EXCEPT !.ending = ending]
        = [text |-> d.text, from |-> d.from, to |-> d.to, ending |-> ending]
  BY <1>1 DEF IsWhole
<1>7. d.to \in 0 .. Len(d.text) /\ d.from \in 0 .. d.to
  BY <1>1
<1>8. IsEditor([text |-> d.text, from |-> d.from, to |-> d.to, ending |-> ending])
  BY <1>1, <1>7, EditorOf
<1> HIDE DEF e
<1>9. IsEditor([ReplaceDocumentText(d, t) EXCEPT !.ending = ending])
  BY <1>2, <1>4, <1>5, Zenon
<1>10. IsEditor([d EXCEPT !.ending = ending])
  BY <1>6, <1>8, Zenon
<1> QED
  BY <1>2, <1>4, <1>9, <1>10

LEMMA SetLineEndingIs ==
  ASSUME NEW d, IsEditor(d), NEW ending \in LineEndings
  PROVE  IsEditor(SetLineEnding(d, ending))
<1> DEFINE t == NormalizeLineEndings(d.text, ending)
<1>1. t \in TextsOf
  BY EditorIs, NormalizeIs
<1>2. IsEditor([ReplaceDocumentText(d, t) EXCEPT !.ending = ending])
  <2> HIDE DEF t
  <2> QED
    BY <1>1, ReplaceTextIs
<1>3. SetLineEnding(d, ending)
        = IF d.ending = ending THEN d ELSE [ReplaceDocumentText(d, t) EXCEPT !.ending = ending]
  BY DEF SetLineEnding
<1> HIDE DEF t
<1> QED
  BY <1>2, <1>3

LEMMA TransformSelectionIs ==
  ASSUME NEW d, IsEditor(d), NEW command \in TextCommandNames
  PROVE  IsEditor(TransformSelectionOrDocument(d, command))
<1> DEFINE from == IF d.from = d.to THEN 0 ELSE d.from
           to   == IF d.from = d.to THEN Len(d.text) ELSE d.to
           replacement == TransformOf(command, Between(d, from, to))
           t == Replaced(d, from, to, replacement)
<1>1. TransformSelectionOrDocument(d, command)
        = [d EXCEPT !.text = t, !.from = from, !.to = from + Len(replacement)]
  BY DEF TransformSelectionOrDocument
<1>2. /\ d.text \in TextsOf /\ d.from \in 0 .. Len(d.text) /\ d.to \in d.from .. Len(d.text)
      /\ d.ending \in LineEndings /\ Len(d.text) \in Nat /\ IsWhole(d)
  BY EditorIs
<1>3. to \in 0 .. Len(d.text) /\ from \in 0 .. to
  BY <1>2
<1> HIDE DEF from, to
<1>4. Between(d, from, to) \in TextsOf
  <2>1. from + 1 \in Nat \ {0} /\ to \in Int /\ to <= Len(d.text)
    BY <1>2, <1>3
  <2> QED
    BY <1>2, <2>1, TextPart DEF Between
<1>5. replacement \in TextsOf
  BY <1>4, TransformIs
<1> HIDE DEF replacement
<1>6. t \in TextsOf /\ Len(t) = from + Len(replacement) + (Len(d.text) - to)
  BY <1>2, <1>3, <1>5, ReplacedIs
<1> HIDE DEF t
<1> DEFINE n == from + Len(replacement)
<1>7. n \in 0 .. Len(t) /\ from \in 0 .. n
  <2>1. Len(replacement) \in Nat
    BY <1>5, TextIs
  <2> QED
    BY <1>2, <1>3, <1>6, <2>1
<1> HIDE DEF n
<1>8. IsEditor([text |-> t, from |-> from, to |-> n, ending |-> d.ending])
  BY <1>2, <1>6, <1>7, EditorOf
<1>9. [d EXCEPT !.text = t, !.from = from, !.to = n]
        = [text |-> t, from |-> from, to |-> n, ending |-> d.ending]
  BY <1>2, PlacedIs
<1> QED
  BY <1>1, <1>8, <1>9, Zenon DEF n

LEMMA EffectIs ==
  ASSUME NEW d, IsEditor(d), NEW command \in Commands PROVE IsEditor(Effect(command, d))
<1>1. CASE command = "kCrlf"
  BY <1>1, SetLineEndingIs DEF Effect, LineEndings
<1>2. CASE command = "kLf"
  BY <1>2, SetLineEndingIs DEF Effect, LineEndings
<1>3. CASE command = "kSelectAll"
  <2>1. /\ d.text \in TextsOf /\ d.ending \in LineEndings /\ Len(d.text) \in Nat
        /\ IsWhole(d)
    BY EditorIs
  <2>2. [d EXCEPT !.from = 0, !.to = Len(d.text)]
          = [text |-> d.text, from |-> 0, to |-> Len(d.text), ending |-> d.ending]
    <3> DEFINE r == [d EXCEPT !.from = 0, !.to = Len(d.text)]
    <3>1. r \in [text : {d.text}, from : {0}, to : {Len(d.text)}, ending : {d.ending}]
      BY <2>1 DEF IsWhole
    <3> HIDE DEF r
    <3>2. r = [text |-> d.text, from |-> 0, to |-> Len(d.text), ending |-> d.ending]
      BY <3>1
    <3> QED
      BY <3>2 DEF r
  <2>3. Len(d.text) \in 0 .. Len(d.text) /\ 0 \in 0 .. Len(d.text)
    BY <2>1
  <2>4. IsEditor([text |-> d.text, from |-> 0, to |-> Len(d.text), ending |-> d.ending])
    BY <2>1, <2>3, EditorOf
  <2>5. Effect(command, d) = [d EXCEPT !.from = 0, !.to = Len(d.text)]
    BY <1>3 DEF Effect
  <2> QED
    BY <2>2, <2>4, <2>5, Zenon
<1>4. CASE command \notin {"kCrlf", "kLf", "kSelectAll"}
  <2>1. command \in TextCommandNames
    BY <1>4, CommandsAssumption DEF TextCommandNames
  <2>2. Effect(command, d) = TransformSelectionOrDocument(d, command)
    BY <1>4 DEF Effect
  <2> QED
    BY <2>1, <2>2, TransformSelectionIs
<1> QED
  BY <1>1, <1>2, <1>3, <1>4

-----------------------------------------------------------------------------
(* What is left of an editor once its text was replaced under the caret.   *)
Loose(d) == IsWhole(d) /\ d.text \in TextsOf /\ d.ending \in LineEndings

LEMMA CaretIn ==
  ASSUME NEW d, Loose(d), NEW p \in 0 .. Len(d.text)
  PROVE  IsEditor(CaretAt(d, p))
<1>1. CaretAt(d, p) = [text |-> d.text, from |-> p, to |-> p, ending |-> d.ending]
  BY CaretIs DEF Loose
<1>2. d.text \in TextsOf /\ d.ending \in LineEndings /\ p \in 0 .. p
  BY TextIs DEF Loose
<1>3. IsEditor([text |-> d.text, from |-> p, to |-> p, ending |-> d.ending])
  BY <1>2, EditorOf
<1> QED
  BY <1>1, <1>3, Zenon

LEMMA TextSetIs ==
  ASSUME NEW d, IsEditor(d), NEW t \in TextsOf
  PROVE  /\ Loose(d) /\ Loose([d EXCEPT !.text = t]) /\ [d EXCEPT !.text = t].text = t
         /\ d.to <= Len(t) => IsEditor([d EXCEPT !.text = t])
<1> DEFINE e == [text |-> t, from |-> d.from, to |-> d.to, ending |-> d.ending]
<1>1. /\ d.text \in TextsOf /\ d.from \in 0 .. Len(d.text) /\ d.to \in d.from .. Len(d.text)
      /\ d.ending \in LineEndings /\ Len(d.text) \in Nat /\ Len(t) \in Nat /\ IsWhole(d)
  BY EditorIs, TextIs
<1>2. [d EXCEPT !.text = t] = e
  BY <1>1 DEF IsWhole
<1>3. Loose(d) /\ Loose(e) /\ e.text = t
  BY <1>1 DEF Loose, IsWhole
<1>4. ASSUME d.to <= Len(t) PROVE IsEditor(e)
  <2>1. d.to \in 0 .. Len(t) /\ d.from \in 0 .. d.to
    BY <1>1, <1>4
  <2> QED
    BY <1>1, <2>1, EditorOf
<1> HIDE DEF e
<1> QED
  BY <1>2, <1>3, <1>4

LEMMA LineStartIs ==
  ASSUME NEW t \in TextsOf, NEW position \in Nat
  PROVE  LineStart(t, position) \in 0 .. Len(t) /\ LineStart(t, position) <= position
<1> DEFINE before == {i \in Breaks(t) : Behind(t, i) - 1 <= position}
           last == CHOOSE i \in before : \A j \in before : j <= i
<1>1. LineStart(t, position) = IF before = {} THEN 0 ELSE Behind(t, last) - 1
  BY DEF LineStart
<1>2. Len(t) \in Nat /\ before \in SUBSET (1 .. Len(t))
  BY TextIs, BreaksAre
<1>3. CASE before = {}
  BY <1>1, <1>2, <1>3
<1>4. CASE before # {}
  <2>1. \E i \in before : \A j \in before : j <= i
    <3>1. \E i \in before : \A j \in before : i >= j
      <4> HIDE DEF before
      <4> QED
        BY <1>2, <1>4, Greatest
    <3>2. PICK i \in before : \A j \in before : i >= j
      BY <3>1
    <3>3. \A j \in before : j \in Int /\ i \in Int
      BY <1>2, <3>2
    <3> QED
      BY <3>2, <3>3
  <2>2. last \in before
    BY <2>1
  <2>3. Behind(t, last) - 1 <= position /\ last \in 1 .. Len(t)
    BY <1>2, <2>2
  <2> HIDE DEF before, last
  <2>4. Behind(t, last) \in last + 1 .. Len(t) + 1
    BY <2>3, BehindIs
  <2> QED
    BY <1>1, <1>2, <1>4, <2>3, <2>4
<1> QED
  BY <1>3, <1>4

LEMMA LineEndIs ==
  ASSUME NEW t \in TextsOf, NEW position \in 0 .. Len(t)
  PROVE  LineEnd(t, position) \in position .. Len(t)
<1> DEFINE after == {i \in Breaks(t) : i > position}
           first == CHOOSE i \in after : \A j \in after : i <= j
<1>1. LineEnd(t, position) = IF after = {} THEN Len(t) ELSE first - 1
  BY DEF LineEnd
<1>2. Len(t) \in Nat /\ after \in SUBSET (1 .. Len(t))
  BY TextIs, BreaksAre
<1>3. CASE after = {}
  BY <1>1, <1>2, <1>3
<1>4. CASE after # {}
  <2>1. \E i \in after : \A j \in after : i <= j
    <3>1. after \in SUBSET Nat
      BY <1>2
    <3> HIDE DEF after
    <3> QED
      BY <1>4, <3>1, Smallest
  <2>2. first \in after
    BY <2>1
  <2>3. first > position /\ first \in 1 .. Len(t)
    BY <1>2, <2>2
  <2> HIDE DEF after, first
  <2> QED
    BY <1>1, <1>2, <1>4, <2>3
<1> QED
  BY <1>3, <1>4

LEMMA IndentEndIs ==
  ASSUME NEW t \in TextsOf, NEW start \in 0 .. Len(t)
  PROVE  IndentEnd(t, start) \in start .. Len(t)
<1> DEFINE n == LineEnd(t, start)
           solid == {i \in start .. n - 1 : t[i + 1] \notin Blank}
<1>1. n \in start .. Len(t) /\ Len(t) \in Nat
  BY LineEndIs, TextIs
<1>2. IndentEnd(t, start) = IF solid = {} THEN n
                            ELSE CHOOSE i \in solid : \A j \in solid : i <= j
  BY DEF IndentEnd
<1> HIDE DEF n
<1>3. solid \in SUBSET Nat /\ \A i \in solid : i \in start .. Len(t)
  BY <1>1
<1> HIDE DEF solid
<1>4. solid # {} => \E i \in solid : \A j \in solid : i <= j
  BY <1>3, Smallest
<1> QED
  BY <1>1, <1>2, <1>3, <1>4

LEMMA IndentationIs ==
  ASSUME NEW t \in TextsOf, NEW start \in 0 .. Len(t)
  PROVE  Indentation(t, start) \in Nat
<1>1. start + 1 \in Nat \ {0} /\ IndentEnd(t, start) \in Int /\ IndentEnd(t, start) <= Len(t)
  BY IndentEndIs, TextIs
<1>2. SubSeq(t, start + 1, IndentEnd(t, start)) \in TextsOf
  BY <1>1, TextPart
<1>3. TabsToSpaces(SubSeq(t, start + 1, IndentEnd(t, start)), TabWidth) \in TextsOf
  BY <1>2, EditingAssumption, TabsToSpacesIs
<1> QED
  BY <1>3, TextIs DEF Indentation

LEMMA SetIndentationIs ==
  ASSUME NEW d, IsEditor(d), NEW start \in 0 .. Len(d.text), NEW columns \in Nat
  PROVE  /\ Loose(SetIndentation(d, start, columns))
         /\ start \in 0 .. Len(SetIndentation(d, start, columns).text)
<1> DEFINE p == IndentEnd(d.text, start)
           s == [i \in 1 .. columns |-> SPACE]
           t == Replaced(d, start, p, s)
<1>1. d.text \in TextsOf /\ Len(d.text) \in Nat
  BY EditorIs
<1>2. p \in start .. Len(d.text)
  BY <1>1, IndentEndIs
<1>3. s \in TextsOf /\ Len(s) = columns
  BY SpacesAre DEF Spaces
<1>4. SetIndentation(d, start, columns)
        = IF Indentation(d.text, start) = columns THEN d ELSE [d EXCEPT !.text = t]
  BY DEF SetIndentation
<1> HIDE DEF p, s
<1>5. p \in 0 .. Len(d.text) /\ start \in 0 .. p
  BY <1>1, <1>2
<1>6. t \in TextsOf /\ Len(t) = start + columns + (Len(d.text) - p)
  BY <1>1, <1>3, <1>5, ReplacedIs
<1> HIDE DEF t
<1>7. Loose(d) /\ Loose([d EXCEPT !.text = t]) /\ [d EXCEPT !.text = t].text = t
  BY <1>6, TextSetIs
<1>8. start \in 0 .. Len(t)
  <2>1. start \in Nat /\ Len(d.text) - p \in Nat
    BY <1>1, <1>5
  <2> QED
    BY <1>6, <2>1
<1> QED
  BY <1>4, <1>7, <1>8

LEMMA IndentNewLineIs == ASSUME NEW d, IsEditor(d) PROVE IsEditor(IndentNewLine(d))
<1> DEFINE t        == d.text
           start    == LineStart(t, d.to)
           lineEnd  == IF start > 1 /\ IsPair(t, start - 1) THEN start - 2 ELSE start - 1
           previous == LineStart(t, lineEnd)
           columns  == Indentation(t, previous)
                         + IF lineEnd > 0 /\ t[lineEnd] = 123 THEN TabWidth ELSE 0
           indented == SetIndentation(d, start, columns)
<1>1. IndentNewLine(d) = IF start = 0 THEN d
                         ELSE CaretAt(indented, IndentEnd(indented.text, start))
  BY DEF IndentNewLine
<1>2. t \in TextsOf /\ d.to \in Nat /\ Len(t) \in Nat
  BY EditorIs
<1>3. start \in 0 .. Len(t)
  BY <1>2, LineStartIs
<1> HIDE DEF t
<1> SUFFICES ASSUME start # 0
             PROVE  IsEditor(CaretAt(indented, IndentEnd(indented.text, start)))
  BY <1>1
<1> HIDE DEF start
<1>4. lineEnd \in Nat
  BY <1>2, <1>3
<1>5. (IF lineEnd > 0 /\ t[lineEnd] = 123 THEN TabWidth ELSE 0) \in Nat
  BY EditingAssumption
<1> HIDE DEF lineEnd
<1>6. previous \in 0 .. Len(t)
  BY <1>2, <1>4, LineStartIs
<1> HIDE DEF previous
<1>7. Indentation(t, previous) \in Nat
  BY <1>2, <1>6, IndentationIs
<1>8. columns \in Nat
  BY <1>5, <1>7
<1> HIDE DEF columns
<1>9. Loose(indented) /\ start \in 0 .. Len(indented.text)
  BY <1>3, <1>8, SetIndentationIs DEF t
<1> HIDE DEF indented
<1>10. IndentEnd(indented.text, start) \in start .. Len(indented.text)
  BY <1>9, IndentEndIs DEF Loose
<1>11. IndentEnd(indented.text, start) \in 0 .. Len(indented.text)
  BY <1>9, <1>10
<1> QED
  BY <1>9, <1>11, CaretIn

LEMMA OutdentBraceIs == ASSUME NEW d, IsEditor(d) PROVE IsEditor(OutdentBrace(d))
<1> DEFINE start    == LineStart(d.text, d.to)
           columns  == Indentation(d.text, start)
           fewer    == IF columns > TabWidth THEN columns - TabWidth ELSE 0
           outdent  == SetIndentation(d, start, fewer)
<1>1. OutdentBrace(d) = IF \A i \in start + 1 .. d.to - 1 : d.text[i] \in Blank
                        THEN CaretAt(outdent, LineEnd(outdent.text, start)) ELSE d
  BY DEF OutdentBrace
<1>2. d.text \in TextsOf /\ d.to \in Nat /\ Len(d.text) \in Nat
  BY EditorIs
<1>3. start \in 0 .. Len(d.text)
  BY <1>2, LineStartIs
<1> SUFFICES IsEditor(CaretAt(outdent, LineEnd(outdent.text, start)))
  BY <1>1
<1> HIDE DEF start
<1>4. columns \in Nat
  BY <1>2, <1>3, IndentationIs
<1> HIDE DEF columns
<1>5. fewer \in Nat
  BY <1>4, EditingAssumption
<1> HIDE DEF fewer
<1>6. Loose(outdent) /\ start \in 0 .. Len(outdent.text)
  BY <1>3, <1>5, SetIndentationIs
<1> HIDE DEF outdent
<1>7. LineEnd(outdent.text, start) \in start .. Len(outdent.text)
  BY <1>6, LineEndIs DEF Loose
<1>8. LineEnd(outdent.text, start) \in 0 .. Len(outdent.text)
  BY <1>6, <1>7
<1> QED
  BY <1>6, <1>8, CaretIn

(* What the editor adds to a typed character leaves the selection in the text. *)
LEMMA HandleIs ==
  ASSUME NEW d, IsEditor(d), NEW c, d.to >= 1 \/ c \in {CR, LF}
  PROVE  IsEditor(HandleCharacterAdded(d, c))
<1> DEFINE isOver == c \in Closers /\ d.to < Len(d.text) /\ d.text[d.to + 1] = c
<1>1. d.text \in TextsOf /\ d.to \in 0 .. Len(d.text) /\ Len(d.text) \in Nat
  <2>1. /\ d.text \in TextsOf /\ Len(d.text) \in Nat
        /\ d.from \in 0 .. Len(d.text) /\ d.to \in d.from .. Len(d.text)
    BY EditorIs
  <2> QED
    BY <2>1
<1>2. CASE c \in {CR, LF}
  <2>1. HandleCharacterAdded(d, c) = IndentNewLine(d)
    BY <1>2 DEF HandleCharacterAdded, Closers, Openers, CR, LF
  <2> QED
    BY <2>1, IndentNewLineIs
<1>3. CASE c \notin {CR, LF} /\ isOver
  <2> DEFINE t == Replaced(d, d.to - 1, d.to, <<>>)
  <2>1. HandleCharacterAdded(d, c) = [d EXCEPT !.text = t]
    BY <1>3 DEF HandleCharacterAdded, CR, LF, Closers
  <2>2. d.to - 1 \in 0 .. d.to /\ <<>> \in TextsOf /\ Len(<<>>) = 0
    BY <1>1, <1>3, Few
  <2>3. t \in TextsOf /\ Len(t) = (d.to - 1) + Len(<<>>) + (Len(d.text) - d.to)
    BY <1>1, <2>2, ReplacedIs
  <2> HIDE DEF t
  <2>4. d.to <= Len(t)
    BY <1>1, <1>3, <2>2, <2>3
  <2> QED
    BY <2>1, <2>3, <2>4, TextSetIs
<1>4. CASE c \notin {CR, LF} /\ ~isOver /\ c = 125
  <2>1. ~(d.to < Len(d.text) /\ d.text[d.to + 1] = c)
    BY <1>4 DEF Closers
  <2>2. HandleCharacterAdded(d, c) = OutdentBrace(d)
    BY <1>4, <2>1 DEF HandleCharacterAdded, Openers, CR, LF
  <2> QED
    BY <2>2, OutdentBraceIs
<1>5. CASE c \notin {CR, LF} /\ ~isOver /\ c # 125 /\ c \in DOMAIN Openers
  <2> DEFINE t == Replaced(d, d.to, d.to, <<Openers[c]>>)
  <2>1. HandleCharacterAdded(d, c) = [d EXCEPT !.text = t]
    BY <1>5 DEF HandleCharacterAdded
  <2>2. Openers[c] \in Nat
    BY <1>5 DEF Openers
  <2>3. <<Openers[c]>> \in TextsOf /\ Len(<<Openers[c]>>) = 1 /\ d.to \in 0 .. d.to
    BY <1>1, <2>2, Few
  <2>4. t \in TextsOf /\ Len(t) = d.to + Len(<<Openers[c]>>) + (Len(d.text) - d.to)
    BY <1>1, <2>3, ReplacedIs
  <2> HIDE DEF t
  <2>5. d.to <= Len(t)
    BY <1>1, <2>3, <2>4
  <2> QED
    BY <2>1, <2>4, <2>5, TextSetIs
<1>6. CASE c \notin {CR, LF} /\ ~isOver /\ c # 125 /\ c \notin DOMAIN Openers
  <2>1. HandleCharacterAdded(d, c) = d
    BY <1>6 DEF HandleCharacterAdded
  <2> QED
    BY <2>1
<1> QED
  BY <1>2, <1>3, <1>4, <1>5, <1>6

LEMMA PreparedIs ==
  ASSUME NEW t \in TextsOf, NEW ending \in LineEndings,
         settings \in {document.settings : document \in Documents}
  PROVE  Prepared(t, ending) \in TextsOf
<1> DEFINE trimmed == IF settings.trim THEN TrimTrailingWhitespace(t) ELSE t
           ended   == IF settings.eol # "none" THEN NormalizeLineEndings(trimmed, settings.eol)
                      ELSE trimmed
<1>1. settings.eol # "none" => settings.eol \in LineEndings
  BY DocumentsAssumption DEF LineEndings
<1>2. trimmed \in TextsOf
  BY TrimIs
<1> HIDE DEF trimmed
<1>3. ended \in TextsOf
  BY <1>1, <1>2, NormalizeIs
<1> HIDE DEF ended
<1>4. EnsureFinalNewline(ended, Delimiter(ending)) \in TextsOf
  BY <1>3, DelimiterIs, FinalNewlineIs
<1> QED
  BY <1>3, <1>4 DEF Prepared, trimmed, ended

-----------------------------------------------------------------------------
(* Playing: each action turns an editor into an editor.                    *)
EditorSet == {d \in Editors : IsEditor(d)}

LEMMA EditorsAre == \A d : d \in EditorSet <=> IsEditor(d)
BY DEF EditorSet, IsEditor

(* A text without halves of pairs is inserted as it is.                    *)
IsPlain(units) == \A i \in DOMAIN units : units[i] \notin Leads \cup Trails

Singles(t) == [i \in DOMAIN t |-> <<t[i]>>]

LEMMA FlatSingles == \A t \in TextsOf : FlattenSeq(Singles(t)) = t
<1> DEFINE T == {t \in Seq(Nat) : FlattenSeq(Singles(t)) = t}
<1>1. <<>> \in T
  <2>1. Singles(<<>>) = <<>>
    BY DEF Singles
  <2> QED
    BY <2>1, FlattenNone, EmptySeq
<1>2. ASSUME NEW t \in Seq(Nat), NEW c \in Nat, t \in T PROVE Append(t, c) \in T
  <2> DEFINE more == Append(t, c)
  <2>1. /\ more \in Seq(Nat) /\ Len(more) = Len(t) + 1 /\ more[Len(t) + 1] = c
        /\ DOMAIN more = 1 .. Len(t) + 1 /\ Len(t) \in Nat /\ DOMAIN t = 1 .. Len(t)
        /\ \A i \in 1 .. Len(t) : more[i] = t[i]
    BY AppendProperties
  <2>2. /\ Singles(t) \in Seq(Seq(Nat)) /\ Len(Singles(t)) = Len(t)
        /\ \A i \in 1 .. Len(t) : Singles(t)[i] = <<t[i]>>
    BY <2>1 DEF Singles
  <2>3. <<c>> \in Seq(Nat)
    OBVIOUS
  <2>4. Singles(more) = Append(Singles(t), <<c>>)
    <3> DEFINE u == Append(Singles(t), <<c>>)
    <3>1. /\ u \in Seq(Seq(Nat)) /\ Len(u) = Len(t) + 1 /\ u[Len(t) + 1] = <<c>>
          /\ \A i \in 1 .. Len(t) : u[i] = <<t[i]>>
      BY <2>2, <2>3, AppendProperties
    <3>2. /\ Singles(more) \in Seq(Seq(Nat)) /\ Len(Singles(more)) = Len(t) + 1
          /\ \A i \in 1 .. Len(t) + 1 : Singles(more)[i] = <<more[i]>>
      <4> HIDE DEF more
      <4> QED
        BY <2>1 DEF Singles
    <3> HIDE DEF u, more
    <3>3. ASSUME NEW i \in 1 .. Len(t) + 1 PROVE Singles(more)[i] = u[i]
      <4>1. CASE i = Len(t) + 1
        BY <2>1, <3>1, <3>2, <4>1
      <4>2. CASE i # Len(t) + 1
        <5>1. i \in 1 .. Len(t)
          BY <2>1, <4>2
        <5>2. more[i] = t[i] /\ u[i] = <<t[i]>> /\ Singles(more)[i] = <<more[i]>>
          BY <2>1, <3>1, <3>2, <5>1
        <5> QED
          BY <5>2
      <4> QED
        BY <4>1, <4>2
    <3>4. Singles(more) = u
      BY <3>1, <3>2, <3>3, SeqEqual
    <3> QED
      BY <3>4 DEF u
  <2>5. FlattenSeq(Append(Singles(t), <<c>>)) = FlattenSeq(Singles(t)) \o <<c>>
    BY <2>2, <2>3, FlattenMore
  <2>6. t \o <<c>> = more
    BY AppendIsConcat
  <2> QED
    BY <1>2, <2>1, <2>4, <2>5, <2>6
<1> HIDE DEF T
<1>3. Seq(Nat) \subseteq T
  BY <1>1, <1>2, SequenceInduction
<1> QED
  BY <1>3 DEF T, TextsOf

LEMMA PlainIs ==
  ASSUME NEW s \in TextsOf, IsPlain(s)
  PROVE  IsPaired(s) /\ \A d : InsertUnits(d, s) = InsertText(d, s)
<1>1. IsPaired(s)
  BY DEF IsPlain, IsPaired
<1> DEFINE parts == [i \in DOMAIN s |->
             IF s[i] \in Leads THEN <<>>
             ELSE IF s[i] \in Trails
             THEN <<65536 + (s[i - 1] - 55296) * 1024 + (s[i] - 56320)>>
             ELSE <<s[i]>>]
<1>2. parts = Singles(s)
  BY DEF IsPlain, Singles
<1>3. Decoded(s) = FlattenSeq(parts)
  BY DEF Decoded
<1> HIDE DEF parts
<1>4. Decoded(s) = s
  BY <1>2, <1>3, FlatSingles
<1> QED
  BY <1>1, <1>4 DEF InsertUnits

LEMMA PlainTogether ==
  ASSUME NEW s \in TextsOf, NEW t \in TextsOf, IsPlain(s), IsPlain(t) PROVE IsPlain(s \o t)
<1>1. /\ Len(s) \in Nat /\ Len(t) \in Nat /\ DOMAIN s = 1 .. Len(s) /\ DOMAIN t = 1 .. Len(t)
      /\ DOMAIN (s \o t) = 1 .. Len(s) + Len(t)
      /\ \A i \in 1 .. Len(s) + Len(t) :
           (s \o t)[i] = IF i <= Len(s) THEN s[i] ELSE t[i - Len(s)]
  BY ConcatProperties DEF TextsOf
<1>2. ASSUME NEW i \in 1 .. Len(s) + Len(t) PROVE (s \o t)[i] \notin Leads \cup Trails
  <2>1. CASE i <= Len(s)
    BY <1>1, <2>1 DEF IsPlain
  <2>2. CASE ~(i <= Len(s))
    <3>1. i - Len(s) \in 1 .. Len(t)
      BY <1>1, <2>2
    <3> QED
      BY <1>1, <2>2, <3>1 DEF IsPlain
  <2> QED
    BY <2>1, <2>2
<1> QED
  BY <1>1, <1>2 DEF IsPlain

LEMMA PairIs ==
  ASSUME NEW a \in Leads, NEW b \in Trails
  PROVE  65536 + (a - 55296) * 1024 + (b - 56320) \in Nat
BY SMT DEF Leads, Trails

LEMMA DecodedIs == ASSUME NEW s \in TextsOf, IsPaired(s) PROVE Decoded(s) \in TextsOf
<1> DEFINE parts == [i \in DOMAIN s |->
             IF s[i] \in Leads THEN <<>>
             ELSE IF s[i] \in Trails
             THEN <<65536 + (s[i - 1] - 55296) * 1024 + (s[i] - 56320)>>
             ELSE <<s[i]>>]
<1>1. Len(s) \in Nat /\ DOMAIN s = 1 .. Len(s) /\ \A i \in 1 .. Len(s) : s[i] \in Nat
  BY TextIs
<1>2. ASSUME NEW i \in 1 .. Len(s) PROVE parts[i] \in TextsOf
  <2>1. CASE s[i] \in Leads
    BY <1>1, <2>1, Few
  <2>2. CASE s[i] \notin Leads /\ s[i] \in Trails
    <3>1. s[i - 1] \in Leads
      BY <1>1, <2>2 DEF IsPaired
    <3>2. parts[i] = <<65536 + (s[i - 1] - 55296) * 1024 + (s[i] - 56320)>>
      BY <1>1, <2>2
    <3> DEFINE c == 65536 + (s[i - 1] - 55296) * 1024 + (s[i] - 56320)
    <3>3. c \in Nat
      BY <2>2, <3>1, PairIs
    <3> HIDE DEF parts, c
    <3> QED
      BY <3>2, <3>3, Few DEF c
  <2>3. CASE s[i] \notin Leads /\ s[i] \notin Trails
    BY <1>1, <2>3, Few
  <2> QED
    BY <2>1, <2>2, <2>3
<1>3. Decoded(s) = FlattenSeq(parts) /\ parts = [i \in DOMAIN s |-> parts[i]]
  BY DEF Decoded
<1> HIDE DEF parts
<1> QED
  BY <1>2, <1>3, Pieced

LEMMA InsertUnitsIs ==
  ASSUME NEW d, IsEditor(d), NEW s \in TextsOf PROVE IsEditor(InsertUnits(d, s))
BY DecodedIs, InsertIs DEF InsertUnits

LEMMA PerformIs ==
  ASSUME NEW d, IsEditor(d), NEW action \in Actions PROVE IsEditor(Perform(d, action))
<1>1. CASE action \in [kind : {"command"}, command : Commands, text : {<<>>}]
  <2>1. Perform(d, action) = Effect(action.command, d) /\ action.command \in Commands
    BY <1>1 DEF Perform
  <2> QED
    BY <2>1, EffectIs
<1>2. CASE action \in [kind : {"insert_text"}, command : {"none"}, text : Seq(Nat)]
  <2>1. Perform(d, action) = InsertUnits(d, action.text) /\ action.text \in TextsOf
    BY <1>2 DEF Perform, TextsOf
  <2> QED
    BY <2>1, InsertUnitsIs
<1> QED
  BY <1>1, <1>2 DEF Actions

(* The editors on the way.                                                 *)
Plays(p, d, m) == p[0] = d /\ \A n \in 1 .. Len(m) : p[n] = Perform(p[n - 1], m[n])
PlaysAll(p, d, m) ==
  p = [n \in 0 .. Len(m) |-> IF n = 0 THEN d ELSE Perform(p[n - 1], m[n])]

LEMMA PlayedIs ==
  ASSUME NEW d, IsEditor(d), NEW m \in Seq(Actions)
  PROVE  \E p \in [0 .. Len(m) -> EditorSet] : Plays(p, d, m) /\ Played(d, m) = p[Len(m)]
<1> DEFINE N == Len(m)
           played == CHOOSE g : PlaysAll(g, d, m)
           step == [p \in (1 .. N) \X EditorSet |-> Perform(p[2], m[p[1]])]
<1>1. N \in Nat /\ \A n \in 1 .. N : m[n] \in Actions
  OBVIOUS
<1>2. d \in EditorSet
  BY EditorsAre
<1>3. \A p \in (1 .. N) \X EditorSet : Perform(p[2], m[p[1]]) \in EditorSet
  <2> TAKE p \in (1 .. N) \X EditorSet
  <2>1. IsEditor(p[2]) /\ m[p[1]] \in Actions
    BY <1>1, EditorsAre
  <2> QED
    BY <2>1, PerformIs, EditorsAre
<1>4. step \in [(1 .. N) \X EditorSet -> EditorSet]
  BY <1>3
<1>5. ASSUME NEW n \in 1 .. N, NEW e \in EditorSet PROVE step[<<n, e>>] = Perform(e, m[n])
  OBVIOUS
<1> HIDE DEF step
<1>6. PICK f \in [0 .. N -> EditorSet] : Recursive(f, d, step, N)
  <2> HIDE DEF N
  <2> QED
    BY <1>1, <1>2, <1>4, Recursion
<1>7. PlaysAll(f, d, m)
  <2>1. f[0] = d
    BY <1>6 DEF Recursive
  <2>2. ASSUME NEW n \in 1 .. N PROVE f[n] = Perform(f[n - 1], m[n])
    <3>1. f[n - 1] \in EditorSet
      BY <1>1, <1>6
    <3>2. f[n] = step[<<n, f[n - 1]>>]
      BY <1>6 DEF Recursive
    <3> QED
      BY <1>5, <3>1, <3>2
  <2>3. \A n \in 0 .. N : f[n] = IF n = 0 THEN d ELSE Perform(f[n - 1], m[n])
    BY <1>1, <2>1, <2>2
  <2> HIDE DEF N
  <2>4. f = [n \in 0 .. N |-> IF n = 0 THEN d ELSE Perform(f[n - 1], m[n])]
    BY <1>6, <2>3
  <2> QED
    BY <2>4 DEF PlaysAll, N
<1>8. PlaysAll(played, d, m)
  BY <1>7
<1>9. Played(d, m) = played[N]
  BY DEF Played, PlaysAll
<1> HIDE DEF played
<1>10. \A n \in 0 .. N : played[n] = IF n = 0 THEN d ELSE Perform(played[n - 1], m[n])
  BY <1>8, Zenon DEF PlaysAll
<1>11. played[0] = d /\ \A n \in 1 .. N : played[n] = Perform(played[n - 1], m[n])
  <2> HIDE DEF N
  <2> QED
    BY <1>1, <1>10
<1>12. played = [n \in 0 .. N |-> played[n]]
  <2>1. played = [n \in 0 .. N |-> IF n = 0 THEN d ELSE Perform(played[n - 1], m[n])]
    BY <1>8 DEF PlaysAll
  <2> QED
    BY <2>1
<1>13. StepsFrom(played, d, step, N, EditorSet)
  <2> HIDE DEF N
  <2> QED
    BY <1>5, <1>11, <1>12 DEF StepsFrom
<1>14. played \in [0 .. N -> EditorSet]
  <2> HIDE DEF N
  <2> QED
    BY <1>1, <1>2, <1>4, <1>13, RecursionStays
<1> QED
  BY <1>9, <1>11, <1>14 DEF Plays

(* Macros that agree up to a place play alike up to it.                    *)
AgreeTo(N, m, l) == \A n \in 1 .. N : m[n] = l[n]

LEMMA PlaysAlike ==
  ASSUME NEW m \in Seq(Actions), NEW l \in Seq(Actions), NEW d, NEW p, NEW q,
         Plays(p, d, m), Plays(q, d, l), NEW N \in Nat, N <= Len(m), N <= Len(l),
         AgreeTo(N, m, l)
  PROVE  p[N] = q[N]
<1> DEFINE T == {n \in Nat : n <= N => p[n] = q[n]}
<1>1. 0 \in T
  BY DEF Plays
<1>2. ASSUME NEW n \in Nat, n \in T PROVE n + 1 \in T
  <2> SUFFICES ASSUME n + 1 <= N PROVE p[n + 1] = q[n + 1]
    OBVIOUS
  <2>1. /\ n + 1 \in 1 .. N /\ n + 1 \in 1 .. Len(m) /\ n + 1 \in 1 .. Len(l)
        /\ (n + 1) - 1 = n /\ n <= N
    OBVIOUS
  <2>2. p[n] = q[n]
    BY <1>2, <2>1
  <2>3. p[n + 1] = Perform(p[n], m[n + 1]) /\ q[n + 1] = Perform(q[n], l[n + 1])
    BY <2>1 DEF Plays
  <2>4. m[n + 1] = l[n + 1]
    BY <2>1 DEF AgreeTo
  <2> QED
    BY <2>2, <2>3, <2>4
<1>3. Nat \subseteq T
  <2> HIDE DEF T
  <2> QED
    BY <1>1, <1>2, Induction
<1>4. N \in T
  BY <1>3, Zenon
<1> QED
  BY <1>4

LEMMA PlayedIsEditor ==
  ASSUME NEW d, IsEditor(d), NEW m \in Seq(Actions) PROVE IsEditor(Played(d, m))
<1>1. PICK p \in [0 .. Len(m) -> EditorSet] : Plays(p, d, m) /\ Played(d, m) = p[Len(m)]
  BY PlayedIs
<1>2. Len(m) \in 0 .. Len(m)
  OBVIOUS
<1>3. p[Len(m)] \in EditorSet
  BY <1>1, <1>2
<1> QED
  BY <1>1, <1>3, EditorsAre

LEMMA PlayedNothing ==
  ASSUME NEW d, IsEditor(d) PROVE Played(d, <<>>) = d
<1>1. <<>> \in Seq(Actions) /\ Len(<<>>) = 0
  OBVIOUS
<1>2. PICK p \in [0 .. Len(<<>>) -> EditorSet] :
        Plays(p, d, <<>>) /\ Played(d, <<>>) = p[Len(<<>>)]
  BY <1>1, PlayedIs
<1> QED
  BY <1>1, <1>2 DEF Plays

(* The last action is performed on what the ones before it made.           *)
LEMMA PlayedLast ==
  ASSUME NEW d, IsEditor(d), NEW l \in Seq(Actions), NEW m \in Seq(Actions),
         Len(m) = Len(l) + 1, AgreeTo(Len(l), m, l)
  PROVE  Played(d, m) = Perform(Played(d, l), m[Len(m)])
<1>1. Len(l) \in Nat /\ Len(m) \in 1 .. Len(m) /\ Len(m) - 1 = Len(l) /\ Len(l) <= Len(m)
  OBVIOUS
<1>2. PICK p \in [0 .. Len(m) -> EditorSet] : Plays(p, d, m) /\ Played(d, m) = p[Len(m)]
  BY PlayedIs
<1>3. PICK q \in [0 .. Len(l) -> EditorSet] : Plays(q, d, l) /\ Played(d, l) = q[Len(l)]
  BY PlayedIs
<1>4. p[Len(m)] = Perform(p[Len(m) - 1], m[Len(m)])
  BY <1>1, <1>2 DEF Plays
<1>5. p[Len(l)] = q[Len(l)]
  BY <1>1, <1>2, <1>3, PlaysAlike
<1> QED
  BY <1>1, <1>2, <1>3, <1>4, <1>5, Zenon

LEMMA PlayedMore ==
  ASSUME NEW d, IsEditor(d), NEW m \in Seq(Actions), NEW action \in Actions
  PROVE  /\ Append(m, action) \in Seq(Actions)
         /\ Played(d, Append(m, action)) = Perform(Played(d, m), action)
<1> DEFINE all == Append(m, action)
<1>1. /\ all \in Seq(Actions) /\ Len(all) = Len(m) + 1 /\ all[Len(all)] = action
      /\ \A n \in 1 .. Len(m) : all[n] = m[n]
  BY AppendProperties
<1> HIDE DEF all
<1>2. Played(d, all) = Perform(Played(d, m), all[Len(all)])
  BY <1>1, PlayedLast DEF AgreeTo
<1> QED
  BY <1>1, <1>2 DEF all

(* A text that is joined to the last recorded one is inserted behind it.   *)
JoinedTo(m, s) == [m EXCEPT ![Len(m)].text = @ \o s]

ArePlain(m) == \A n \in DOMAIN m : IsPlain(m[n].text)

LEMMA PlayedJoined ==
  ASSUME NEW d, IsEditor(d), NEW m \in Seq(Actions), NEW s \in TextsOf,
         Len(m) > 0, m[Len(m)].kind = "insert_text"
  PROVE  /\ JoinedTo(m, s) \in Seq(Actions)
         /\ IsPlain(s) /\ ArePlain(m) =>
              /\ ArePlain(JoinedTo(m, s))
              /\ Played(d, JoinedTo(m, s)) = InsertText(Played(d, m), s)
<1> DEFINE N == Len(m)
           l == SubSeq(m, 1, N - 1)
           all == JoinedTo(m, s)
           last == TextAction(m[N].text \o s)
<1>1. N \in Nat \ {0} /\ N \in 1 .. N /\ \A n \in 1 .. N : m[n] \in Actions
  OBVIOUS
<1>2. /\ m[N] \in [kind : {"insert_text"}, command : {"none"}, text : Seq(Nat)]
      /\ m[N].text \in TextsOf
  BY <1>1 DEF Actions, TextsOf
<1>3. m[N].text \o s \in TextsOf
  BY <1>2, Together
<1>4. last \in Actions /\ last.kind = "insert_text" /\ last.text = m[N].text \o s
  BY <1>3 DEF TextAction, Actions, TextsOf
<1>5. [m[N] EXCEPT !.text = @ \o s] = last
  <2> DEFINE r == [m[N] EXCEPT !.text = @ \o s]
  <2>1. r \in [kind : {"insert_text"}, command : {"none"}, text : {m[N].text \o s}]
    BY <1>2
  <2> HIDE DEF r
  <2>2. r = [kind |-> "insert_text", command |-> "none", text |-> m[N].text \o s]
    BY <2>1
  <2> QED
    BY <2>2 DEF r, TextAction
<1> HIDE DEF last
<1>6. all = [m EXCEPT ![N] = last]
  BY <1>5, Zenon DEF JoinedTo
<1>7. /\ all \in Seq(Actions) /\ Len(all) = N /\ all[N] = last
      /\ \A n \in 1 .. N - 1 : all[n] = m[n]
  BY <1>1, <1>4, <1>6, ExceptSeq
<1>8. /\ l \in Seq(Actions) /\ Len(l) = N - 1
      /\ \A n \in 1 .. N - 1 : l[n] = m[n]
  <2>1. \A i \in 1 .. N - 1 : m[i] \in Actions
    BY <1>1
  <2>2. /\ l \in Seq(Actions)
        /\ Len(l) = IF 1 <= N - 1 THEN (N - 1) - 1 + 1 ELSE 0
        /\ \A i \in 1 .. (N - 1) - 1 + 1 : l[i] = m[1 + i - 1]
    BY <1>1, <2>1, SubSeqProperties
  <2> HIDE DEF l, N
  <2> QED
    BY <1>1, <2>2
<1> HIDE DEF all, l
<1>9. N = Len(l) + 1 /\ \A n \in 1 .. Len(l) : m[n] = l[n] /\ all[n] = l[n]
  BY <1>1, <1>7, <1>8
<1>10. /\ Played(d, m) = Perform(Played(d, l), m[N])
       /\ Played(d, all) = Perform(Played(d, l), all[N])
  BY <1>7, <1>8, <1>9, PlayedLast DEF AgreeTo
<1>11. IsEditor(Played(d, l))
  BY <1>8, PlayedIsEditor
<1>12. InsertText(Played(d, l), m[N].text \o s)
         = InsertText(InsertText(Played(d, l), m[N].text), s)
  BY <1>2, <1>11, InsertTwice
<1>13. ASSUME IsPlain(s), ArePlain(m)
       PROVE  ArePlain(all) /\ Played(d, all) = InsertText(Played(d, m), s)
  <2>1. IsPlain(m[N].text) /\ IsPlain(m[N].text \o s)
    BY <1>1, <1>2, <1>13, PlainTogether DEF ArePlain
  <2>2. /\ Played(d, m) = InsertUnits(Played(d, l), m[N].text)
        /\ Played(d, all) = InsertUnits(Played(d, l), m[N].text \o s)
    BY <1>2, <1>4, <1>7, <1>10 DEF Perform
  <2>3. Played(d, all) = InsertText(Played(d, m), s)
    BY <1>2, <1>3, <1>12, <2>1, <2>2, PlainIs
  <2>4. ArePlain(all)
    <3>1. DOMAIN m = 1 .. N /\ DOMAIN all = 1 .. N
      BY <1>1, <1>7
    <3>2. ASSUME NEW n \in 1 .. N PROVE IsPlain(all[n].text)
      <4>1. CASE n = N
        BY <1>4, <1>7, <2>1, <4>1
      <4>2. CASE n # N
        <5>1. n \in 1 .. N - 1
          BY <1>1, <4>2
        <5>2. all[n] = m[n]
          BY <1>7, <5>1
        <5> QED
          BY <1>13, <3>1, <5>2 DEF ArePlain
      <4> QED
        BY <4>1, <4>2
    <3> QED
      BY <3>1, <3>2 DEF ArePlain
  <2> QED
    BY <2>3, <2>4
<1> QED
  BY <1>7, <1>13 DEF all

-----------------------------------------------------------------------------
(* The macros' invariant: the document, the recorder and the library.      *)
TextOK == /\ IsEditor(editor) /\ settings \in {document.settings : document \in Documents}
          /\ saves \in 0 .. 2 /\ moves \in 0 .. MaxMoves

(* What is recorded starts from an editor; where it repeats what was typed *)
(* it has no halves of pairs.                                              *)
RecorderOK == /\ recording \in BOOLEAN /\ actions \in Seq(Actions) /\ exact \in BOOLEAN
              /\ IsEditor(begin) /\ ReplayRepeatsTyping
              /\ recording /\ exact => ArePlain(actions)

LibraryOK == /\ lastMacro \in Seq(Actions) /\ macros \in Macros /\ macroFile \in Macros
             /\ stored \in BOOLEAN

MacroInv == TextOK /\ RecorderOK /\ LibraryOK

LEMMA MacroInvHasTypes == MacroInv => MacroTypeOK
BY DEF MacroInv, TextOK, RecorderOK, LibraryOK, MacroTypeOK, IsEditor, Editors, TextsOf,
       LineEndings

LEMMA MacroInvInit == MacroInit => MacroInv
<1> SUFFICES ASSUME MacroInit PROVE MacroInv
  OBVIOUS
<1>1. PICK document \in Documents :
        /\ settings = document.settings
        /\ editor = [text |-> document.text, from |-> 0, to |-> 0,
                     ending |-> IF settings.eol # "none" THEN settings.eol
                                ELSE DetectLineEnding(document.text)]
  BY DEF MacroInit
<1>2. /\ document.text \in TextsOf
      /\ settings.eol # "none" => settings.eol \in LineEndings
  BY <1>1, DocumentsAssumption DEF TextsOf, LineEndings
<1> DEFINE ending == IF settings.eol # "none" THEN settings.eol
                     ELSE DetectLineEnding(document.text)
<1>3. ending \in LineEndings
  BY <1>2, DetectIs
<1>4. 0 \in 0 .. Len(document.text) /\ 0 \in 0 .. 0
  BY <1>2, TextIs
<1>5. editor = [text |-> document.text, from |-> 0, to |-> 0, ending |-> ending]
  BY <1>1
<1> HIDE DEF ending
<1>6. IsEditor(editor)
  BY <1>2, <1>3, <1>4, <1>5, EditorOf
<1>7. TextOK
  BY <1>1, <1>6, EditingAssumption DEF TextOK, MacroInit
<1>8. RecorderOK
  <2>1. recording = FALSE /\ actions = <<>> /\ begin = editor /\ exact = FALSE
    BY DEF MacroInit
  <2>2. <<>> \in Seq(Actions)
    OBVIOUS
  <2>3. IsEditor(begin)
    BY <1>6, <2>1, Zenon
  <2> QED
    BY <2>1, <2>2, <2>3 DEF RecorderOK, ReplayRepeatsTyping
<1>9. LibraryOK
  BY DEF LibraryOK, MacroInit, Macros
<1> QED
  BY <1>7, <1>8, <1>9 DEF MacroInv

LEMMA TextStays ==
  ASSUME TextOK, Step, IsEditor(editor'), settings' = settings, saves' \in 0 .. 2
  PROVE  TextOK'
<1>1. moves' \in 0 .. MaxMoves
  BY EditingAssumption DEF TextOK, Step
<1> QED
  BY <1>1 DEF TextOK

LEMMA RecorderStays ==
  ASSUME RecorderOK, exact' \in BOOLEAN, exact' => exact /\ editor' = editor,
         recording' = recording, actions' = actions, begin' = begin
  PROVE  RecorderOK'
<1>1. ReplayRepeatsTyping'
  BY DEF RecorderOK, ReplayRepeatsTyping
<1> QED
  BY <1>1 DEF RecorderOK

LEMMA LibraryTypesStay == LibraryOK /\ UNCHANGED library => LibraryOK'
BY DEF LibraryOK, library

LEMMA PlainMore ==
  ASSUME NEW m \in Seq(Actions), NEW action \in Actions, ArePlain(m), IsPlain(action.text)
  PROVE  ArePlain(Append(m, action))
<1> DEFINE all == Append(m, action)
<1>1. /\ DOMAIN all = 1 .. Len(m) + 1 /\ all[Len(m) + 1] = action /\ Len(m) \in Nat
      /\ DOMAIN m = 1 .. Len(m) /\ \A n \in 1 .. Len(m) : all[n] = m[n]
  BY AppendProperties
<1> HIDE DEF all
<1>2. \A n \in 1 .. Len(m) + 1 : IsPlain(all[n].text)
  BY <1>1 DEF ArePlain
<1> QED
  BY <1>1, <1>2 DEF ArePlain, all

(* A typed text is recorded.                                               *)
LEMMA RecordingText ==
  ASSUME RecorderOK, NEW s \in TextsOf, RecordText(s), exact' \in BOOLEAN,
         exact' => exact /\ editor' = InsertText(editor, s) /\ IsPlain(s),
         recording' = recording, begin' = begin
  PROVE  RecorderOK'
<1> USE DEF RecorderOK
<1>1. TextAction(s) \in Actions /\ TextAction(s).kind = "insert_text" /\ TextAction(s).text = s
  BY DEF TextAction, Actions, TextsOf
<1>2. /\ actions' \in Seq(Actions)
      /\ recording /\ ArePlain(actions) /\ IsPlain(s) =>
           ArePlain(actions') /\ Played(begin, actions') = InsertText(Played(begin, actions), s)
  <2>1. CASE ~recording
    BY <2>1 DEF RecordText
  <2>2. CASE recording /\ Len(actions) > 0 /\ actions[Len(actions)].kind = "insert_text"
    <3>1. actions' = JoinedTo(actions, s)
      BY <2>2 DEF RecordText, JoinedTo
    <3> QED
      BY <2>2, <3>1, PlayedJoined
  <2>3. CASE recording /\ ~(Len(actions) > 0 /\ actions[Len(actions)].kind = "insert_text")
    <3>1. actions' = Append(actions, TextAction(s))
      BY <2>3 DEF RecordText
    <3>2. /\ Append(actions, TextAction(s)) \in Seq(Actions)
          /\ Played(begin, Append(actions, TextAction(s)))
               = Perform(Played(begin, actions), TextAction(s))
      BY <1>1, PlayedMore
    <3>3. Perform(Played(begin, actions), TextAction(s))
            = InsertUnits(Played(begin, actions), s)
      BY <1>1 DEF Perform
    <3>4. ArePlain(actions) /\ IsPlain(s) => ArePlain(Append(actions, TextAction(s)))
      BY <1>1, PlainMore
    <3> QED
      BY <3>1, <3>2, <3>3, <3>4, PlainIs
  <2> QED
    BY <2>1, <2>2, <2>3
<1>3. ReplayRepeatsTyping' /\ (recording' /\ exact' => ArePlain(actions'))
  <2> SUFFICES ASSUME recording, exact'
               PROVE  Played(begin, actions') = editor' /\ ArePlain(actions')
    BY DEF ReplayRepeatsTyping
  <2>1. Played(begin, actions) = editor /\ ArePlain(actions)
    BY DEF ReplayRepeatsTyping
  <2> QED
    BY <1>2, <2>1
<1> QED
  BY <1>2, <1>3

(* A command of the menu is recorded.                                      *)
LEMMA RecordingCommand ==
  ASSUME RecorderOK, NEW command \in Commands, RecordCommand(command), exact' \in BOOLEAN,
         exact' => exact /\ editor' = Effect(command, editor),
         recording' = recording, begin' = begin
  PROVE  RecorderOK'
<1> USE DEF RecorderOK
<1> DEFINE action == CommandAction(command)
<1>1. action \in Actions /\ action.kind = "command" /\ action.command = command
  BY DEF CommandAction, Actions
<1>2. actions' = IF recording THEN Append(actions, action) ELSE actions
  BY DEF RecordCommand
<1> HIDE DEF action
<1>3. /\ Append(actions, action) \in Seq(Actions)
      /\ Played(begin, Append(actions, action)) = Perform(Played(begin, actions), action)
  BY <1>1, PlayedMore
<1>4. Perform(Played(begin, actions), action) = Effect(command, Played(begin, actions))
  BY <1>1 DEF Perform
<1>5. ReplayRepeatsTyping'
  <2> SUFFICES ASSUME recording, exact' PROVE Played(begin, actions') = editor'
    BY DEF ReplayRepeatsTyping
  <2>1. Played(begin, actions) = editor
    BY DEF ReplayRepeatsTyping
  <2> QED
    BY <1>2, <1>3, <1>4, <2>1
<1>6. recording' /\ exact' => ArePlain(actions')
  <2>1. IsPlain(action.text)
    BY DEF IsPlain, action, CommandAction
  <2> QED
    BY <1>1, <1>2, <2>1, PlainMore
<1> QED
  BY <1>2, <1>3, <1>5, <1>6

(* A position of the caret.                                                *)
LEMMA CaretMoved ==
  ASSUME NEW d, IsEditor(d), NEW p \in 0 .. Len(d.text) PROVE IsEditor(CaretAt(d, p))
BY EditorIs, CaretIn DEF Loose

LEMMA TypeKeeps == ASSUME MacroInv, NEW c \in Keys, Type(c) PROVE MacroInv'
<1> DEFINE s == <<c>>
           u == <<Narrow(c)>>
           typed == InsertText(editor, s)
<1>1. c \in Nat /\ s \in TextsOf /\ Len(s) = 1 /\ Narrow(c) \in Nat /\ u \in TextsOf
  <2>1. c \in Nat
    BY KeysAssumption
  <2>2. Narrow(c) \in Nat
    BY <2>1, SMT DEF Narrow
  <2> QED
    BY <2>1, <2>2, Few
<1>2. /\ Step /\ editor' = HandleCharacterAdded(typed, c)
      /\ exact' = (exact /\ (editor' = typed /\ Narrow(c) = c))
      /\ saves' = IF editor'.text = editor.text /\ editor'.ending = editor.ending THEN saves ELSE 0
      /\ RecordText(u) /\ settings' = settings /\ recording' = recording /\ begin' = begin
      /\ UNCHANGED library
  BY DEF Type, Edited
<1>3. IsEditor(editor) /\ editor.from \in Nat
  BY EditorIs DEF MacroInv, TextOK
<1>4. Narrow(c) = c => u = s
  OBVIOUS
<1>5. IsPlain(s)
  BY KeysAssumption DEF IsPlain
<1> HIDE DEF s, u
<1>6. /\ IsEditor(InsertText(editor, s))
      /\ InsertText(editor, s).to = editor.from + Len(s)
  <2>1. s \in TextsOf
    BY <1>1
  <2> QED
    BY <1>3, <2>1, InsertIs
<1>6a. IsEditor(typed) /\ typed.to >= 1
  BY <1>1, <1>3, <1>6
<1> HIDE DEF typed
<1>7. IsEditor(editor')
  BY <1>1, <1>2, <1>6a, HandleIs
<1>8. saves' \in 0 .. 2
  BY <1>2 DEF MacroInv, TextOK
<1>9. (exact /\ (editor' = typed /\ Narrow(c) = c)) \in BOOLEAN
  OBVIOUS
<1>10. exact' \in BOOLEAN /\ (exact' => exact /\ editor' = typed /\ Narrow(c) = c)
  BY <1>2, <1>9, Zenon
<1>11. exact' => exact /\ editor' = InsertText(editor, u) /\ IsPlain(u)
  BY <1>4, <1>5, <1>10 DEF typed
<1>12. TextOK'
  BY <1>2, <1>7, <1>8, TextStays DEF MacroInv
<1>13. RecorderOK'
  BY <1>1, <1>2, <1>10, <1>11, RecordingText DEF MacroInv
<1> QED
  BY <1>2, <1>12, <1>13, LibraryTypesStay DEF MacroInv

LEMMA EnterKeeps == ASSUME MacroInv, Enter PROVE MacroInv'
<1> DEFINE s == <<CR, LF>>
           typed == InsertText(editor, s)
           once == HandleCharacterAdded(typed, CR)
<1>1. s \in TextsOf /\ Len(s) = 2 /\ IsPlain(s)
  <2>1. CR \in Nat /\ LF \in Nat /\ CR \notin Leads \cup Trails /\ LF \notin Leads \cup Trails
    BY SMT DEF CR, LF, Leads, Trails
  <2>2. \A i \in DOMAIN s : s[i] \in {CR, LF}
    OBVIOUS
  <2> QED
    BY <2>1, <2>2, Few DEF IsPlain
<1>2. /\ Step /\ editor' = HandleCharacterAdded(once, LF)
      /\ exact' = (exact /\ editor' = typed)
      /\ saves' = IF editor'.text = editor.text /\ editor'.ending = editor.ending THEN saves ELSE 0
      /\ RecordText(s) /\ settings' = settings /\ recording' = recording /\ begin' = begin
      /\ UNCHANGED library
  BY DEF Enter, Edited
<1>3. IsEditor(editor)
  BY DEF MacroInv, TextOK
<1> HIDE DEF s
<1>4. IsEditor(typed)
  BY <1>1, <1>3, InsertIs
<1> HIDE DEF typed
<1>5. IsEditor(once)
  BY <1>4, HandleIs
<1> HIDE DEF once
<1>6. IsEditor(editor')
  BY <1>2, <1>5, HandleIs
<1>7. saves' \in 0 .. 2
  BY <1>2 DEF MacroInv, TextOK
<1>8. (exact /\ editor' = typed) \in BOOLEAN
  OBVIOUS
<1>9. exact' \in BOOLEAN /\ (exact' => exact /\ editor' = typed)
  BY <1>2, <1>8, Zenon
<1>10. TextOK'
  BY <1>2, <1>6, <1>7, TextStays DEF MacroInv
<1>11. RecorderOK'
  BY <1>1, <1>2, <1>9, RecordingText DEF MacroInv, typed
<1> QED
  BY <1>2, <1>10, <1>11, LibraryTypesStay DEF MacroInv

LEMMA CommandKeeps ==
  ASSUME MacroInv, NEW command \in Commands, RunCommand(command) PROVE MacroInv'
<1> DEFINE d == Effect(command, editor)
<1>1. PICK isFromPalette \in BOOLEAN :
        /\ Edited(d, isFromPalette => editor' = editor)
        /\ IF isFromPalette THEN UNCHANGED actions ELSE RecordCommand(command)
  BY DEF RunCommand
<1>2. /\ Step /\ settings' = settings /\ recording' = recording /\ begin' = begin
      /\ UNCHANGED library
  BY DEF RunCommand
<1>3. IsEditor(editor)
  BY DEF MacroInv, TextOK
<1>4. IsEditor(d)
  BY <1>3, EffectIs
<1>5. /\ editor' = d /\ exact' = (exact /\ (isFromPalette => editor' = editor))
      /\ saves' = IF editor'.text = editor.text /\ editor'.ending = editor.ending THEN saves ELSE 0
  BY <1>1 DEF Edited
<1> HIDE DEF d
<1>6. saves' \in 0 .. 2
  BY <1>5 DEF MacroInv, TextOK
<1>7. (exact /\ (isFromPalette => editor' = editor)) \in BOOLEAN
  OBVIOUS
<1>8. exact' \in BOOLEAN /\ (exact' => exact)
      /\ ((exact' /\ isFromPalette) => editor' = editor)
  BY <1>5, <1>7, Zenon
<1>9. TextOK'
  BY <1>2, <1>4, <1>5, <1>6, TextStays DEF MacroInv
<1>10. RecorderOK'
  <2>1. CASE isFromPalette
    BY <1>1, <1>2, <1>8, <2>1, RecorderStays DEF MacroInv
  <2>2. CASE ~isFromPalette
    <3>1. RecordCommand(command)
      BY <1>1, <2>2, Zenon
    <3> QED
      BY <1>2, <1>5, <1>8, <3>1, RecordingCommand DEF MacroInv, d
  <2> QED
    BY <2>1, <2>2
<1> QED
  BY <1>2, <1>9, <1>10, LibraryTypesStay DEF MacroInv

(* What changes the editor and is not recorded.                            *)
UnrecordedBy(d) ==
  /\ Step /\ Edited(d, editor' = editor)
  /\ UNCHANGED <<settings, recording, actions, begin, library>>

LEMMA UnrecordedKeeps ==
  ASSUME MacroInv, NEW d, IsEditor(d), UnrecordedBy(d) PROVE MacroInv'
<1>1. /\ editor' = d /\ exact' = (exact /\ editor' = editor)
      /\ saves' = IF editor'.text = editor.text /\ editor'.ending = editor.ending THEN saves ELSE 0
      /\ Step /\ settings' = settings /\ recording' = recording /\ begin' = begin
      /\ actions' = actions /\ UNCHANGED library
  BY DEF UnrecordedBy, Edited
<1>2. saves' \in 0 .. 2
  BY <1>1 DEF MacroInv, TextOK
<1>3. (exact /\ editor' = editor) \in BOOLEAN
  OBVIOUS
<1>4. exact' \in BOOLEAN /\ (exact' => exact /\ editor' = editor)
  BY <1>1, <1>3, Zenon
<1>5. TextOK'
  BY <1>1, <1>2, TextStays DEF MacroInv
<1>6. RecorderOK'
  BY <1>1, <1>4, RecorderStays DEF MacroInv
<1> QED
  BY <1>1, <1>5, <1>6, LibraryTypesStay DEF MacroInv

LEMMA DeletingKeeps == ASSUME MacroInv, DeleteBackward PROVE MacroInv'
<1> DEFINE from == IF editor.from < editor.to THEN editor.from ELSE editor.from - 1
           t == Replaced(editor, from, editor.to, <<>>)
           e == [editor EXCEPT !.text = t]
           d == CaretAt(e, from)
<1>1. UnrecordedBy(d) /\ editor.to > 0
  BY DEF DeleteBackward, UnrecordedBy
<1>2. IsEditor(editor)
  BY DEF MacroInv, TextOK
<1>3. /\ editor.text \in TextsOf /\ editor.from \in 0 .. Len(editor.text)
      /\ editor.to \in editor.from .. Len(editor.text) /\ Len(editor.text) \in Nat
  BY <1>2, EditorIs
<1>4. editor.to \in 0 .. Len(editor.text) /\ from \in 0 .. editor.to
  BY <1>1, <1>3
<1>5. <<>> \in TextsOf /\ Len(<<>>) = 0
  BY Few
<1> HIDE DEF from
<1>6. t \in TextsOf /\ Len(t) = from + Len(<<>>) + (Len(editor.text) - editor.to)
  BY <1>3, <1>4, <1>5, ReplacedIs
<1> HIDE DEF t
<1>7. Loose(e) /\ e.text = t
  BY <1>2, <1>6, TextSetIs
<1>8. from \in 0 .. Len(t)
  <2>1. from \in Nat /\ Len(editor.text) - editor.to \in Nat
    BY <1>3, <1>4
  <2> QED
    BY <1>5, <1>6, <2>1
<1> HIDE DEF e
<1>9. IsEditor(d)
  BY <1>7, <1>8, CaretIn
<1> HIDE DEF d
<1> QED
  BY <1>1, <1>9, UnrecordedKeeps

LEMMA MovingKeeps ==
  ASSUME MacroInv, NEW position \in 0 .. Len(editor.text), MoveCaret(position) PROVE MacroInv'
<1> DEFINE d == CaretAt(editor, position)
<1>1. IsEditor(d)
  BY CaretMoved DEF MacroInv, TextOK
<1>2. UnrecordedBy(d)
  BY DEF MoveCaret, UnrecordedBy
<1> HIDE DEF d
<1> QED
  BY <1>1, <1>2, UnrecordedKeeps

LEMMA PlayingKeeps == ASSUME MacroInv, PlayMacro PROVE MacroInv'
<1>1. PICK macro \in Playable : UnrecordedBy(Played(editor, macro))
  BY DEF PlayMacro, UnrecordedBy
<1>2. macro \in Seq(Actions)
  <2>1. CASE macro = lastMacro
    BY <2>1 DEF MacroInv, LibraryOK
  <2>2. CASE macro # lastMacro
    <3>1. PICK i \in DOMAIN macros : macro = macros[i].actions
      BY <1>1, <2>2 DEF Playable
    <3>2. macros \in Seq([name : Names, actions : Seq(Actions)])
      BY DEF MacroInv, LibraryOK, Macros
    <3>3. macros[i] \in [name : Names, actions : Seq(Actions)]
      BY <3>2, ElementIs
    <3> QED
      BY <3>1, <3>3
  <2> QED
    BY <2>1, <2>2
<1> DEFINE d == Played(editor, macro)
<1>3. IsEditor(d)
  BY <1>2, PlayedIsEditor DEF MacroInv, TextOK
<1>4. UnrecordedBy(d)
  BY <1>1
<1> HIDE DEF d
<1> QED
  BY <1>3, <1>4, UnrecordedKeeps

LEMMA StartingKeeps == ASSUME MacroInv, StartMacroRecording PROVE MacroInv'
<1>1. /\ Step /\ recording' = TRUE /\ actions' = <<>> /\ begin' = editor /\ exact' = TRUE
      /\ editor' = editor /\ settings' = settings /\ saves' = saves /\ UNCHANGED library
  BY DEF StartMacroRecording
<1>2. IsEditor(editor) /\ saves \in 0 .. 2
  BY DEF MacroInv, TextOK
<1>3. TextOK'
  BY <1>1, <1>2, TextStays DEF MacroInv
<1>4. Played(editor, <<>>) = editor
  BY <1>2, PlayedNothing
<1>5. IsEditor(begin') /\ Played(begin', actions') = editor'
  BY <1>1, <1>2, <1>4, Zenon
<1>6. actions' \in Seq(Actions)
  BY <1>1
<1>7. RecorderOK'
  BY <1>1, <1>5, <1>6 DEF RecorderOK, ReplayRepeatsTyping, ArePlain
<1> QED
  BY <1>1, <1>3, <1>7, LibraryTypesStay DEF MacroInv

LEMMA StoppingKeeps == ASSUME MacroInv, StopMacroRecording PROVE MacroInv'
<1>1. /\ recording' = FALSE /\ lastMacro' = actions /\ begin' = editor /\ exact' = FALSE
      /\ editor' = editor /\ settings' = settings /\ saves' = saves /\ moves' = moves
      /\ actions' = actions /\ macros' = macros /\ macroFile' = macroFile /\ stored' = stored
  BY DEF StopMacroRecording
<1>2. TextOK'
  BY <1>1 DEF MacroInv, TextOK
<1>3. IsEditor(begin')
  BY <1>1, Zenon DEF MacroInv, TextOK
<1>4. RecorderOK'
  BY <1>1, <1>3 DEF MacroInv, RecorderOK, ReplayRepeatsTyping
<1>5. LibraryOK'
  BY <1>1 DEF MacroInv, LibraryOK, RecorderOK
<1> QED
  BY <1>2, <1>4, <1>5 DEF MacroInv

(* A step of the library leaves the document and the recorder.             *)
LEMMA DocumentStays ==
  ASSUME MacroInv, UNCHANGED <<editor, settings, recorder, saves, moves>>
  PROVE  TextOK' /\ RecorderOK'
<1>1. /\ editor' = editor /\ settings' = settings /\ saves' = saves /\ moves' = moves
      /\ recording' = recording /\ actions' = actions /\ begin' = begin /\ exact' = exact
  BY DEF recorder
<1>2. TextOK'
  BY <1>1 DEF MacroInv, TextOK
<1>3. RecorderOK'
  BY <1>1, RecorderStays DEF MacroInv, RecorderOK
<1> QED
  BY <1>2, <1>3

LEMMA WritingKeeps ==
  ASSUME LibraryOK, macros' \in Macros, WriteMacros(macros'), lastMacro' = lastMacro
  PROVE  LibraryOK'
BY SerializedIs DEF LibraryOK, WriteMacros

LEMMA SavingMacroKeeps ==
  ASSUME MacroInv, NEW name \in Names, SaveLastMacro(name) PROVE MacroInv'
<1> DEFINE same == {i \in DOMAIN macros : macros[i].name = name}
           R == [name : Names, actions : Seq(Actions)]
           changed(i) == IF i \in same THEN [macros[i] EXCEPT !.actions = lastMacro]
                         ELSE macros[i]
<1>1. /\ macros' = IF same = {} THEN Append(macros, [name |-> name, actions |-> lastMacro])
                   ELSE [i \in DOMAIN macros |-> changed(i)]
      /\ WriteMacros(macros') /\ lastMacro' = lastMacro
      /\ UNCHANGED <<editor, settings, recorder, saves, moves>>
  BY DEF SaveLastMacro
<1>2. macros \in Seq(R) /\ lastMacro \in Seq(Actions)
  BY DEF MacroInv, LibraryOK, Macros
<1>3. [name |-> name, actions |-> lastMacro] \in R
  BY <1>2
<1>4. ASSUME NEW i \in DOMAIN macros PROVE changed(i) \in R
  <2>1. macros[i] \in R
    BY <1>2, ElementIs
  <2> HIDE DEF same
  <2> QED
    BY <1>2, <2>1
<1> HIDE DEF R, same, changed
<1>5. Append(macros, [name |-> name, actions |-> lastMacro]) \in Seq(R)
  BY <1>2, <1>3, AppendProperties
<1>6. [i \in DOMAIN macros |-> changed(i)] \in Seq(R)
  <2>1. DOMAIN macros = 1 .. Len(macros) /\ Len(macros) \in Nat
    BY <1>2
  <2>2. [i \in DOMAIN macros |-> changed(i)] \in [1 .. Len(macros) -> R]
    BY <1>4, <2>1
  <2> QED
    BY <2>1, <2>2
<1>7. macros' \in Macros
  BY <1>1, <1>5, <1>6 DEF Macros, R
<1>8. LibraryOK'
  BY <1>1, <1>7, WritingKeeps DEF MacroInv
<1> QED
  BY <1>1, <1>8, DocumentStays DEF MacroInv

LEMMA DeletingMacroKeeps == ASSUME MacroInv, DeleteMacro PROVE MacroInv'
<1> DEFINE R == [name : Names, actions : Seq(Actions)]
<1>1. PICK i \in DOMAIN macros : macros' = RemoveAt(macros, i)
  BY DEF DeleteMacro
<1>2. /\ WriteMacros(macros') /\ lastMacro' = lastMacro
      /\ UNCHANGED <<editor, settings, recorder, saves, moves>>
  BY DEF DeleteMacro
<1>3. macros \in Seq(R)
  BY DEF MacroInv, LibraryOK, Macros
<1> HIDE DEF R
<1>4. i \in 1 .. Len(macros) /\ Len(macros) \in Nat
  BY <1>1, <1>3
<1>5. SubSeq(macros, 1, i - 1) \in Seq(R) /\ SubSeq(macros, i + 1, Len(macros)) \in Seq(R)
  <2>1. \A k \in 1 .. i - 1 : macros[k] \in R
    BY <1>3, <1>4
  <2>2. \A k \in i + 1 .. Len(macros) : macros[k] \in R
    BY <1>3, <1>4
  <2> QED
    BY <1>4, <2>1, <2>2, SubSeqProperties
<1>6. RemoveAt(macros, i) \in Seq(R)
  BY <1>5, ConcatProperties DEF RemoveAt
<1>7. macros' \in Macros
  BY <1>1, <1>6 DEF Macros, R
<1>8. LibraryOK'
  BY <1>2, <1>7, WritingKeeps DEF MacroInv
<1> QED
  BY <1>2, <1>8, DocumentStays DEF MacroInv

LEMMA MacroRelaunchKeeps == ASSUME MacroInv, MacroRelaunch PROVE MacroInv'
<1>1. /\ recording' = FALSE /\ actions' = <<>> /\ exact' = FALSE /\ lastMacro' = <<>>
      /\ macros' = IF IsLoadable(macroFile) THEN macroFile ELSE <<>>
      /\ stored' = IsLoadable(macroFile)
      /\ editor' = editor /\ settings' = settings /\ begin' = begin /\ macroFile' = macroFile
      /\ saves' = saves /\ moves' = moves
  BY DEF MacroRelaunch
<1>2. TextOK'
  BY <1>1 DEF MacroInv, TextOK
<1>3. <<>> \in Seq(Actions) /\ <<>> \in Macros
  BY DEF Macros
<1>4. RecorderOK'
  BY <1>1, <1>3 DEF MacroInv, RecorderOK, ReplayRepeatsTyping
<1>5. stored' \in BOOLEAN
  BY <1>1 DEF IsLoadable
<1>6. LibraryOK'
  BY <1>1, <1>3, <1>5 DEF MacroInv, LibraryOK
<1> QED
  BY <1>2, <1>4, <1>6 DEF MacroInv

LEMMA SavingKeepsMacros == ASSUME MacroInv, SaveDocument PROVE MacroInv'
<1> DEFINE t == Prepared(editor.text, editor.ending)
           d == IF t = editor.text THEN editor ELSE ReplaceDocumentText(editor, t)
           ending == DetectLineEnding(t)
<1>1. /\ Step /\ settings' = settings /\ recording' = recording /\ actions' = actions
      /\ begin' = begin /\ UNCHANGED library
      /\ exact' = (exact /\ editor' = editor)
      /\ \/ editor' = [d EXCEPT !.ending = ending] /\ saves' = Least(saves + 1, 2)
         \/ editor' = d /\ saves' = IF d = editor THEN saves ELSE 0
  BY DEF SaveDocument
<1>2. IsEditor(editor) /\ saves \in 0 .. 2
  BY DEF MacroInv, TextOK
<1>3. t \in TextsOf /\ ending \in LineEndings
  BY <1>2, EditorIs, PreparedIs, DetectIs DEF MacroInv, TextOK
<1> HIDE DEF t, ending
<1>4. /\ IsEditor(ReplaceDocumentText(editor, t))
      /\ IsEditor([ReplaceDocumentText(editor, t) EXCEPT !.ending = ending])
      /\ IsEditor([editor EXCEPT !.ending = ending])
  BY <1>2, <1>3, ReplaceTextIs
<1>5. IsEditor(d) /\ IsEditor([d EXCEPT !.ending = ending])
  BY <1>2, <1>4
<1> HIDE DEF d
<1>6. IsEditor(editor')
  BY <1>1, <1>5, Zenon
<1>7. saves' \in 0 .. 2
  BY <1>1, <1>2 DEF Least
<1>8. (exact /\ editor' = editor) \in BOOLEAN
  OBVIOUS
<1>9. exact' \in BOOLEAN /\ (exact' => exact /\ editor' = editor)
  BY <1>1, <1>8, Zenon
<1>10. TextOK'
  BY <1>1, <1>6, <1>7, TextStays DEF MacroInv
<1>11. RecorderOK'
  BY <1>1, <1>9, RecorderStays DEF MacroInv
<1> QED
  BY <1>1, <1>10, <1>11, LibraryTypesStay DEF MacroInv

LEMMA MacroInvStep == ASSUME MacroInv, [MacroNext]_macroVars PROVE MacroInv'
<1>1. ASSUME NEW c \in Keys, Type(c) PROVE MacroInv'
  BY <1>1, TypeKeeps
<1>2. CASE Enter
  BY <1>2, EnterKeeps
<1>3. ASSUME NEW command \in Commands, RunCommand(command) PROVE MacroInv'
  BY <1>3, CommandKeeps
<1>4. ASSUME NEW position \in 0 .. Len(editor.text), MoveCaret(position) PROVE MacroInv'
  BY <1>4, MovingKeeps
<1>5. CASE DeleteBackward
  BY <1>5, DeletingKeeps
<1>6. CASE StartMacroRecording
  BY <1>6, StartingKeeps
<1>7. CASE StopMacroRecording
  BY <1>7, StoppingKeeps
<1>8. CASE PlayMacro
  BY <1>8, PlayingKeeps
<1>9. ASSUME NEW name \in Names, SaveLastMacro(name) PROVE MacroInv'
  BY <1>9, SavingMacroKeeps
<1>10. CASE DeleteMacro
  BY <1>10, DeletingMacroKeeps
<1>11. CASE MacroRelaunch
  BY <1>11, MacroRelaunchKeeps
<1>12. CASE SaveDocument
  BY <1>12, SavingKeepsMacros
<1>13. CASE UNCHANGED macroVars
  <2>1. UNCHANGED <<editor, settings, recorder, saves, moves>> /\ UNCHANGED library
    BY <1>13 DEF macroVars
  <2> QED
    BY <2>1, DocumentStays, LibraryTypesStay DEF MacroInv
<1> QED
  BY <1>1, <1>2, <1>3, <1>4, <1>5, <1>6, <1>7, <1>8, <1>9, <1>10, <1>11, <1>12, <1>13
     DEF MacroNext

-----------------------------------------------------------------------------
(* What a save makes of a text, and of what it made before.                *)

(* What a save makes of a text that keeps the promises of the settings: the *)
(* line ends of the settings, or those that trimming composes.             *)
Again(t) == IF settings.eol # "none" THEN NormalizeLineEndings(t, settings.eol)
            ELSE IF settings.trim THEN NormalizeLineEndings(t, Uniform(t)) ELSE t

(* The promises: no blank before a line end, and a line end at the end.    *)
IsClean(t) == (settings.trim => IsTrimmed(t)) /\ (settings.newline => IsEnded(t))

LEMMA SettingsAre ==
  ASSUME settings \in {document.settings : document \in Documents}
  PROVE  settings.eol = "none" \/ settings.eol \in LineEndings
BY DocumentsAssumption DEF LineEndings

LEMMA PreparedClean ==
  ASSUME NEW t \in TextsOf, NEW ending \in LineEndings,
         settings \in {document.settings : document \in Documents}
  PROVE  IsClean(Prepared(t, ending))
<1> DEFINE trimmed == IF settings.trim THEN TrimTrailingWhitespace(t) ELSE t
           ended   == IF settings.eol # "none" THEN NormalizeLineEndings(trimmed, settings.eol)
                      ELSE trimmed
           p       == Prepared(t, ending)
<1>1. p = IF settings.newline THEN EnsureFinalNewline(ended, Delimiter(ending)) ELSE ended
  BY DEF Prepared
<1>2. trimmed \in TextsOf /\ (settings.trim => trimmed \in TrimmedTexts)
  BY TrimIs, TrimTrims
<1> HIDE DEF trimmed
<1>3. ended \in TextsOf
  BY <1>2, SettingsAre, NormalizeIs
<1>4. settings.trim => ended \in TrimmedTexts
  BY <1>2, SettingsAre, TrimmedStays
<1> HIDE DEF ended
<1>5. ended \o Delimiter(ending) \in TextsOf /\ IsEnded(ended \o Delimiter(ending))
  BY <1>3, DelimiterIs, Together, EndedIs
<1>6. settings.trim => ended \o Delimiter(ending) \in TrimmedTexts
  BY <1>4, TrimmedEnd, TrimmedBoth
<1>7. settings.trim => p \in TrimmedTexts
  BY <1>1, <1>4, <1>6 DEF EnsureFinalNewline
<1>8. settings.newline => IsEnded(p)
  <2>1. CASE IsEnded(ended)
    BY <1>1, <2>1 DEF EnsureFinalNewline, IsEnded
  <2>2. CASE ~IsEnded(ended)
    <3>1. EnsureFinalNewline(ended, Delimiter(ending)) = ended \o Delimiter(ending)
      BY <2>2 DEF EnsureFinalNewline, IsEnded
    <3> QED
      BY <1>1, <1>5, <3>1
  <2> QED
    BY <2>1, <2>2
<1> HIDE DEF p
<1> QED
  BY <1>7, <1>8 DEF IsClean, TrimmedTexts, p

LEMMA PreparedAgain ==
  ASSUME NEW t \in TextsOf, NEW ending \in LineEndings, IsClean(t),
         settings \in {document.settings : document \in Documents}
  PROVE  Prepared(t, ending) = Again(t)
<1> DEFINE trimmed == IF settings.trim THEN TrimTrailingWhitespace(t) ELSE t
           ended   == IF settings.eol # "none" THEN NormalizeLineEndings(trimmed, settings.eol)
                      ELSE trimmed
<1>1. Prepared(t, ending)
        = IF settings.newline THEN EnsureFinalNewline(ended, Delimiter(ending)) ELSE ended
  BY DEF Prepared
<1>2. settings.trim => trimmed = NormalizeLineEndings(t, Uniform(t))
  BY TrimmedStays DEF IsClean, TrimmedTexts
<1>3. ~settings.trim => trimmed = t
  OBVIOUS
<1> HIDE DEF trimmed
<1>4. Uniform(t) \in LineEndings
  BY UniformIs
<1>5. ended = Again(t)
  <2>1. CASE settings.eol = "none"
    BY <1>2, <1>3, <2>1 DEF Again
  <2>2. CASE settings.eol \in LineEndings /\ settings.eol # "none"
    <3>1. NormalizeLineEndings(trimmed, settings.eol) = NormalizeLineEndings(t, settings.eol)
      BY <1>2, <1>3, <1>4, <2>2, NormalizedTwice
    <3> QED
      BY <2>2, <3>1 DEF Again
  <2> QED
    BY <2>1, <2>2, SettingsAre
<1> HIDE DEF ended
<1>6. settings.newline => IsEnded(Again(t))
  BY <1>4, SettingsAre, EndedStays DEF IsClean, Again
<1>7. settings.newline => EnsureFinalNewline(Again(t), Delimiter(ending)) = Again(t)
  BY <1>6 DEF EnsureFinalNewline, IsEnded
<1> QED
  BY <1>1, <1>5, <1>7

LEMMA AgainOnce ==
  ASSUME NEW t \in TextsOf, settings \in {document.settings : document \in Documents}
  PROVE  Again(t) \in TextsOf /\ Again(Again(t)) = Again(t)
<1>1. CASE settings.eol # "none"
  <2>1. settings.eol \in LineEndings
    BY <1>1, SettingsAre
  <2>2. Again(t) = NormalizeLineEndings(t, settings.eol)
    BY <1>1 DEF Again
  <2>3. Again(Again(t)) = NormalizeLineEndings(NormalizeLineEndings(t, settings.eol), settings.eol)
    BY <1>1, <2>2 DEF Again
  <2> QED
    BY <2>1, <2>2, <2>3, NormalizeIs, NormalizedTwice
<1>2. CASE settings.eol = "none" /\ settings.trim
  <2> DEFINE s == NormalizeLineEndings(t, Uniform(t))
  <2>1. Uniform(t) \in {"crlf", "lf"} /\ Uniform(t) \in LineEndings
    BY UniformIs
  <2>2. s \in TextsOf /\ NormalizeLineEndings(s, Uniform(t)) = s
    BY <2>1, NormalizeIs, NormalizedTwice
  <2>3. Again(t) = s /\ Again(s) = NormalizeLineEndings(s, Uniform(s))
    BY <1>2 DEF Again
  <2> HIDE DEF s
  <2> QED
    BY <2>1, <2>2, <2>3, UniformIsOne
<1>3. CASE settings.eol = "none" /\ ~settings.trim
  BY <1>3 DEF Again
<1> QED
  BY <1>1, <1>2, <1>3

(* What was saved keeps the promises; after two saves nothing is left to do. *)
SavedOK ==
  /\ saves > 0 => IsClean(editor.text)
  /\ saves = 2 => Again(editor.text) = editor.text

LEMMA SavedSettles == TextOK /\ SavedOK => SaveSettles
<1> SUFFICES ASSUME TextOK, SavedOK, saves = 2 \/ (saves = 1 /\ HasOneEnding(editor.text))
             PROVE  /\ Prepared(editor.text, editor.ending) = editor.text
                    /\ settings.eol # "none" =>
                         NormalizeLineEndings(editor.text, settings.eol) = editor.text
  BY DEF SaveSettles
<1> DEFINE t == editor.text
<1>1. IsEditor(editor) /\ settings \in {document.settings : document \in Documents}
  BY DEF TextOK
<1>2. t \in TextsOf /\ editor.ending \in LineEndings
  BY <1>1, EditorIs
<1>3. IsClean(t)
  BY DEF SavedOK
<1>4. Again(t) = t
  <2>1. CASE saves = 2
    BY <2>1 DEF SavedOK
  <2>2. CASE saves = 1 /\ HasOneEnding(t)
    <3>1. PICK ending \in {"crlf", "lf", "cr"} :
            /\ NormalizeLineEndings(t, ending) = t
            /\ settings.eol \in {ending, "none"}
            /\ (ending = "cr" /\ settings.trim) => settings.eol = "cr"
      BY <2>2 DEF HasOneEnding
    <3> HIDE DEF t
    <3>2. CASE settings.eol # "none"
      <4>1. settings.eol = ending
        BY <3>1, <3>2
      <4> QED
        BY <3>1, <3>2, <4>1 DEF Again
    <3>3. CASE settings.eol = "none" /\ settings.trim
      <4>1. ending \in {"crlf", "lf"}
        BY <3>1, <3>3
      <4>2. NormalizeLineEndings(t, Uniform(t)) = t
        BY <1>2, <3>1, <4>1, UniformIsOne
      <4> QED
        BY <3>3, <4>2 DEF Again
    <3>4. CASE settings.eol = "none" /\ ~settings.trim
      BY <3>4 DEF Again
    <3> QED
      BY <3>2, <3>3, <3>4
  <2> QED
    BY <2>1, <2>2
<1>5. Prepared(t, editor.ending) = t
  <2> HIDE DEF t
  <2> QED
    BY <1>1, <1>2, <1>3, <1>4, PreparedAgain
<1>6. settings.eol # "none" => NormalizeLineEndings(t, settings.eol) = t
  BY <1>4 DEF Again
<1> QED
  BY <1>5, <1>6

(* An action that leaves the text as it is, or counts no saves after it.   *)
LEMMA SavedStays ==
  ASSUME SavedOK, settings' = settings,
         saves' = 0 \/ (saves' = saves /\ editor'.text = editor.text)
  PROVE  SavedOK'
<1>1. CASE saves' = 0
  BY <1>1 DEF SavedOK
<1>2. CASE saves' = saves /\ editor'.text = editor.text
  <2>1. IsClean(editor.text)' <=> IsClean(editor.text)
    BY <1>2 DEF IsClean, IsTrimmed, IsEnded
  <2>2. Again(editor.text)' = Again(editor.text)
    BY <1>2 DEF Again, Uniform, HasPair
  <2> QED
    BY <1>2, <2>1, <2>2 DEF SavedOK
<1> QED
  BY <1>1, <1>2

(* What every edit does to the count of the saves.                         *)
LEMMA EditedSaves ==
  ASSUME SavedOK, NEW d, NEW isPlayed, Edited(d, isPlayed), settings' = settings
  PROVE  SavedOK'
<1>1. saves' = IF editor'.text = editor.text /\ editor'.ending = editor.ending THEN saves ELSE 0
  BY DEF Edited
<1> QED
  BY <1>1, SavedStays

LEMMA SavingSaves == ASSUME TextOK, SavedOK, SaveDocument PROVE SavedOK'
<1> DEFINE s == editor.text
           t == Prepared(s, editor.ending)
           d == IF t = s THEN editor ELSE ReplaceDocumentText(editor, t)
           p == Least(editor.from, Len(t))
           q == Least(editor.to, Len(t))
<1>1. /\ settings' = settings
      /\ \/ editor' = [d EXCEPT !.ending = DetectLineEnding(t)] /\ saves' = Least(saves + 1, 2)
         \/ editor' = d /\ saves' = IF d = editor THEN saves ELSE 0
  BY DEF SaveDocument
<1>2. /\ IsEditor(editor) /\ saves \in 0 .. 2
      /\ settings \in {document.settings : document \in Documents}
  BY DEF TextOK
<1>3. s \in TextsOf /\ editor.ending \in LineEndings /\ IsWhole(editor)
  BY <1>2, EditorIs
<1>4. t \in TextsOf /\ IsClean(t)
  BY <1>2, <1>3, PreparedIs, PreparedClean
<1>5. saves > 0 => Again(t) = t
  <2>1. ASSUME saves > 0 PROVE Again(t) = t
    <3>1. IsClean(s)
      BY <2>1 DEF SavedOK
    <3>2. t = Again(s)
      BY <1>2, <1>3, <3>1, PreparedAgain
    <3>3. Again(Again(s)) = Again(s)
      BY <1>2, <1>3, AgainOnce
    <3> HIDE DEF t, s
    <3> QED
      BY <3>2, <3>3
  <2> QED
    BY <2>1
<1> HIDE DEF t
<1>6. ReplaceDocumentText(editor, t)
        = [text |-> t, from |-> p, to |-> q, ending |-> editor.ending]
  <2>1. [editor EXCEPT !.text = t, !.from = p, !.to = q]
          = [text |-> t, from |-> p, to |-> q, ending |-> editor.ending]
    <3> HIDE DEF p, q
    <3> QED
      BY <1>3, PlacedIs
  <2> QED
    BY <2>1 DEF ReplaceDocumentText
<1> HIDE DEF p, q
<1>7. d.text = t /\ \A ending : [d EXCEPT !.ending = ending].text = t
  <2>1. CASE t = s
    BY <1>3, <2>1 DEF IsWhole
  <2>2. CASE t # s
    <3>1. d = [text |-> t, from |-> p, to |-> q, ending |-> editor.ending]
      BY <1>6, <2>2
    <3> HIDE DEF d
    <3> QED
      BY <3>1
  <2> QED
    BY <2>1, <2>2
<1>8. CASE editor' = [d EXCEPT !.ending = DetectLineEnding(t)] /\ saves' = Least(saves + 1, 2)
  <2> HIDE DEF d, s
  <2>1. editor'.text = t
    BY <1>7, <1>8
  <2>2. (IsClean(editor.text)' <=> IsClean(t)) /\ Again(editor.text)' = Again(t)
    BY <1>1, <2>1 DEF IsClean, IsTrimmed, IsEnded, Again, Uniform, HasPair
  <2>3. saves' = 2 => saves > 0
    BY <1>2, <1>8 DEF Least
  <2> QED
    BY <1>4, <1>5, <2>1, <2>2, <2>3 DEF SavedOK
<1>9. CASE editor' = d /\ saves' = IF d = editor THEN saves ELSE 0
  <2>1. saves' = 0 \/ (saves' = saves /\ editor' = editor)
    BY <1>9
  <2> QED
    BY <1>1, <2>1, SavedStays
<1> QED
  BY <1>1, <1>8, <1>9

LEMMA SavedStep == ASSUME TextOK, SavedOK, [MacroNext]_macroVars PROVE SavedOK'
<1>1. ASSUME NEW c \in Keys, Type(c) PROVE SavedOK'
  BY <1>1, EditedSaves DEF Type
<1>2. CASE Enter
  BY <1>2, EditedSaves DEF Enter
<1>3. ASSUME NEW command \in Commands, RunCommand(command) PROVE SavedOK'
  BY <1>3, EditedSaves DEF RunCommand
<1>4. ASSUME NEW position \in 0 .. Len(editor.text), MoveCaret(position) PROVE SavedOK'
  BY <1>4, EditedSaves DEF MoveCaret
<1>5. CASE DeleteBackward
  BY <1>5, EditedSaves DEF DeleteBackward
<1>6. CASE PlayMacro
  BY <1>6, EditedSaves DEF PlayMacro
<1>7. CASE SaveDocument
  BY <1>7, SavingSaves
<1>8. CASE UNCHANGED <<editor, settings, saves>>
  BY <1>8, SavedStays
<1>9. CASE StartMacroRecording
  BY <1>8, <1>9 DEF StartMacroRecording
<1>10. CASE StopMacroRecording
  BY <1>8, <1>10 DEF StopMacroRecording
<1>11. ASSUME NEW name \in Names, SaveLastMacro(name) PROVE SavedOK'
  BY <1>8, <1>11 DEF SaveLastMacro
<1>12. CASE DeleteMacro
  BY <1>8, <1>12 DEF DeleteMacro
<1>13. CASE MacroRelaunch
  BY <1>8, <1>13 DEF MacroRelaunch
<1>14. CASE UNCHANGED macroVars
  BY <1>8, <1>14 DEF macroVars
<1> QED
  BY <1>1, <1>2, <1>3, <1>4, <1>5, <1>6, <1>7, <1>9, <1>10, <1>11, <1>12, <1>13, <1>14
     DEF MacroNext

-----------------------------------------------------------------------------
(* The three parts: one moves, and the others stay as they are.            *)

LEMMA PartsMove ==
  ASSUME [Next]_workbenchVars
  PROVE  [MacroNext]_macroVars /\ [TabsNext]_tabsVars /\ [CatalogNext]_catalogVars
BY Zenon DEF Next, MoveText, MoveTabs, MoveWorkspace, workbenchVars

(* main.cpp:3002, 3060: no document with unsaved text is closed without    *)
(* the answer No or Yes, and a loop closes only what was on its side and   *)
(* not pinned when it began.                                               *)
THEOREM CarefulClosing == Spec => ClosingIsCareful
<1>1. Init => IInv
  BY Beginning DEF Init
<1>2. IInv /\ [Next]_workbenchVars => IInv' /\ [Careful]_tabsVars
  BY PartsMove, ClosingStep
<1> QED BY <1>1, <1>2, PTL DEF Spec, ClosingIsCareful, Careful

LEMMA TabsInvHolds == Spec => []TabsInv
<1>1. Init => TabsInv
  BY TabsInvInit DEF Init
<1>2. TabsInv /\ [Next]_workbenchVars => TabsInv'
  BY PartsMove, TabsInvStep
<1> QED BY <1>1, <1>2, PTL DEF Spec

(* main.cpp:3002, recovery.cpp:45: every tab has a document; the active    *)
(* one, the pinned ones, the one that is asked about and those that a loop *)
(* closes or keeps are open; the store's files have the names, times and   *)
(* texts that a tick gives them.                                           *)
THEOREM TabsTypes == Spec => []TabsTypeOK
BY TabsInvHolds, TabsInvHasTypes, PTL

(* main.cpp:1942, recovery.cpp:45: what a tick wrote of the unsaved texts  *)
(* is in the store until the next one, whatever names, write times and     *)
(* older files there are, and through closing and launching again.         *)
THEOREM TickRecovers == Spec => []TickIsRecoverable
<1>1. TabsInv => TickIsRecoverable
  BY DEF TabsInv, StoreInv
<1> QED BY <1>1, TabsInvHolds, PTL

LEMMA CatalogInvHolds == Spec => []CatalogInv
<1>1. Init => CatalogInv
  BY CatalogAssumption, CatalogInvInit DEF Init
<1>2. CatalogInv /\ [Next]_workbenchVars => CatalogInv'
  <2> SUFFICES ASSUME CatalogInv, [Next]_workbenchVars PROVE CatalogInv'
    OBVIOUS
  <2>1. CASE CatalogNext
    BY <2>1, CatalogAssumption, CatalogInvStep
  <2>2. CASE UNCHANGED catalogVars
    BY <2>2, CatalogInvStays
  <2> QED
    BY <2>1, <2>2, PartsMove
<1> QED BY <1>1, <1>2, PTL DEF Spec

(* workspace_state.cpp:41, workspace.cpp:200: the lists of the workspace   *)
(* are of paths, each once, recents are no more than their limit, the tree *)
(* has paths only and the selected one is in it, and whatever becomes of   *)
(* the disk, what has something in it is a directory.                      *)
THEOREM CatalogTypes == Spec => []CatalogTypeOK
BY CatalogInvHolds, CatalogInvHasTypes, PTL

(* workspace_state.cpp:86-116: creating, renaming and recycling an item    *)
(* change only what is inside of a root, and lose nothing there but what   *)
(* is renamed or recycled, and what another program puts at the new name   *)
(* between the check that it is free and the rename.                       *)
THEOREM ItemsInside == Spec => ItemsStayInside
<1>1. CatalogInv => [Inside]_catalogVars
  BY CatalogAssumption, ItemStep
<1> QED BY <1>1, CatalogInvHolds, PTL DEF ItemsStayInside, Inside

LEMMA MacroInvHolds == Spec => []MacroInv
<1>1. Init => MacroInv
  BY MacroInvInit DEF Init
<1>2. MacroInv /\ [Next]_workbenchVars => MacroInv'
  BY PartsMove, MacroInvStep
<1> QED BY <1>1, <1>2, PTL DEF Spec

(* main.cpp:657, 2520, macro.cpp:48: while a macro is recorded, what is    *)
(* played from where the recording began gives the document as it is, as   *)
(* long as only typed characters up to U+FFFF and commands of the menu     *)
(* changed it.  (Of another character one UTF-16 unit is recorded.)        *)
THEOREM ReplayIsTyping == Spec => []ReplayRepeatsTyping
<1>1. MacroInv => ReplayRepeatsTyping
  BY DEF MacroInv, RecorderOK
<1> QED BY <1>1, MacroInvHolds, PTL

(* The types of the text, the tabs and the workspace: the selection lies   *)
(* in the text after whatever is typed, run, played or saved, and what is  *)
(* recorded can be played.                                                 *)
THEOREM TypeCorrect == Spec => []TypeOK
<1>1. MacroInv /\ TabsTypeOK /\ CatalogTypeOK => TypeOK
  BY MacroInvHasTypes DEF TypeOK
<1> QED BY <1>1, MacroInvHolds, TabsTypes, CatalogTypes, PTL

(* main.cpp:4012, macro.cpp:84, workspace_state.cpp:126: a launch gives    *)
(* back the macros and the workspace's lists, if their files were written. *)
THEOREM LaunchGivesBack == Spec => LaunchRestores
<1> DEFINE Macros0 == (MacroRelaunch /\ stored /\ IsLoadable(macros) /\ AreTexts(macros))
                        => macros' = macros
           Catalog0 == (CatalogRelaunch /\ written) =>
             /\ favorites' = favorites
             /\ IsPrefix(Among(roots, {path \in ToSet(roots) : IsDirectory(path)}), roots')
             /\ ToSet(roots') \subseteq ToSet(roots) \cup ToSet(sessionRoots)
             /\ ToSet(sessionRoots) \subseteq ToSet(roots) => ToSet(recent') = ToSet(recent)
<1>1. Init => WrittenMacros
  BY WrittenMacrosInit DEF Init
<1>2. WrittenMacros /\ MacroInv' /\ [Next]_workbenchVars => WrittenMacros'
  BY PartsMove, WrittenMacrosStep DEF MacroInv, LibraryOK
<1>3. WrittenMacros /\ MacroInv => [Macros0]_macroVars
  BY RelaunchReadsMacros DEF MacroInv, LibraryOK
<1>4. CatalogInv => [Catalog0]_catalogVars
  BY CatalogAssumption, RestartKeeps
<1> QED BY <1>1, <1>2, <1>3, <1>4, MacroInvHolds, CatalogInvHolds, PTL
        DEF Spec, LaunchRestores, MacrosReturn, RestartKeepsCatalog

(* What was saved and not edited since keeps the promises.                 *)
SavedTextIsClean == saves > 0 => IsClean(editor.text)

LEMMA SavedHolds == Spec => [](TextOK /\ SavedOK)
<1>1. Init => SavedOK
  BY DEF Init, MacroInit, SavedOK
<1>2. MacroInv => TextOK
  BY DEF MacroInv
<1>3. TextOK /\ SavedOK /\ [Next]_workbenchVars => SavedOK'
  BY PartsMove, SavedStep
<1> QED BY <1>1, <1>2, <1>3, MacroInvHolds, PTL DEF Spec

(* main.cpp:1406: what a save wrote keeps the promises of the settings for *)
(* as long as nobody edits it: no line ends in blanks, and the last line   *)
(* has its end, whatever line ends the text had and was given.             *)
THEOREM SavesAreClean == Spec => []SavedTextIsClean
<1>1. TextOK /\ SavedOK => SavedTextIsClean
  BY DEF SavedOK, SavedTextIsClean
<1> QED BY <1>1, SavedHolds, PTL

(* main.cpp:1406: a second save of an unchanged document changes nothing,  *)
(* if the first left one kind of line end, and a third changes nothing     *)
(* whatever the text was.                                                  *)
THEOREM SavesSettle == Spec => []SaveSettles
BY SavedSettles, SavedHolds, PTL
=============================================================================
