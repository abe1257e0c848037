--------------------------- MODULE LatestOperation ---------------------------
(***************************************************************************)
(* The hand-off cell between background producers and the UI thread        *)
(* (latest_operation.h).  The cell is a record; each operator is one       *)
(* critical section of its mutex and returns the cell it leaves.           *)
(***************************************************************************)
EXTENDS Naturals

Nothing == [generation |-> 0]  \* std::nullopt

Empty == [generation |-> 0, pending |-> Nothing]

(* Mutant: what older producers left survives a new generation.            *)
MutantBeginKeeps(cell) == [cell EXCEPT !.generation = @ + 1]

(* The new generation is the cell's; what older producers left is dropped. *)
Begin(cell) == [generation |-> cell.generation + 1, pending |-> Nothing]

(* Mutant: a value of any generation is accepted.                          *)
MutantAcceptsAny(cell, generation) == TRUE

Accepts(cell, generation) == generation = cell.generation

(* A value names the generation it was produced for.                       *)
Publish(cell, value) ==
  IF Accepts(cell, value.generation) THEN [cell EXCEPT !.pending = value] ELSE cell

HasResult(cell) == cell.pending # Nothing

Taken(cell) == [cell EXCEPT !.pending = Nothing]
=============================================================================
