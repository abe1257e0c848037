--------------------------- MODULE RecoveryStore ----------------------------
(***************************************************************************)
(* The recovery store (recovery.cpp): a directory of snapshots of unsaved  *)
(* texts, as functions of the set of its files.                            *)
(*                                                                         *)
(* A file's name is the safe form of its document's key with a number of   *)
(* milliseconds; the safe form keeps 80 characters and only letters and    *)
(* digits, so that two keys may share one.  Safe forms are numbers in the  *)
(* order of their texts.  Write times may be as coarse as the clock here.  *)
(***************************************************************************)
EXTENDS Integers, Sequences, FiniteSets, SequencesExt

CONSTANTS SafeName,  \* function from keys to the safe forms
          Retention  \* files that pruning leaves; at least 1

ASSUME RetentionAssumption == Retention \in Nat \ {0}

FileAt(name, ticks, files) == {f \in files : f.name = name /\ f.ticks = ticks}

(* Mutant: the name is not looked for.                                     *)
FirstTicks(files, name, now) == now

(* The first number from now on that makes a new name.                     *)
FreeTicks(files, name, now) ==
  CHOOSE t \in now .. now + Cardinality(files) :
    /\ FileAt(name, t, files) = {}
    /\ \A earlier \in now .. t - 1 : FileAt(name, earlier, files) # {}

(* f is listed before g: newest first, then by name from the last.         *)
IsListedBefore(f, g) ==
  \/ f.created > g.created
  \/ f.created = g.created /\ f.name > g.name
  \/ f.created = g.created /\ f.name = g.name /\ f.ticks > g.ticks

Place(f, files) == Cardinality({g \in files : IsListedBefore(g, f)}) + 1

List(files) ==
  [i \in 1 .. Cardinality(files) |-> CHOOSE f \in files : Place(f, files) = i]

(* A pruned file may stay: removing it failed, or the process has ended.   *)
Prunings(files) ==
  LET excess == {f \in files : Place(f, files) > Retention}
  IN  {files \ removed : removed \in SUBSET excess}

(* What the directory may be after a snapshot was written; a file of its   *)
(* name is gone.                                                           *)
SaveSnapshot(files, key, title, text, now) ==
  LET name  == SafeName[key]
      ticks == FreeTicks(files, name, now)
  IN  Prunings((files \ FileAt(name, ticks, files))
                 \cup {[name |-> name, ticks |-> ticks, created |-> now,
                        key |-> key, title |-> title, text |-> text]})
=============================================================================
