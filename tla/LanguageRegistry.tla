-------------------------- MODULE LanguageRegistry --------------------------
(***************************************************************************)
(* The languages the program knows: its own ones and those defined in a    *)
(* directory, and which of them a file is in (language_registry.cpp).      *)
(*                                                                         *)
(* Of an entry of the directory counts whether it is a definition's file,  *)
(* whether it is well-formed, in which order its parts are refused and how *)
(* large its grammar's module is (0: it has none).                         *)
(***************************************************************************)
EXTENDS Integers, Sequences, FiniteSets, SequencesExt

CONSTANTS
  Builtins,       \* the program's own languages, plain-text among them
  MaxEntries,     \* 256
  MaxDefinitions, \* 64
  ModuleBudget    \* 64 MiB

ASSUME BuiltinsAssumption == \E i \in DOMAIN Builtins : Builtins[i].id = "plain-text"

Find(languages, id) == {i \in DOMAIN languages : languages[i].id = id}

(* What an entry is refused for, in the order of the checks.               *)
Refusal(entry, r) ==
  CASE ~entry.isValid -> "invalid"
    [] entry.isValid /\ Find(r.languages, entry.language.id) # {} -> "duplicate language id"
    [] entry.isValid /\ Find(r.languages, entry.language.id) = {}
         /\ r.bytes > ModuleBudget - entry.module -> "budget"
    [] OTHER -> IF ~entry.hasQuery THEN "query"
                ELSE IF entry.language.extensions \cup entry.language.filenames = {}
                THEN "no file" ELSE "none"

(* A module counts as soon as it is read, even if the definition is        *)
(* refused afterwards.                                                     *)
Visit(r, entry) ==
  LET refusal == Refusal(entry, r)
      read    == IF refusal \in {"invalid", "duplicate language id", "budget"} THEN 0
                 ELSE entry.module
      isFull  == r.loaded + 1 >= MaxDefinitions
  IN  CASE r.stopped -> r
        [] ~r.stopped /\ r.visited = MaxEntries ->
             [r EXCEPT !.stopped = TRUE, !.errors = Append(@, "directory")]
        [] ~r.stopped /\ r.visited < MaxEntries /\ ~entry.isDefinition ->
             [r EXCEPT !.visited = @ + 1]
        [] OTHER ->
             IF refusal # "none"
             THEN [r EXCEPT !.visited = @ + 1, !.bytes = @ + read,
                            !.errors = Append(@, refusal)]
             ELSE [r EXCEPT !.visited = @ + 1, !.bytes = @ + read, !.loaded = @ + 1,
                            !.languages = Append(@, entry.language),
                            !.stopped = isFull,
                            !.errors = IF isFull THEN Append(@, "directory") ELSE @]

(* The languages are reset before a directory is loaded.                   *)
LoadDirectory(entries) ==
  FoldLeft(Visit, [languages |-> Builtins, errors |-> <<>>, loaded |-> 0, visited |-> 0,
                   bytes |-> 0, stopped |-> FALSE], entries)

(* The first language that has the name or the extension.                  *)
Detect(languages, filename, extension) ==
  LET known == {i \in DOMAIN languages : \/ filename \in languages[i].filenames
                                         \/ extension \in languages[i].extensions}
  IN  IF known = {} THEN "plain-text"
      ELSE languages[CHOOSE i \in known : \A j \in known : i <= j].id
=============================================================================
