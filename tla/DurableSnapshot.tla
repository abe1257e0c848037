--------------------------- MODULE DurableSnapshot ---------------------------
(***************************************************************************)
(* What the session writer promises its caller, without threads or files:  *)
(* snapshots are submitted in order, the stored one only ever moves        *)
(* forward, a flush that is asked for is answered, and the answer "ok"     *)
(* means that the newest submitted snapshot is the stored one.  A crash or *)
(* an exit forgets what was submitted and not stored.                      *)
(***************************************************************************)
EXTENDS Naturals

VARIABLES newest,  \* number of the last submitted snapshot, 0 = none
          stored,  \* number of the snapshot a restart would load
          asking,  \* a flush is waiting for its answer
          answer   \* "none", "ok" or "failed": the last answer of a flush

vars == <<newest, stored, asking, answer>>

Init == newest = 0 /\ stored = 0 /\ asking = FALSE /\ answer = "none"

Submit == /\ ~asking
          /\ newest' = newest + 1
          /\ UNCHANGED <<stored, asking, answer>>

Store == /\ stored' \in stored + 1 .. newest
         /\ UNCHANGED <<newest, asking, answer>>

Ask == /\ ~asking
       /\ asking' = TRUE
       /\ UNCHANGED <<newest, stored, answer>>

Reply == /\ asking
         /\ asking' = FALSE
         /\ answer' \in {"ok", "failed"}
         /\ answer' = "ok" => stored = newest
         /\ UNCHANGED <<newest, stored>>

Restart == /\ newest' = stored
           /\ asking' = FALSE
           /\ answer' = "none"
           /\ UNCHANGED stored

Next == Submit \/ Store \/ Ask \/ Reply \/ Restart

Spec == Init /\ [][Next]_vars /\ WF_vars(Reply)
=============================================================================
