------------------------- MODULE MC_SessionLifecycle -------------------------
(* A document, two texts, and three launches of the program.               *)
EXTENDS SessionLifecycle
=============================================================================
