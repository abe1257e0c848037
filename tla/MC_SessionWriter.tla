--------------------------- MODULE MC_SessionWriter ---------------------------
(* The session writer with few snapshots and process starts.               *)
EXTENDS SessionWriter
=============================================================================
