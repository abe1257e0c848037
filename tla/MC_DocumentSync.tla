--------------------------- MODULE MC_DocumentSync ---------------------------
(* A document, its file and the programs that write it.                    *)
EXTENDS DocumentSync
=============================================================================
