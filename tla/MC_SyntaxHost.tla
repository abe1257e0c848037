---------------------------- MODULE MC_SyntaxHost ----------------------------
(* Texts of one letter and line feeds.                                     *)
EXTENDS SyntaxHost
=============================================================================
