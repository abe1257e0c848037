----------------------------- MODULE MC_LargeFile -----------------------------
(* Files with and without a byte-order mark, shorter and longer than a     *)
(* window.                                                                 *)
EXTENDS LargeFile

CONSTANTS a, b

MCBytes == {a, b}
MCFiles == {<<a, b, a>>, <<Bom, a, b>>, <<b>>}
=============================================================================
