---------------------------- MODULE MC_FolderSearch ----------------------------
(* Find in Files with a limit of two matches: searches below, at and above *)
(* it, in one part and over two, a scan that was cut, a query that is not  *)
(* a regular expression, and nothing to search.                            *)
EXTENDS FolderSearch

PartOf(hits, cut) == [hits |-> hits, cut |-> cut]

Search(documents, bad, parts) ==
  [documents |-> documents, bad |-> bad, parts |-> parts]

MCJobs ==
  {Search(d, FALSE, <<PartOf(a, FALSE), PartOf(1, FALSE)>>)
     : d \in BOOLEAN, a \in {0, 1, 3}}
  \cup {Search(FALSE, FALSE, <<PartOf(1, TRUE), PartOf(0, FALSE)>>),
        Search(FALSE, TRUE, <<PartOf(1, FALSE)>>),
        Search(TRUE, TRUE, <<PartOf(1, FALSE)>>),
        Search(TRUE, FALSE, <<PartOf(3, FALSE)>>),
        Search(TRUE, FALSE, <<>>)}
=============================================================================
