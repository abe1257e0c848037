----------------------------- MODULE Comparison -----------------------------
(***************************************************************************)
(* The comparison of two texts line by line (comparison.cpp), and how the  *)
(* comparison window copies a difference from one side to the other        *)
(* (main.cpp).                                                             *)
(***************************************************************************)
EXTENDS TextCommands

-----------------------------------------------------------------------------
(* What is compared.                                                       *)

(* Every line with its own line end.                                       *)
Lines(t) ==
  LET values == ParseLines(t).values
  IN  [k \in DOMAIN values |->
         [text   |-> values[k],
          ending |-> IF k > Cardinality(Breaks(t)) THEN <<>>
                     ELSE LET i == NthBreak(t, k) IN SubSeq(t, i, Behind(t, i) - 1)]]

(* Blanks at the beginning and the end are dropped, others become one.     *)
Normalized(line, options) ==
  LET isKept(i) == ~(options.ignoreWhitespace /\ IsSpace(line[i]))
      solid     == {i \in DOMAIN line : isKept(i)}
      isGap(i)  == ~isKept(i) /\ isKept(i + 1) /\ \E j \in solid : j < i
      kept      == {i \in DOMAIN line : isKept(i) \/ (i < Len(line) /\ isGap(i))}
      letter(i) == IF ~isKept(i) THEN SPACE
                   ELSE IF options.ignoreCase THEN Lower(line[i]) ELSE line[i]
  IN  [n \in 1 .. Cardinality(kept) |->
         letter(CHOOSE i \in kept : Cardinality({j \in kept : j <= i}) = n)]

KeysFor(lines, options) ==
  [k \in DOMAIN lines |-> Normalized(lines[k].text, options)
                            \o IF options.ignoreLineEndings THEN <<>> ELSE lines[k].ending]

(* The length of the longest common subsequence from any two lines on.     *)
Lcs(a, b) ==
  LET lcs[p \in (1 .. Len(a) + 1) \X (1 .. Len(b) + 1)] ==
        LET i == p[1]
            j == p[2]
        IN  CASE i > Len(a) \/ j > Len(b) -> 0
              [] i <= Len(a) /\ j <= Len(b) /\ a[i] = b[j] -> 1 + lcs[<<i + 1, j + 1>>]
              [] OTHER -> IF lcs[<<i + 1, j>>] >= lcs[<<i, j + 1>>]
                          THEN lcs[<<i + 1, j>>] ELSE lcs[<<i, j + 1>>]
  IN  lcs

(* What differs between two texts: behind the same beginning and before    *)
(* the same end.                                                           *)
ChangedSpans(left, right) ==
  LET most   == IF Len(left) < Len(right) THEN Len(left) ELSE Len(right)
      prefix == CHOOSE n \in 0 .. most :
                  /\ SubSeq(left, 1, n) = SubSeq(right, 1, n)
                  /\ n < most => left[n + 1] # right[n + 1]
      suffix == CHOOSE n \in 0 .. most - prefix :
                  /\ \A m \in 0 .. n - 1 : left[Len(left) - m] = right[Len(right) - m]
                  /\ n < most - prefix => left[Len(left) - n] # right[Len(right) - n]
  IN  [left  |-> [start |-> prefix, length |-> Len(left) - prefix - suffix],
       right |-> [start |-> prefix, length |-> Len(right) - prefix - suffix]]

(* Two lines that are not the same are taken for one that was modified if  *)
(* leaving out either side is equally good.                                *)
CompareText(left, right, options) ==
  LET a   == Lines(left)
      b   == Lines(right)
      x   == KeysFor(a, options)
      y   == KeysFor(b, options)
      lcs == Lcs(x, y)
      line(kind, i, j) == [kind |-> kind, left |-> i, right |-> j]
      walk[p \in (1 .. Len(a) + 1) \X (1 .. Len(b) + 1)] ==
        LET i     == p[1]
            j     == p[2]
            inA   == i <= Len(a)
            inB   == j <= Len(b)
            equal == inA /\ inB /\ x[i] = y[j]
        IN  CASE ~inA /\ ~inB -> <<>>
              [] equal -> <<line("equal", i, j)>> \o walk[<<i + 1, j + 1>>]
              [] inA /\ inB /\ ~equal /\ lcs[<<i + 1, j>>] = lcs[<<i, j + 1>>] ->
                   <<line("modified", i, j)>> \o walk[<<i + 1, j + 1>>]
              [] inB /\ ~equal /\ (~inA \/ lcs[<<i, j + 1>>] > lcs[<<i + 1, j>>]) ->
                   <<line("inserted", i, j)>> \o walk[<<i, j + 1>>]
              [] OTHER -> <<line("deleted", i, j)>> \o walk[<<i + 1, j>>]
  IN  walk[<<1, 1>>]

IsChange(line) == line.kind # "equal"

Changes(left, right, options) ==
  SelectSeq(CompareText(left, right, options), IsChange)

-----------------------------------------------------------------------------
(* Copying.                                                                *)

(* Lines of the editor: behind the last line end there is one more.        *)
StartOfLine(t, n) == IF n = 1 THEN 0 ELSE Behind(t, NthBreak(t, n - 1)) - 1
EndOfLine(t, n)   == IF n = CountLines(t) THEN Len(t) ELSE NthBreak(t, n) - 1

(* The sides of the window have the editor's own line ending.              *)
EditComparisonLine(t, n, s, edit) ==
  LET count == CountLines(t)
      start == IF n <= count THEN StartOfLine(t, n) ELSE Len(t)
      end   == CASE edit = "insert" -> start
                 [] edit = "remove" /\ n < count -> StartOfLine(t, n + 1)
                 [] OTHER -> EndOfLine(t, n)
      new   == CASE edit = "insert" -> s \o <<CR, LF>>
                 [] edit = "remove" -> <<>>
                 [] edit = "replace" -> s
  IN  IF edit # "insert" /\ n > count THEN t
      ELSE SubSeq(t, 1, start) \o new \o SubSeq(t, end + 1, Len(t))

EditFor(kind, isToLeft) ==
  CASE kind = "modified" -> "replace"
    [] (kind = "inserted") = isToLeft -> "insert"
    [] OTHER -> "remove"

(* The sides after the difference was copied to one of them.               *)
CopyDifference(left, right, line, isToLeft) ==
  LET edit == EditFor(line.kind, isToLeft)
      from(t, n) == IF edit = "remove" THEN <<>> ELSE Lines(t)[n].text
  IN  IF isToLeft
      THEN <<EditComparisonLine(left, line.left, from(right, line.right), edit), right>>
      ELSE <<left, EditComparisonLine(right, line.right, from(left, line.left), edit)>>
=============================================================================
