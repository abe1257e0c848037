--------------------------- MODULE LargeFileProofs ---------------------------
(***************************************************************************)
(* Proofs about LargeFile, for every alphabet, window, chunk and bound:    *)
(* the piece table is the text (from splitting a piece to the search that  *)
(* carries bytes from chunk to chunk), and LargeFileInv, the inductive     *)
(* invariant of the window, the save and the follow mode, from which the   *)
(* safety properties of the runs follow.                                   *)
(***************************************************************************)
EXTENDS LargeFile, DataLemmas, SequenceTheorems, TLAPS

-----------------------------------------------------------------------------
(* Texts: what a splice and a concatenation leave where.                   *)

LEMMA SubSeqIn ==
  ASSUME NEW S, NEW s \in Seq(S), NEW m \in Int, NEW n \in Int, 1 <= m, n <= Len(s)
  PROVE  /\ SubSeq(s, m, n) \in Seq(S)
         /\ Len(SubSeq(s, m, n)) = IF m <= n THEN n - m + 1 ELSE 0
         /\ \A i \in 1 .. n - m + 1 : SubSeq(s, m, n)[i] = s[m + i - 1]
<1>1. \A i \in m .. n : i \in 1 .. Len(s)
  BY LenProperties
<1>2. \A i \in m .. n : s[i] \in S
  BY <1>1, ElementOfSeq
<1> QED
  BY <1>2, SubSeqProperties

LEMMA PrefixAndRest ==
  ASSUME NEW S, NEW s \in Seq(S), NEW t \in Seq(S)
  PROVE  /\ SubSeq(s \o t, 1, Len(s)) = s
         /\ SubSeq(s \o t, Len(s) + 1, Len(s \o t)) = t
<1> DEFINE c == s \o t
<1>1. /\ c \in Seq(S) /\ Len(c) = Len(s) + Len(t)
      /\ \A i \in 1 .. Len(s) + Len(t) : c[i] = IF i <= Len(s) THEN s[i] ELSE t[i - Len(s)]
  BY ConcatProperties
<1>2. Len(s) \in Nat /\ Len(t) \in Nat
  BY LenProperties
<1> HIDE DEF c
<1>3. SubSeq(c, 1, Len(s)) = s
  <2>1. /\ SubSeq(c, 1, Len(s)) \in Seq(S)
        /\ Len(SubSeq(c, 1, Len(s))) = IF 1 <= Len(s) THEN Len(s) - 1 + 1 ELSE 0
        /\ \A i \in 1 .. Len(s) - 1 + 1 : SubSeq(c, 1, Len(s))[i] = c[1 + i - 1]
    <3>1. 1 \in Int /\ Len(s) \in Int /\ 1 <= 1 /\ Len(s) <= Len(c)
      BY <1>1, <1>2
    <3> QED
      BY <1>1, <3>1, SubSeqIn
  <2>2. Len(SubSeq(c, 1, Len(s))) = Len(s)
    BY <1>2, <2>1
  <2>3. ASSUME NEW i \in 1 .. Len(s) PROVE SubSeq(c, 1, Len(s))[i] = s[i]
    <3>1. i \in 1 .. Len(s) - 1 + 1 /\ 1 + i - 1 = i /\ i <= Len(s) /\ i \in 1 .. Len(s) + Len(t)
      BY <1>2
    <3> QED
      BY <1>1, <2>1, <3>1
  <2> QED
    BY <2>1, <2>2, <2>3, SeqEqual
<1>4. SubSeq(c, Len(s) + 1, Len(c)) = t
  <2> DEFINE r == SubSeq(c, Len(s) + 1, Len(c))
  <2>1. /\ r \in Seq(S)
        /\ Len(r) = IF Len(s) + 1 <= Len(c) THEN Len(c) - (Len(s) + 1) + 1 ELSE 0
        /\ \A i \in 1 .. Len(c) - (Len(s) + 1) + 1 : r[i] = c[(Len(s) + 1) + i - 1]
    <3>1. Len(s) + 1 \in Int /\ Len(c) \in Int /\ 1 <= Len(s) + 1 /\ Len(c) <= Len(c)
      BY <1>1, <1>2
    <3> QED
      BY <1>1, <3>1, SubSeqIn
  <2> HIDE DEF r
  <2>2. Len(r) = Len(t)
    BY <1>1, <1>2, <2>1
  <2>3. ASSUME NEW i \in 1 .. Len(t) PROVE r[i] = t[i]
    <3>1. /\ i \in 1 .. Len(c) - (Len(s) + 1) + 1 /\ (Len(s) + 1) + i - 1 = Len(s) + i
          /\ ~(Len(s) + i <= Len(s)) /\ (Len(s) + i) - Len(s) = i
          /\ Len(s) + i \in 1 .. Len(s) + Len(t)
      BY <1>1, <1>2
    <3> QED
      BY <1>1, <2>1, <3>1
  <2> QED
    BY <2>1, <2>2, <2>3, SeqEqual DEF r
<1> QED
  BY <1>3, <1>4 DEF c

(* What is spliced into the middle of a text stands between its ends.      *)
PartsAreSpliced(u, v, w, a) == Splice((u \o v) \o w, Len(u), Len(v), a) = (u \o a) \o w

LEMMA SpliceOfParts ==
  ASSUME NEW S, NEW u \in Seq(S), NEW v \in Seq(S), NEW w \in Seq(S), NEW a \in Seq(S)
  PROVE  PartsAreSpliced(u, v, w, a)
<1> DEFINE x == (u \o v) \o w
<1>1. u \o v \in Seq(S) /\ v \o w \in Seq(S) /\ Len(u \o v) = Len(u) + Len(v)
  BY ConcatProperties
<1>2. x = u \o (v \o w)
  BY ConcatAssociative
<1>3. SubSeq(x, 1, Len(u)) = u
  BY <1>1, <1>2, PrefixAndRest
<1>4. SubSeq(x, Len(u \o v) + 1, Len(x)) = w
  BY <1>1, PrefixAndRest
<1>5. SubSeq(x, Len(u) + Len(v) + 1, Len(x)) = w
  BY <1>1, <1>4
<1> QED
  BY <1>3, <1>5 DEF Splice, PartsAreSpliced

(* A text is the part before a place and the part after it.                *)
LEMMA SplitsAt ==
  ASSUME NEW S, NEW s \in Seq(S), NEW k \in 0 .. Len(s)
  PROVE  /\ SubSeq(s, 1, k) \in Seq(S) /\ Len(SubSeq(s, 1, k)) = k
         /\ SubSeq(s, k + 1, Len(s)) \in Seq(S) /\ Len(SubSeq(s, k + 1, Len(s))) = Len(s) - k
         /\ s = SubSeq(s, 1, k) \o SubSeq(s, k + 1, Len(s))
<1>1. Len(s) \in Nat
  BY LenProperties
<1>2. SubSeq(s, 1, k) \in Seq(S) /\ Len(SubSeq(s, 1, k)) = k
  <2>1. 1 \in Int /\ k \in Int /\ 1 <= 1 /\ k <= Len(s)
    BY <1>1
  <2>2. Len(SubSeq(s, 1, k)) = IF 1 <= k THEN k - 1 + 1 ELSE 0
    BY <2>1, SubSeqIn
  <2> QED
    BY <2>1, <2>2, SubSeqIn
<1>3. SubSeq(s, k + 1, Len(s)) \in Seq(S) /\ Len(SubSeq(s, k + 1, Len(s))) = Len(s) - k
  <2>1. k + 1 \in Int /\ Len(s) \in Int /\ 1 <= k + 1 /\ Len(s) <= Len(s)
    BY <1>1
  <2>2. Len(SubSeq(s, k + 1, Len(s))) = IF k + 1 <= Len(s) THEN Len(s) - (k + 1) + 1 ELSE 0
    BY <2>1, SubSeqIn
  <2> QED
    BY <1>1, <2>1, <2>2, SubSeqIn
<1>4. s = SubSeq(s, 1, k) \o SubSeq(s, k + 1, Len(s))
  <2>1. 1 \in 1 .. Len(s) + 1 /\ k \in 1 - 1 .. Len(s) /\ Len(s) \in k .. Len(s)
    BY <1>1
  <2>2. SubSeq(s, 1, k) \o SubSeq(s, k + 1, Len(s)) = SubSeq(s, 1, Len(s))
    BY <2>1, ConcatAdjacentSubSeq
  <2> QED
    BY <2>2, SubSeqFull
<1> QED
  BY <1>2, <1>3, <1>4

(* Two cuts: before, between and after.                                    *)
InThree(s, S, k, n) ==
  \E u, v, w \in Seq(S) : s = (u \o v) \o w /\ Len(u) = k /\ Len(v) = n

LEMMA SplitsTwice ==
  ASSUME NEW S, NEW s \in Seq(S), NEW k \in 0 .. Len(s), NEW n \in 0 .. Len(s) - k
  PROVE  InThree(s, S, k, n)
<1> DEFINE t == SubSeq(s, k + 1, Len(s))
           u == SubSeq(s, 1, k)
<1>1. u \in Seq(S) /\ Len(u) = k /\ t \in Seq(S) /\ Len(t) = Len(s) - k /\ s = u \o t
  BY SplitsAt
<1> HIDE DEF u, t
<1>2. n \in 0 .. Len(t)
  BY <1>1
<1> DEFINE v == SubSeq(t, 1, n)
           w == SubSeq(t, n + 1, Len(t))
<1>3. v \in Seq(S) /\ Len(v) = n /\ w \in Seq(S) /\ t = v \o w
  BY <1>1, <1>2, SplitsAt
<1> HIDE DEF v, w
<1>4. s = (u \o v) \o w
  BY <1>1, <1>3, ConcatAssociative, SMTT(30)
<1> QED
  BY <1>1, <1>3, <1>4 DEF InThree

LEMMA Spliced ==
  ASSUME NEW S, NEW s \in Seq(S), NEW at \in 0 .. Len(s), NEW n \in 0 .. Len(s) - at,
         NEW a \in Seq(S)
  PROVE  /\ Splice(s, at, n, a) \in Seq(S)
         /\ Len(Splice(s, at, n, a)) = Len(s) - n + Len(a)
<1>1. PICK u, v, w \in Seq(S) : s = (u \o v) \o w /\ Len(u) = at /\ Len(v) = n
  <2>1. InThree(s, S, at, n)
    BY SplitsTwice
  <2> QED
    BY <2>1 DEF InThree
<1>2. Splice(s, at, n, a) = (u \o a) \o w
  <2>1. u \in Seq(S) /\ v \in Seq(S) /\ w \in Seq(S) /\ a \in Seq(S)
    OBVIOUS
  <2>2. PartsAreSpliced(u, v, w, a)
    BY <2>1, SpliceOfParts, Zenon
  <2> QED
    BY <1>1, <2>2, Zenon DEF PartsAreSpliced
<1>3. u \o v \in Seq(S) /\ u \o a \in Seq(S) /\ (u \o a) \o w \in Seq(S)
  BY ConcatProperties
<1>4. /\ Len(s) = Len(u) + Len(v) + Len(w)
      /\ Len((u \o a) \o w) = Len(u) + Len(a) + Len(w)
  <2>1. Len((u \o v) \o w) = Len(u \o v) + Len(w) /\ Len(u \o v) = Len(u) + Len(v)
    BY <1>3, ConcatProperties
  <2>2. Len((u \o a) \o w) = Len(u \o a) + Len(w) /\ Len(u \o a) = Len(u) + Len(a)
    BY <1>3, ConcatProperties
  <2> QED
    BY <1>1, <2>1, <2>2
<1>5. Len(u) \in Nat /\ Len(v) \in Nat /\ Len(w) \in Nat /\ Len(a) \in Nat
  BY LenProperties
<1> QED
  BY <1>1, <1>2, <1>3, <1>4, <1>5

-----------------------------------------------------------------------------
(* The recursions: the ends of the pieces and the text they give.          *)

Chars == Bytes \cup {Bom}
Cells == Chars \cup {Gap}

Piece == [storage : {"original", "added"}, offset : Nat, length : Nat]

SumsUp(f, s) ==
  f[0] = 0 /\ \A n \in 1 .. Len(s) : f[n] = f[n - 1] + s[n].length

LEMMA EndsGrow ==
  ASSUME NEW s \in Seq(Piece)
  PROVE  \E f \in [0 .. Len(s) -> Nat] :
           SumsUp(f, s) /\ Ends(s) = f
<1> DEFINE next(n, x) == x + s[n].length
           IsIt(g) == g = [n \in 0 .. Len(s) |->
                             IF n = 0 THEN 0 ELSE next(n, g[n - 1])]
           step == [p \in (1 .. Len(s)) \X Nat |-> next(p[1], p[2])]
           h == CHOOSE g : IsIt(g)
<1>1. Len(s) \in Nat /\ 0 \in Nat
  BY LenProperties
<1>2. ASSUME NEW n \in 1 .. Len(s), NEW x \in Nat PROVE next(n, x) \in Nat
  <2>1. s[n] \in Piece
    BY ElementOfSeq
  <2> QED
    BY <2>1 DEF Piece
<1>3. Ends(s) = h
  BY DEF Ends
<1> HIDE DEF next
<1>4. /\ step \in [(1 .. Len(s)) \X Nat -> Nat]
      /\ \A n \in 1 .. Len(s), x \in Nat : step[<<n, x>>] = next(n, x)
  BY <1>2
<1> HIDE DEF step
<1>5. PICK f \in [0 .. Len(s) -> Nat] : Recursive(f, 0, step, Len(s))
  BY <1>1, <1>4, Recursion
<1>6. IsIt(f)
  <2>1. ASSUME NEW n \in 0 .. Len(s)
        PROVE  f[n] = IF n = 0 THEN 0 ELSE next(n, f[n - 1])
    <3>1. CASE n = 0
      BY <1>5, <3>1 DEF Recursive
    <3>2. CASE n # 0
      <4>1. n \in 1 .. Len(s) /\ n - 1 \in 0 .. Len(s)
        BY <1>1, <3>2
      <4>2. f[n - 1] \in Nat /\ f[n] = step[<<n, f[n - 1]>>]
        BY <1>5, <4>1 DEF Recursive
      <4> QED
        BY <1>4, <3>2, <4>1, <4>2, Zenon
    <3> QED
      BY <3>1, <3>2
  <2> QED
    BY <2>1
<1>7. IsIt(h)
  <2> HIDE DEF IsIt
  <2> QED
    BY <1>6, Zenon
<1> HIDE DEF h
<1>8. h = [n \in 0 .. Len(s) |-> h[n]] /\ h[0] = 0
  BY <1>1, <1>7
<1>9. ASSUME NEW n \in 1 .. Len(s) PROVE h[n] = next(n, h[n - 1])
  <2>1. n \in 0 .. Len(s) /\ n # 0
    BY <1>1
  <2> QED
    BY <1>7, <2>1
<1> HIDE DEF IsIt
<1>10. StepsFrom(h, 0, step, Len(s), Nat)
  BY <1>4, <1>8, <1>9 DEF StepsFrom
<1>11. h \in [0 .. Len(s) -> Nat]
  BY <1>1, <1>4, <1>10, RecursionStays
<1>12. SumsUp(h, s)
  BY <1>8, <1>9 DEF SumsUp, next
<1> QED
  BY <1>3, <1>11, <1>12

PieceIsRead(added, mapped, piece) ==
  /\ PieceBytes(added, mapped, piece) \in Seq(Cells)
  /\ Len(PieceBytes(added, mapped, piece)) = piece.length

LEMMA BytesAreRead ==
  ASSUME NEW added \in Seq(Chars), NEW mapped \in Seq(Chars), NEW piece \in Piece
  PROVE  PieceIsRead(added, mapped, piece)
<1> DEFINE storage == IF piece.storage = "original" THEN mapped ELSE added
           byte(k) == IF piece.offset + k <= Len(storage) THEN storage[piece.offset + k] ELSE Gap
<1>1. storage \in Seq(Chars) /\ piece.length \in Nat /\ piece.offset \in Nat
  BY DEF Piece
<1>2. ASSUME NEW k \in 1 .. piece.length PROVE byte(k) \in Cells
  <2>1. CASE piece.offset + k <= Len(storage)
    <3>1. piece.offset + k \in 1 .. Len(storage)
      BY <1>1, <2>1, LenProperties
    <3>2. storage[piece.offset + k] \in Chars
      BY <1>1, <3>1, ElementOfSeq
    <3> QED
      BY <2>1, <3>2 DEF Cells
  <2>2. CASE ~(piece.offset + k <= Len(storage))
    BY <2>2 DEF Cells
  <2> QED
    BY <2>1, <2>2
<1>3. PieceBytes(added, mapped, piece) = [k \in 1 .. piece.length |-> byte(k)]
  BY DEF PieceBytes
<1> HIDE DEF byte
<1>4. /\ [k \in 1 .. piece.length |-> byte(k)] \in [1 .. piece.length -> Cells]
  BY <1>2
<1>5. [k \in 1 .. piece.length |-> byte(k)] \in Seq(Cells)
  BY <1>1, <1>4, SeqDef
<1>6. Len([k \in 1 .. piece.length |-> byte(k)]) = piece.length
  BY <1>1, <1>5, LenProperties
<1> QED
  BY <1>3, <1>5, <1>6 DEF PieceIsRead

Reads(f, s, added, mapped) ==
  f[0] = <<>> /\ \A n \in 1 .. Len(s) : f[n] = f[n - 1] \o PieceBytes(added, mapped, s[n])

LEMMA TextGrows ==
  ASSUME NEW s \in Seq(Piece), NEW added \in Seq(Chars), NEW mapped \in Seq(Chars)
  PROVE  \E f \in [0 .. Len(s) -> Seq(Cells)] :
           Reads(f, s, added, mapped) /\ TextOf(s, added, mapped) = f[Len(s)]
<1> DEFINE next(n, x) == x \o PieceBytes(added, mapped, s[n])
           IsIt(g) == g = [n \in 0 .. Len(s) |->
                             IF n = 0 THEN <<>> ELSE next(n, g[n - 1])]
           step == [p \in (1 .. Len(s)) \X Seq(Cells) |-> next(p[1], p[2])]
           h == CHOOSE g : IsIt(g)
<1>1. Len(s) \in Nat /\ <<>> \in Seq(Cells)
  BY LenProperties, EmptySeq
<1>2. ASSUME NEW n \in 1 .. Len(s), NEW x \in Seq(Cells) PROVE next(n, x) \in Seq(Cells)
  <2>1. s[n] \in Piece
    BY ElementOfSeq
  <2>2. PieceBytes(added, mapped, s[n]) \in Seq(Cells)
    BY <2>1, BytesAreRead DEF PieceIsRead
  <2> QED
    BY <2>2, ConcatProperties
<1>3. TextOf(s, added, mapped) = h[Len(s)]
  BY DEF TextOf
<1> HIDE DEF next
<1>4. /\ step \in [(1 .. Len(s)) \X Seq(Cells) -> Seq(Cells)]
      /\ \A n \in 1 .. Len(s), x \in Seq(Cells) : step[<<n, x>>] = next(n, x)
  BY <1>2
<1> HIDE DEF step
<1>5. PICK f \in [0 .. Len(s) -> Seq(Cells)] : Recursive(f, <<>>, step, Len(s))
  BY <1>1, <1>4, Recursion
<1>6. IsIt(f)
  <2>1. ASSUME NEW n \in 0 .. Len(s)
        PROVE  f[n] = IF n = 0 THEN <<>> ELSE next(n, f[n - 1])
    <3>1. CASE n = 0
      BY <1>5, <3>1 DEF Recursive
    <3>2. CASE n # 0
      <4>1. n \in 1 .. Len(s) /\ n - 1 \in 0 .. Len(s)
        BY <1>1, <3>2
      <4>2. f[n - 1] \in Seq(Cells) /\ f[n] = step[<<n, f[n - 1]>>]
        BY <1>5, <4>1 DEF Recursive
      <4> QED
        BY <1>4, <3>2, <4>1, <4>2, Zenon
    <3> QED
      BY <3>1, <3>2
  <2> QED
    BY <2>1
<1>7. IsIt(h)
  <2> HIDE DEF IsIt
  <2> QED
    BY <1>6, Zenon
<1> HIDE DEF h
<1>8. h = [n \in 0 .. Len(s) |-> h[n]] /\ h[0] = <<>>
  BY <1>1, <1>7
<1>9. ASSUME NEW n \in 1 .. Len(s) PROVE h[n] = next(n, h[n - 1])
  <2>1. n \in 0 .. Len(s) /\ n # 0
    BY <1>1
  <2> QED
    BY <1>7, <2>1
<1> HIDE DEF IsIt
<1>10. StepsFrom(h, <<>>, step, Len(s), Seq(Cells))
  BY <1>4, <1>8, <1>9 DEF StepsFrom
<1>11. h \in [0 .. Len(s) -> Seq(Cells)]
  BY <1>1, <1>4, <1>10, RecursionStays
<1>12. Reads(h, s, added, mapped)
  BY <1>8, <1>9 DEF Reads, next
<1> QED
  BY <1>3, <1>11, <1>12

-----------------------------------------------------------------------------
(* Concatenation of pieces is concatenation of text.                       *)

Begins(s, t) == Len(s) <= Len(t) /\ \A i \in 1 .. Len(s) : t[i] = s[i]

LEMMA EndsOfBeginning ==
  ASSUME NEW s \in Seq(Piece), NEW t \in Seq(Piece), Begins(s, t)
  PROVE  \A n \in 0 .. Len(s) : Ends(t)[n] = Ends(s)[n]
<1> DEFINE T == {n \in Nat : n <= Len(s) => Ends(t)[n] = Ends(s)[n]}
           f == Ends(s)
           g == Ends(t)
<1>1. SumsUp(f, s) /\ SumsUp(g, t)
  BY EndsGrow
<1>2. Len(s) \in Nat /\ Len(t) \in Nat
  BY LenProperties
<1> HIDE DEF f, g
<1>3. 0 \in T
  BY <1>1 DEF SumsUp, f, g
<1>4. ASSUME NEW n \in Nat, n \in T PROVE n + 1 \in T
  <2>1. SUFFICES ASSUME n + 1 <= Len(s) PROVE g[n + 1] = f[n + 1]
    BY DEF f, g
  <2>2. n + 1 \in 1 .. Len(s) /\ n + 1 \in 1 .. Len(t) /\ (n + 1) - 1 = n /\ n <= Len(s)
    BY <1>2, <2>1 DEF Begins
  <2>3. g[n] = f[n]
    BY <1>4, <2>2 DEF f, g
  <2>4. s[n + 1] = t[n + 1]
    BY <2>2 DEF Begins
  <2>5. f[n + 1] = f[n] + s[n + 1].length /\ g[n + 1] = g[n] + t[n + 1].length
    BY <1>1, <2>2 DEF SumsUp
  <2> QED
    BY <2>3, <2>4, <2>5
<1>5. Nat \subseteq T
  <2> HIDE DEF T
  <2> QED
    BY <1>3, <1>4, Induction
<1> QED
  BY <1>2, <1>5

LEMMA AppendBegins ==
  ASSUME NEW S, NEW s \in Seq(S), NEW x \in S
  PROVE  Begins(s, Append(s, x)) /\ Append(s, x) \in Seq(S)
           /\ Len(Append(s, x)) = Len(s) + 1 /\ Append(s, x)[Len(s) + 1] = x
<1>1. Len(s) \in Nat
  BY LenProperties
<1> QED
  BY <1>1, AppendProperties DEF Begins

LEMMA LengthOfAppend ==
  ASSUME NEW s \in Seq(Piece), NEW x \in Piece
  PROVE  Length(Append(s, x)) = Length(s) + x.length
<1> DEFINE t == Append(s, x)
<1>1. Begins(s, t) /\ t \in Seq(Piece) /\ Len(t) = Len(s) + 1 /\ t[Len(s) + 1] = x
  BY AppendBegins
<1>2. Len(s) \in Nat
  BY LenProperties
<1> HIDE DEF t
<1>3. Ends(t)[Len(s)] = Ends(s)[Len(s)]
  BY <1>1, <1>2, EndsOfBeginning
<1>4. SumsUp(Ends(t), t)
  BY <1>1, EndsGrow
<1>5. Len(t) \in 1 .. Len(t) /\ Len(t) - 1 = Len(s)
  BY <1>1, <1>2
<1>6. Ends(t)[Len(t)] = Ends(t)[Len(s)] + t[Len(t)].length
  BY <1>4, <1>5 DEF SumsUp
<1> QED
  BY <1>1, <1>3, <1>6 DEF Length, t

LEMMA LengthType ==
  /\ Length(<<>>) = 0
  /\ \A s \in Seq(Piece) : Length(s) \in Nat
<1>1. Length(<<>>) = 0
  <2>1. <<>> \in Seq(Piece) /\ Len(<<>>) = 0
    BY EmptySeq
  <2>2. SumsUp(Ends(<<>>), <<>>)
    BY <2>1, EndsGrow
  <2> QED
    BY <2>1, <2>2 DEF SumsUp, Length
<1>2. ASSUME NEW s \in Seq(Piece) PROVE Length(s) \in Nat
  <2>1. Ends(s) \in [0 .. Len(s) -> Nat]
    BY EndsGrow
  <2>2. Len(s) \in 0 .. Len(s)
    BY LenProperties
  <2> QED
    BY <2>1, <2>2 DEF Length
<1> QED
  BY <1>1, <1>2

(* The text of some pieces and one more.                                   *)
AppendsText(s, x, added, mapped) ==
  TextOf(Append(s, x), added, mapped) = TextOf(s, added, mapped) \o PieceBytes(added, mapped, x)

LEMMA TextOfAppend ==
  ASSUME NEW s \in Seq(Piece), NEW x \in Piece,
         NEW added \in Seq(Chars), NEW mapped \in Seq(Chars)
  PROVE  AppendsText(s, x, added, mapped)
<1> DEFINE t == Append(s, x)
           op(p) == PieceBytes(added, mapped, p)
<1>1. Begins(s, t) /\ t \in Seq(Piece) /\ Len(t) = Len(s) + 1 /\ t[Len(s) + 1] = x
  BY AppendBegins
<1>2. Len(s) \in Nat
  BY LenProperties
<1> HIDE DEF t
<1>3. PICK f \in [0 .. Len(s) -> Seq(Cells)] :
        Reads(f, s, added, mapped) /\ TextOf(s, added, mapped) = f[Len(s)]
  BY TextGrows
<1>4. PICK g \in [0 .. Len(t) -> Seq(Cells)] :
        Reads(g, t, added, mapped) /\ TextOf(t, added, mapped) = g[Len(t)]
  BY <1>1, TextGrows
<1>5. /\ f[0] = <<>> /\ \A n \in 1 .. Len(s) : f[n] = f[n - 1] \o op(s[n])
      /\ g[0] = <<>> /\ \A n \in 1 .. Len(t) : g[n] = g[n - 1] \o op(t[n])
  BY <1>3, <1>4 DEF Reads
<1> HIDE DEF op
<1> DEFINE T == {n \in Nat : n <= Len(s) => g[n] = f[n]}
<1>6. 0 \in T
  BY <1>5
<1>7. ASSUME NEW n \in Nat, n \in T PROVE n + 1 \in T
  <2>1. SUFFICES ASSUME n + 1 <= Len(s) PROVE g[n + 1] = f[n + 1]
    OBVIOUS
  <2>2. n + 1 \in 1 .. Len(s) /\ n + 1 \in 1 .. Len(t) /\ (n + 1) - 1 = n /\ n <= Len(s)
    BY <1>1, <1>2, <2>1
  <2>3. g[n] = f[n]
    BY <1>7, <2>2
  <2>4. s[n + 1] = t[n + 1]
    BY <1>1, <2>2 DEF Begins
  <2>5. f[n + 1] = f[n] \o op(s[n + 1]) /\ g[n + 1] = g[n] \o op(t[n + 1])
    BY <1>5, <2>2
  <2> QED
    BY <2>3, <2>4, <2>5, Zenon
<1>8. Nat \subseteq T
  <2> HIDE DEF T
  <2> QED
    BY <1>6, <1>7, Induction
<1>9. g[Len(s)] = f[Len(s)]
  <2>1. Len(s) \in T
    BY <1>2, <1>8, Zenon
  <2> QED
    BY <1>2, <2>1
<1>10. Len(t) \in 1 .. Len(t) /\ Len(t) - 1 = Len(s)
  BY <1>1, <1>2
<1>11. g[Len(t)] = g[Len(s)] \o op(t[Len(t)])
  BY <1>5, <1>10
<1>12. TextOf(t, added, mapped) = TextOf(s, added, mapped) \o op(x)
  BY <1>1, <1>3, <1>4, <1>9, <1>11
<1> QED
  BY <1>12 DEF AppendsText, op, t

TextIsTyped(s, added, mapped) ==
  /\ TextOf(s, added, mapped) \in Seq(Cells)
  /\ Len(TextOf(s, added, mapped)) = Length(s)

LEMMA TextOfNone ==
  ASSUME NEW added \in Seq(Chars), NEW mapped \in Seq(Chars)
  PROVE  TextOf(<<>>, added, mapped) = <<>>
<1>1. <<>> \in Seq(Piece) /\ Len(<<>>) = 0
  BY EmptySeq
<1>2. PICK f \in [0 .. Len(<<>>) -> Seq(Cells)] :
        Reads(f, <<>>, added, mapped) /\ TextOf(<<>>, added, mapped) = f[Len(<<>>)]
  BY <1>1, TextGrows
<1> QED
  BY <1>1, <1>2 DEF Reads

(* All pieces but the last, and the last.                                  *)
LEMMA EndsWith ==
  ASSUME NEW S, NEW s \in Seq(S), NEW n \in Nat, Len(s) = n + 1
  PROVE  \E r \in Seq(S), x \in S : s = Append(r, x) /\ Len(r) = n
<1>1. s # <<>>
  BY EmptySeq
<1>2. PICK r \in Seq(S), x \in S : s = Append(r, x)
  BY <1>1, SequenceEmptyOrAppend
<1>3. Len(s) = Len(r) + 1 /\ Len(r) \in Nat
  BY <1>2, AppendProperties, LenProperties
<1>4. Len(r) = n
  BY <1>3
<1> QED
  BY <1>2, <1>4, Zenon

LEMMA TextType ==
  ASSUME NEW s \in Seq(Piece), NEW added \in Seq(Chars), NEW mapped \in Seq(Chars)
  PROVE  TextIsTyped(s, added, mapped)
<1> DEFINE T == {n \in Nat : \A r \in Seq(Piece) : Len(r) = n => TextIsTyped(r, added, mapped)}
<1>1. 0 \in T
  <2>1. ASSUME NEW r \in Seq(Piece), Len(r) = 0 PROVE TextIsTyped(r, added, mapped)
    <3>1. r = <<>>
      BY <2>1, EmptySeq
    <3>2. <<>> \in Seq(Cells) /\ Len(<<>>) = 0
      BY EmptySeq
    <3>3. TextOf(<<>>, added, mapped) = <<>> /\ Length(<<>>) = 0
      BY TextOfNone, LengthType
    <3> QED
      BY <3>1, <3>2, <3>3 DEF TextIsTyped
  <2> QED
    BY <2>1
<1>2. ASSUME NEW n \in Nat, n \in T PROVE n + 1 \in T
  <2>1. ASSUME NEW r \in Seq(Piece), Len(r) = n + 1 PROVE TextIsTyped(r, added, mapped)
    <3>1. PICK q \in Seq(Piece), x \in Piece : r = Append(q, x) /\ Len(q) = n
      BY <2>1, EndsWith
    <3>2. TextIsTyped(q, added, mapped)
      BY <1>2, <3>1
    <3>3. PieceIsRead(added, mapped, x)
      BY BytesAreRead
    <3>4. AppendsText(q, x, added, mapped)
      BY TextOfAppend
    <3>5. Length(r) = Length(q) + x.length
      BY <3>1, LengthOfAppend
    <3> DEFINE a == TextOf(q, added, mapped)
               b == PieceBytes(added, mapped, x)
    <3>6. /\ a \in Seq(Cells) /\ b \in Seq(Cells)
          /\ Len(a) = Length(q) /\ Len(b) = x.length
      BY <3>2, <3>3 DEF TextIsTyped, PieceIsRead
    <3>7. TextOf(r, added, mapped) = a \o b
      BY <3>1, <3>4 DEF AppendsText
    <3> HIDE DEF a, b
    <3>8. a \o b \in Seq(Cells) /\ Len(a \o b) = Len(a) + Len(b)
      BY <3>6, ConcatProperties
    <3> QED
      BY <3>5, <3>6, <3>7, <3>8 DEF TextIsTyped
  <2> QED
    BY <2>1
<1>3. Nat \subseteq T
  <2> HIDE DEF T
  <2> QED
    BY <1>1, <1>2, Induction
<1>4. Len(s) \in Nat
  BY LenProperties
<1> QED
  BY <1>3, <1>4

JoinsText(s, t, added, mapped) ==
  TextOf(s \o t, added, mapped) = TextOf(s, added, mapped) \o TextOf(t, added, mapped)

LEMMA AppendToConcat ==
  ASSUME NEW S, NEW s \in Seq(S), NEW t \in Seq(S), NEW x \in S
  PROVE  s \o Append(t, x) = Append(s \o t, x)
<1>1. <<x>> \in Seq(S) /\ s \o t \in Seq(S)
  BY ConcatProperties
<1>2. Append(t, x) = t \o <<x>> /\ Append(s \o t, x) = (s \o t) \o <<x>>
  BY <1>1, AppendIsConcat
<1> QED
  BY <1>1, <1>2, ConcatAssociative

LEMMA TextOfConcat ==
  ASSUME NEW s \in Seq(Piece), NEW t \in Seq(Piece),
         NEW added \in Seq(Chars), NEW mapped \in Seq(Chars)
  PROVE  JoinsText(s, t, added, mapped)
<1> DEFINE T == {n \in Nat : \A r \in Seq(Piece) : Len(r) = n => JoinsText(s, r, added, mapped)}
<1>1. 0 \in T
  <2>1. ASSUME NEW r \in Seq(Piece), Len(r) = 0 PROVE JoinsText(s, r, added, mapped)
    <3>1. r = <<>>
      BY <2>1, EmptySeq
    <3>2. TextOf(<<>>, added, mapped) = <<>>
      BY TextOfNone
    <3>3. TextOf(s, added, mapped) \in Seq(Cells)
      BY TextType DEF TextIsTyped
    <3>4. s \o <<>> = s /\ TextOf(s, added, mapped) \o <<>> = TextOf(s, added, mapped)
      BY <3>3, ConcatEmptySeq
    <3> QED
      BY <3>1, <3>2, <3>4 DEF JoinsText
  <2> QED
    BY <2>1
<1>2. ASSUME NEW n \in Nat, n \in T PROVE n + 1 \in T
  <2>1. ASSUME NEW r \in Seq(Piece), Len(r) = n + 1 PROVE JoinsText(s, r, added, mapped)
    <3>1. PICK q \in Seq(Piece), x \in Piece : r = Append(q, x) /\ Len(q) = n
      BY <2>1, EndsWith
    <3>2. JoinsText(s, q, added, mapped)
      BY <1>2, <3>1
    <3>3. PieceIsRead(added, mapped, x) /\ TextIsTyped(s, added, mapped)
            /\ TextIsTyped(q, added, mapped)
      BY BytesAreRead, TextType
    <3>4. s \o q \in Seq(Piece)
      BY ConcatProperties
    <3>5. AppendsText(q, x, added, mapped) /\ AppendsText(s \o q, x, added, mapped)
      BY <3>4, TextOfAppend
    <3>6. s \o r = Append(s \o q, x)
      BY <3>1, AppendToConcat
    <3> DEFINE a == TextOf(s, added, mapped)
               b == TextOf(q, added, mapped)
               c == PieceBytes(added, mapped, x)
    <3>7. a \in Seq(Cells) /\ b \in Seq(Cells) /\ c \in Seq(Cells)
      BY <3>3 DEF TextIsTyped, PieceIsRead
    <3>8. TextOf(s \o r, added, mapped) = (a \o b) \o c
      BY <3>2, <3>5, <3>6 DEF AppendsText, JoinsText
    <3>9. TextOf(r, added, mapped) = b \o c
      BY <3>1, <3>5 DEF AppendsText
    <3> HIDE DEF a, b, c
    <3>10. (a \o b) \o c = a \o (b \o c)
      BY <3>7, ConcatAssociative, SMTT(30)
    <3> QED
      BY <3>8, <3>9, <3>10 DEF JoinsText, a
  <2> QED
    BY <2>1
<1>3. Nat \subseteq T
  <2> HIDE DEF T
  <2> QED
    BY <1>1, <1>2, Induction
<1>4. Len(t) \in Nat
  BY LenProperties
<1> QED
  BY <1>3, <1>4

LEMMA LengthOfConcat ==
  ASSUME NEW s \in Seq(Piece), NEW t \in Seq(Piece)
  PROVE  Length(s \o t) = Length(s) + Length(t)
<1>1. <<>> \in Seq(Chars) /\ s \o t \in Seq(Piece)
  BY EmptySeq, ConcatProperties
<1>2. JoinsText(s, t, <<>>, <<>>)
  BY <1>1, TextOfConcat
<1>3. TextIsTyped(s, <<>>, <<>>) /\ TextIsTyped(t, <<>>, <<>>) /\ TextIsTyped(s \o t, <<>>, <<>>)
  BY <1>1, TextType
<1> QED
  BY <1>2, <1>3, ConcatProperties DEF JoinsText, TextIsTyped

-----------------------------------------------------------------------------
(* Pieces that lie in their storage; cutting and joining them.             *)

Stored(m, n) ==
  {p \in Piece : /\ p.length > 0
                 /\ p.storage = "added" => p.offset + p.length <= m
                 /\ p.storage = "original" => p.offset + p.length <= n}

IsCutAt(p, k, added, mapped) ==
  /\ Left(p, k) \in Piece /\ Right(p, k) \in Piece
  /\ PieceBytes(added, mapped, p)
       = PieceBytes(added, mapped, Left(p, k)) \o PieceBytes(added, mapped, Right(p, k))

LEMMA LeftAndRight ==
  ASSUME NEW p \in Piece, NEW k \in 0 .. p.length
  PROVE  /\ Left(p, k) = [storage |-> p.storage, offset |-> p.offset, length |-> k]
         /\ Right(p, k) = [storage |-> p.storage, offset |-> p.offset + k, length |-> p.length - k]
         /\ Left(p, k) \in Piece /\ Right(p, k) \in Piece
<1>1. p = [storage |-> p.storage, offset |-> p.offset, length |-> p.length]
  BY DEF Piece
<1>2. p.storage \in {"original", "added"} /\ p.offset \in Nat /\ p.length \in Nat
  BY DEF Piece
<1>3. Left(p, k) = [storage |-> p.storage, offset |-> p.offset, length |-> k]
  BY <1>1 DEF Left
<1>4. Right(p, k) = [storage |-> p.storage, offset |-> p.offset + k, length |-> p.length - k]
  <2> DEFINE q == [p EXCEPT !.offset = @ + k]
  <2>1. q = [storage |-> p.storage, offset |-> p.offset + k, length |-> p.length]
    BY <1>1
  <2>2. q.length = p.length
    BY <2>1
  <2>3. Right(p, k) = [q EXCEPT !.length = @ - k]
    BY DEF Right
  <2> HIDE DEF q
  <2>4. [q EXCEPT !.length = @ - k]
          = [storage |-> p.storage, offset |-> p.offset + k, length |-> q.length - k]
    BY <2>1
  <2> QED
    BY <2>2, <2>3, <2>4
<1>5. p.offset + k \in Nat /\ p.length - k \in Nat /\ k \in Nat
  BY <1>2
<1> QED
  BY <1>2, <1>3, <1>4, <1>5 DEF Piece

LEMMA CuttingKeepsBytes ==
  ASSUME NEW p \in Piece, NEW k \in 0 .. p.length,
         NEW added \in Seq(Chars), NEW mapped \in Seq(Chars)
  PROVE  IsCutAt(p, k, added, mapped)
<1> DEFINE l == Left(p, k)
           r == Right(p, k)
           store == IF p.storage = "original" THEN mapped ELSE added
           byte(j) == IF j <= Len(store) THEN store[j] ELSE Gap
           a == PieceBytes(added, mapped, p)
           b == PieceBytes(added, mapped, l)
           c == PieceBytes(added, mapped, r)
<1>1. /\ l = [storage |-> p.storage, offset |-> p.offset, length |-> k]
      /\ r = [storage |-> p.storage, offset |-> p.offset + k, length |-> p.length - k]
      /\ l \in Piece /\ r \in Piece
  BY LeftAndRight
<1>2. p.offset \in Nat /\ p.length \in Nat /\ k \in Nat
  BY DEF Piece
<1>3. /\ l.storage = p.storage /\ l.offset = p.offset /\ l.length = k
      /\ r.storage = p.storage /\ r.offset = p.offset + k /\ r.length = p.length - k
  BY <1>1
<1> HIDE DEF l, r
<1>4. a = [j \in 1 .. p.length |-> byte(p.offset + j)]
  BY DEF PieceBytes
<1>5. b = [j \in 1 .. k |-> byte(p.offset + j)]
  BY <1>3 DEF PieceBytes
<1>6. c = [j \in 1 .. p.length - k |-> byte((p.offset + k) + j)]
  BY <1>3 DEF PieceBytes
<1>7. /\ a \in Seq(Cells) /\ b \in Seq(Cells) /\ c \in Seq(Cells)
      /\ Len(a) = p.length /\ Len(b) = k /\ Len(c) = p.length - k
  BY <1>1, <1>3, BytesAreRead DEF PieceIsRead
<1> HIDE DEF a, b, c, byte
<1>8. /\ b \o c \in Seq(Cells) /\ Len(b \o c) = Len(b) + Len(c)
      /\ \A i \in 1 .. Len(b) + Len(c) : (b \o c)[i] = IF i <= Len(b) THEN b[i] ELSE c[i - Len(b)]
  BY <1>7, ConcatProperties
<1>9. ASSUME NEW i \in 1 .. Len(a) PROVE a[i] = (b \o c)[i]
  <2>1. i \in 1 .. p.length /\ i \in 1 .. Len(b) + Len(c)
    BY <1>2, <1>7
  <2>2. a[i] = byte(p.offset + i)
    BY <1>4, <2>1
  <2>3. CASE i <= Len(b)
    <3>1. i \in 1 .. k
      BY <1>2, <1>7, <2>1, <2>3
    <3>2. b[i] = byte(p.offset + i)
      BY <1>5, <3>1
    <3> QED
      BY <1>8, <2>1, <2>2, <2>3, <3>2
  <2>4. CASE ~(i <= Len(b))
    <3>1. ~(i <= k)
      BY <1>7, <2>4
    <3>2. i - k \in 1 .. p.length - k /\ (p.offset + k) + (i - k) = p.offset + i
      BY <1>2, <2>1, <3>1
    <3>3. c[i - k] = byte(p.offset + i)
      BY <1>6, <3>2
    <3> QED
      BY <1>7, <1>8, <2>1, <2>2, <2>4, <3>3
  <2> QED
    BY <2>3, <2>4
<1>10. Len(a) = Len(b \o c)
  BY <1>2, <1>7, <1>8
<1>11. a = b \o c
  BY <1>7, <1>8, <1>9, <1>10, SeqEqual
<1> QED
  BY <1>1, <1>11 DEF IsCutAt, a, b, c, l, r

LEMMA HalvesAreStored ==
  ASSUME NEW m \in Nat, NEW n \in Nat, NEW p \in Stored(m, n), NEW k \in 1 .. p.length - 1
  PROVE  Left(p, k) \in Stored(m, n) /\ Right(p, k) \in Stored(m, n)
<1>1. p \in Piece /\ p.offset \in Nat /\ p.length \in Nat
  BY DEF Stored, Piece
<1>2. k \in 0 .. p.length
  BY <1>1
<1> DEFINE l == Left(p, k)
           r == Right(p, k)
<1>3. /\ l = [storage |-> p.storage, offset |-> p.offset, length |-> k]
      /\ r = [storage |-> p.storage, offset |-> p.offset + k, length |-> p.length - k]
      /\ l \in Piece /\ r \in Piece
  BY <1>1, <1>2, LeftAndRight
<1>4. /\ l.storage = p.storage /\ l.offset = p.offset /\ l.length = k
      /\ r.storage = p.storage /\ r.offset = p.offset + k /\ r.length = p.length - k
  BY <1>3
<1> HIDE DEF l, r
<1>5. /\ p.offset + k <= p.offset + p.length
      /\ (p.offset + k) + (p.length - k) = p.offset + p.length /\ k > 0 /\ p.length - k > 0
  BY <1>1
<1>6. /\ p.storage = "added" => p.offset + p.length <= m
      /\ p.storage = "original" => p.offset + p.length <= n
  BY DEF Stored
<1>7. l.storage = "added" => l.offset + l.length <= m
  BY <1>1, <1>4, <1>5, <1>6
<1>8. l.storage = "original" => l.offset + l.length <= n
  BY <1>1, <1>4, <1>5, <1>6
<1>9. r.storage = "added" => r.offset + r.length <= m
  BY <1>1, <1>4, <1>5, <1>6
<1>10. r.storage = "original" => r.offset + r.length <= n
  BY <1>1, <1>4, <1>5, <1>6
<1>11. l \in Stored(m, n)
  BY <1>3, <1>4, <1>5, <1>7, <1>8 DEF Stored
<1>12. r \in Stored(m, n)
  BY <1>3, <1>4, <1>5, <1>9, <1>10 DEF Stored
<1> QED
  BY <1>11, <1>12 DEF l, r

(* Two pieces made one.                                                    *)
Both(p, q) == [p EXCEPT !.length = @ + q.length]

IsJoin(p, q, m, n) ==
  /\ Both(p, q) \in Stored(m, n)
  /\ Both(p, q).storage = p.storage /\ Both(p, q).offset = p.offset
  /\ p.length \in 0 .. Both(p, q).length
  /\ Left(Both(p, q), p.length) = p /\ Right(Both(p, q), p.length) = q

LEMMA JoinedPieces ==
  ASSUME NEW m \in Nat, NEW n \in Nat, NEW p \in Stored(m, n), NEW q \in Stored(m, n), Joins(p, q)
  PROVE  IsJoin(p, q, m, n)
<1>1. /\ p \in Piece /\ p.offset \in Nat /\ p.length \in Nat /\ p.length > 0
      /\ q \in Piece /\ q.offset \in Nat /\ q.length \in Nat /\ q.length > 0
      /\ p.storage \in {"original", "added"}
  BY DEF Stored, Piece
<1>2. /\ p = [storage |-> p.storage, offset |-> p.offset, length |-> p.length]
      /\ q = [storage |-> q.storage, offset |-> q.offset, length |-> q.length]
  BY <1>1 DEF Piece
<1>3. p.storage = q.storage /\ p.offset + p.length = q.offset
  BY DEF Joins
<1> DEFINE b == Both(p, q)
<1>4. b = [storage |-> p.storage, offset |-> p.offset, length |-> p.length + q.length]
  BY <1>2 DEF Both
<1> HIDE DEF b
<1>5. b.storage = p.storage /\ b.offset = p.offset /\ b.length = p.length + q.length
  BY <1>4
<1>6. p.length + q.length \in Nat /\ p.length \in 0 .. p.length + q.length
        /\ p.length + q.length > 0 /\ (p.length + q.length) - p.length = q.length
        /\ p.offset + (p.length + q.length) = q.offset + q.length
  BY <1>1, <1>3
<1>7. b \in Piece
  BY <1>1, <1>4, <1>6 DEF Piece
<1>8. /\ q.storage = "added" => q.offset + q.length <= m
      /\ q.storage = "original" => q.offset + q.length <= n
  BY DEF Stored
<1>9. b \in Stored(m, n)
  BY <1>3, <1>5, <1>6, <1>7, <1>8 DEF Stored
<1>10. /\ Left(b, p.length) = [storage |-> b.storage, offset |-> b.offset, length |-> p.length]
       /\ Right(b, p.length) = [storage |-> b.storage, offset |-> b.offset + p.length,
                                length |-> b.length - p.length]
  BY <1>5, <1>6, <1>7, LeftAndRight
<1>11. Left(b, p.length) = p /\ Right(b, p.length) = q
  BY <1>2, <1>3, <1>5, <1>6, <1>10
<1> QED
  BY <1>5, <1>6, <1>9, <1>11 DEF IsJoin, b

-----------------------------------------------------------------------------
(* Normalize: the same text from pieces of which no two could be one.      *)

Unjoined(s) == \A i \in 2 .. Len(s) : ~Joins(s[i - 1], s[i])

Tables(m, n) == {s \in Seq(Stored(m, n)) : Unjoined(s)}

LEMMA StoredArePieces ==
  ASSUME NEW m, NEW n, NEW s \in Seq(Stored(m, n))
  PROVE  s \in Seq(Piece)
<1>1. Stored(m, n) \subseteq Piece
  BY DEF Stored
<1> QED
  BY <1>1, SeqMonotonic

LEMMA FrontAndLast ==
  ASSUME NEW S, NEW s \in Seq(S), s # <<>>
  PROVE  /\ Front(s) \in Seq(S) /\ Last(s) \in S /\ s = Append(Front(s), Last(s))
         /\ Len(s) \in Nat \ {0} /\ Len(Front(s)) = Len(s) - 1
         /\ \A i \in 1 .. Len(s) - 1 : Front(s)[i] = s[i]
<1>1. Len(s) \in Nat \ {0}
  BY EmptySeq
<1>2. 1 \in Int /\ Len(s) - 1 \in Int /\ 1 <= 1 /\ Len(s) - 1 <= Len(s) /\ Len(s) \in 1 .. Len(s)
  BY <1>1
<1> DEFINE f == SubSeq(s, 1, Len(s) - 1)
<1>3. /\ f \in Seq(S) /\ Len(f) = IF 1 <= Len(s) - 1 THEN (Len(s) - 1) - 1 + 1 ELSE 0
      /\ \A i \in 1 .. (Len(s) - 1) - 1 + 1 : f[i] = s[1 + i - 1]
  BY <1>2, SubSeqIn
<1> HIDE DEF f
<1>4. Len(f) = Len(s) - 1
  <2> DEFINE l == Len(s)
             k == Len(f)
  <2>1. l \in Nat \ {0} /\ k = IF 1 <= l - 1 THEN (l - 1) - 1 + 1 ELSE 0
    BY <1>1, <1>3
  <2> HIDE DEF l, k
  <2>2. k = l - 1
    BY <2>1
  <2> QED
    BY <2>2 DEF l, k
<1>5. ASSUME NEW i \in 1 .. Len(s) - 1 PROVE f[i] = s[i]
  <2>1. i \in 1 .. (Len(s) - 1) - 1 + 1 /\ 1 + i - 1 = i
    BY <1>1
  <2> QED
    BY <1>3, <2>1
<1>6. s[Len(s)] \in S
  BY <1>2, ElementOfSeq
<1> DEFINE t == Append(f, s[Len(s)])
<1>7. /\ t \in Seq(S) /\ Len(t) = Len(f) + 1 /\ t[Len(f) + 1] = s[Len(s)]
      /\ \A i \in 1 .. Len(f) : t[i] = f[i]
  BY <1>3, <1>6, AppendProperties
<1> HIDE DEF t
<1>8. Len(s) = Len(t)
  BY <1>1, <1>4, <1>7
<1>9. ASSUME NEW i \in 1 .. Len(s) PROVE s[i] = t[i]
  <2>1. CASE i = Len(s)
    <3>1. Len(f) + 1 = Len(s)
      BY <1>1, <1>4
    <3> QED
      BY <1>7, <2>1, <3>1
  <2>2. CASE i # Len(s)
    <3>1. i \in 1 .. Len(s) - 1 /\ i \in 1 .. Len(f)
      BY <1>1, <1>4, <2>2
    <3> QED
      BY <1>5, <1>7, <3>1
  <2> QED
    BY <2>1, <2>2
<1>10. s = t
  BY <1>7, <1>8, <1>9, SeqEqual
<1>11. Front(s) = f /\ Last(s) = s[Len(s)]
  BY DEF Front, Last, f
<1> QED
  BY <1>1, <1>3, <1>4, <1>5, <1>6, <1>10, <1>11 DEF t

AddsText(s, x, added, mapped) ==
  TextOf(AddPiece(s, x), added, mapped) = TextOf(s, added, mapped) \o PieceBytes(added, mapped, x)

LEMMA AddPieceCases ==
  ASSUME NEW m \in Nat, NEW n \in Nat, NEW s \in Seq(Stored(m, n)), NEW x \in Stored(m, n)
  PROVE  \/ AddPiece(s, x) = Append(s, x) /\ (s # <<>> => ~Joins(Last(s), x))
         \/ /\ s # <<>> /\ Joins(Last(s), x)
            /\ AddPiece(s, x) = Append(Front(s), Both(Last(s), x))
<1>1. x.length # 0
  BY DEF Stored, Piece
<1>2. CASE s # <<>> /\ Joins(Last(s), x)
  BY <1>1, <1>2 DEF AddPiece, Both
<1>3. CASE ~(s # <<>> /\ Joins(Last(s), x))
  BY <1>1, <1>3 DEF AddPiece
<1> QED
  BY <1>2, <1>3

LEMMA AddPieceIsTable ==
  ASSUME NEW m \in Nat, NEW n \in Nat, NEW s \in Tables(m, n), NEW x \in Stored(m, n)
  PROVE  AddPiece(s, x) \in Tables(m, n)
<1>1. s \in Seq(Stored(m, n)) /\ Unjoined(s) /\ Len(s) \in Nat
  BY LenProperties DEF Tables
<1>2. CASE AddPiece(s, x) = Append(s, x) /\ (s # <<>> => ~Joins(Last(s), x))
  <2> DEFINE t == Append(s, x)
  <2>1. /\ t \in Seq(Stored(m, n)) /\ Len(t) = Len(s) + 1 /\ t[Len(s) + 1] = x
        /\ \A i \in 1 .. Len(s) : t[i] = s[i]
    BY <1>1, AppendProperties
  <2> HIDE DEF t
  <2>2. ASSUME NEW i \in 2 .. Len(t) PROVE ~Joins(t[i - 1], t[i])
    <3>1. CASE i = Len(s) + 1
      <4>1. i - 1 = Len(s) /\ Len(s) \in 1 .. Len(s) /\ Len(s) # 0
        BY <1>1, <3>1
      <4>2. s # <<>>
        BY <4>1, EmptySeq
      <4>3. t[i - 1] = Last(s) /\ t[i] = x
        BY <2>1, <3>1, <4>1 DEF Last
      <4> QED
        BY <1>2, <4>2, <4>3
    <3>2. CASE i # Len(s) + 1
      <4>1. i \in 2 .. Len(s) /\ i \in 1 .. Len(s) /\ i - 1 \in 1 .. Len(s)
        BY <1>1, <2>1, <3>2
      <4> QED
        BY <1>1, <2>1, <4>1 DEF Unjoined
    <3> QED
      BY <3>1, <3>2
  <2> QED
    BY <1>2, <2>1, <2>2 DEF Tables, Unjoined, t
<1>3. CASE s # <<>> /\ Joins(Last(s), x) /\ AddPiece(s, x) = Append(Front(s), Both(Last(s), x))
  <2> DEFINE f == Front(s)
             y == Last(s)
             b == Both(y, x)
             t == Append(f, b)
  <2>1. /\ f \in Seq(Stored(m, n)) /\ y \in Stored(m, n)
        /\ Len(s) \in Nat \ {0} /\ Len(f) = Len(s) - 1
        /\ \A i \in 1 .. Len(s) - 1 : f[i] = s[i]
    BY <1>1, <1>3, FrontAndLast
  <2>2. IsJoin(y, x, m, n)
    BY <1>3, <2>1, JoinedPieces
  <2>3. b \in Stored(m, n) /\ b.storage = y.storage /\ b.offset = y.offset
    BY <2>2 DEF IsJoin
  <2>4. y = s[Len(s)]
    BY DEF Last
  <2> HIDE DEF f, y, b
  <2>5. /\ t \in Seq(Stored(m, n)) /\ Len(t) = Len(f) + 1 /\ t[Len(f) + 1] = b
        /\ \A i \in 1 .. Len(f) : t[i] = f[i]
    BY <2>1, <2>3, AppendProperties
  <2> HIDE DEF t
  <2>6. Len(t) = Len(s) /\ Len(f) + 1 = Len(s)
    BY <2>1, <2>5
  <2>7. ASSUME NEW i \in 2 .. Len(t) PROVE ~Joins(t[i - 1], t[i])
    <3>1. i \in 2 .. Len(s) /\ i - 1 \in 1 .. Len(s) - 1 /\ i - 1 \in 1 .. Len(f)
      BY <2>1, <2>6
    <3>2. t[i - 1] = s[i - 1]
      BY <2>1, <2>5, <3>1
    <3>3. ~Joins(s[i - 1], s[i])
      BY <1>1, <3>1 DEF Unjoined
    <3>4. CASE i = Len(s)
      <4>1. t[i] = b /\ s[i] = y
        BY <2>4, <2>5, <2>6, <3>4
      <4> QED
        BY <2>3, <3>2, <3>3, <4>1 DEF Joins
    <3>5. CASE i # Len(s)
      <4>1. i \in 1 .. Len(s) - 1 /\ i \in 1 .. Len(f)
        BY <2>1, <2>6, <3>1, <3>5
      <4> QED
        BY <2>1, <2>5, <3>2, <3>3, <4>1
    <3> QED
      BY <3>4, <3>5
  <2> QED
    BY <1>3, <2>5, <2>7 DEF Tables, Unjoined, t, b, f, y
<1> QED
  BY <1>1, <1>2, <1>3, AddPieceCases

LEMMA AddPieceAddsText ==
  ASSUME NEW m \in Nat, NEW n \in Nat, NEW s \in Seq(Stored(m, n)), NEW x \in Stored(m, n),
         NEW added \in Seq(Chars), NEW mapped \in Seq(Chars)
  PROVE  AddsText(s, x, added, mapped)
<1>1. s \in Seq(Piece) /\ x \in Piece
  BY StoredArePieces DEF Stored
<1>2. CASE AddPiece(s, x) = Append(s, x)
  <2>1. AppendsText(s, x, added, mapped)
    BY <1>1, TextOfAppend
  <2> QED
    BY <1>2, <2>1 DEF AddsText, AppendsText
<1>3. CASE s # <<>> /\ Joins(Last(s), x) /\ AddPiece(s, x) = Append(Front(s), Both(Last(s), x))
  <2> DEFINE f == Front(s)
             y == Last(s)
             b == Both(y, x)
  <2>1. f \in Seq(Stored(m, n)) /\ y \in Stored(m, n) /\ s = Append(f, y)
    BY <1>3, FrontAndLast
  <2>2. IsJoin(y, x, m, n)
    BY <1>3, <2>1, JoinedPieces
  <2>3. /\ b \in Stored(m, n) /\ b \in Piece /\ y \in Piece /\ f \in Seq(Piece)
        /\ y.length \in 0 .. b.length /\ Left(b, y.length) = y /\ Right(b, y.length) = x
    BY <2>1, <2>2, StoredArePieces DEF IsJoin, Stored
  <2> HIDE DEF f, y, b
  <2>4. IsCutAt(b, y.length, added, mapped)
    BY <2>3, CuttingKeepsBytes
  <2>5. AppendsText(f, b, added, mapped) /\ AppendsText(f, y, added, mapped)
    BY <2>3, TextOfAppend
  <2> DEFINE tf == TextOf(f, added, mapped)
             py == PieceBytes(added, mapped, y)
             px == PieceBytes(added, mapped, x)
  <2>6. tf \in Seq(Cells) /\ py \in Seq(Cells) /\ px \in Seq(Cells)
    BY <1>1, <2>3, TextType, BytesAreRead DEF TextIsTyped, PieceIsRead
  <2>7. TextOf(Append(f, b), added, mapped) = tf \o (py \o px)
    BY <2>3, <2>4, <2>5 DEF AppendsText, IsCutAt
  <2>8. TextOf(s, added, mapped) = tf \o py
    BY <2>1, <2>5 DEF AppendsText
  <2>9. AddPiece(s, x) = Append(f, b)
    BY <1>3 DEF f, y, b
  <2> HIDE DEF tf, py, px
  <2>10. (tf \o py) \o px = tf \o (py \o px)
    BY <2>6, ConcatAssociative, SMTT(30)
  <2> QED
    BY <2>7, <2>8, <2>9, <2>10 DEF AddsText, px
<1> QED
  BY <1>2, <1>3, AddPieceCases

Normalizing(f, s) ==
  f[0] = <<>> /\ \A k \in 1 .. Len(s) : f[k] = AddPiece(f[k - 1], s[k])

LEMMA NormalizeGrows ==
  ASSUME NEW m \in Nat, NEW n \in Nat, NEW s \in Seq(Stored(m, n))
  PROVE  \E f \in [0 .. Len(s) -> Tables(m, n)] :
           Normalizing(f, s) /\ Normalize(s) = f[Len(s)]
<1> DEFINE next(k, x) == AddPiece(x, s[k])
           IsIt(g) == g = [k \in 0 .. Len(s) |->
                             IF k = 0 THEN <<>> ELSE next(k, g[k - 1])]
           step == [p \in (1 .. Len(s)) \X Tables(m, n) |-> next(p[1], p[2])]
           h == CHOOSE g : IsIt(g)
<1>1. Len(s) \in Nat /\ <<>> \in Tables(m, n)
  <2>1. <<>> \in Seq(Stored(m, n)) /\ Len(<<>>) = 0 /\ ~(2 <= 0)
    BY EmptySeq
  <2> QED
    BY <2>1, LenProperties DEF Tables, Unjoined
<1>2. ASSUME NEW k \in 1 .. Len(s), NEW x \in Tables(m, n) PROVE next(k, x) \in Tables(m, n)
  <2>1. s[k] \in Stored(m, n)
    BY ElementOfSeq
  <2> QED
    BY <2>1, AddPieceIsTable
<1>3. Normalize(s) = h[Len(s)]
  BY DEF Normalize
<1> HIDE DEF next
<1>4. /\ step \in [(1 .. Len(s)) \X Tables(m, n) -> Tables(m, n)]
      /\ \A k \in 1 .. Len(s), x \in Tables(m, n) : step[<<k, x>>] = next(k, x)
  BY <1>2
<1> HIDE DEF step
<1>5. PICK f \in [0 .. Len(s) -> Tables(m, n)] : Recursive(f, <<>>, step, Len(s))
  BY <1>1, <1>4, Recursion
<1>6. IsIt(f)
  <2>1. ASSUME NEW k \in 0 .. Len(s)
        PROVE  f[k] = IF k = 0 THEN <<>> ELSE next(k, f[k - 1])
    <3>1. CASE k = 0
      BY <1>5, <3>1 DEF Recursive
    <3>2. CASE k # 0
      <4>1. k \in 1 .. Len(s) /\ k - 1 \in 0 .. Len(s)
        BY <1>1, <3>2
      <4>2. f[k - 1] \in Tables(m, n) /\ f[k] = step[<<k, f[k - 1]>>]
        BY <1>5, <4>1 DEF Recursive
      <4> QED
        BY <1>4, <3>2, <4>1, <4>2, Zenon
    <3> QED
      BY <3>1, <3>2
  <2> QED
    BY <2>1
<1>7. IsIt(h)
  <2> HIDE DEF IsIt
  <2> QED
    BY <1>6, Zenon
<1> HIDE DEF h
<1>8. h = [k \in 0 .. Len(s) |-> h[k]] /\ h[0] = <<>>
  BY <1>1, <1>7
<1>9. ASSUME NEW k \in 1 .. Len(s) PROVE h[k] = next(k, h[k - 1])
  <2>1. k \in 0 .. Len(s) /\ k # 0
    BY <1>1
  <2> QED
    BY <1>7, <2>1
<1> HIDE DEF IsIt
<1>10. StepsFrom(h, <<>>, step, Len(s), Tables(m, n))
  BY <1>4, <1>8, <1>9 DEF StepsFrom
<1>11. h \in [0 .. Len(s) -> Tables(m, n)]
  BY <1>1, <1>4, <1>10, RecursionStays
<1>12. Normalizing(h, s)
  BY <1>8, <1>9 DEF Normalizing, next
<1> QED
  BY <1>3, <1>11, <1>12

IsNormal(s, m, n) == Normalize(s) \in Tables(m, n) /\ Length(Normalize(s)) = Length(s)

NormalizeKeeps(s, added, mapped) ==
  TextOf(Normalize(s), added, mapped) = TextOf(s, added, mapped)

LEMMA NormalizeKeepsText ==
  ASSUME NEW m \in Nat, NEW n \in Nat, NEW s \in Seq(Stored(m, n)),
         NEW added \in Seq(Chars), NEW mapped \in Seq(Chars)
  PROVE  NormalizeKeeps(s, added, mapped)
<1>1. PICK f \in [0 .. Len(s) -> Tables(m, n)] : Normalizing(f, s) /\ Normalize(s) = f[Len(s)]
  BY NormalizeGrows
<1>2. s \in Seq(Piece) /\ Len(s) \in Nat
  BY StoredArePieces, LenProperties
<1>3. PICK g \in [0 .. Len(s) -> Seq(Cells)] :
        Reads(g, s, added, mapped) /\ TextOf(s, added, mapped) = g[Len(s)]
  BY <1>2, TextGrows
<1> DEFINE T == {k \in Nat : k <= Len(s) => TextOf(f[k], added, mapped) = g[k]}
<1>4. 0 \in T
  BY <1>1, <1>3, TextOfNone DEF Normalizing, Reads
<1>5. ASSUME NEW k \in Nat, k \in T PROVE k + 1 \in T
  <2>1. SUFFICES ASSUME k + 1 <= Len(s) PROVE TextOf(f[k + 1], added, mapped) = g[k + 1]
    OBVIOUS
  <2>2. k + 1 \in 1 .. Len(s) /\ (k + 1) - 1 = k /\ k <= Len(s) /\ k \in 0 .. Len(s)
    BY <1>2, <2>1
  <2>3. TextOf(f[k], added, mapped) = g[k]
    BY <1>5, <2>2
  <2>4. f[k + 1] = AddPiece(f[k], s[k + 1])
    BY <1>1, <2>2 DEF Normalizing
  <2>5. g[k + 1] = g[k] \o PieceBytes(added, mapped, s[k + 1])
    BY <1>3, <2>2 DEF Reads
  <2>6. f[k] \in Seq(Stored(m, n)) /\ s[k + 1] \in Stored(m, n)
    BY <2>2, ElementOfSeq DEF Tables
  <2>7. AddsText(f[k], s[k + 1], added, mapped)
    BY <2>6, AddPieceAddsText
  <2> QED
    BY <2>3, <2>4, <2>5, <2>7 DEF AddsText
<1>6. Nat \subseteq T
  <2> HIDE DEF T
  <2> QED
    BY <1>4, <1>5, Induction
<1>7. Len(s) \in T
  BY <1>2, <1>6, Zenon
<1>8. TextOf(f[Len(s)], added, mapped) = g[Len(s)]
  BY <1>2, <1>7
<1> QED
  BY <1>1, <1>3, <1>8 DEF NormalizeKeeps

LEMMA NormalizeIsNormal ==
  ASSUME NEW m \in Nat, NEW n \in Nat, NEW s \in Seq(Stored(m, n))
  PROVE  IsNormal(s, m, n)
<1>1. PICK f \in [0 .. Len(s) -> Tables(m, n)] : Normalizing(f, s) /\ Normalize(s) = f[Len(s)]
  BY NormalizeGrows
<1>2. Len(s) \in 0 .. Len(s)
  BY LenProperties
<1>3. Normalize(s) \in Tables(m, n)
  BY <1>1, <1>2
<1>4. s \in Seq(Piece) /\ Normalize(s) \in Seq(Piece) /\ <<>> \in Seq(Chars)
  BY <1>3, StoredArePieces, EmptySeq DEF Tables
<1>5. TextIsTyped(s, <<>>, <<>>) /\ TextIsTyped(Normalize(s), <<>>, <<>>)
  BY <1>4, TextType
<1>6. NormalizeKeeps(s, <<>>, <<>>)
  BY <1>4, NormalizeKeepsText
<1> QED
  BY <1>3, <1>5, <1>6 DEF IsNormal, NormalizeKeeps, TextIsTyped

-----------------------------------------------------------------------------
(* SplitAt: where pieces end, and the cut that makes one end at an offset. *)

LEMMA EndsIncrease ==
  ASSUME NEW m, NEW n, NEW s \in Seq(Stored(m, n)), NEW i \in 0 .. Len(s)
  PROVE  \A j \in i + 1 .. Len(s) : Ends(s)[i] < Ends(s)[j]
<1> DEFINE f == Ends(s)
           T == {d \in Nat : i + (d + 1) <= Len(s) => f[i] < f[i + (d + 1)]}
<1>1. s \in Seq(Piece) /\ Len(s) \in Nat
  BY StoredArePieces, LenProperties
<1>2. f \in [0 .. Len(s) -> Nat] /\ SumsUp(f, s)
  BY <1>1, EndsGrow
<1> HIDE DEF f
<1>3. ASSUME NEW j \in 0 .. Len(s), j + 1 <= Len(s) PROVE f[j] < f[j + 1] /\ f[j] \in Nat
  <2>1. j + 1 \in 1 .. Len(s) /\ (j + 1) - 1 = j
    BY <1>1, <1>3
  <2>2. f[j + 1] = f[j] + s[j + 1].length
    BY <1>2, <2>1 DEF SumsUp
  <2>3. s[j + 1] \in Stored(m, n)
    BY <2>1, ElementOfSeq
  <2>4. s[j + 1].length \in Nat /\ s[j + 1].length > 0
    BY <2>3 DEF Stored, Piece
  <2>5. f[j] \in Nat
    BY <1>2
  <2> QED
    BY <2>2, <2>4, <2>5
<1>4. 0 \in T
  BY <1>1, <1>3
<1>5. ASSUME NEW d \in Nat, d \in T PROVE d + 1 \in T
  <2>1. SUFFICES ASSUME i + ((d + 1) + 1) <= Len(s) PROVE f[i] < f[i + ((d + 1) + 1)]
    OBVIOUS
  <2>2. /\ i + (d + 1) <= Len(s) /\ i + (d + 1) \in 0 .. Len(s)
        /\ i + ((d + 1) + 1) = (i + (d + 1)) + 1 /\ (i + (d + 1)) + 1 <= Len(s)
    BY <1>1, <2>1
  <2>3. f[i] < f[i + (d + 1)]
    BY <1>5, <2>2
  <2>4. f[i + (d + 1)] < f[(i + (d + 1)) + 1]
    BY <1>3, <2>2
  <2>5. f[i] \in Nat /\ f[i + (d + 1)] \in Nat /\ f[(i + (d + 1)) + 1] \in Nat
    <3>1. (i + (d + 1)) + 1 \in 0 .. Len(s)
      BY <2>2
    <3> QED
      BY <1>2, <2>2, <3>1
  <2> QED
    BY <2>2, <2>3, <2>4, <2>5
<1>6. ASSUME NEW j \in i + 1 .. Len(s) PROVE f[i] < f[j]
  <2>1. (j - i) - 1 \in Nat /\ i + (((j - i) - 1) + 1) = j /\ j <= Len(s)
    BY <1>1
  <2>2. (j - i) - 1 \in T
    <3> HIDE DEF T
    <3> QED
      BY <1>4, <1>5, <2>1, Induction
  <2> QED
    BY <2>1, <2>2
<1> QED
  BY <1>6 DEF f

(* Pieces that end at an offset, which it splits in two.                   *)
HasCut(s, k, m, n) ==
  \E u, w \in Seq(Stored(m, n)) : s = u \o w /\ Length(u) = k

LEMMA ConcatBegins ==
  ASSUME NEW S, NEW u \in Seq(S), NEW w \in Seq(S)
  PROVE  Begins(u, u \o w) /\ u \o w \in Seq(S) /\ Len(u \o w) = Len(u) + Len(w)
<1>1. Len(u) \in Nat /\ Len(w) \in Nat
  BY LenProperties
<1>2. /\ u \o w \in Seq(S) /\ Len(u \o w) = Len(u) + Len(w)
      /\ \A i \in 1 .. Len(u) + Len(w) : (u \o w)[i] = IF i <= Len(u) THEN u[i] ELSE w[i - Len(u)]
  BY ConcatProperties
<1>3. ASSUME NEW i \in 1 .. Len(u) PROVE (u \o w)[i] = u[i]
  <2>1. i \in 1 .. Len(u) + Len(w) /\ i <= Len(u)
    BY <1>1
  <2> QED
    BY <1>2, <2>1
<1>4. Len(u) <= Len(u \o w)
  BY <1>1, <1>2
<1> QED
  BY <1>2, <1>3, <1>4 DEF Begins

LEMMA IndexOfCut ==
  ASSUME NEW m, NEW n, NEW u \in Seq(Stored(m, n)), NEW w \in Seq(Stored(m, n))
  PROVE  IndexAt(u \o w, Length(u)) = Len(u) + 1
<1> DEFINE s == u \o w
           k == Len(u)
           f == Ends(s)
           P(i) == Start(s, i) = Length(u) /\ \A j \in 1 .. i - 1 : Start(s, j) # Length(u)
<1>1. Begins(u, s) /\ s \in Seq(Stored(m, n)) /\ Len(s) = Len(u) + Len(w)
  BY ConcatBegins
<1>2. u \in Seq(Piece) /\ s \in Seq(Piece) /\ Len(u) \in Nat /\ Len(w) \in Nat
  BY <1>1, StoredArePieces, LenProperties
<1>3. f[k] = Length(u)
  <2>1. k \in 0 .. Len(u)
    BY <1>2
  <2> HIDE DEF s
  <2>2. Ends(s)[k] = Ends(u)[k]
    BY <1>1, <1>2, <2>1, EndsOfBeginning
  <2> QED
    BY <2>2 DEF Length
<1>4. f \in [0 .. Len(s) -> Nat]
  BY <1>2, EndsGrow
<1> HIDE DEF s
<1>5. ASSUME NEW i \in 0 .. Len(s), NEW j \in 0 .. Len(s), i < j PROVE f[i] < f[j]
  <2>1. j \in i + 1 .. Len(s)
    BY <1>5
  <2> QED
    BY <1>1, <2>1, EndsIncrease
<1> HIDE DEF f, k
<1>6. k \in 0 .. Len(s) /\ Len(s) \in 0 .. Len(s) /\ Len(s) \in Nat /\ k \in Nat
  BY <1>1, <1>2 DEF k
<1>7. ASSUME NEW i \in 0 .. Len(s), f[i] = Length(u) PROVE i = k
  <2>1. f[i] \in Nat /\ f[k] \in Nat
    BY <1>4, <1>6
  <2>2. ~(i < k) /\ ~(k < i)
    BY <1>3, <1>5, <1>6, <1>7, <2>1
  <2> QED
    BY <1>6, <2>2
<1>8. Length(s) = f[Len(s)]
  BY DEF Length, f
<1>9. CASE Length(u) = Length(s)
  <2>1. Len(s) = k
    BY <1>6, <1>7, <1>8, <1>9
  <2> QED
    BY <1>9, <2>1 DEF IndexAt, s, k
<1>10. CASE Length(u) # Length(s)
  <2>1. k # Len(s)
    BY <1>3, <1>8, <1>10
  <2>2. k + 1 \in DOMAIN s /\ DOMAIN s = 1 .. Len(s) /\ (k + 1) - 1 = k
    BY <1>1, <1>6, <2>1, LenProperties
  <2>3. Start(s, k + 1) = Length(u)
    BY <1>3, <2>2 DEF Start, f
  <2>4. ASSUME NEW i \in DOMAIN s, Start(s, i) = Length(u) PROVE i = k + 1
    <3>1. i - 1 \in 0 .. Len(s) /\ f[i - 1] = Length(u)
      BY <2>2, <2>4 DEF Start, f
    <3>2. i - 1 = k
      BY <1>7, <3>1
    <3> QED
      BY <1>6, <2>2, <3>2
  <2>5. ASSUME NEW j \in 1 .. (k + 1) - 1 PROVE Start(s, j) # Length(u)
    <3>1. j \in DOMAIN s /\ j # k + 1
      BY <1>6, <2>2
    <3> QED
      BY <2>4, <3>1
  <2>6. P(k + 1)
    BY <2>3, <2>5
  <2>7. IndexAt(s, Length(u)) = CHOOSE i \in DOMAIN s : P(i)
    BY <1>10 DEF IndexAt
  <2> DEFINE c == CHOOSE i \in DOMAIN s : P(i)
  <2>8. c \in DOMAIN s /\ P(c)
    <3> HIDE DEF P
    <3> QED
      BY <2>2, <2>6, Zenon
  <2>9. c = k + 1
    <3>1. Start(s, c) = Length(u)
      BY <2>8
    <3> HIDE DEF c
    <3> QED
      BY <2>4, <2>8, <3>1
  <2> QED
    BY <2>7, <2>9 DEF s, k
<1> QED
  BY <1>9, <1>10

(* Two ways to split the same.                                             *)
Extends(a, u, w, z, S) == \E v \in Seq(S) : a = u \o v /\ w = v \o z

LEMMA SplitsMeet ==
  ASSUME NEW S, NEW u \in Seq(S), NEW w \in Seq(S), NEW a \in Seq(S), NEW z \in Seq(S),
         u \o w = a \o z, Len(u) <= Len(a)
  PROVE  Extends(a, u, w, z, S)
<1> DEFINE k == Len(u)
           v == SubSeq(a, k + 1, Len(a))
           h == SubSeq(a, 1, k)
<1>1. k \in 0 .. Len(a)
  BY LenProperties
<1>2. h \in Seq(S) /\ Len(h) = k /\ v \in Seq(S) /\ a = h \o v
  BY <1>1, SplitsAt
<1> HIDE DEF v, h
<1>3. v \o z \in Seq(S)
  BY <1>2, ConcatProperties
<1>4. a \o z = h \o (v \o z)
  <2>1. (h \o v) \o z = h \o (v \o z)
    BY <1>2, ConcatAssociative
  <2> QED
    BY <1>2, <2>1
<1> DEFINE s == u \o w
<1>5. SubSeq(s, 1, Len(u)) = u /\ SubSeq(s, Len(u) + 1, Len(s)) = w
  BY PrefixAndRest
<1>6. SubSeq(h \o (v \o z), 1, Len(h)) = h
        /\ SubSeq(h \o (v \o z), Len(h) + 1, Len(h \o (v \o z))) = v \o z
  BY <1>2, <1>3, PrefixAndRest
<1>7. s = h \o (v \o z)
  BY <1>4
<1> HIDE DEF s
<1>8. u = h /\ w = v \o z
  BY <1>2, <1>5, <1>6, <1>7
<1> QED
  BY <1>2, <1>8 DEF Extends

(* A piece is split in two.                                                *)
SplitPiece(s, c, k, m, n) ==
  \E a, b \in Seq(Stored(m, n)), x \in Stored(m, n) :
    \E d \in 1 .. x.length - 1 :
      /\ s = (a \o <<x>>) \o b
      /\ c = (a \o <<Left(x, d), Right(x, d)>>) \o b
      /\ k = Length(a) + d

Associates(s, t, u) == (s \o t) \o u = s \o (t \o u)

LEMMA Association ==
  ASSUME NEW S, NEW s \in Seq(S), NEW t \in Seq(S), NEW u \in Seq(S)
  PROVE  Associates(s, t, u)
<1>1. (s \o t) \o u = s \o (t \o u)
  BY ConcatAssociative
<1> QED
  BY <1>1 DEF Associates

LEMMA Pair ==
  ASSUME NEW S, NEW l \in S, NEW r \in S
  PROVE  /\ <<l, r>> = <<l>> \o <<r>> /\ <<l, r>> = Append(<<l>>, r)
         /\ <<l>> \in Seq(S) /\ <<r>> \in Seq(S) /\ <<l, r>> \in Seq(S)
<1> DEFINE a == <<l>>
           b == <<r>>
           c == <<l, r>>
<1>1. /\ a \in Seq(S) /\ b \in Seq(S) /\ Len(a) = 1 /\ Len(b) = 1
      /\ c \in Seq(S) /\ Len(c) = 2
  OBVIOUS
<1>2. a[1] = l /\ b[1] = r /\ c[1] = l /\ c[2] = r
  OBVIOUS
<1> HIDE DEF a, b, c
<1>3. a \o b \in Seq(S) /\ Len(a \o b) = 2 /\ (a \o b)[1] = l /\ (a \o b)[2] = r
  BY <1>1, <1>2, ConcatProperties
<1>4. \A i \in 1 .. Len(c) : c[i] = (a \o b)[i]
  BY <1>1, <1>2, <1>3
<1>5. c = a \o b
  BY <1>1, <1>3, <1>4, SeqEqual
<1>6. Append(a, r) = a \o b
  BY <1>1, AppendIsConcat DEF b
<1> QED
  BY <1>1, <1>5, <1>6 DEF a, b, c

LEMMA ElementBetween ==
  ASSUME NEW S, NEW s \in Seq(S), NEW i \in 1 .. Len(s)
  PROVE  /\ SubSeq(s, 1, i - 1) \in Seq(S) /\ Len(SubSeq(s, 1, i - 1)) = i - 1
         /\ SubSeq(s, i + 1, Len(s)) \in Seq(S) /\ s[i] \in S
         /\ s = (SubSeq(s, 1, i - 1) \o <<s[i]>>) \o SubSeq(s, i + 1, Len(s))
<1>1. Len(s) \in Nat /\ i \in 0 .. Len(s) /\ i - 1 \in 0 .. Len(s)
  BY LenProperties
<1>2. /\ SubSeq(s, 1, i) \in Seq(S) /\ Len(SubSeq(s, 1, i)) = i
      /\ SubSeq(s, i + 1, Len(s)) \in Seq(S)
      /\ s = SubSeq(s, 1, i) \o SubSeq(s, i + 1, Len(s))
  BY <1>1, SplitsAt
<1>3. SubSeq(s, 1, i - 1) \in Seq(S) /\ Len(SubSeq(s, 1, i - 1)) = i - 1
  BY <1>1, SplitsAt
<1>4. SubSeq(s, 1, i) = SubSeq(s, 1, i - 1) \o <<s[i]>>
  <2>1. 1 \in 1 .. Len(s) /\ i \in 1 .. Len(s)
    BY <1>1
  <2> QED
    BY <2>1, SubSeqRecursiveSecond
<1>5. s[i] \in S
  BY ElementOfSeq
<1> QED
  BY <1>2, <1>3, <1>4, <1>5

LEMMA CutSplits ==
  ASSUME NEW m \in Nat, NEW n \in Nat, NEW s \in Seq(Stored(m, n)), NEW k \in 0 .. Length(s)
  PROVE  \/ SplitPiece(s, Cut(s, k), k, m, n)
         \/ Cut(s, k) = s /\ HasCut(s, k, m, n)
<1> DEFINE inside(i) == Start(s, i) < k /\ k < Start(s, i) + s[i].length
           f == Ends(s)
<1>1. s \in Seq(Piece) /\ Len(s) \in Nat /\ DOMAIN s = 1 .. Len(s)
  BY StoredArePieces, LenProperties
<1>2. f \in [0 .. Len(s) -> Nat] /\ SumsUp(f, s)
  BY <1>1, EndsGrow
<1>3. CASE \E i \in DOMAIN s : inside(i)
  <2> DEFINE i == CHOOSE j \in DOMAIN s : inside(j)
             a == SubSeq(s, 1, i - 1)
             b == SubSeq(s, i + 1, Len(s))
             x == s[i]
             d == k - Start(s, i)
  <2>1. i \in DOMAIN s /\ inside(i)
    <3> HIDE DEF inside
    <3> QED
      BY <1>3, Zenon
  <2>2. Cut(s, k) = (a \o <<Left(x, d), Right(x, d)>>) \o b
    BY <1>3 DEF Cut
  <2> HIDE DEF i
  <2>3. i \in 1 .. Len(s)
    BY <1>1, <2>1
  <2>4. /\ a \in Seq(Stored(m, n)) /\ Len(a) = i - 1 /\ b \in Seq(Stored(m, n))
        /\ x \in Stored(m, n) /\ s = (a \o <<x>>) \o b
    BY <2>3, ElementBetween
  <2>5. Start(s, i) = Length(a)
    <3>1. a \in Seq(Piece) /\ <<x>> \o b \in Seq(Stored(m, n)) /\ <<x>> \in Seq(Stored(m, n))
      <4>1. <<x>> \in Seq(Stored(m, n))
        BY <2>4
      <4> QED
        BY <2>4, <4>1, StoredArePieces, ConcatProperties
    <3>2. s = a \o (<<x>> \o b)
      <4>1. (a \o <<x>>) \o b = a \o (<<x>> \o b)
        <5>1. Associates(a, <<x>>, b)
          BY <2>4, <3>1, Association
        <5> QED
          BY <5>1 DEF Associates
      <4> QED
        BY <2>4, <4>1, Zenon
    <3>3. Begins(a, a \o (<<x>> \o b))
      BY <2>4, <3>1, ConcatBegins
    <3> HIDE DEF a
    <3>4. Begins(a, s)
      BY <3>2, <3>3, Zenon
    <3>5. Len(a) \in 0 .. Len(a)
      BY <3>1, LenProperties
    <3>6. Ends(s)[Len(a)] = Ends(a)[Len(a)]
      BY <1>1, <3>1, <3>4, <3>5, EndsOfBeginning
    <3> QED
      BY <2>4, <3>6 DEF Start, Length
  <2>6. d \in 1 .. x.length - 1 /\ k = Length(a) + d
    <3>1. x.length \in Nat
      BY <2>4 DEF Stored, Piece
    <3>2. Length(a) \in Nat /\ k \in Int
      <4>1. a \in Seq(Piece)
        BY <2>4, StoredArePieces
      <4>2. Length(a) \in Nat /\ Length(s) \in Nat
        BY <1>1, <4>1, LengthType
      <4> QED
        BY <4>2
    <3>3. Length(a) < k /\ k < Length(a) + x.length
      BY <2>1, <2>5
    <3> HIDE DEF a, x
    <3> QED
      BY <2>5, <3>1, <3>2, <3>3
  <2> HIDE DEF a, b, x, d
  <2> QED
    BY <2>2, <2>4, <2>6 DEF SplitPiece
<1>4. CASE ~\E i \in DOMAIN s : inside(i)
  <2>1. Cut(s, k) = s
    BY <1>4 DEF Cut
  <2> HIDE DEF f
  <2> DEFINE T == {j \in Nat : j <= Len(s) /\ f[j] > k => \E i \in 0 .. Len(s) : f[i] = k}
  <2>2. 0 \in T
    <3>1. f[0] = 0 /\ k \in Nat
      BY <1>2 DEF SumsUp
    <3> QED
      BY <3>1
  <2>3. ASSUME NEW j \in Nat, j \in T PROVE j + 1 \in T
    <3>1. SUFFICES ASSUME j + 1 <= Len(s), f[j + 1] > k
                   PROVE  \E i \in 0 .. Len(s) : f[i] = k
      OBVIOUS
    <3>2. j + 1 \in 1 .. Len(s) /\ (j + 1) - 1 = j /\ j \in 0 .. Len(s) /\ j <= Len(s)
      BY <1>1, <3>1
    <3>3. f[j + 1] = f[j] + s[j + 1].length /\ f[j] \in Nat /\ k \in Int
      <4>1. Length(s) \in Nat
        BY <1>1, LengthType
      <4> QED
        BY <1>2, <3>2, <4>1 DEF SumsUp
    <3>4. CASE f[j] > k
      BY <2>3, <3>2, <3>4
    <3>5. CASE f[j] < k
      <4>1. inside(j + 1)
        BY <3>1, <3>2, <3>3, <3>5 DEF Start, f
      <4> QED
        BY <1>1, <1>4, <3>2, <4>1
    <3>6. CASE f[j] = k
      BY <3>2, <3>6
    <3> QED
      BY <3>3, <3>4, <3>5, <3>6
  <2>4. \E i \in 0 .. Len(s) : f[i] = k
    <3>1. Len(s) \in T
      <4> HIDE DEF T
      <4> QED
        BY <1>1, <2>2, <2>3, Induction
    <3>2. f[Len(s)] = Length(s) /\ Len(s) \in 0 .. Len(s)
      BY <1>1 DEF Length, f
    <3>3. f[Len(s)] \in Nat /\ k \in Int
      BY <1>2, <3>2
    <3>4. CASE f[Len(s)] > k
      BY <3>1, <3>2, <3>4
    <3>5. CASE ~(f[Len(s)] > k)
      <4>1. f[Len(s)] = k
        BY <3>2, <3>3, <3>5
      <4> QED
        BY <3>2, <4>1
    <3> QED
      BY <3>4, <3>5
  <2>5. PICK i \in 0 .. Len(s) : f[i] = k
    BY <2>4
  <2> DEFINE u == SubSeq(s, 1, i)
             w == SubSeq(s, i + 1, Len(s))
  <2>6. u \in Seq(Stored(m, n)) /\ Len(u) = i /\ w \in Seq(Stored(m, n)) /\ s = u \o w
    BY SplitsAt
  <2> HIDE DEF u, w
  <2>7. Length(u) = k
    <3>1. Begins(u, s)
      <4>1. Begins(u, u \o w)
        BY <2>6, ConcatBegins
      <4> QED
        BY <2>6, <4>1, Zenon
    <3>2. u \in Seq(Piece) /\ Len(u) \in 0 .. Len(u)
      BY <2>6, StoredArePieces, LenProperties
    <3>3. Ends(s)[Len(u)] = Ends(u)[Len(u)]
      BY <1>1, <3>1, <3>2, EndsOfBeginning
    <3> QED
      BY <2>5, <2>6, <3>3 DEF Length, f
  <2> QED
    BY <2>1, <2>6, <2>7 DEF HasCut
<1> QED
  BY <1>3, <1>4

LEMMA OnePiece ==
  ASSUME NEW x \in Piece, NEW added \in Seq(Chars), NEW mapped \in Seq(Chars)
  PROVE  /\ TextOf(<<x>>, added, mapped) = PieceBytes(added, mapped, x)
         /\ Length(<<x>>) = x.length
<1>1. <<>> \in Seq(Piece) /\ Append(<<>>, x) = <<x>>
  BY EmptySeq
<1>2. AppendsText(<<>>, x, added, mapped) /\ TextOf(<<>>, added, mapped) = <<>>
  BY <1>1, TextOfAppend, TextOfNone
<1>3. PieceBytes(added, mapped, x) \in Seq(Cells)
  BY BytesAreRead DEF PieceIsRead
<1>4. <<>> \o PieceBytes(added, mapped, x) = PieceBytes(added, mapped, x)
  BY <1>3, ConcatEmptySeq
<1>5. Length(Append(<<>>, x)) = Length(<<>>) + x.length /\ Length(<<>>) = 0
  BY <1>1, LengthOfAppend, LengthType
<1>6. x.length \in Nat
  BY DEF Piece
<1>7. TextOf(Append(<<>>, x), added, mapped) = <<>> \o PieceBytes(added, mapped, x)
  BY <1>2, Zenon DEF AppendsText
<1>8. Length(Append(<<>>, x)) = x.length
  BY <1>5, <1>6
<1> QED
  BY <1>1, <1>4, <1>7, <1>8, Zenon

TwoAreOne(x, d, added, mapped) ==
  /\ TextOf(<<Left(x, d), Right(x, d)>>, added, mapped) = TextOf(<<x>>, added, mapped)
  /\ Length(<<Left(x, d), Right(x, d)>>) = x.length
  /\ Length(<<Left(x, d)>>) = d

LEMMA TwoPieces ==
  ASSUME NEW x \in Piece, NEW d \in 0 .. x.length,
         NEW added \in Seq(Chars), NEW mapped \in Seq(Chars)
  PROVE  TwoAreOne(x, d, added, mapped)
<1> DEFINE l == Left(x, d)
           r == Right(x, d)
<1>1. /\ l = [storage |-> x.storage, offset |-> x.offset, length |-> d]
      /\ r = [storage |-> x.storage, offset |-> x.offset + d, length |-> x.length - d]
      /\ l \in Piece /\ r \in Piece
  BY LeftAndRight
<1>2. l.length = d /\ r.length = x.length - d
  BY <1>1
<1>3. IsCutAt(x, d, added, mapped)
  BY CuttingKeepsBytes
<1>4. PieceBytes(added, mapped, x) = PieceBytes(added, mapped, l) \o PieceBytes(added, mapped, r)
  BY <1>3 DEF IsCutAt
<1> HIDE DEF l, r
<1>5. <<l>> \in Seq(Piece) /\ Append(<<l>>, r) = <<l, r>>
  BY <1>1, Pair
<1>6. AppendsText(<<l>>, r, added, mapped) /\ Length(Append(<<l>>, r)) = Length(<<l>>) + r.length
  BY <1>1, <1>5, TextOfAppend, LengthOfAppend
<1>7. /\ TextOf(<<l>>, added, mapped) = PieceBytes(added, mapped, l) /\ Length(<<l>>) = l.length
      /\ TextOf(<<x>>, added, mapped) = PieceBytes(added, mapped, x)
  BY <1>1, OnePiece
<1>8. TextOf(<<l, r>>, added, mapped) = TextOf(<<x>>, added, mapped)
  BY <1>4, <1>5, <1>6, <1>7 DEF AppendsText
<1>9. Length(<<l, r>>) = x.length
  <2>1. x.length \in Nat /\ d \in Nat
    BY DEF Piece
  <2>2. Length(Append(<<l>>, r)) = d + (x.length - d)
    BY <1>2, <1>6, <1>7
  <2>3. d + (x.length - d) = x.length
    BY <2>1
  <2> QED
    BY <1>5, <2>2, <2>3, Zenon
<1> QED
  BY <1>2, <1>7, <1>8, <1>9 DEF TwoAreOne, l, r

(* A piece between others, replaced by what gives the same text.           *)
Between(a, y, b, added, mapped) ==
  /\ TextOf((a \o y) \o b, added, mapped)
       = (TextOf(a, added, mapped) \o TextOf(y, added, mapped)) \o TextOf(b, added, mapped)
  /\ Length((a \o y) \o b) = (Length(a) + Length(y)) + Length(b)

LEMMA TextOfThree ==
  ASSUME NEW a \in Seq(Piece), NEW y \in Seq(Piece), NEW b \in Seq(Piece),
         NEW added \in Seq(Chars), NEW mapped \in Seq(Chars)
  PROVE  Between(a, y, b, added, mapped)
<1>1. a \o y \in Seq(Piece)
  BY ConcatProperties
<1>2. JoinsText(a, y, added, mapped) /\ JoinsText(a \o y, b, added, mapped)
  BY <1>1, TextOfConcat
<1>3. Length(a \o y) = Length(a) + Length(y)
        /\ Length((a \o y) \o b) = Length(a \o y) + Length(b)
  BY <1>1, LengthOfConcat
<1> QED
  BY <1>2, <1>3 DEF Between, JoinsText

SplitKeeps(s, c, added, mapped) ==
  TextOf(c, added, mapped) = TextOf(s, added, mapped) /\ Length(c) = Length(s)

LEMMA SplitKeepsText ==
  ASSUME NEW m \in Nat, NEW n \in Nat, NEW s, NEW c, NEW k, SplitPiece(s, c, k, m, n),
         NEW added \in Seq(Chars), NEW mapped \in Seq(Chars)
  PROVE  SplitKeeps(s, c, added, mapped)
<1>1. PICK a \in Seq(Stored(m, n)), b \in Seq(Stored(m, n)), x \in Stored(m, n) :
        \E d \in 1 .. x.length - 1 :
          /\ s = (a \o <<x>>) \o b
          /\ c = (a \o <<Left(x, d), Right(x, d)>>) \o b
          /\ k = Length(a) + d
  BY DEF SplitPiece
<1>2. PICK d \in 1 .. x.length - 1 :
          /\ s = (a \o <<x>>) \o b
          /\ c = (a \o <<Left(x, d), Right(x, d)>>) \o b
          /\ k = Length(a) + d
  BY <1>1
<1>3. x \in Piece /\ a \in Seq(Piece) /\ b \in Seq(Piece) /\ x.length \in Nat
  BY StoredArePieces DEF Stored, Piece
<1>4. d \in 0 .. x.length
  BY <1>3
<1> DEFINE two == <<Left(x, d), Right(x, d)>>
<1>5. <<x>> \in Seq(Piece) /\ two \in Seq(Piece)
  BY <1>3, <1>4, LeftAndRight
<1>6. TwoAreOne(x, d, added, mapped)
  BY <1>3, <1>4, TwoPieces
<1>7. TextOf(two, added, mapped) = TextOf(<<x>>, added, mapped) /\ Length(two) = x.length
  BY <1>6 DEF TwoAreOne
<1>8. Length(<<x>>) = x.length
  BY <1>3, OnePiece
<1>9. c = (a \o two) \o b
  BY <1>2
<1> HIDE DEF two
<1>10. Between(a, two, b, added, mapped) /\ Between(a, <<x>>, b, added, mapped)
  BY <1>3, <1>5, TextOfThree
<1>11. TextOf((a \o two) \o b, added, mapped) = TextOf((a \o <<x>>) \o b, added, mapped)
         /\ Length((a \o two) \o b) = Length((a \o <<x>>) \o b)
  BY <1>7, <1>8, <1>10, Zenon DEF Between
<1> QED
  BY <1>2, <1>9, <1>11, Zenon DEF SplitKeeps

LEMMA SplitHasCut ==
  ASSUME NEW m \in Nat, NEW n \in Nat, NEW s, NEW c, NEW k, SplitPiece(s, c, k, m, n)
  PROVE  c \in Seq(Stored(m, n)) /\ HasCut(c, k, m, n)
<1>1. PICK a \in Seq(Stored(m, n)), b \in Seq(Stored(m, n)), x \in Stored(m, n) :
        \E d \in 1 .. x.length - 1 :
          /\ s = (a \o <<x>>) \o b
          /\ c = (a \o <<Left(x, d), Right(x, d)>>) \o b
          /\ k = Length(a) + d
  BY DEF SplitPiece
<1>2. PICK d \in 1 .. x.length - 1 :
          /\ s = (a \o <<x>>) \o b
          /\ c = (a \o <<Left(x, d), Right(x, d)>>) \o b
          /\ k = Length(a) + d
  BY <1>1
<1> DEFINE l == Left(x, d)
           r == Right(x, d)
           P == Seq(Stored(m, n))
<1>3. l \in Stored(m, n) /\ r \in Stored(m, n)
  BY HalvesAreStored
<1>4. x \in Piece /\ x.length \in Nat /\ d \in 0 .. x.length
  BY DEF Stored, Piece
<1>5. <<>> \in Seq(Chars)
  BY EmptySeq
<1>6. TwoAreOne(x, d, <<>>, <<>>)
  BY <1>4, <1>5, TwoPieces
<1>7. Length(<<l>>) = d
  BY <1>6 DEF TwoAreOne
<1>8. c = (a \o <<l, r>>) \o b
  BY <1>2
<1> HIDE DEF l, r
<1>9. <<l>> \in P /\ <<r>> \in P /\ <<l, r>> = <<l>> \o <<r>>
  BY <1>3, Pair
<1> HIDE DEF P
<1>10. a \in P /\ b \in P
  BY DEF P
<1> DEFINE u == a \o <<l>>
           w == <<r>> \o b
<1>11. u \in P /\ w \in P /\ u \o w \in P
  BY <1>9, <1>10, ConcatProperties DEF P
<1>12. (a \o (<<l>> \o <<r>>)) \o b = u \o w
  <2>1. a \o (<<l>> \o <<r>>) = u \o <<r>>
    <3>1. Associates(a, <<l>>, <<r>>)
      BY <1>9, <1>10, Association DEF P
    <3> QED
      BY <3>1 DEF Associates
  <2>2. (u \o <<r>>) \o b = u \o (<<r>> \o b)
    <3>1. Associates(u, <<r>>, b)
      BY <1>9, <1>10, <1>11, Association DEF P
    <3> QED
      BY <3>1 DEF Associates
  <2> QED
    BY <2>1, <2>2
<1>13. Length(u) = Length(a) + Length(<<l>>)
  <2>1. a \in Seq(Piece) /\ <<l>> \in Seq(Piece)
    BY <1>9, <1>10, StoredArePieces DEF P
  <2> QED
    BY <2>1, LengthOfConcat
<1> HIDE DEF u, w
<1>14. c = u \o w
  BY <1>8, <1>9, <1>12, Zenon
<1>15. Length(u) = k
  BY <1>2, <1>7, <1>13
<1> QED
  BY <1>11, <1>14, <1>15 DEF HasCut, P

LEMMA SplitKeepsCuts ==
  ASSUME NEW m \in Nat, NEW n \in Nat, NEW s, NEW c, NEW k, SplitPiece(s, c, k, m, n),
         NEW j, HasCut(s, j, m, n)
  PROVE  HasCut(c, j, m, n)
<1>1. PICK a \in Seq(Stored(m, n)), b \in Seq(Stored(m, n)), x \in Stored(m, n) :
        \E d \in 1 .. x.length - 1 :
          /\ s = (a \o <<x>>) \o b
          /\ c = (a \o <<Left(x, d), Right(x, d)>>) \o b
          /\ k = Length(a) + d
  BY DEF SplitPiece
<1>2. PICK d \in 1 .. x.length - 1 :
          /\ s = (a \o <<x>>) \o b
          /\ c = (a \o <<Left(x, d), Right(x, d)>>) \o b
          /\ k = Length(a) + d
  BY <1>1
<1>3. PICK u \in Seq(Stored(m, n)), w \in Seq(Stored(m, n)) : s = u \o w /\ Length(u) = j
  BY DEF HasCut
<1> DEFINE two == <<Left(x, d), Right(x, d)>>
           S == Stored(m, n)
<1>4. x \in Piece /\ x.length \in Nat /\ d \in 0 .. x.length
  BY DEF Stored, Piece
<1>5. two \in Seq(S) /\ <<x>> \in Seq(S)
  BY HalvesAreStored
<1>6. Length(two) = x.length /\ Length(<<x>>) = x.length
  <2>1. <<>> \in Seq(Chars)
    BY EmptySeq
  <2>2. TwoAreOne(x, d, <<>>, <<>>)
    BY <1>4, <2>1, TwoPieces
  <2> QED
    BY <1>4, <2>1, <2>2, OnePiece DEF TwoAreOne
<1>7. c = (a \o two) \o b
  BY <1>2
<1> HIDE DEF two, S
<1>8. a \in Seq(S) /\ b \in Seq(S) /\ u \in Seq(S) /\ w \in Seq(S)
  BY DEF S
<1>9. /\ a \o <<x>> \in Seq(S) /\ a \o two \in Seq(S) /\ <<x>> \o b \in Seq(S)
      /\ Len(a \o <<x>>) = Len(a) + 1
  BY <1>5, <1>8, ConcatProperties
<1>10. s = a \o (<<x>> \o b)
  <2>1. (a \o <<x>>) \o b = a \o (<<x>> \o b)
    <3>1. Associates(a, <<x>>, b)
      BY <1>5, <1>8, Association
    <3> QED
      BY <3>1 DEF Associates
  <2> QED
    BY <1>2, <2>1, Zenon
<1>11. CASE Len(u) <= Len(a)
  <2>1. u \o w = a \o (<<x>> \o b)
    BY <1>3, <1>10, Zenon
  <2>2. Extends(a, u, w, <<x>> \o b, S)
    BY <1>8, <1>9, <1>11, <2>1, SplitsMeet
  <2>3. PICK v \in Seq(S) : a = u \o v
    BY <2>2 DEF Extends
  <2> DEFINE rest == (v \o two) \o b
  <2>4. v \o two \in Seq(S) /\ rest \in Seq(S)
    BY <1>5, <1>8, ConcatProperties
  <2>5. ((u \o v) \o two) \o b = u \o rest
    <3>1. (u \o v) \o two = u \o (v \o two)
      <4>1. Associates(u, v, two)
        BY <1>5, <1>8, Association
      <4> QED
        BY <4>1 DEF Associates
    <3>2. (u \o (v \o two)) \o b = u \o ((v \o two) \o b)
      <4>1. Associates(u, v \o two, b)
        BY <1>8, <2>4, Association
      <4> QED
        BY <4>1 DEF Associates
    <3> QED
      BY <3>1, <3>2
  <2> HIDE DEF rest
  <2>6. c = u \o rest
    BY <1>7, <2>3, <2>5, Zenon
  <2> QED
    BY <1>3, <1>8, <2>4, <2>6 DEF HasCut, S
<1>12. CASE ~(Len(u) <= Len(a))
  <2>1. Len(a \o <<x>>) <= Len(u)
    <3>1. Len(a) \in Nat /\ Len(u) \in Nat
      BY <1>8, LenProperties
    <3>2. Len(a \o <<x>>) = Len(a) + 1
      BY <1>9
    <3> QED
      BY <1>12, <3>1, <3>2
  <2>2. (a \o <<x>>) \o b = u \o w
    BY <1>2, <1>3, Zenon
  <2>3. Extends(u, a \o <<x>>, b, w, S)
    BY <1>8, <1>9, <2>1, <2>2, SplitsMeet
  <2>4. PICK v \in Seq(S) : u = (a \o <<x>>) \o v /\ b = v \o w
    BY <2>3 DEF Extends
  <2> DEFINE h == (a \o two) \o v
  <2>5. h \in Seq(S)
    BY <1>9, ConcatProperties
  <2>6. (a \o two) \o (v \o w) = h \o w
    <3>1. Associates(a \o two, v, w)
      BY <1>8, <1>9, Association
    <3> QED
      BY <3>1 DEF Associates
  <2>7. Length(h) = Length(u)
    <3>1. <<>> \in Seq(Chars) /\ a \in Seq(Piece) /\ two \in Seq(Piece) /\ <<x>> \in Seq(Piece)
            /\ v \in Seq(Piece)
      BY <1>5, <1>8, EmptySeq, StoredArePieces DEF S
    <3>2. Between(a, two, v, <<>>, <<>>) /\ Between(a, <<x>>, v, <<>>, <<>>)
      BY <3>1, TextOfThree
    <3> QED
      BY <1>6, <2>4, <3>2 DEF Between
  <2> HIDE DEF h
  <2>8. c = h \o w
    BY <1>7, <2>4, <2>6, Zenon
  <2>9. Length(h) = j
    BY <1>3, <2>7
  <2> QED
    BY <1>8, <2>5, <2>8, <2>9 DEF HasCut, S
<1> QED
  BY <1>11, <1>12

CutKeepsCuts(s, c, m, n) == \A j : HasCut(s, j, m, n) => HasCut(c, j, m, n)

LEMMA CutGives ==
  ASSUME NEW m \in Nat, NEW n \in Nat, NEW s \in Seq(Stored(m, n)), NEW k \in 0 .. Length(s)
  PROVE  /\ Cut(s, k) \in Seq(Stored(m, n)) /\ HasCut(Cut(s, k), k, m, n)
         /\ CutKeepsCuts(s, Cut(s, k), m, n)
<1>1. CASE SplitPiece(s, Cut(s, k), k, m, n)
  <2> DEFINE c == Cut(s, k)
  <2>1. SplitPiece(s, c, k, m, n)
    BY <1>1
  <2> HIDE DEF c
  <2>2. c \in Seq(Stored(m, n)) /\ HasCut(c, k, m, n)
    BY <2>1, SplitHasCut
  <2>3. ASSUME NEW j, HasCut(s, j, m, n) PROVE HasCut(c, j, m, n)
    BY <2>1, <2>3, SplitKeepsCuts
  <2> QED
    BY <2>2, <2>3 DEF CutKeepsCuts, c
<1>2. CASE Cut(s, k) = s /\ HasCut(s, k, m, n)
  BY <1>2 DEF CutKeepsCuts
<1> QED
  BY <1>1, <1>2, CutSplits

LEMMA CutKeepsText ==
  ASSUME NEW m \in Nat, NEW n \in Nat, NEW s \in Seq(Stored(m, n)), NEW k \in 0 .. Length(s),
         NEW added \in Seq(Chars), NEW mapped \in Seq(Chars)
  PROVE  SplitKeeps(s, Cut(s, k), added, mapped)
<1>1. CASE SplitPiece(s, Cut(s, k), k, m, n)
  BY <1>1, SplitKeepsText
<1>2. CASE Cut(s, k) = s /\ HasCut(s, k, m, n)
  BY <1>2 DEF SplitKeeps
<1> QED
  BY <1>1, <1>2, CutSplits

-----------------------------------------------------------------------------
(* Insert and Erase splice the text.                                       *)

(* What was added stays where it is when more is added.                    *)
LEMMA StoredGrows ==
  ASSUME NEW m \in Nat, NEW n \in Nat, NEW l \in Nat
  PROVE  Stored(m, n) \subseteq Stored(m + l, n)
<1> SUFFICES ASSUME NEW p \in Stored(m, n) PROVE p \in Stored(m + l, n)
  OBVIOUS
<1>1. p \in Piece /\ p.offset \in Nat /\ p.length \in Nat
  BY DEF Stored, Piece
<1>2. p.storage = "added" => p.offset + p.length <= m + l
  BY <1>1 DEF Stored
<1> QED
  BY <1>1, <1>2 DEF Stored

SameBytes(p, added, bytes, mapped) ==
  PieceBytes(added \o bytes, mapped, p) = PieceBytes(added, mapped, p)

LEMMA BytesStay ==
  ASSUME NEW n \in Nat, NEW added \in Seq(Chars), NEW bytes \in Seq(Chars),
         NEW mapped \in Seq(Chars), NEW p \in Stored(Len(added), n)
  PROVE  SameBytes(p, added, bytes, mapped)
<1>1. p \in Piece /\ p.offset \in Nat /\ p.length \in Nat
  BY DEF Stored, Piece
<1>2. CASE p.storage = "original"
  BY <1>2 DEF SameBytes, PieceBytes
<1>3. CASE p.storage # "original"
  <2>1. p.storage = "added"
    BY <1>1, <1>3 DEF Piece
  <2>2. p.offset + p.length <= Len(added)
    BY <2>1 DEF Stored
  <2> DEFINE all == added \o bytes
  <2>3. /\ Len(added) \in Nat /\ Len(bytes) \in Nat /\ Len(all) = Len(added) + Len(bytes)
        /\ \A i \in 1 .. Len(added) : all[i] = added[i]
    BY ConcatBegins, LenProperties DEF Begins
  <2> HIDE DEF all
  <2>4. ASSUME NEW k \in 1 .. p.length
        PROVE  (IF p.offset + k <= Len(all) THEN all[p.offset + k] ELSE Gap)
                 = (IF p.offset + k <= Len(added) THEN added[p.offset + k] ELSE Gap)
    <3>1. p.offset + k \in 1 .. Len(added) /\ p.offset + k <= Len(added)
            /\ p.offset + k <= Len(all)
      BY <1>1, <2>2, <2>3
    <3> QED
      BY <2>3, <3>1
  <2>5. PieceBytes(all, mapped, p)
          = [k \in 1 .. p.length |-> IF p.offset + k <= Len(all) THEN all[p.offset + k] ELSE Gap]
    BY <1>3 DEF PieceBytes
  <2>6. PieceBytes(added, mapped, p)
          = [k \in 1 .. p.length |->
               IF p.offset + k <= Len(added) THEN added[p.offset + k] ELSE Gap]
    BY <1>3 DEF PieceBytes
  <2>7. PieceBytes(all, mapped, p) = PieceBytes(added, mapped, p)
    BY <2>4, <2>5, <2>6
  <2> QED
    BY <2>7 DEF SameBytes, all
<1> QED
  BY <1>2, <1>3

SameText(s, added, bytes, mapped) ==
  TextOf(s, added \o bytes, mapped) = TextOf(s, added, mapped)

LEMMA TextStays ==
  ASSUME NEW n \in Nat, NEW added \in Seq(Chars), NEW bytes \in Seq(Chars),
         NEW mapped \in Seq(Chars), NEW s \in Seq(Stored(Len(added), n))
  PROVE  SameText(s, added, bytes, mapped)
<1> DEFINE S == Stored(Len(added), n)
           T == {l \in Nat : \A r \in Seq(S) : Len(r) = l => SameText(r, added, bytes, mapped)}
           all == added \o bytes
<1>1. all \in Seq(Chars)
  BY ConcatProperties
<1>2. 0 \in T
  <2>1. ASSUME NEW r \in Seq(S), Len(r) = 0 PROVE SameText(r, added, bytes, mapped)
    <3>1. r = <<>>
      BY <2>1, EmptySeq
    <3>2. TextOf(<<>>, all, mapped) = <<>> /\ TextOf(<<>>, added, mapped) = <<>>
      BY <1>1, TextOfNone
    <3> QED
      BY <3>1, <3>2 DEF SameText
  <2> QED
    BY <2>1
<1>3. ASSUME NEW l \in Nat, l \in T PROVE l + 1 \in T
  <2>1. ASSUME NEW r \in Seq(S), Len(r) = l + 1 PROVE SameText(r, added, bytes, mapped)
    <3>1. PICK q \in Seq(S), x \in S : r = Append(q, x) /\ Len(q) = l
      <4> HIDE DEF S
      <4> QED
        BY <2>1, EndsWith
    <3>2. SameText(q, added, bytes, mapped)
      BY <1>3, <3>1
    <3>3. SameBytes(x, added, bytes, mapped)
      BY BytesStay
    <3>4. q \in Seq(Piece) /\ x \in Piece
      BY StoredArePieces DEF Stored
    <3> HIDE DEF all
    <3>5. AppendsText(q, x, all, mapped) /\ AppendsText(q, x, added, mapped)
      BY <1>1, <3>4, TextOfAppend
    <3> QED
      BY <3>1, <3>2, <3>3, <3>5 DEF SameText, SameBytes, AppendsText, all
  <2> QED
    BY <2>1
<1>4. Nat \subseteq T
  <2> HIDE DEF T
  <2> QED
    BY <1>2, <1>3, Induction
<1>5. Len(s) \in Nat
  BY LenProperties
<1> QED
  BY <1>4, <1>5

NewPiece(added, bytes) ==
  [storage |-> "added", offset |-> Len(added), length |-> Len(bytes)]

LEMMA NewPieceGives ==
  ASSUME NEW n \in Nat, NEW added \in Seq(Chars), NEW bytes \in Seq(Chars), bytes # <<>>,
         NEW mapped \in Seq(Chars)
  PROVE  /\ NewPiece(added, bytes) \in Stored(Len(added) + Len(bytes), n)
         /\ PieceBytes(added \o bytes, mapped, NewPiece(added, bytes)) = bytes
<1> DEFINE p == NewPiece(added, bytes)
           all == added \o bytes
           a == Len(added)
           l == Len(bytes)
<1>1. a \in Nat /\ l \in Nat \ {0}
  BY EmptySeq, LenProperties
<1>2. p.storage = "added" /\ p.offset = a /\ p.length = l /\ p \in Piece
  BY <1>1 DEF NewPiece, Piece
<1>3. /\ Len(all) = a + l /\ all \in Seq(Chars)
      /\ \A i \in 1 .. a + l : all[i] = IF i <= a THEN added[i] ELSE bytes[i - a]
  BY ConcatProperties
<1> HIDE DEF p, all, a, l
<1>4. p \in Stored(a + l, n)
  BY <1>1, <1>2 DEF Stored
<1> DEFINE b == PieceBytes(all, mapped, p)
<1>5. b = [k \in 1 .. l |-> IF a + k <= Len(all) THEN all[a + k] ELSE Gap]
  BY <1>2 DEF PieceBytes
<1>6. b \in Seq(Cells) /\ Len(b) = l
  BY <1>2, <1>3, BytesAreRead DEF PieceIsRead
<1> HIDE DEF b
<1>7. ASSUME NEW k \in 1 .. l PROVE b[k] = bytes[k]
  <2>1. /\ a + k \in 1 .. a + l /\ a + k <= Len(all) /\ ~(a + k <= a) /\ (a + k) - a = k
    BY <1>1, <1>3
  <2> QED
    BY <1>3, <1>5, <2>1
<1>8. bytes \in Seq(Cells)
  <2>1. Chars \subseteq Cells
    BY DEF Cells
  <2> QED
    BY <2>1, SeqMonotonic
<1>9. b = bytes
  BY <1>6, <1>7, <1>8, SeqEqual DEF l
<1> QED
  BY <1>4, <1>9 DEF p, all, a, l, b

(* A buffer's pieces are cut and joined as far as they can be, lie in      *)
(* their storage, and add up to its size; n bytes of the file are mapped.  *)
Buffer(b, n) ==
  /\ b = [pieces |-> b.pieces, added |-> b.added, size |-> b.size, modified |-> b.modified]
  /\ b.added \in Seq(Chars) /\ b.pieces \in Tables(Len(b.added), n)
  /\ b.size = Length(b.pieces) /\ b.modified \in BOOLEAN

LEMMA BufferFacts ==
  ASSUME NEW n \in Nat, NEW b, Buffer(b, n)
  PROVE  /\ b.added \in Seq(Chars) /\ Len(b.added) \in Nat
         /\ b.pieces \in Seq(Stored(Len(b.added), n)) /\ b.pieces \in Seq(Piece)
         /\ b.size = Length(b.pieces) /\ b.size \in Nat /\ Unjoined(b.pieces)
<1>1. b.added \in Seq(Chars) /\ b.pieces \in Seq(Stored(Len(b.added), n))
        /\ b.size = Length(b.pieces) /\ Unjoined(b.pieces)
  BY DEF Buffer, Tables
<1>2. Len(b.added) \in Nat /\ b.pieces \in Seq(Piece)
  BY <1>1, LenProperties, StoredArePieces
<1>3. Length(b.pieces) \in Nat
  BY <1>2, LengthType
<1> QED
  BY <1>1, <1>2, <1>3

LEMMA BufferText ==
  ASSUME NEW n \in Nat, NEW b, Buffer(b, n), NEW mapped \in Seq(Chars)
  PROVE  Text(b, mapped) \in Seq(Cells) /\ Len(Text(b, mapped)) = b.size
<1>1. b.added \in Seq(Chars) /\ b.pieces \in Seq(Piece) /\ b.size = Length(b.pieces)
  BY BufferFacts
<1>2. TextIsTyped(b.pieces, b.added, mapped)
  BY <1>1, TextType
<1> QED
  BY <1>1, <1>2 DEF TextIsTyped, Text

(* What is put between the two sides of a cut.                             *)
StandsBetween(p, u, w) ==
  InsertAt(u \o w, IndexAt(u \o w, Length(u)), p) = (u \o <<p>>) \o w

LEMMA InsertedAtCut ==
  ASSUME NEW m \in Nat, NEW n \in Nat, NEW u \in Seq(Stored(m, n)), NEW w \in Seq(Stored(m, n)),
         NEW p
  PROVE  StandsBetween(p, u, w)
<1> DEFINE s == u \o w
           k == Len(u)
<1>1. IndexAt(s, Length(u)) = k + 1
  BY IndexOfCut
<1>2. SubSeq(s, 1, k) = u /\ SubSeq(s, k + 1, Len(s)) = w
  BY PrefixAndRest
<1>3. (k + 1) - 1 = k
  BY LenProperties
<1> HIDE DEF s, k
<1>4. InsertAt(s, k + 1, p) = SubSeq(s, 1, (k + 1) - 1) \o <<p>> \o SubSeq(s, k + 1, Len(s))
  BY DEF InsertAt
<1>5. InsertAt(s, k + 1, p) = (u \o <<p>>) \o w
  BY <1>2, <1>3, <1>4
<1> QED
  BY <1>1, <1>5 DEF s, StandsBetween

Sides(u, w, b, k, n) ==
  /\ u \in Seq(Stored(Len(b.added), n)) /\ w \in Seq(Stored(Len(b.added), n))
  /\ u \in Seq(Piece) /\ w \in Seq(Piece)
  /\ Cut(b.pieces, k) = u \o w /\ Length(u) = k

LEMMA CutHasSides ==
  ASSUME NEW n \in Nat, NEW b, Buffer(b, n), NEW k \in 0 .. b.size
  PROVE  \E u, w : Sides(u, w, b, k, n)
<1> DEFINE m == Len(b.added)
           s == b.pieces
<1>1. m \in Nat /\ s \in Seq(Stored(m, n)) /\ k \in 0 .. Length(s)
  BY BufferFacts
<1>2. HasCut(Cut(s, k), k, m, n)
  BY <1>1, CutGives
<1>3. PICK u \in Seq(Stored(m, n)), w \in Seq(Stored(m, n)) : Cut(s, k) = u \o w /\ Length(u) = k
  BY <1>2 DEF HasCut
<1>4. u \in Seq(Piece) /\ w \in Seq(Piece)
  BY StoredArePieces
<1> QED
  BY <1>3, <1>4 DEF Sides

SidesText(u, w, b, k, mapped) ==
  /\ Text(b, mapped) = TextOf(u, b.added, mapped) \o TextOf(w, b.added, mapped)
  /\ TextOf(u, b.added, mapped) \in Seq(Cells) /\ TextOf(w, b.added, mapped) \in Seq(Cells)
  /\ Len(TextOf(u, b.added, mapped)) = k

LEMMA TextOfSides ==
  ASSUME NEW n \in Nat, NEW b, Buffer(b, n), NEW k \in 0 .. b.size,
         NEW u, NEW w, Sides(u, w, b, k, n), NEW mapped \in Seq(Chars)
  PROVE  SidesText(u, w, b, k, mapped) /\ b.size = k + Length(w)
<1> DEFINE m == Len(b.added)
           s == b.pieces
<1>1. /\ m \in Nat /\ s \in Seq(Stored(m, n)) /\ k \in 0 .. Length(s) /\ b.added \in Seq(Chars)
      /\ b.size = Length(s)
  BY BufferFacts
<1>2. u \in Seq(Piece) /\ w \in Seq(Piece) /\ Cut(s, k) = u \o w /\ Length(u) = k
  BY DEF Sides
<1>3. SplitKeeps(s, Cut(s, k), b.added, mapped)
  BY <1>1, CutKeepsText
<1>4. JoinsText(u, w, b.added, mapped) /\ Length(u \o w) = Length(u) + Length(w)
  BY <1>1, <1>2, TextOfConcat, LengthOfConcat
<1>5. TextIsTyped(u, b.added, mapped) /\ TextIsTyped(w, b.added, mapped)
  BY <1>1, <1>2, TextType
<1>6. TextOf(s, b.added, mapped) = TextOf(u, b.added, mapped) \o TextOf(w, b.added, mapped)
        /\ Length(s) = k + Length(w)
  BY <1>2, <1>3, <1>4 DEF SplitKeeps, JoinsText
<1> QED
  BY <1>1, <1>2, <1>5, <1>6 DEF SidesText, TextIsTyped, Text

(* Nothing is put in the place of nothing.                                 *)
LEMMA SpliceBetween ==
  ASSUME NEW S, NEW u \in Seq(S), NEW w \in Seq(S), NEW a \in Seq(S)
  PROVE  Splice(u \o w, Len(u), 0, a) = (u \o a) \o w
<1>1. <<>> \in Seq(S) /\ Len(<<>>) = 0 /\ u \o <<>> = u
  BY EmptySeq, ConcatEmptySeq
<1>2. PartsAreSpliced(u, <<>>, w, a)
  BY <1>1, SpliceOfParts
<1> QED
  BY <1>1, <1>2 DEF PartsAreSpliced

Inserts(b, at, bytes, n) ==
  /\ Buffer(Insert(b, at, bytes), n)
  /\ Insert(b, at, bytes).size = b.size + Len(bytes)
  /\ Insert(b, at, bytes).modified = TRUE

InsertsText(b, at, bytes, mapped) ==
  Text(Insert(b, at, bytes), mapped) = Splice(Text(b, mapped), at, 0, bytes)

LEMMA InsertSplices ==
  ASSUME NEW n \in Nat, NEW b, Buffer(b, n), NEW at \in 0 .. b.size,
         NEW bytes \in Seq(Chars), bytes # <<>>, NEW mapped \in Seq(Chars)
  PROVE  Inserts(b, at, bytes, n) /\ InsertsText(b, at, bytes, mapped)
<1> DEFINE m == Len(b.added)
           l == Len(bytes)
           all == b.added \o bytes
           p == NewPiece(b.added, bytes)
           c == Insert(b, at, bytes)
<1>1. b.added \in Seq(Chars) /\ m \in Nat /\ l \in Nat /\ b.size \in Nat
  BY BufferFacts, LenProperties
<1>2. all \in Seq(Chars) /\ Len(all) = m + l
  BY <1>1, ConcatProperties
<1>3. PICK u, w : Sides(u, w, b, at, n)
  BY CutHasSides
<1>4. /\ u \in Seq(Stored(m, n)) /\ w \in Seq(Stored(m, n))
      /\ u \in Seq(Piece) /\ w \in Seq(Piece)
      /\ Cut(b.pieces, at) = u \o w /\ Length(u) = at
  BY <1>3 DEF Sides
<1> DEFINE s == (u \o <<p>>) \o w
<1>5. c = [pieces |-> Normalize(s), added |-> all, size |-> b.size + l, modified |-> TRUE]
  <2>1. InsertAt(u \o w, IndexAt(u \o w, Length(u)), p) = s
    <3> HIDE DEF m, p
    <3>1. StandsBetween(p, u, w)
      BY <1>1, <1>4, InsertedAtCut
    <3> QED
      BY <3>1 DEF StandsBetween
  <2> HIDE DEF s
  <2>2. InsertAt(Cut(b.pieces, at), IndexAt(Cut(b.pieces, at), at), p) = s
    BY <1>4, <2>1, Zenon
  <2> QED
    BY <2>2 DEF Insert, NewPiece
<1>6. p \in Stored(m + l, n) /\ PieceBytes(all, mapped, p) = bytes
  BY <1>1, NewPieceGives
<1>7. p \in Piece /\ p.length = l
  BY <1>6 DEF Stored, NewPiece
<1> HIDE DEF c, p
<1>8. u \in Seq(Stored(m + l, n)) /\ w \in Seq(Stored(m + l, n)) /\ <<p>> \in Seq(Stored(m + l, n))
  <2>1. Stored(m, n) \subseteq Stored(m + l, n)
    BY <1>1, StoredGrows
  <2> QED
    BY <1>4, <1>6, <2>1, SeqMonotonic
<1>9. s \in Seq(Stored(m + l, n)) /\ m + l \in Nat
  BY <1>1, <1>8, ConcatProperties
<1>10. IsNormal(s, m + l, n)
  BY <1>9, NormalizeIsNormal
<1>11. NormalizeKeeps(s, all, mapped)
  BY <1>2, <1>9, NormalizeKeepsText
<1>12. <<p>> \in Seq(Piece)
  BY <1>7
<1>13. Between(u, <<p>>, w, all, mapped)
  BY <1>2, <1>4, <1>12, TextOfThree
<1>14. TextOf(<<p>>, all, mapped) = bytes /\ Length(<<p>>) = l
  BY <1>2, <1>6, <1>7, OnePiece
<1>15. SameText(u, b.added, bytes, mapped) /\ SameText(w, b.added, bytes, mapped)
  BY <1>1, <1>4, TextStays
<1>16. SidesText(u, w, b, at, mapped) /\ b.size = at + Length(w)
  BY <1>3, TextOfSides
<1>17. Length(s) = b.size + l
  <2>1. Length(s) = (at + l) + Length(w)
    BY <1>4, <1>13, <1>14 DEF Between
  <2>2. Length(w) \in Nat /\ at \in Nat
    BY <1>1, <1>4, LengthType
  <2> HIDE DEF s, l
  <2> QED
    BY <1>1, <1>16, <2>1, <2>2
<1>18. Inserts(b, at, bytes, n)
  <2>1. c.pieces = Normalize(s) /\ c.added = all /\ c.size = b.size + l /\ c.modified = TRUE
    BY <1>5
  <2>2. c = [pieces |-> c.pieces, added |-> c.added, size |-> c.size, modified |-> c.modified]
    BY <1>5
  <2>3. c.pieces \in Tables(Len(c.added), n) /\ c.size = Length(c.pieces)
    BY <1>2, <1>10, <1>17, <2>1 DEF IsNormal
  <2> QED
    BY <1>2, <2>1, <2>2, <2>3 DEF Inserts, Buffer, c
<1> DEFINE U == TextOf(u, b.added, mapped)
           W == TextOf(w, b.added, mapped)
<1>19. Text(c, mapped) = (U \o bytes) \o W
  <2>1. Text(c, mapped) = TextOf(Normalize(s), all, mapped)
    BY <1>5 DEF Text
  <2>2. TextOf(Normalize(s), all, mapped) = TextOf(s, all, mapped)
    BY <1>11 DEF NormalizeKeeps
  <2>3. TextOf(s, all, mapped)
          = (TextOf(u, all, mapped) \o TextOf(<<p>>, all, mapped)) \o TextOf(w, all, mapped)
    BY <1>13 DEF Between
  <2>4. TextOf(u, all, mapped) = U /\ TextOf(w, all, mapped) = W
    BY <1>15 DEF SameText
  <2> HIDE DEF U, W, s, all
  <2> QED
    BY <1>14, <2>1, <2>2, <2>3, <2>4
<1>20. Text(b, mapped) = U \o W /\ U \in Seq(Cells) /\ W \in Seq(Cells) /\ Len(U) = at
  BY <1>16 DEF SidesText
<1> HIDE DEF U, W
<1>21. bytes \in Seq(Cells)
  <2>1. Chars \subseteq Cells
    BY DEF Cells
  <2> QED
    BY <2>1, SeqMonotonic
<1>22. Splice(U \o W, Len(U), 0, bytes) = (U \o bytes) \o W
  BY <1>20, <1>21, SpliceBetween
<1> QED
  BY <1>18, <1>19, <1>20, <1>22 DEF InsertsText, c

TwoCuts(s, j, k, m, n) ==
  \E u, v, w \in Seq(Stored(m, n)) :
    s = (u \o v) \o w /\ Length(u) = j /\ Length(u \o v) = k

LEMMA CutTwice ==
  ASSUME NEW m \in Nat, NEW n \in Nat, NEW s \in Seq(Stored(m, n)),
         NEW j \in Nat, NEW k \in Nat, j <= k, HasCut(s, j, m, n), HasCut(s, k, m, n)
  PROVE  TwoCuts(s, j, k, m, n)
<1> DEFINE S == Stored(m, n)
<1>1. PICK u \in Seq(S), x \in Seq(S) : s = u \o x /\ Length(u) = j
  BY DEF HasCut
<1>2. PICK y \in Seq(S), w \in Seq(S) : s = y \o w /\ Length(y) = k
  BY DEF HasCut
<1>3. u \in Seq(Piece) /\ y \in Seq(Piece) /\ Len(u) \in Nat /\ Len(y) \in Nat
  BY <1>1, <1>2, StoredArePieces, LenProperties
<1>4. CASE Len(u) <= Len(y)
  <2>1. Extends(y, u, x, w, S)
    <3> HIDE DEF S
    <3> QED
      BY <1>1, <1>2, <1>4, SplitsMeet
  <2>2. PICK v \in Seq(S) : y = u \o v
    BY <2>1 DEF Extends
  <2> QED
    BY <1>1, <1>2, <2>2 DEF TwoCuts
<1>5. CASE Len(y) <= Len(u)
  <2>1. Extends(u, y, w, x, S)
    <3> HIDE DEF S
    <3> QED
      BY <1>1, <1>2, <1>5, SplitsMeet
  <2>2. PICK v \in Seq(S) : u = y \o v
    BY <2>1 DEF Extends
  <2>3. v \in Seq(Piece)
    BY <2>2, StoredArePieces
  <2>4. Length(u) = Length(y) + Length(v) /\ Length(v) \in Nat
    BY <1>3, <2>2, <2>3, LengthOfConcat, LengthType
  <2>5. j = k
    BY <1>1, <1>2, <2>4
  <2>6. <<>> \in Seq(S) /\ y \o <<>> = y
    BY <1>2, EmptySeq, ConcatEmptySeq
  <2> QED
    BY <1>2, <2>5, <2>6 DEF TwoCuts
<1> QED
  BY <1>3, <1>4, <1>5

(* What is left when the part between two cuts is taken out.               *)
TakesOut(s, u, v, w) ==
  SubSeq(s, 1, IndexAt(s, Length(u)) - 1) \o SubSeq(s, IndexAt(s, Length(u \o v)), Len(s))
    = u \o w

LEMMA TakenOut ==
  ASSUME NEW m \in Nat, NEW n \in Nat, NEW u \in Seq(Stored(m, n)), NEW v \in Seq(Stored(m, n)),
         NEW w \in Seq(Stored(m, n)), NEW s, s = (u \o v) \o w
  PROVE  TakesOut(s, u, v, w)
<1> DEFINE S == Stored(m, n)
           x == u \o v
           y == v \o w
<1>1. /\ x \in Seq(S) /\ y \in Seq(S)
      /\ u \in Seq(S) /\ w \in Seq(S)
  BY ConcatProperties
<1>2. s = u \o y /\ s = x \o w
  <2>1. Associates(u, v, w)
    BY Association
  <2> QED
    BY <2>1 DEF Associates
<1>3. Len(u) \in Nat /\ Len(x) \in Nat
  BY <1>1, LenProperties
<1> HIDE DEF x, y
<1>4. IndexAt(s, Length(u)) = Len(u) + 1 /\ IndexAt(s, Length(x)) = Len(x) + 1
  BY <1>1, <1>2, IndexOfCut
<1>5. (Len(u) + 1) - 1 = Len(u)
  BY <1>3
<1>6. SubSeq(s, 1, Len(u)) = u
  <2> HIDE DEF S
  <2> QED
    BY <1>1, <1>2, PrefixAndRest
<1>7. SubSeq(s, Len(x) + 1, Len(s)) = w
  <2> HIDE DEF S
  <2> QED
    BY <1>1, <1>2, PrefixAndRest
<1> QED
  BY <1>4, <1>5, <1>6, <1>7, Zenon DEF TakesOut, x

Erases(b, at, l, n) ==
  /\ Buffer(Erase(b, at, l), n)
  /\ Erase(b, at, l).size = b.size - l
  /\ Erase(b, at, l).added = b.added
  /\ Erase(b, at, l).modified = TRUE

ErasesText(b, at, l, mapped) ==
  Text(Erase(b, at, l), mapped) = Splice(Text(b, mapped), at, l, <<>>)

LEMMA EraseSplices ==
  ASSUME NEW n \in Nat, NEW b, Buffer(b, n), NEW at \in Nat,
         NEW l \in Nat \ {0}, at + l <= b.size, NEW mapped \in Seq(Chars)
  PROVE  Erases(b, at, l, n) /\ ErasesText(b, at, l, mapped)
<1> DEFINE m == Len(b.added)
           S == Stored(m, n)
           s == Cut(b.pieces, at)
           t == Cut(s, at + l)
           c == Erase(b, at, l)
<1>1. /\ b.added \in Seq(Chars) /\ m \in Nat /\ b.size \in Nat /\ b.pieces \in Seq(S)
      /\ b.size = Length(b.pieces)
  BY BufferFacts
<1>2. at \in 0 .. Length(b.pieces) /\ at + l \in 0 .. Length(b.pieces) /\ at <= at + l
        /\ at + l \in Nat
  BY <1>1
<1>3. s \in Seq(S) /\ HasCut(s, at, m, n)
  BY <1>1, <1>2, CutGives
<1>4. SplitKeeps(b.pieces, s, b.added, mapped)
  BY <1>1, <1>2, CutKeepsText
<1>5. Length(s) = Length(b.pieces)
  BY <1>4 DEF SplitKeeps
<1> HIDE DEF s
<1>6. t \in Seq(S) /\ HasCut(t, at + l, m, n) /\ CutKeepsCuts(s, t, m, n)
  BY <1>1, <1>2, <1>3, <1>5, CutGives
<1>7. SplitKeeps(s, t, b.added, mapped)
  BY <1>1, <1>2, <1>3, <1>5, CutKeepsText
<1> HIDE DEF t
<1>8. HasCut(t, at, m, n)
  BY <1>3, <1>6 DEF CutKeepsCuts
<1>9. TwoCuts(t, at, at + l, m, n)
  <2> HIDE DEF m
  <2> QED
    BY <1>1, <1>2, <1>6, <1>8, CutTwice
<1>10. PICK u \in Seq(S), v \in Seq(S), w \in Seq(S) :
         t = (u \o v) \o w /\ Length(u) = at /\ Length(u \o v) = at + l
  BY <1>9 DEF TwoCuts
<1>11. u \in Seq(Piece) /\ v \in Seq(Piece) /\ w \in Seq(Piece)
  BY <1>10, StoredArePieces
<1>12. SubSeq(t, 1, IndexAt(t, at) - 1) \o SubSeq(t, IndexAt(t, at + l), Len(t)) = u \o w
  <2> HIDE DEF m
  <2>1. TakesOut(t, u, v, w)
    BY <1>1, <1>10, TakenOut
  <2> QED
    BY <1>10, <2>1, Zenon DEF TakesOut
<1> DEFINE r == u \o w
<1>13. c = [b EXCEPT !.pieces = Normalize(r), !.size = @ - l, !.modified = TRUE]
  <2> HIDE DEF r
  <2>1. l # 0
    OBVIOUS
  <2>2. SubSeq(t, 1, IndexAt(t, at) - 1) \o SubSeq(t, IndexAt(t, at + l), Len(t)) = r
    BY <1>12 DEF r
  <2> QED
    BY <2>1, <2>2 DEF Erase, t, s
<1> HIDE DEF c
<1>14. r \in Seq(S)
  BY <1>10, ConcatProperties
<1>15. IsNormal(r, m, n)
  <2> HIDE DEF m, r
  <2> QED
    BY <1>1, <1>14, NormalizeIsNormal
<1>16. NormalizeKeeps(r, b.added, mapped)
  <2> HIDE DEF m, r
  <2> QED
    BY <1>1, <1>14, NormalizeKeepsText
<1>17. Between(u, v, w, b.added, mapped)
  BY <1>1, <1>11, TextOfThree
<1>18. JoinsText(u, w, b.added, mapped) /\ JoinsText(u, v, b.added, mapped)
  BY <1>1, <1>11, TextOfConcat
<1>19. /\ Length(u \o w) = Length(u) + Length(w) /\ Length(u \o v) = Length(u) + Length(v)
       /\ Length(u) \in Nat /\ Length(v) \in Nat /\ Length(w) \in Nat
  BY <1>11, LengthOfConcat, LengthType
<1>20. /\ TextIsTyped(u, b.added, mapped) /\ TextIsTyped(v, b.added, mapped)
       /\ TextIsTyped(w, b.added, mapped)
  BY <1>1, <1>11, TextType
<1>21. Length(r) = b.size - l /\ Length(v) = l
  <2>1. Length(t) = b.size
    BY <1>1, <1>5, <1>7 DEF SplitKeeps
  <2>2. Length(t) = (at + Length(v)) + Length(w)
    BY <1>10, <1>17 DEF Between
  <2> QED
    BY <1>1, <1>10, <1>19, <2>1, <2>2
<1>22. Erases(b, at, l, n)
  <2>1. b = [pieces |-> b.pieces, added |-> b.added, size |-> b.size, modified |-> b.modified]
    BY DEF Buffer
  <2> HIDE DEF r
  <2>2. c = [pieces |-> Normalize(r), added |-> b.added, size |-> b.size - l, modified |-> TRUE]
    <3> HIDE DEF m
    <3> QED
      BY <1>13, <2>1
  <2>3. c.pieces = Normalize(r) /\ c.added = b.added /\ c.size = b.size - l /\ c.modified = TRUE
          /\ c = [pieces |-> c.pieces, added |-> c.added, size |-> c.size, modified |-> c.modified]
    BY <2>2
  <2>4. c.pieces \in Tables(Len(c.added), n) /\ c.size = Length(c.pieces)
    BY <1>15, <1>21, <2>3 DEF IsNormal
  <2> QED
    BY <1>1, <2>3, <2>4 DEF Erases, Buffer, c
<1> DEFINE U == TextOf(u, b.added, mapped)
           V == TextOf(v, b.added, mapped)
           W == TextOf(w, b.added, mapped)
<1>23. Text(c, mapped) = U \o W
  <2>1. c.pieces = Normalize(r) /\ c.added = b.added
    <3>1. b = [pieces |-> b.pieces, added |-> b.added, size |-> b.size, modified |-> b.modified]
      BY DEF Buffer
    <3> HIDE DEF r
    <3> QED
      BY <1>13, <3>1
  <2>2. TextOf(Normalize(r), b.added, mapped) = TextOf(r, b.added, mapped)
    BY <1>16 DEF NormalizeKeeps
  <2>3. TextOf(r, b.added, mapped) = U \o W
    BY <1>18 DEF JoinsText
  <2> HIDE DEF U, W, r
  <2> QED
    BY <2>1, <2>2, <2>3 DEF Text
<1>24. Text(b, mapped) = (U \o V) \o W
  <2>1. TextOf(t, b.added, mapped) = Text(b, mapped)
    BY <1>4, <1>7 DEF SplitKeeps, Text
  <2>2. TextOf(t, b.added, mapped) = (U \o V) \o W
    BY <1>10, <1>17 DEF Between
  <2> QED
    BY <2>1, <2>2
<1>25. U \in Seq(Cells) /\ V \in Seq(Cells) /\ W \in Seq(Cells) /\ Len(U) = at /\ Len(V) = l
  BY <1>10, <1>20, <1>21 DEF TextIsTyped
<1> HIDE DEF U, V, W
<1>26. <<>> \in Seq(Cells) /\ U \o <<>> = U
  BY <1>25, EmptySeq, ConcatEmptySeq
<1>27. PartsAreSpliced(U, V, W, <<>>)
  BY <1>25, <1>26, SpliceOfParts
<1>28. Splice((U \o V) \o W, at, l, <<>>) = (U \o <<>>) \o W
  BY <1>25, <1>27, Zenon DEF PartsAreSpliced
<1> QED
  BY <1>22, <1>23, <1>24, <1>26, <1>28 DEF ErasesText, c

-----------------------------------------------------------------------------
(* A table over the whole file, and what a read returns.                   *)

LEMMA OpenedIsFile ==
  ASSUME NEW n \in Nat
  PROVE  /\ Buffer(Opened(n), n) /\ Opened(n).size = n
         /\ \A f \in Seq(Chars) : Len(f) = n => Text(Opened(n), f) = f
<1> DEFINE b == Opened(n)
           p == Original(n)
<1>1. <<>> \in Seq(Chars) /\ Len(<<>>) = 0
  BY EmptySeq
<1>2. CASE n = 0
  <2>1. b = [pieces |-> <<>>, added |-> <<>>, size |-> 0, modified |-> FALSE]
    BY <1>2 DEF Opened
  <2>2. b.pieces = <<>> /\ b.added = <<>> /\ b.size = 0 /\ b.modified = FALSE
    BY <2>1
  <2>3. <<>> \in Tables(0, 0)
    <3>1. <<>> \in Seq(Stored(0, 0)) /\ Len(<<>>) = 0
      BY EmptySeq
    <3> QED
      BY <3>1 DEF Tables, Unjoined
  <2>4. Length(<<>>) = 0
    BY LengthType
  <2> HIDE DEF b
  <2>5. Buffer(b, 0)
    BY <1>1, <2>1, <2>2, <2>3, <2>4 DEF Buffer
  <2>6. ASSUME NEW f \in Seq(Chars), Len(f) = 0 PROVE Text(b, f) = f
    <3>1. TextOf(<<>>, <<>>, f) = <<>>
      BY <1>1, TextOfNone
    <3>2. f = <<>>
      BY <2>6, EmptySeq
    <3> QED
      BY <2>2, <3>1, <3>2 DEF Text
  <2> QED
    BY <1>2, <2>2, <2>5, <2>6 DEF b
<1>3. CASE n # 0
  <2>1. b = [pieces |-> <<p>>, added |-> <<>>, size |-> n, modified |-> FALSE]
    BY <1>3 DEF Opened
  <2>2. b.pieces = <<p>> /\ b.added = <<>> /\ b.size = n /\ b.modified = FALSE
    BY <2>1
  <2>3. p \in Stored(0, n) /\ p \in Piece /\ p.storage = "original" /\ p.offset = 0
          /\ p.length = n
    BY <1>3 DEF Original, Stored, Piece
  <2> HIDE DEF p, b
  <2>4. <<p>> \in Tables(0, n)
    <3>1. <<p>> \in Seq(Stored(0, n)) /\ Len(<<p>>) = 1
      BY <2>3
    <3> QED
      BY <3>1 DEF Tables, Unjoined
  <2>5. Length(<<p>>) = n
    BY <1>1, <2>3, OnePiece
  <2>6. Buffer(b, n)
    BY <1>1, <2>1, <2>2, <2>4, <2>5 DEF Buffer
  <2>7. ASSUME NEW f \in Seq(Chars), Len(f) = n PROVE Text(b, f) = f
    <3>1. TextOf(<<p>>, <<>>, f) = PieceBytes(<<>>, f, p)
      BY <1>1, <2>3, OnePiece
    <3>2. PieceBytes(<<>>, f, p)
            = [k \in 1 .. n |-> IF 0 + k <= Len(f) THEN f[0 + k] ELSE Gap]
      BY <2>3 DEF PieceBytes
    <3>3. PieceIsRead(<<>>, f, p)
      BY <1>1, <2>3, BytesAreRead
    <3> DEFINE r == PieceBytes(<<>>, f, p)
    <3>4. r \in Seq(Cells) /\ Len(r) = n
      BY <2>3, <3>3 DEF PieceIsRead
    <3> HIDE DEF r
    <3>5. ASSUME NEW k \in 1 .. n PROVE r[k] = f[k]
      <4>1. 0 + k <= Len(f) /\ 0 + k = k
        BY <2>7
      <4> QED
        BY <3>2, <4>1 DEF r
    <3>6. f \in Seq(Cells)
      <4>1. Chars \subseteq Cells
        BY DEF Cells
      <4> QED
        BY <4>1, SeqMonotonic
    <3>7. r = f
      BY <2>7, <3>4, <3>5, <3>6, SeqEqual
    <3> QED
      BY <2>2, <3>1, <3>7 DEF Text, r
  <2> QED
    BY <2>2, <2>6, <2>7 DEF b
<1> QED
  BY <1>2, <1>3

LEMMA ReadableText ==
  ASSUME NEW t \in Seq(Cells), Readable(t)
  PROVE  t \in Seq(Chars)
<1>1. t \in [1 .. Len(t) -> Cells] /\ Len(t) \in Nat
  BY LenProperties
<1>2. ASSUME NEW i \in 1 .. Len(t) PROVE t[i] \in Chars
  <2>1. t[i] \in Range(t)
    BY <1>1 DEF Range
  <2>2. t[i] # Gap /\ t[i] \in Cells
    BY <1>1, <2>1 DEF Readable
  <2> QED
    BY <2>2 DEF Cells
<1>3. t \in [1 .. Len(t) -> Chars]
  BY <1>1, <1>2
<1> QED
  BY <1>1, <1>3, SeqDef

LEMMA LeastOf ==
  ASSUME NEW m \in Int, NEW n \in Int
  PROVE  Least(m, n) \in {m, n} /\ Least(m, n) <= m /\ Least(m, n) <= n
BY DEF Least

(* What a read returns when it returns something.                          *)
Returns(r, b, mapped, offset, k) ==
  /\ r = SubSeq(Text(b, mapped), offset + 1, offset + k)
  /\ r \in Seq(Chars) /\ Len(r) = k /\ k > 0 /\ offset + k <= b.size

LEMMA ReadReturns ==
  ASSUME NEW n \in Nat, NEW b, Buffer(b, n), NEW mapped \in Seq(Chars),
         NEW offset \in Nat, NEW l \in Nat, Read(b, mapped, offset, l) # <<>>
  PROVE  /\ Returns(Read(b, mapped, offset, l), b, mapped, offset, Least(b.size - offset, l))
         /\ offset < b.size
<1> DEFINE k == Least(b.size - offset, l)
           t == Text(b, mapped)
           r == SubSeq(t, offset + 1, offset + k)
<1>1. t \in Seq(Cells) /\ Len(t) = b.size /\ b.size \in Nat
  BY BufferText, BufferFacts
<1> HIDE DEF t
<1>2. offset < b.size /\ Readable(r) /\ Read(b, mapped, offset, l) = r
  BY DEF Read, t
<1>3. k \in Nat /\ offset + k <= b.size
  <2>1. b.size - offset \in Nat
    BY <1>1, <1>2
  <2>2. k \in {b.size - offset, l} /\ k <= b.size - offset
    BY <2>1, LeastOf
  <2> HIDE DEF k
  <2> QED
    BY <1>1, <2>1, <2>2
<1> HIDE DEF k
<1>4. r \in Seq(Cells) /\ Len(r) = k
  <2>1. 1 <= offset + 1 /\ offset + k <= Len(t) /\ offset + 1 \in Int /\ offset + k \in Int
    BY <1>1, <1>3
  <2>2. /\ r \in Seq(Cells)
        /\ Len(r) = IF offset + 1 <= offset + k THEN (offset + k) - (offset + 1) + 1 ELSE 0
    BY <1>1, <2>1, SubSeqIn
  <2> HIDE DEF r
  <2> QED
    BY <1>3, <2>2
<1> HIDE DEF r
<1>5. r \in Seq(Chars) /\ k > 0
  <2>1. r # <<>>
    BY <1>2
  <2>2. Len(r) # 0
    BY <1>4, <2>1, EmptySeq
  <2> QED
    BY <1>2, <1>3, <1>4, <2>2, ReadableText
<1> QED
  BY <1>2, <1>3, <1>4, <1>5 DEF Returns, r, t, k

-----------------------------------------------------------------------------
(* The inductive invariant.                                                *)

Numbers ==
  /\ writes \in 0 .. MaxWrites /\ commands \in 0 .. MaxCommands
  /\ versions \in 1 .. 1 + writes + commands
  /\ ui \in Places
  /\ ui \in {"stream", "compare", "move"} => versions <= writes + commands

Contents == Seq(Chars)

(* What another program or a save gave the file, or nothing.               *)
DiskIsVersion ==
  /\ disk \in [version : 0 .. versions, bytes : Contents]
  /\ disk = Gone \/ disk.version > 0

(* What the handle reads is not older than the text of the table, not      *)
(* newer than the file, and the file's text when they have one write time. *)
SourceIsOld ==
  /\ source \in [open : BOOLEAN, bytes : Contents, version : 0 .. versions]
  /\ known \in 0 .. versions /\ origin \in 0 .. versions
  /\ source.open => /\ origin > 0
                    /\ \/ source.version >= origin
                       \/ source.version = Unknown /\ known = Unknown
  /\ source.open /\ disk # Gone
       => /\ source.version <= disk.version
          /\ source.version = disk.version => source.bytes = disk.bytes

(* The pieces lie in what is mapped, as long as that is the table's file.  *)
TableFits ==
  \E n \in Nat : /\ Buffer(buffer, n)
                 /\ Sound => n <= Len(source.bytes)

Changes == [at : Nat, removed : Contents, added : Contents, load : BOOLEAN]

Fits(c, before, after) == /\ c.at + Len(c.removed) <= before
                          /\ after = before - Len(c.removed) + Len(c.added)

(* The history leads to a text of the editor's length.                     *)
HistoryFits ==
  /\ editor \in [text : Contents, past : Seq(Changes), saved : Nat \cup {Never}]
  /\ \E lengths \in [0 .. Len(editor.past) -> Nat] :
       /\ lengths[Len(editor.past)] = Len(editor.text)
       /\ \A i \in 1 .. Len(editor.past) : Fits(editor.past[i], lengths[i - 1], lengths[i])

States == [version : Nat, size : Nat]

Docs == [open : BOOLEAN, titled : BOOLEAN, bom : BOOLEAN, dirty : BOOLEAN,
         readOnly : BOOLEAN, flagged : BOOLEAN, follow : BOOLEAN,
         fileState : States, offset : Nat, decoded : Nat,
         via : {"open", "window", "undo", "reload", "stale"}]

Opening == ui \in {"openMap", "openStamp", "openAdd"}

DocIsOpen ==
  /\ doc \in Docs
  /\ ~doc.open => doc.via = "open"
  /\ ui = "idle" \/ (doc.open <=> ~Opening)

Notes == [state : States, bytes : Contents, same : BOOLEAN,
          own : [version : Nat, bytes : Contents], version : Nat, sound : BOOLEAN]

Renamed == ui \in {"reopen", "restamp"}

(* What a save knows of the file it has renamed: the document's own file   *)
(* and the table's text are older, and the file is what it wrote, or newer. *)
SaveHolds ==
  /\ noted.version \in 1 .. versions /\ origin > 0 /\ origin < noted.version
  /\ noted.own = Gone \/ noted.own.version > 0
  /\ noted.own.version < noted.version
  /\ Len(noted.bytes) = buffer.size
  /\ disk # Gone => /\ noted.version <= disk.version
                    /\ disk.version = noted.version => disk.bytes = noted.bytes
  /\ ui = "reopen" => ~source.open
  /\ ui = "restamp" => /\ source.open /\ noted.version <= source.version
                       /\ source.version = noted.version => source.bytes = noted.bytes

(* What a handler holds.                                                   *)
HandlerHolds ==
  /\ noted \in Notes
  /\ Renamed => SaveHolds
  /\ ui \in {"compare", "move"}
       => source.open /\ noted.bytes = Text(buffer, source.bytes)
  /\ ui = "move"
       => known # Unknown /\ (known = origin => source.version = origin)
  /\ ui \in {"openStamp", "followStamp"} => source.open /\ source.version = origin
  /\ ui \in {"followMap", "followStamp", "followLoad"} => noted.state.version \in 1 .. versions
  /\ ui = "followMap" /\ disk # Gone => noted.state.version <= disk.version
  /\ ui \in {"followStamp", "followLoad"}
       => /\ source.open /\ source.version >= noted.state.version
          /\ buffer = Opened(Len(source.bytes))

Following == ui \in {"followMap", "followStamp", "followLoad", "followFailed"}

(* A text is a part of another, from a place on.                           *)
IsWindow(t, f, d) == d + Len(t) <= Len(f) /\ t = SubSeq(f, d + 1, d + Len(t))

(* While a save has the file renamed, the window shows what it wrote.      *)
WindowIsShown ==
  /\ Sound /\ doc.via = "window" /\ ~Following
       => doc.decoded + Len(editor.text) <= buffer.size /\ editor.text = Shown
  /\ Renamed /\ noted.sound /\ doc.via = "window"
       => IsWindow(editor.text, noted.bytes, doc.decoded)

LargeFileInv == /\ Numbers /\ DiskIsVersion /\ SourceIsOld /\ TableFits
                /\ HistoryFits /\ DocIsOpen /\ HandlerHolds /\ WindowIsShown

-----------------------------------------------------------------------------
(* A change of the editor's text.                                          *)

CanChange(t, c) == c.at + Len(c.removed) <= Len(t)

LEMMA ChangedIs ==
  ASSUME NEW t \in Contents, NEW c \in Changes, CanChange(t, c)
  PROVE  /\ Changed(t, c) \in Contents
         /\ Len(Changed(t, c)) = Len(t) - Len(c.removed) + Len(c.added)
<1>1. c.at \in Nat /\ c.removed \in Seq(Chars) /\ c.added \in Seq(Chars)
  BY DEF Changes, Contents
<1>2. Len(t) \in Nat /\ Len(c.removed) \in Nat /\ t \in Seq(Chars)
  BY <1>1, LenProperties DEF Contents
<1>3. c.at \in 0 .. Len(t) /\ Len(c.removed) \in 0 .. Len(t) - c.at
  BY <1>1, <1>2 DEF CanChange
<1> QED
  BY <1>1, <1>2, <1>3, Spliced, ZenonT(30) DEF Changed, Contents

LEMMA ReversedIs ==
  ASSUME NEW c \in Changes
  PROVE  /\ Reversed(c) \in Changes
         /\ Reversed(c).at = c.at /\ Reversed(c).removed = c.added
         /\ Reversed(c).added = c.removed /\ Reversed(c).load = c.load
BY DEF Reversed, Changes

LEMMA ChangeIs ==
  ASSUME NEW at \in Nat, NEW removed \in Contents, NEW added \in Contents, NEW load \in BOOLEAN
  PROVE  /\ Change(at, removed, added, load) \in Changes
         /\ Change(at, removed, added, load).at = at
         /\ Change(at, removed, added, load).removed = removed
         /\ Change(at, removed, added, load).added = added
BY DEF Change, Changes

Lengths(e, lengths) ==
  /\ lengths \in [0 .. Len(e.past) -> Nat]
  /\ lengths[Len(e.past)] = Len(e.text)
  /\ \A i \in 1 .. Len(e.past) : Fits(e.past[i], lengths[i - 1], lengths[i])

Histories == [text : Contents, past : Seq(Changes), saved : Nat \cup {Never}]

History(e) == e \in Histories /\ \E lengths : Lengths(e, lengths)

LEMMA HistoryIs == HistoryFits <=> History(editor)
BY DEF HistoryFits, History, Histories, Lengths

(* A change lengthens the history, and undoing it shortens it again.       *)
LEMMA HistoryGrows ==
  ASSUME NEW e, History(e), NEW c \in Changes, CanChange(e.text, c),
         NEW z, z \in Histories, z.text = Changed(e.text, c), z.past = Append(e.past, c)
  PROVE  History(z)
<1>1. PICK lengths : Lengths(e, lengths)
  BY DEF History
<1> DEFINE l == Len(e.past)
           more == [i \in 0 .. l + 1 |-> IF i <= l THEN lengths[i] ELSE Len(z.text)]
<1>2. e.past \in Seq(Changes) /\ l \in Nat /\ e.text \in Contents /\ Len(e.text) \in Nat
  BY LenProperties DEF History, Histories, Contents
<1>3. /\ Len(z.past) = l + 1 /\ z.past[l + 1] = c
      /\ \A i \in 1 .. l : z.past[i] = e.past[i]
  BY <1>2, AppendProperties
<1>4. Len(z.text) \in Nat /\ Fits(c, Len(e.text), Len(z.text))
  <2>1. Len(z.text) = Len(e.text) - Len(c.removed) + Len(c.added) /\ z.text \in Seq(Chars)
    BY <1>2, ChangedIs DEF Contents
  <2> QED
    BY <2>1, LenProperties DEF Fits, CanChange
<1>5. lengths \in [0 .. l -> Nat] /\ lengths[l] = Len(e.text)
        /\ \A i \in 1 .. l : Fits(e.past[i], lengths[i - 1], lengths[i])
  BY <1>1 DEF Lengths
<1> HIDE DEF l
<1>6. more \in [0 .. l + 1 -> Nat]
  BY <1>2, <1>4, <1>5
<1>7. more[l + 1] = Len(z.text) /\ \A i \in 0 .. l : more[i] = lengths[i]
  BY <1>2
<1> HIDE DEF more
<1>8. ASSUME NEW i \in 1 .. l + 1 PROVE Fits(z.past[i], more[i - 1], more[i])
  <2>1. CASE i = l + 1
    <3>1. i - 1 = l /\ l \in 0 .. l
      BY <1>2, <2>1
    <3>2. more[i - 1] = Len(e.text) /\ more[i] = Len(z.text) /\ z.past[i] = c
      BY <1>3, <1>5, <1>7, <2>1, <3>1
    <3> QED
      BY <1>4, <3>2
  <2>2. CASE i # l + 1
    <3>1. i \in 1 .. l /\ i \in 0 .. l /\ i - 1 \in 0 .. l
      BY <1>2, <2>2
    <3>2. more[i - 1] = lengths[i - 1] /\ more[i] = lengths[i] /\ z.past[i] = e.past[i]
      BY <1>3, <1>7, <3>1
    <3>3. Fits(e.past[i], lengths[i - 1], lengths[i])
      BY <1>5, <3>1
    <3> QED
      BY <3>2, <3>3
  <2> QED
    BY <2>1, <2>2
<1>9. Lengths(z, more)
  BY <1>3, <1>6, <1>7, <1>8 DEF Lengths
<1> QED
  BY <1>9 DEF History

LEMMA HistoryShrinks ==
  ASSUME NEW e, History(e), e.past # <<>>
  PROVE  LET c == Last(e.past)
         IN  /\ c \in Changes /\ CanChange(e.text, Reversed(c))
             /\ \A z \in Histories : z.text = Changed(e.text, Reversed(c))
                                       /\ z.past = Front(e.past) => History(z)
<1> DEFINE c == Last(e.past)
           l == Len(e.past) - 1
<1>1. PICK lengths : Lengths(e, lengths)
  BY DEF History
<1>2. e.past \in Seq(Changes) /\ e.text \in Contents
  BY DEF History, Histories
<1>3. /\ Front(e.past) \in Seq(Changes) /\ c \in Changes /\ l \in Nat
      /\ Len(e.past) = l + 1 /\ Len(Front(e.past)) = l
      /\ \A i \in 1 .. l : Front(e.past)[i] = e.past[i]
  BY <1>2, FrontAndLast
<1>4. c = e.past[l + 1]
  BY <1>3 DEF Last
<1> HIDE DEF l, c
<1>5. lengths \in [0 .. l + 1 -> Nat] /\ lengths[l + 1] = Len(e.text)
        /\ \A i \in 1 .. l + 1 : Fits(e.past[i], lengths[i - 1], lengths[i])
  BY <1>1, <1>3 DEF Lengths
<1>6. Fits(c, lengths[l], Len(e.text)) /\ lengths[l] \in Nat
  <2>1. l + 1 \in 1 .. l + 1 /\ (l + 1) - 1 = l /\ l \in 0 .. l + 1
    BY <1>3
  <2> QED
    BY <1>4, <1>5, <2>1
<1>7. c.at \in Nat /\ Len(c.removed) \in Nat /\ Len(c.added) \in Nat
  BY <1>3, LenProperties DEF Changes, Contents
<1>8. /\ c.at + Len(c.added) <= Len(e.text)
      /\ lengths[l] = Len(e.text) - Len(c.added) + Len(c.removed)
  <2>1. /\ c.at + Len(c.removed) <= lengths[l]
        /\ Len(e.text) = lengths[l] - Len(c.removed) + Len(c.added)
    BY <1>6 DEF Fits
  <2> QED
    BY <1>6, <1>7, <2>1
<1>9. CanChange(e.text, Reversed(c)) /\ Reversed(c) \in Changes
  BY <1>3, <1>8, ReversedIs DEF CanChange
<1>10. ASSUME NEW z \in Histories, z.text = Changed(e.text, Reversed(c)), z.past = Front(e.past)
       PROVE  History(z)
  <2> DEFINE less == [i \in 0 .. l |-> lengths[i]]
  <2>1. Len(z.text) = lengths[l]
    <3>1. Len(z.text) = Len(e.text) - Len(c.added) + Len(c.removed)
      BY <1>2, <1>3, <1>9, <1>10, ChangedIs, ReversedIs
    <3> QED
      BY <1>8, <3>1
  <2>2. less \in [0 .. l -> Nat] /\ less[l] = lengths[l] /\ \A i \in 0 .. l : less[i] = lengths[i]
    BY <1>3, <1>5
  <2> HIDE DEF less
  <2>3. ASSUME NEW i \in 1 .. l PROVE Fits(z.past[i], less[i - 1], less[i])
    <3>1. i \in 1 .. l + 1 /\ i \in 0 .. l /\ i - 1 \in 0 .. l
      BY <1>3
    <3>2. z.past[i] = e.past[i] /\ less[i - 1] = lengths[i - 1] /\ less[i] = lengths[i]
      BY <1>3, <1>10, <2>2, <3>1
    <3>3. Fits(e.past[i], lengths[i - 1], lengths[i])
      BY <1>5, <3>1
    <3> QED
      BY <3>2, <3>3
  <2>4. Lengths(z, less)
    BY <1>3, <1>10, <2>1, <2>2, <2>3 DEF Lengths
  <2> QED
    BY <1>10, <2>4 DEF History
<1> QED
  BY <1>3, <1>9, <1>10 DEF c

(* The editor after a change, and after an undo.                           *)
LEMMA DoneIs ==
  ASSUME HistoryFits, NEW c \in Changes, CanChange(editor.text, c),
         NEW z \in Histories, z.text = Do(c).text, z.past = Do(c).past
  PROVE  History(z) /\ z.text = Changed(editor.text, c)
<1>1. Do(c).text = Changed(editor.text, c) /\ Do(c).past = Append(editor.past, c)
  BY DEF Do
<1>2. History(editor)
  BY HistoryIs
<1> QED
  BY <1>1, <1>2, HistoryGrows

LEMMA DoIs ==
  ASSUME HistoryFits, NEW c \in Changes, CanChange(editor.text, c)
  PROVE  Do(c) \in Histories /\ Do(c).text = Changed(editor.text, c)
<1>1. editor.text \in Contents /\ editor.past \in Seq(Changes) /\ editor.saved \in Nat \cup {Never}
  BY DEF HistoryFits
<1>2. Changed(editor.text, c) \in Contents
  BY <1>1, ChangedIs
<1>3. Append(editor.past, c) \in Seq(Changes)
  BY <1>1, AppendProperties
<1> QED
  BY <1>1, <1>2, <1>3 DEF Do, Histories

LEMMA UndoneIs ==
  ASSUME HistoryFits, editor.past # <<>>
  PROVE  LET c == Reversed(Last(editor.past))
         IN  /\ c \in Changes /\ CanChange(editor.text, c)
             /\ History(Undone) /\ Undone.text = Changed(editor.text, c)
<1> DEFINE c == Reversed(Last(editor.past))
<1>1. editor.text \in Contents /\ editor.past \in Seq(Changes) /\ editor.saved \in Nat \cup {Never}
        /\ editor \in Histories
  BY DEF HistoryFits, Histories
<1>2. History(editor)
  BY HistoryIs
<1>3. CanChange(editor.text, c) /\ c \in Changes
  BY <1>2, HistoryShrinks, ReversedIs
<1>4. Changed(editor.text, c) \in Contents
  BY <1>1, <1>3, ChangedIs
<1>5. Front(editor.past) \in Seq(Changes)
  BY <1>1, FrontAndLast
<1> HIDE DEF c
<1>6. Undone \in Histories /\ Undone.text = Changed(editor.text, c)
        /\ Undone.past = Front(editor.past)
  <2>1. Undone = [editor EXCEPT !.text = Changed(editor.text, c), !.past = Front(editor.past)]
    BY <1>1 DEF Undone, c, Histories
  <2> QED
    BY <1>1, <1>4, <1>5, <2>1 DEF Histories
<1>7. History(Undone)
  BY <1>2, <1>6, HistoryShrinks DEF c
<1> QED
  BY <1>3, <1>6, <1>7 DEF c

-----------------------------------------------------------------------------
(* A change is recorded in the table.                                      *)

TwoSplices(f, o, k, a) ==
  /\ Splice(Splice(f, o, k, <<>>), o, 0, a) = Splice(f, o, k, a)
  /\ Splice(f, o, 0, <<>>) = f

LEMMA SpliceTwice ==
  ASSUME NEW S, NEW f \in Seq(S), NEW o \in Nat, NEW k \in Nat, o + k <= Len(f), NEW a \in Seq(S)
  PROVE  TwoSplices(f, o, k, a)
<1>1. Len(f) \in Nat /\ o \in 0 .. Len(f) /\ k \in 0 .. Len(f) - o /\ 0 \in 0 .. Len(f) - o
  BY LenProperties
<1>2. <<>> \in Seq(S) /\ Len(<<>>) = 0
  BY EmptySeq
<1>3. Splice(f, o, k, <<>>) = Splice(f, o, k, <<>>) \o <<>>
  BY <1>1, <1>2, Spliced, ConcatEmptySeq
<1>4. PICK u \in Seq(S), v \in Seq(S), w \in Seq(S) :
        f = (u \o v) \o w /\ Len(u) = o /\ Len(v) = k
  <2>1. InThree(f, S, o, k)
    BY <1>1, SplitsTwice
  <2> QED
    BY <2>1 DEF InThree
<1>5. PartsAreSpliced(u, v, w, <<>>) /\ PartsAreSpliced(u, v, w, a)
  BY <1>2, SpliceOfParts
<1>6. u \o <<>> = u
  BY ConcatEmptySeq
<1>7. Splice(u \o w, Len(u), 0, a) = (u \o a) \o w
  BY SpliceBetween
<1>8. Splice(f, o, k, <<>>) = u \o w /\ Splice(f, o, k, a) = (u \o a) \o w
  BY <1>4, <1>5, <1>6, Zenon DEF PartsAreSpliced
<1>9. Splice(Splice(f, o, k, <<>>), o, 0, a) = Splice(f, o, k, a)
  BY <1>4, <1>7, <1>8, Zenon
<1>10. PICK x \in Seq(S), y \in Seq(S), z \in Seq(S) :
         f = (x \o y) \o z /\ Len(x) = o /\ Len(y) = 0
  <2>1. InThree(f, S, o, 0)
    BY <1>1, SplitsTwice
  <2> QED
    BY <2>1 DEF InThree
<1>11. Splice(f, o, 0, <<>>) = f
  <2>1. y = <<>>
    BY <1>10, EmptySeq
  <2>2. Splice(x \o z, Len(x), 0, <<>>) = (x \o <<>>) \o z
    BY <1>2, SpliceBetween, ZenonT(30)
  <2>3. x \o <<>> = x
    BY ConcatEmptySeq
  <2> QED
    BY <1>10, <2>1, <2>2, <2>3, Zenon
<1> QED
  BY <1>9, <1>11 DEF TwoSplices

LEMMA LogicalIs ==
  ASSUME doc \in Docs, NEW c \in Changes
  PROVE  /\ Logical(c) \in Nat /\ Len(c.removed) \in Nat /\ Len(c.added) \in Nat
         /\ c.removed \in Seq(Chars) /\ c.added \in Seq(Chars)
         /\ (c.removed = <<>> <=> Len(c.removed) = 0) /\ (c.added = <<>> <=> Len(c.added) = 0)
<1>1. doc.decoded \in Nat /\ c.at \in Nat
  BY DEF Docs, Changes
<1>2. c.removed \in Seq(Chars) /\ c.added \in Seq(Chars)
  BY DEF Changes, Contents
<1> QED
  BY <1>1, <1>2, LenProperties, EmptySeq DEF Logical

LEMMA ErasedIsBuffer ==
  ASSUME NEW n \in Nat, Buffer(buffer, n), doc \in Docs, NEW c \in Changes
  PROVE  Buffer(Erased(c), n)
<1>1. Logical(c) \in Nat /\ Len(c.removed) \in Nat /\ (c.removed = <<>> <=> Len(c.removed) = 0)
  BY LogicalIs
<1>2. CASE CanRecordErase(c) /\ c.removed # <<>>
  <2>1. Logical(c) + Len(c.removed) <= buffer.size
    BY <1>2 DEF CanRecordErase, CanErase
  <2>2. <<>> \in Seq(Chars)
    BY EmptySeq
  <2>3. Erases(buffer, Logical(c), Len(c.removed), n)
    BY <1>1, <1>2, <2>1, <2>2, EraseSplices
  <2> QED
    BY <1>2, <2>3 DEF Erases, Erased
<1>3. CASE c.removed = <<>> \/ ~CanRecordErase(c)
  <2>1. Erased(c) = buffer
    BY <1>1, <1>3 DEF Erased, Erase
  <2> QED
    BY <2>1
<1> QED
  BY <1>2, <1>3

LEMMA RecordedIsBuffer ==
  ASSUME NEW n \in Nat, Buffer(buffer, n), doc \in Docs, NEW c \in Changes
  PROVE  Buffer(Recorded(c), n)
<1>1. Buffer(Erased(c), n) /\ Logical(c) \in Nat /\ c.added \in Seq(Chars)
  BY ErasedIsBuffer, LogicalIs
<1>2. CASE c.added # <<>> /\ CanInsert(Erased(c), Logical(c))
  <2>1. Erased(c).size \in Nat
    BY <1>1, BufferFacts
  <2>2. Logical(c) \in 0 .. Erased(c).size /\ <<>> \in Seq(Chars)
    BY <1>1, <1>2, <2>1, EmptySeq DEF CanInsert
  <2>3. Inserts(Erased(c), Logical(c), c.added, n)
    BY <1>1, <1>2, <2>2, InsertSplices
  <2> QED
    BY <1>2, <2>3 DEF Inserts, Recorded
<1>3. CASE ~(c.added # <<>> /\ CanInsert(Erased(c), Logical(c)))
  BY <1>1, <1>3 DEF Recorded
<1> QED
  BY <1>2, <1>3

Records(c, mapped) ==
  /\ CanRecord(c)
  /\ Text(Recorded(c), mapped)
       = Splice(Text(buffer, mapped), Logical(c), Len(c.removed), c.added)
  /\ Recorded(c).size = buffer.size - Len(c.removed) + Len(c.added)

(* UpdateLargeBuffer does to the whole text what the editor does to its.   *)
LEMMA RecordedIs ==
  ASSUME NEW n \in Nat, Buffer(buffer, n), doc \in Docs, NEW c \in Changes,
         Logical(c) + Len(c.removed) <= buffer.size, NEW mapped \in Seq(Chars)
  PROVE  Records(c, mapped)
<1> DEFINE o == Logical(c)
           k == Len(c.removed)
           f == Text(buffer, mapped)
           e == Erased(c)
<1>1. /\ o \in Nat /\ k \in Nat /\ Len(c.added) \in Nat /\ c.added \in Seq(Chars)
      /\ (c.removed = <<>> <=> k = 0) /\ (c.added = <<>> <=> Len(c.added) = 0)
  BY LogicalIs
<1>2. f \in Seq(Cells) /\ Len(f) = buffer.size /\ buffer.size \in Nat
  BY BufferText, BufferFacts
<1>3. c.added \in Seq(Cells)
  <2>1. Chars \subseteq Cells
    BY DEF Cells
  <2> QED
    BY <1>1, <2>1, SeqMonotonic
<1>4. TwoSplices(f, o, k, c.added)
  <2> HIDE DEF f, o, k
  <2> QED
    BY <1>1, <1>2, <1>3, SpliceTwice DEF f, o, k
<1>5. CanRecordErase(c)
  BY DEF CanRecordErase, CanErase
<1>6. Text(e, mapped) = Splice(f, o, k, <<>>) /\ e.size = buffer.size - k /\ Buffer(e, n)
  <2>1. Buffer(e, n)
    BY ErasedIsBuffer
  <2>2. CASE k = 0
    <3>1. e = buffer
      BY <1>1, <2>2 DEF Erased, Erase
    <3>2. Splice(f, o, k, <<>>) = f
      BY <1>4, <2>2 DEF TwoSplices
    <3> HIDE DEF e, f, k
    <3> QED
      BY <1>2, <2>1, <2>2, <3>1, <3>2 DEF f
  <2>3. CASE k # 0
    <3>1. <<>> \in Seq(Chars)
      BY EmptySeq
    <3>2. Erases(buffer, o, k, n) /\ ErasesText(buffer, o, k, mapped)
      BY <1>1, <2>3, <3>1, EraseSplices
    <3> QED
      BY <1>5, <2>1, <3>2 DEF Erases, ErasesText, Erased
  <2> QED
    BY <2>2, <2>3
<1>7. CanInsert(e, o)
  BY <1>1, <1>2, <1>6 DEF CanInsert
<1>8. CASE c.added = <<>>
  <2>1. Recorded(c) = e /\ CanRecord(c)
    BY <1>5, <1>8 DEF Recorded, CanRecord
  <2> HIDE DEF e, f, o, k
  <2>2. Recorded(c).size = buffer.size - k + Len(c.added)
    BY <1>1, <1>2, <1>6, <1>8, <2>1
  <2>3. Text(Recorded(c), mapped) = Splice(f, o, k, c.added)
    BY <1>6, <1>8, <2>1
  <2> QED
    BY <2>1, <2>2, <2>3 DEF Records, f, o, k
<1>9. CASE c.added # <<>>
  <2>1. Recorded(c) = Insert(e, o, c.added) /\ CanRecord(c)
    BY <1>5, <1>7, <1>9 DEF Recorded, CanRecord
  <2>2. o \in 0 .. e.size /\ e.size \in Nat
    <3>1. e.size \in Nat
      BY <1>6, BufferFacts
    <3> QED
      BY <1>1, <1>7, <3>1 DEF CanInsert
  <2>3. <<>> \in Seq(Chars)
    BY EmptySeq
  <2> HIDE DEF e, f, o, k
  <2>4. Inserts(e, o, c.added, n) /\ InsertsText(e, o, c.added, mapped)
    BY <1>1, <1>6, <1>9, <2>2, <2>3, InsertSplices
  <2>5. Text(Recorded(c), mapped) = Splice(f, o, k, c.added)
    BY <1>4, <1>6, <2>1, <2>4 DEF InsertsText, TwoSplices
  <2>6. Recorded(c).size = buffer.size - k + Len(c.added)
    BY <1>6, <2>1, <2>4 DEF Inserts
  <2> QED
    BY <2>1, <2>5, <2>6 DEF Records, f, o, k
<1> QED
  BY <1>8, <1>9


ChangesAlike(t, f, d, at, k, a) ==
  IsWindow(Splice(t, at, k, a), Splice(f, d + at, k, a), d)

(* A change of a window and the same change of the text it shows.          *)
LEMMA WindowsChangeAlike ==
  ASSUME NEW S, NEW f \in Seq(S), NEW t \in Seq(S), NEW d \in Nat, IsWindow(t, f, d),
         NEW at \in Nat, NEW k \in Nat, at + k <= Len(t), NEW a \in Seq(S)
  PROVE  ChangesAlike(t, f, d, at, k, a)
<1>1. Len(f) \in Nat /\ Len(t) \in Nat /\ d + Len(t) <= Len(f)
  BY LenProperties DEF IsWindow
<1>2. PICK p \in Seq(S), x \in Seq(S), r \in Seq(S) :
        f = (p \o x) \o r /\ Len(p) = d /\ Len(x) = Len(t)
  <2>1. InThree(f, S, d, Len(t))
    <3>1. d \in 0 .. Len(f) /\ Len(t) \in 0 .. Len(f) - d
      BY <1>1
    <3> QED
      BY <3>1, SplitsTwice
  <2> QED
    BY <2>1 DEF InThree
<1>3. x = t
  <2>1. p \o x \in Seq(S) /\ Len(p \o x) = d + Len(t)
    <3>1. p \in Seq(S) /\ x \in Seq(S) /\ Len(p) = d /\ Len(x) = Len(t)
      BY <1>2
    <3>2. p \o x \in Seq(S) /\ Len(p \o x) = Len(p) + Len(x)
      BY <3>1, ConcatBegins
    <3> QED
      BY <3>1, <3>2
  <2>2. SubSeq(p \o x, Len(p) + 1, Len(p \o x)) = x
    BY PrefixAndRest
  <2>3. SubSeq((p \o x) \o r, d + 1, d + Len(t)) = SubSeq(p \o x, d + 1, d + Len(t))
    <3> DEFINE q == p \o x
               all == q \o r
               m == d + Len(t)
    <3>1. all \in Seq(S) /\ Len(all) = m + Len(r) /\ \A i \in 1 .. m : all[i] = q[i]
      <4>1. q \in Seq(S) /\ Len(q) = m
        BY <2>1
      <4> HIDE DEF q, m
      <4> QED
        BY <4>1, ConcatBegins DEF Begins
    <3>2. d \in Nat /\ m \in Nat /\ Len(q) = m /\ q \in Seq(S) /\ Len(r) \in Nat /\ d <= m
      BY <1>1, <2>1, LenProperties
    <3> HIDE DEF q, all, m
    <3>3. d + 1 \in Int /\ 1 <= d + 1 /\ m <= Len(all) /\ m <= Len(q) /\ m \in Int
      BY <3>1, <3>2
    <3> DEFINE y == SubSeq(all, d + 1, m)
               z == SubSeq(q, d + 1, m)
               l == m - (d + 1) + 1
    <3>4. /\ y \in Seq(S) /\ Len(y) = IF d + 1 <= m THEN l ELSE 0
          /\ \A i \in 1 .. l : y[i] = all[d + 1 + i - 1]
      BY <3>1, <3>3, SubSeqIn
    <3>5. /\ z \in Seq(S) /\ Len(z) = IF d + 1 <= m THEN l ELSE 0
          /\ \A i \in 1 .. l : z[i] = q[d + 1 + i - 1]
      BY <3>2, <3>3, SubSeqIn
    <3> HIDE DEF y, z
    <3>6. Len(y) = Len(z)
      BY <3>4, <3>5
    <3>7. ASSUME NEW i \in 1 .. Len(y) PROVE y[i] = z[i]
      <4>1. i \in 1 .. l /\ d + 1 + i - 1 \in 1 .. m
        BY <3>2, <3>4, <3>7
      <4> QED
        BY <3>1, <3>4, <3>5, <4>1
    <3>8. y = z
      BY <3>4, <3>5, <3>6, <3>7, SeqEqual
    <3> QED
      BY <3>8 DEF y, z, all, q, m
  <2>4. t = SubSeq(f, d + 1, d + Len(t))
    BY DEF IsWindow
  <2> QED
    BY <1>2, <2>1, <2>2, <2>3, <2>4, Zenon
<1>4. PICK u \in Seq(S), v \in Seq(S), w \in Seq(S) :
        t = (u \o v) \o w /\ Len(u) = at /\ Len(v) = k
  <2>1. InThree(t, S, at, k)
    <3>1. at \in 0 .. Len(t) /\ k \in 0 .. Len(t) - at
      BY <1>1
    <3> QED
      BY <3>1, SplitsTwice
  <2> QED
    BY <2>1 DEF InThree
<1> DEFINE z == (u \o a) \o w
<1>5. z \in Seq(S) /\ Splice(t, at, k, a) = z
  <2>1. PartsAreSpliced(u, v, w, a)
    BY SpliceOfParts
  <2>2. z \in Seq(S)
    BY ConcatProperties
  <2> QED
    BY <1>4, <2>1, <2>2 DEF PartsAreSpliced
<1>6. Splice(f, d + at, k, a) = (p \o z) \o r
  <2> DEFINE pu == p \o u
             wr == w \o r
  <2>1. pu \in Seq(S) /\ wr \in Seq(S) /\ Len(pu) = d + at
    BY <1>2, <1>4, ConcatBegins
  <2>2. f = (pu \o v) \o wr
    <3>1. /\ Associates(p, u \o v, w) /\ Associates(p, u, v) /\ Associates(pu \o v, w, r)
          /\ u \o v \in Seq(S) /\ pu \o v \in Seq(S)
      <4>1. u \o v \in Seq(S) /\ pu \o v \in Seq(S)
        BY <2>1, ConcatProperties
      <4> HIDE DEF pu
      <4> QED
        BY <2>1, <4>1, Association
    <3>2. p \o t = (pu \o v) \o w
      BY <1>4, <3>1 DEF Associates
    <3>3. f = (p \o t) \o r
      BY <1>2, <1>3
    <3> QED
      BY <3>1, <3>2, <3>3, Zenon DEF Associates
  <2>3. (pu \o a) \o wr = (p \o z) \o r
    <3>1. /\ Associates(p, u \o a, w) /\ Associates(p, u, a) /\ Associates(pu \o a, w, r)
          /\ u \o a \in Seq(S) /\ pu \o a \in Seq(S)
      <4>1. u \o a \in Seq(S) /\ pu \o a \in Seq(S)
        BY <2>1, ConcatProperties
      <4> HIDE DEF pu
      <4> QED
        BY <2>1, <4>1, Association
    <3>2. p \o z = (pu \o a) \o w
      BY <3>1 DEF Associates
    <3> QED
      BY <3>1, <3>2, Zenon DEF Associates
  <2>4. PartsAreSpliced(pu, v, wr, a)
    <3> HIDE DEF pu, wr
    <3> QED
      BY <2>1, SpliceOfParts
  <2> QED
    BY <1>4, <2>1, <2>2, <2>3, <2>4, Zenon DEF PartsAreSpliced
<1> HIDE DEF z
<1> DEFINE pz == p \o z
           all == pz \o r
<1>7. pz \in Seq(S) /\ Len(pz) = d + Len(z) /\ Len(all) = (d + Len(z)) + Len(r)
  <2>1. pz \in Seq(S) /\ Len(pz) = d + Len(z)
    BY <1>2, <1>5, ConcatBegins
  <2> HIDE DEF pz
  <2> QED
    BY <2>1, ConcatBegins
<1>8. SubSeq(all, d + 1, d + Len(z)) = z
  <2>1. Len(z) \in Nat /\ Len(r) \in Nat
    BY <1>5, LenProperties
  <2>2. /\ all \in Seq(S)
        /\ \A i \in 1 .. d + Len(z) : all[i] = pz[i]
    BY <1>7, <2>1, ConcatProperties
  <2>3. \A i \in 1 .. Len(z) : pz[d + i] = z[i]
    <3>1. \A i \in 1 .. Len(p) + Len(z) : pz[i] = IF i <= Len(p) THEN p[i] ELSE z[i - Len(p)]
      BY <1>5, ConcatProperties
    <3> HIDE DEF pz
    <3>2. ASSUME NEW i \in 1 .. Len(z) PROVE pz[d + i] = z[i]
      <4>1. d + i \in 1 .. Len(p) + Len(z) /\ ~(d + i <= Len(p)) /\ (d + i) - Len(p) = i
        BY <1>2, <2>1
      <4> QED
        BY <3>1, <4>1
    <3> QED
      BY <3>2
  <2> HIDE DEF pz, all
  <2> DEFINE y == SubSeq(all, d + 1, d + Len(z))
             l == (d + Len(z)) - (d + 1) + 1
  <2>4. d + 1 \in Int /\ d + Len(z) \in Int /\ 1 <= d + 1 /\ d + Len(z) <= Len(all) /\ l = Len(z)
    BY <1>7, <2>1 DEF all
  <2>5. /\ y \in Seq(S) /\ Len(y) = IF d + 1 <= d + Len(z) THEN l ELSE 0
        /\ \A i \in 1 .. l : y[i] = all[d + 1 + i - 1]
    <3> HIDE DEF y
    <3>1. /\ SubSeq(all, d + 1, d + Len(z)) \in Seq(S)
          /\ Len(SubSeq(all, d + 1, d + Len(z))) = IF d + 1 <= d + Len(z) THEN l ELSE 0
          /\ \A i \in 1 .. l : SubSeq(all, d + 1, d + Len(z))[i] = all[d + 1 + i - 1]
      BY <2>2, <2>4, SubSeqIn, SMTT(30)
    <3> QED
      BY <3>1 DEF y
  <2> HIDE DEF y, l
  <2>6. Len(y) = Len(z)
    BY <2>1, <2>4, <2>5
  <2>7. ASSUME NEW i \in 1 .. Len(z) PROVE y[i] = z[i]
    <3>1. i \in 1 .. l /\ d + 1 + i - 1 = d + i /\ d + i \in 1 .. d + Len(z)
      BY <2>1, <2>4
    <3> QED
      BY <2>2, <2>3, <2>5, <3>1
  <2>8. y = z
    BY <1>5, <2>5, <2>6, <2>7, SeqEqual
  <2> QED
    BY <2>8 DEF y
<1>9. Len(z) \in Nat /\ Len(r) \in Nat
  BY <1>5, LenProperties
<1>10. IsWindow(z, all, d)
  BY <1>7, <1>8, <1>9 DEF IsWindow
<1> QED
  BY <1>5, <1>6, <1>10 DEF ChangesAlike, pz, all

-----------------------------------------------------------------------------
(* Searching.  The chunks of the range between two places.                 *)

LEMMA Times ==
  ASSUME NEW i \in Nat, NEW j \in Nat, i <= j, NEW c \in Nat
  PROVE  i * c \in Nat /\ j * c \in Nat /\ i * c <= j * c /\ (i + 1) * c = i * c + c
OBVIOUS

Chunks(start, end, chunk) == (end - start + chunk - 1) \div chunk

LEMMA ChunksCover ==
  ASSUME NEW start \in Nat, NEW end \in Nat, start < end, NEW chunk \in Nat \ {0}
  PROVE  /\ Chunks(start, end, chunk) \in Nat \ {0}
         /\ (Chunks(start, end, chunk) - 1) * chunk < end - start
         /\ end - start <= Chunks(start, end, chunk) * chunk
<1> DEFINE l == end - start
           x == l + chunk - 1
           q == x \div chunk
           r == x % chunk
<1>1. x \in Nat /\ x >= chunk /\ l \in Nat
  OBVIOUS
<1>2. q \in Int /\ r \in 0 .. chunk - 1 /\ x = chunk * q + r
  <2> HIDE DEF x
  <2> QED
    BY <1>1
<1> HIDE DEF q, r
<1>3. q > 0
  <2>1. SUFFICES ASSUME q <= 0 PROVE FALSE
    BY <1>2
  <2>2. chunk * q <= 0
    BY <1>2, <2>1
  <2> QED
    BY <1>1, <1>2, <2>2
<1>4. (q - 1) * chunk = chunk * q - chunk /\ q * chunk = chunk * q /\ chunk * q \in Int
  BY <1>2
<1>5. (q - 1) * chunk < l /\ l <= q * chunk
  BY <1>1, <1>2, <1>4
<1> QED
  BY <1>2, <1>3, <1>5 DEF Chunks, q

Cursor(start, chunk, i) == start + (i - 1) * chunk

ChunkBytes(b, mapped, start, end, chunk, i) ==
  Read(b, mapped, Cursor(start, chunk, i), Least(chunk, end - Cursor(start, chunk, i)))

LEMMA CursorIs ==
  ASSUME NEW start \in Nat, NEW end \in Nat, start < end, NEW chunk \in Nat \ {0},
         NEW i \in 1 .. Chunks(start, end, chunk)
  PROVE  /\ Cursor(start, chunk, i) \in Nat /\ start <= Cursor(start, chunk, i)
         /\ Cursor(start, chunk, i) < end
         /\ Least(chunk, end - Cursor(start, chunk, i)) \in Nat \ {0}
<1> DEFINE n == Chunks(start, end, chunk)
           c == Cursor(start, chunk, i)
<1>1. n \in Nat \ {0} /\ (n - 1) * chunk < end - start
  BY ChunksCover
<1> HIDE DEF n
<1>2. i - 1 \in Nat /\ n - 1 \in Nat /\ i - 1 <= n - 1
  BY <1>1 DEF n
<1>3. (i - 1) * chunk \in Nat /\ (i - 1) * chunk <= (n - 1) * chunk /\ (n - 1) * chunk \in Nat
  BY <1>2, Times
<1>4. c \in Nat /\ start <= c /\ c < end
  BY <1>1, <1>3 DEF Cursor
<1> HIDE DEF c
<1>5. end - c \in Nat \ {0}
  BY <1>4
<1>6. Least(chunk, end - c) \in {chunk, end - c}
  BY <1>5, LeastOf
<1> QED
  BY <1>4, <1>5, <1>6 DEF c

LEMMA ChunkBytesType ==
  ASSUME NEW n \in Nat, NEW b, Buffer(b, n), NEW mapped \in Seq(Chars), NEW start \in Nat,
         NEW end \in Nat, start < end, NEW chunk \in Nat \ {0},
         NEW i \in 1 .. Chunks(start, end, chunk)
  PROVE  ChunkBytes(b, mapped, start, end, chunk, i) \in Seq(Chars)
<1> DEFINE c == Cursor(start, chunk, i)
           l == Least(chunk, end - c)
           r == Read(b, mapped, c, l)
<1>1. c \in Nat /\ l \in Nat
  BY CursorIs
<1> HIDE DEF c, l
<1>2. CASE r = <<>>
  BY <1>2, EmptySeq DEF ChunkBytes, c, l
<1>3. CASE r # <<>>
  <2>1. Returns(r, b, mapped, c, Least(b.size - c, l))
    BY <1>1, <1>3, ReadReturns
  <2> QED
    BY <2>1 DEF Returns, ChunkBytes, c, l
<1> QED
  BY <1>2, <1>3

LEMMA LastBytesAre ==
  ASSUME NEW S, NEW s \in Seq(S), NEW k \in Nat
  PROVE  /\ LastBytes(s, k) \in Seq(S)
         /\ LastBytes(s, k) = SubSeq(s, Len(s) - Least(k, Len(s)) + 1, Len(s))
         /\ Least(k, Len(s)) \in 0 .. Len(s)
<1> DEFINE l == Least(k, Len(s))
<1>1. Len(s) \in Nat
  BY LenProperties
<1>2. l \in 0 .. Len(s)
  BY <1>1 DEF Least
<1> HIDE DEF l
<1>3. Len(s) - l + 1 \in Int /\ 1 <= Len(s) - l + 1 /\ Len(s) \in Int /\ Len(s) <= Len(s)
  BY <1>1, <1>2
<1>4. SubSeq(s, Len(s) - l + 1, Len(s)) \in Seq(S)
  BY <1>3, SubSeqIn
<1> QED
  BY <1>2, <1>4 DEF LastBytes, l

(* What is carried from chunk to chunk, and what the search makes of it.   *)
Carries(f, b, mapped, needle, start, end, chunk) ==
  /\ f[0] = <<>>
  /\ \A i \in 1 .. Chunks(start, end, chunk) :
       f[i] = LastBytes(f[i - 1] \o ChunkBytes(b, mapped, start, end, chunk, i), Overlap(needle))

Finds(f, b, mapped, needle, start, end, chunk) ==
  LET bytes(i) == ChunkBytes(b, mapped, start, end, chunk, i)
      found(i) == Occurs(needle, f[i - 1] \o bytes(i))
      hits     == {i \in 1 .. Chunks(start, end, chunk) :
                     /\ found(i) # {}
                     /\ \A j \in 1 .. i : bytes(j) # <<>>}
  IN  IF needle = <<>> \/ start >= b.size \/ end <= start
           \/ Len(needle) > end - start \/ hits = {}
      THEN NotFound
      ELSE LET i == First(hits)
           IN  Cursor(start, chunk, i) - Len(f[i - 1]) + First(found(i))

LEMMA FindCarries ==
  ASSUME NEW n \in Nat, NEW b, Buffer(b, n), NEW mapped \in Seq(Chars), NEW start \in Nat,
         NEW stop \in Nat, start < Least(stop, b.size),
         NEW chunk \in Nat \ {0}, NEW needle \in Seq(Chars), needle # <<>>
  PROVE  \E f \in [0 .. Chunks(start, Least(stop, b.size), chunk) -> Seq(Chars)] :
           /\ Carries(f, b, mapped, needle, start, Least(stop, b.size), chunk)
           /\ Find(b, mapped, needle, start, stop, chunk)
                = Finds(f, b, mapped, needle, start, Least(stop, b.size), chunk)
<1> DEFINE end == Least(stop, b.size)
<1>1. end \in Nat /\ start < end /\ start < b.size /\ b.size \in Nat
  <2>1. b.size \in Nat
    BY BufferFacts
  <2>2. end \in {stop, b.size} /\ end <= b.size
    BY <2>1, LeastOf
  <2> HIDE DEF end
  <2> QED
    BY <2>1, <2>2 DEF end
<1> DEFINE next(i, x) ==
             LastBytes(x \o ChunkBytes(b, mapped, start, end, chunk, i), Overlap(needle))
           IsIt(g) == g = [i \in 0 .. Chunks(start, end, chunk) |->
                             IF i = 0 THEN <<>> ELSE next(i, g[i - 1])]
           step == [p \in (1 .. Chunks(start, end, chunk)) \X Seq(Chars) |-> next(p[1], p[2])]
           h == CHOOSE g : IsIt(g)
<1>2. Chunks(start, end, chunk) \in Nat /\ <<>> \in Seq(Chars)
  <2> HIDE DEF end
  <2> QED
    BY <1>1, ChunksCover, EmptySeq
<1>3. ASSUME NEW i \in 1 .. Chunks(start, end, chunk), NEW x \in Seq(Chars)
      PROVE  next(i, x) \in Seq(Chars)
  <2> DEFINE bytes == ChunkBytes(b, mapped, start, end, chunk, i)
  <2>1. bytes \in Seq(Chars)
    <3> HIDE DEF end
    <3> QED
      BY <1>1, ChunkBytesType
  <2>2. Overlap(needle) \in Nat
    BY LenProperties, EmptySeq DEF Overlap
  <2> HIDE DEF bytes
  <2>3. x \o bytes \in Seq(Chars)
    BY <2>1, ConcatProperties
  <2> QED
    BY <2>2, <2>3, LastBytesAre DEF bytes
<1>4. Find(b, mapped, needle, start, stop, chunk) = Finds(h, b, mapped, needle, start, end, chunk)
  BY DEF Find, Finds, Chunks, Cursor, ChunkBytes
<1> HIDE DEF end
<1> HIDE DEF next
<1>5. /\ step \in [(1 .. Chunks(start, end, chunk)) \X Seq(Chars) -> Seq(Chars)]
      /\ \A i \in 1 .. Chunks(start, end, chunk), x \in Seq(Chars) : step[<<i, x>>] = next(i, x)
  BY <1>3
<1> HIDE DEF step
<1>6. PICK f \in [0 .. Chunks(start, end, chunk) -> Seq(Chars)] :
        Recursive(f, <<>>, step, Chunks(start, end, chunk))
  BY <1>2, <1>5, Recursion
<1>7. IsIt(f)
  <2>1. ASSUME NEW i \in 0 .. Chunks(start, end, chunk)
        PROVE  f[i] = IF i = 0 THEN <<>> ELSE next(i, f[i - 1])
    <3>1. CASE i = 0
      BY <1>6, <3>1 DEF Recursive
    <3>2. CASE i # 0
      <4>1. i \in 1 .. Chunks(start, end, chunk) /\ i - 1 \in 0 .. Chunks(start, end, chunk)
        BY <1>2, <3>2
      <4>2. f[i - 1] \in Seq(Chars) /\ f[i] = step[<<i, f[i - 1]>>]
        BY <1>6, <4>1 DEF Recursive
      <4> QED
        BY <1>5, <3>2, <4>1, <4>2, Zenon
    <3> QED
      BY <3>1, <3>2
  <2> QED
    BY <2>1
<1>8. IsIt(h)
  <2> HIDE DEF IsIt
  <2> QED
    BY <1>7, Zenon
<1> HIDE DEF h
<1>9. h = [i \in 0 .. Chunks(start, end, chunk) |-> h[i]] /\ h[0] = <<>>
  BY <1>2, <1>8
<1>10. ASSUME NEW i \in 1 .. Chunks(start, end, chunk) PROVE h[i] = next(i, h[i - 1])
  <2>1. i \in 0 .. Chunks(start, end, chunk) /\ i # 0
    BY <1>2
  <2> QED
    BY <1>8, <2>1
<1> HIDE DEF IsIt
<1>11. StepsFrom(h, <<>>, step, Chunks(start, end, chunk), Seq(Chars))
  BY <1>5, <1>9, <1>10 DEF StepsFrom
<1>12. h \in [0 .. Chunks(start, end, chunk) -> Seq(Chars)]
  BY <1>2, <1>5, <1>11, RecursionStays
<1>13. Carries(h, b, mapped, needle, start, end, chunk)
  BY <1>9, <1>10 DEF Carries, next
<1> QED
  BY <1>4, <1>12, <1>13 DEF end

(* Parts of a text.                                                        *)
PartOf(f, a, c) == SubSeq(f, a + 1, c)

LEMMA PartIs ==
  ASSUME NEW S, NEW f \in Seq(S), NEW c \in 0 .. Len(f), NEW a \in 0 .. c
  PROVE  /\ PartOf(f, a, c) \in Seq(S) /\ Len(PartOf(f, a, c)) = c - a
         /\ \A i \in 1 .. c - a : PartOf(f, a, c)[i] = f[a + i]
<1> DEFINE p == SubSeq(f, a + 1, c)
<1>1. Len(f) \in Nat
  BY LenProperties
<1>2. a + 1 \in Int /\ c \in Int /\ 1 <= a + 1 /\ c <= Len(f)
  BY <1>1
<1>3. /\ p \in Seq(S) /\ Len(p) = IF a + 1 <= c THEN c - (a + 1) + 1 ELSE 0
      /\ \A i \in 1 .. c - (a + 1) + 1 : p[i] = f[(a + 1) + i - 1]
  BY <1>2, SubSeqIn
<1> HIDE DEF p
<1>4. Len(p) = c - a
  BY <1>1, <1>3
<1>5. ASSUME NEW i \in 1 .. c - a PROVE p[i] = f[a + i]
  <2>1. i \in 1 .. c - (a + 1) + 1 /\ (a + 1) + i - 1 = a + i
    BY <1>1
  <2> QED
    BY <1>3, <2>1
<1> QED
  BY <1>3, <1>4, <1>5 DEF PartOf, p

PartsInParts(f, a, c, i, j) == PartOf(PartOf(f, a, c), i, j) = PartOf(f, a + i, a + j)

LEMMA PartOfPart ==
  ASSUME NEW S, NEW f \in Seq(S), NEW c \in 0 .. Len(f), NEW a \in 0 .. c,
         NEW j \in 0 .. c - a, NEW i \in 0 .. j
  PROVE  PartsInParts(f, a, c, i, j)
<1> DEFINE p == PartOf(f, a, c)
           q == PartOf(p, i, j)
           r == PartOf(f, a + i, a + j)
<1>1. Len(f) \in Nat
  BY LenProperties
<1>2. p \in Seq(S) /\ Len(p) = c - a /\ \A k \in 1 .. c - a : p[k] = f[a + k]
  BY PartIs
<1> HIDE DEF p
<1>3. q \in Seq(S) /\ Len(q) = j - i /\ \A k \in 1 .. j - i : q[k] = p[i + k]
  <2>1. j \in 0 .. Len(p) /\ p \in Seq(S)
    BY <1>2
  <2> QED
    BY <2>1, PartIs
<1>4. r \in Seq(S) /\ Len(r) = (a + j) - (a + i)
        /\ \A k \in 1 .. (a + j) - (a + i) : r[k] = f[(a + i) + k]
  <2>1. a + j \in 0 .. Len(f) /\ a + i \in 0 .. a + j
    BY <1>1
  <2> QED
    BY <2>1, PartIs
<1> HIDE DEF q, r
<1>5. Len(r) = j - i
  BY <1>1, <1>4
<1>6. ASSUME NEW k \in 1 .. j - i PROVE q[k] = r[k]
  <2>1. i + k \in 1 .. c - a /\ k \in 1 .. (a + j) - (a + i) /\ a + (i + k) = (a + i) + k
    BY <1>1
  <2> QED
    BY <1>2, <1>3, <1>4, <2>1
<1>7. q = r
  BY <1>3, <1>4, <1>5, <1>6, SeqEqual
<1> QED
  BY <1>7 DEF PartsInParts, p, q, r

PartsMeet(f, a, c, e) == PartOf(f, a, c) \o PartOf(f, c, e) = PartOf(f, a, e)

LEMMA PartsJoin ==
  ASSUME NEW S, NEW f \in Seq(S), NEW e \in 0 .. Len(f), NEW c \in 0 .. e, NEW a \in 0 .. c
  PROVE  PartsMeet(f, a, c, e)
<1> DEFINE p == PartOf(f, a, c)
           q == PartOf(f, c, e)
           r == PartOf(f, a, e)
           s == p \o q
<1>1. Len(f) \in Nat
  BY LenProperties
<1>2. c \in 0 .. Len(f) /\ a \in 0 .. e
  BY <1>1
<1>3. p \in Seq(S) /\ Len(p) = c - a /\ \A i \in 1 .. c - a : p[i] = f[a + i]
  BY <1>2, PartIs
<1>4. q \in Seq(S) /\ Len(q) = e - c /\ \A i \in 1 .. e - c : q[i] = f[c + i]
  BY PartIs
<1>5. r \in Seq(S) /\ Len(r) = e - a /\ \A i \in 1 .. e - a : r[i] = f[a + i]
  BY <1>2, PartIs
<1> HIDE DEF p, q, r
<1>6. s \in Seq(S) /\ Len(s) = Len(p) + Len(q)
        /\ \A i \in 1 .. Len(p) + Len(q) : s[i] = IF i <= Len(p) THEN p[i] ELSE q[i - Len(p)]
  BY <1>3, <1>4, ConcatProperties
<1> HIDE DEF s
<1>7. Len(s) = Len(r)
  BY <1>1, <1>3, <1>4, <1>5, <1>6
<1>8. ASSUME NEW i \in 1 .. e - a PROVE s[i] = r[i]
  <2>1. i \in 1 .. Len(p) + Len(q)
    BY <1>1, <1>3, <1>4
  <2>2. CASE i <= c - a
    <3>1. i \in 1 .. c - a
      BY <2>2
    <3> QED
      BY <1>3, <1>5, <1>6, <2>1, <3>1
  <2>3. CASE ~(i <= c - a)
    <3>1. i - (c - a) \in 1 .. e - c /\ c + (i - (c - a)) = a + i
      BY <1>1, <2>3
    <3>2. s[i] = q[i - (c - a)]
      BY <1>3, <1>6, <2>1, <2>3
    <3> QED
      BY <1>4, <1>5, <3>1, <3>2
  <2> QED
    BY <2>2, <2>3
<1>9. s = r
  BY <1>5, <1>6, <1>7, <1>8, SeqEqual
<1> QED
  BY <1>9 DEF PartsMeet, p, q, r, s

KeepsLast(f, a, c, k) ==
  LastBytes(PartOf(f, a, c), k) = PartOf(f, IF c - k < a THEN a ELSE c - k, c)

LEMMA LastOfPart ==
  ASSUME NEW S, NEW f \in Seq(S), NEW c \in 0 .. Len(f), NEW a \in 0 .. c, NEW k \in Nat
  PROVE  KeepsLast(f, a, c, k)
<1> DEFINE p == PartOf(f, a, c)
           l == Least(k, Len(p))
<1>1. p \in Seq(S) /\ Len(p) = c - a /\ Len(f) \in Nat
  BY PartIs, LenProperties
<1> HIDE DEF p
<1>2. LastBytes(p, k) = SubSeq(p, Len(p) - l + 1, Len(p)) /\ l \in 0 .. Len(p)
  BY <1>1, LastBytesAre
<1>3. l = IF c - k < a THEN c - a ELSE k
  BY <1>1 DEF Least
<1> HIDE DEF l
<1>4. LastBytes(p, k) = PartOf(p, (c - a) - l, c - a)
  BY <1>1, <1>2 DEF PartOf
<1>5. (c - a) - l \in 0 .. c - a
  BY <1>1, <1>2
<1>6. PartsInParts(f, a, c, (c - a) - l, c - a)
  <2>1. c - a \in 0 .. c - a
    BY <1>1
  <2> QED
    BY <1>5, <2>1, PartOfPart
<1>7. LastBytes(p, k) = PartOf(f, a + ((c - a) - l), a + (c - a))
  BY <1>4, <1>6 DEF PartsInParts, p
<1>8. a + (c - a) = c /\ a + ((c - a) - l) = IF c - k < a THEN a ELSE c - k
  BY <1>1, <1>3
<1>9. LastBytes(p, k) = PartOf(f, IF c - k < a THEN a ELSE c - k, c)
  BY <1>7, <1>8
<1> QED
  BY <1>9 DEF KeepsLast, p

OccursIn(needle, f, a, c) ==
  \A k : k \in Occurs(needle, PartOf(f, a, c))
           <=> k \in Nat /\ a + k \in Occurs(needle, f) /\ a + k + Len(needle) <= c

LEMMA OccursInPart ==
  ASSUME NEW S, NEW f \in Seq(S), NEW c \in 0 .. Len(f), NEW a \in 0 .. c, NEW needle \in Seq(S)
  PROVE  OccursIn(needle, f, a, c)
<1> DEFINE p == PartOf(f, a, c)
           m == Len(needle)
<1>1. p \in Seq(S) /\ Len(p) = c - a /\ Len(f) \in Nat /\ m \in Nat
  BY PartIs, LenProperties
<1> HIDE DEF p, m
<1>2. ASSUME NEW k \in Nat, a + k + m <= c
      PROVE  SubSeq(p, k + 1, k + m) = SubSeq(f, (a + k) + 1, (a + k) + m)
  <2>1. k + m \in 0 .. c - a /\ k \in 0 .. k + m
    BY <1>1, <1>2
  <2>2. PartsInParts(f, a, c, k, k + m)
    BY <2>1, PartOfPart
  <2>3. PartOf(p, k, k + m) = PartOf(f, a + k, a + (k + m)) /\ a + (k + m) = (a + k) + m
    BY <1>1, <2>2 DEF PartsInParts, p
  <2> QED
    BY <2>3 DEF PartOf
<1>3. Occurs(needle, p) = {k \in 0 .. (c - a) - m : SubSeq(p, k + 1, k + m) = needle}
  BY <1>1 DEF Occurs, m
<1>4. Occurs(needle, f) = {k \in 0 .. Len(f) - m : SubSeq(f, k + 1, k + m) = needle}
  BY DEF Occurs, m
<1>5. ASSUME NEW k, k \in Occurs(needle, p)
      PROVE  k \in Nat /\ a + k \in Occurs(needle, f) /\ a + k + m <= c
  <2>1. k \in 0 .. (c - a) - m /\ SubSeq(p, k + 1, k + m) = needle
    BY <1>3, <1>5, Zenon
  <2>2. a + k + m <= c /\ a + k \in 0 .. Len(f) - m
    BY <1>1, <2>1
  <2>3. SubSeq(f, (a + k) + 1, (a + k) + m) = needle
    <3>1. k \in Nat
      BY <2>1
    <3> QED
      BY <1>2, <2>1, <2>2, <3>1
  <2>4. a + k \in Occurs(needle, f)
    BY <1>4, <2>2, <2>3, Zenon
  <2> QED
    BY <2>1, <2>2, <2>4
<1>6. ASSUME NEW k \in Nat, a + k \in Occurs(needle, f), a + k + m <= c
      PROVE  k \in Occurs(needle, p)
  <2>1. SubSeq(f, (a + k) + 1, (a + k) + m) = needle
    BY <1>4, <1>6
  <2>2. k \in 0 .. (c - a) - m
    BY <1>1, <1>6
  <2> QED
    BY <1>2, <1>3, <1>6, <2>1, <2>2
<1> QED
  BY <1>5, <1>6 DEF OccursIn, p, m

(* Where chunk i ends, and where what is carried behind it begins.         *)
Hi(start, end, chunk, i) == Least(start + i * chunk, end)

Lo(start, end, chunk, needle, i) ==
  IF Hi(start, end, chunk, i) - Overlap(needle) < start THEN start
  ELSE Hi(start, end, chunk, i) - Overlap(needle)

LEMMA HiIs ==
  ASSUME NEW start \in Nat, NEW end \in Nat, start < end, NEW chunk \in Nat \ {0},
         NEW i \in 1 .. Chunks(start, end, chunk)
  PROVE  /\ Hi(start, end, chunk, i - 1) = Cursor(start, chunk, i)
         /\ Hi(start, end, chunk, i)
              = Cursor(start, chunk, i) + Least(chunk, end - Cursor(start, chunk, i))
<1> DEFINE c == Cursor(start, chunk, i)
           x == (i - 1) * chunk
           y == i * chunk
<1>1. c \in Nat /\ c < end
  BY CursorIs
<1>2. i - 1 \in Nat /\ i \in Nat /\ i = (i - 1) + 1
  BY ChunksCover
<1>3. x \in Nat /\ y = x + chunk
  <2>1. x \in Nat /\ ((i - 1) + 1) * chunk = x + chunk
    BY <1>2, Times
  <2> QED
    BY <1>2, <2>1, Zenon
<1>4. c = start + x
  BY DEF Cursor
<1> HIDE DEF c, x, y
<1>5. Least(start + x, end) = c
  BY <1>1, <1>4 DEF Least
<1>6. Least(start + y, end) = c + Least(chunk, end - c)
  BY <1>1, <1>3, <1>4 DEF Least
<1> QED
  BY <1>5, <1>6 DEF Hi, c, x, y

LEMMA HiGrows ==
  ASSUME NEW start \in Nat, NEW end \in Nat, start < end, NEW chunk \in Nat \ {0}
  PROVE  /\ Hi(start, end, chunk, 0) = start
         /\ Hi(start, end, chunk, Chunks(start, end, chunk)) = end
         /\ \A j \in 0 .. Chunks(start, end, chunk), i \in 0 .. Chunks(start, end, chunk) :
              /\ Hi(start, end, chunk, i) \in start .. end
              /\ i <= j => Hi(start, end, chunk, i) <= Hi(start, end, chunk, j)
<1> DEFINE n == Chunks(start, end, chunk)
<1>1. n \in Nat \ {0} /\ end - start <= n * chunk
  BY ChunksCover
<1> HIDE DEF n
<1>2. Hi(start, end, chunk, 0) = start
  <2>1. 0 * chunk = 0
    OBVIOUS
  <2> QED
    BY <2>1 DEF Hi, Least
<1>3. Hi(start, end, chunk, n) = end
  <2> DEFINE x == n * chunk
  <2>1. x \in Nat
    BY <1>1, Times
  <2> HIDE DEF x
  <2>2. Least(start + x, end) = end
    BY <1>1, <2>1 DEF Least, x
  <2> QED
    BY <2>2 DEF Hi, x
<1>4. ASSUME NEW j \in 0 .. n, NEW i \in 0 .. n
      PROVE  /\ Hi(start, end, chunk, i) \in start .. end
             /\ i <= j => Hi(start, end, chunk, i) <= Hi(start, end, chunk, j)
  <2> DEFINE x == i * chunk
             y == j * chunk
  <2>1. x \in Nat /\ y \in Nat /\ (i <= j => x <= y)
    <3>1. i \in Nat /\ j \in Nat
      BY <1>1
    <3> QED
      BY <3>1, Times
  <2> HIDE DEF x, y
  <2>2. Least(start + x, end) \in start .. end
    BY <2>1 DEF Least
  <2>3. i <= j => Least(start + x, end) <= Least(start + y, end)
    BY <2>1 DEF Least
  <2> QED
    BY <2>2, <2>3 DEF Hi, x, y
<1> QED
  BY <1>2, <1>3, <1>4 DEF n

LEMMA ReadsPart ==
  ASSUME NEW n \in Nat, NEW b, Buffer(b, n), NEW mapped \in Seq(Chars),
         Text(b, mapped) \in Seq(Chars),
         NEW offset \in Nat, NEW l \in Nat \ {0}, offset + l <= b.size
  PROVE  /\ Read(b, mapped, offset, l) = PartOf(Text(b, mapped), offset, offset + l)
         /\ Read(b, mapped, offset, l) # <<>>
<1> DEFINE t == Text(b, mapped)
           p == PartOf(t, offset, offset + l)
<1>1. Len(t) = b.size /\ b.size \in Nat
  BY BufferText, BufferFacts
<1> HIDE DEF t
<1>2. p \in Seq(Chars) /\ Len(p) = l
  <2>1. offset + l \in 0 .. Len(t) /\ offset \in 0 .. offset + l /\ (offset + l) - offset = l
    BY <1>1
  <2> QED
    BY <2>1, PartIs DEF t
<1> HIDE DEF p
<1>3. p # <<>>
  BY <1>2, EmptySeq
<1>4. Readable(p)
  <2>1. Gap \notin Chars
    BY FilesAssumption DEF Chars
  <2>2. \A i \in DOMAIN p : p[i] \in Chars
    BY <1>2
  <2> QED
    BY <2>1, <2>2 DEF Readable, Range
<1>5. Least(b.size - offset, l) = l
  BY <1>1 DEF Least
<1>6. offset < b.size
  BY <1>1
<1>7. SubSeq(t, offset + 1, offset + l) = p
  BY DEF PartOf, p
<1>8. Read(b, mapped, offset, l) = p
  BY <1>4, <1>5, <1>6, <1>7 DEF Read, t
<1> QED
  BY <1>3, <1>8 DEF p, t

LEMMA ChunkIsPart ==
  ASSUME NEW n \in Nat, NEW b, Buffer(b, n), NEW mapped \in Seq(Chars),
         Text(b, mapped) \in Seq(Chars), NEW start \in Nat, NEW end \in Nat, start < end,
         end <= b.size, NEW chunk \in Nat \ {0}, NEW i \in 1 .. Chunks(start, end, chunk)
  PROVE  /\ ChunkBytes(b, mapped, start, end, chunk, i)
              = PartOf(Text(b, mapped), Hi(start, end, chunk, i - 1), Hi(start, end, chunk, i))
         /\ ChunkBytes(b, mapped, start, end, chunk, i) # <<>>
<1> DEFINE c == Cursor(start, chunk, i)
           l == Least(chunk, end - c)
<1>1. /\ c \in Nat /\ c < end /\ l \in Nat \ {0}
      /\ Hi(start, end, chunk, i - 1) = c /\ Hi(start, end, chunk, i) = c + l
  BY CursorIs, HiIs
<1>2. b.size \in Nat
  BY BufferFacts
<1>3. l <= end - c
  <2> HIDE DEF c
  <2> QED
    BY <1>1, LeastOf
<1> HIDE DEF c, l
<1>4. c + l <= b.size
  BY <1>1, <1>2, <1>3
<1>5. Read(b, mapped, c, l) = PartOf(Text(b, mapped), c, c + l) /\ Read(b, mapped, c, l) # <<>>
  BY <1>1, <1>4, ReadsPart
<1> QED
  BY <1>1, <1>5 DEF ChunkBytes, c, l

Carried(f, t, needle, start, end, chunk, i) ==
  f[i] = PartOf(t, Lo(start, end, chunk, needle, i), Hi(start, end, chunk, i))

Searched(f, t, b, mapped, needle, start, end, chunk, i) ==
  f[i - 1] \o ChunkBytes(b, mapped, start, end, chunk, i)
    = PartOf(t, Lo(start, end, chunk, needle, i - 1), Hi(start, end, chunk, i))

LEMMA LoIs ==
  ASSUME NEW start \in Nat, NEW end \in Nat, start < end, NEW chunk \in Nat \ {0},
         NEW needle \in Seq(Chars), needle # <<>>, NEW i \in 0 .. Chunks(start, end, chunk)
  PROVE  /\ Overlap(needle) \in Nat /\ Len(needle) = Overlap(needle) + 1
         /\ Lo(start, end, chunk, needle, i) \in start .. Hi(start, end, chunk, i)
         /\ Hi(start, end, chunk, i) \in start .. end
<1> DEFINE h == Hi(start, end, chunk, i)
           k == Overlap(needle)
<1>1. h \in start .. end
  BY HiGrows
<1>2. k \in Nat /\ Len(needle) = k + 1
  BY LenProperties, EmptySeq DEF Overlap
<1> HIDE DEF h, k
<1>3. (IF h - k < start THEN start ELSE h - k) \in start .. h
  BY <1>1, <1>2
<1> QED
  BY <1>1, <1>2, <1>3 DEF Lo, h, k

LEMMA ChunkIsSearched ==
  ASSUME NEW n \in Nat, NEW b, Buffer(b, n), NEW mapped \in Seq(Chars),
         NEW t \in Seq(Chars), t = Text(b, mapped),
         NEW start \in Nat, NEW end \in Nat, start < end, end <= b.size,
         NEW chunk \in Nat \ {0}, NEW needle \in Seq(Chars), needle # <<>>,
         NEW f, NEW i \in 1 .. Chunks(start, end, chunk),
         Carried(f, t, needle, start, end, chunk, i - 1)
  PROVE  Searched(f, t, b, mapped, needle, start, end, chunk, i)
<1> DEFINE lo == Lo(start, end, chunk, needle, i - 1)
           h == Hi(start, end, chunk, i - 1)
           g == Hi(start, end, chunk, i)
<1>1. /\ i - 1 \in 0 .. Chunks(start, end, chunk) /\ i \in 0 .. Chunks(start, end, chunk)
      /\ i - 1 <= i
  BY ChunksCover
<1>2. lo \in start .. h /\ h \in start .. end /\ g \in start .. end
  BY <1>1, LoIs
<1>3. h <= g
  BY <1>1, HiGrows
<1>4. Len(t) = b.size /\ b.size \in Nat
  BY BufferText, BufferFacts
<1>5. ChunkBytes(b, mapped, start, end, chunk, i) = PartOf(t, h, g)
  BY ChunkIsPart
<1>6. f[i - 1] = PartOf(t, lo, h)
  BY DEF Carried
<1> HIDE DEF lo, h, g
<1>7. PartsMeet(t, lo, h, g)
  <2>1. g \in 0 .. Len(t) /\ h \in 0 .. g /\ lo \in 0 .. h
    BY <1>2, <1>3, <1>4
  <2> QED
    BY <2>1, PartsJoin
<1>8. f[i - 1] \o ChunkBytes(b, mapped, start, end, chunk, i) = PartOf(t, lo, g)
  BY <1>5, <1>6, <1>7 DEF PartsMeet
<1> QED
  BY <1>8 DEF Searched, lo, g

LEMMA CarriedOn ==
  ASSUME NEW n \in Nat, NEW b, Buffer(b, n), NEW mapped \in Seq(Chars),
         NEW t \in Seq(Chars), t = Text(b, mapped),
         NEW start \in Nat, NEW end \in Nat, start < end, end <= b.size,
         NEW chunk \in Nat \ {0}, NEW needle \in Seq(Chars), needle # <<>>,
         NEW f, Carries(f, b, mapped, needle, start, end, chunk),
         NEW i \in 1 .. Chunks(start, end, chunk),
         Carried(f, t, needle, start, end, chunk, i - 1)
  PROVE  Carried(f, t, needle, start, end, chunk, i)
<1> DEFINE lo == Lo(start, end, chunk, needle, i - 1)
           h == Hi(start, end, chunk, i - 1)
           g == Hi(start, end, chunk, i)
           k == Overlap(needle)
<1>1. /\ i - 1 \in 0 .. Chunks(start, end, chunk) /\ i \in 0 .. Chunks(start, end, chunk)
      /\ i - 1 <= i
  BY ChunksCover
<1>2. lo \in start .. h /\ h \in start .. end /\ g \in start .. end /\ k \in Nat
  BY <1>1, LoIs
<1>3. h <= g
  BY <1>1, HiGrows
<1>4. Len(t) = b.size /\ b.size \in Nat
  BY BufferText, BufferFacts
<1>5. f[i] = LastBytes(f[i - 1] \o ChunkBytes(b, mapped, start, end, chunk, i), k)
  BY DEF Carries
<1>6. f[i - 1] \o ChunkBytes(b, mapped, start, end, chunk, i) = PartOf(t, lo, g)
  <2>1. Searched(f, t, b, mapped, needle, start, end, chunk, i)
    BY ChunkIsSearched
  <2> QED
    BY <2>1 DEF Searched
<1>7. lo = IF h - k < start THEN start ELSE h - k
  BY DEF Lo
<1> HIDE DEF lo, h, g, k
<1>8. KeepsLast(t, lo, g, k)
  <2>1. g \in 0 .. Len(t) /\ lo \in 0 .. g
    BY <1>2, <1>3, <1>4
  <2> QED
    BY <1>2, <2>1, LastOfPart
<1>9. f[i] = PartOf(t, IF g - k < lo THEN lo ELSE g - k, g)
  BY <1>5, <1>6, <1>8 DEF KeepsLast
<1>10. (IF g - k < lo THEN lo ELSE g - k) = IF g - k < start THEN start ELSE g - k
  BY <1>2, <1>3, <1>7
<1>11. f[i] = PartOf(t, IF g - k < start THEN start ELSE g - k, g)
  BY <1>9, <1>10
<1> QED
  BY <1>11 DEF Carried, Lo, g, k

LEMMA CarriedIs ==
  ASSUME NEW n \in Nat, NEW b, Buffer(b, n), NEW mapped \in Seq(Chars),
         NEW t \in Seq(Chars), t = Text(b, mapped),
         NEW start \in Nat, NEW end \in Nat, start < end, end <= b.size,
         NEW chunk \in Nat \ {0}, NEW needle \in Seq(Chars), needle # <<>>,
         NEW f, Carries(f, b, mapped, needle, start, end, chunk)
  PROVE  \A i \in 1 .. Chunks(start, end, chunk) :
           /\ Carried(f, t, needle, start, end, chunk, i - 1)
           /\ Searched(f, t, b, mapped, needle, start, end, chunk, i)
<1> DEFINE N == Chunks(start, end, chunk)
           T == {i \in Nat : i <= N => Carried(f, t, needle, start, end, chunk, i)}
<1>1. N \in Nat
  BY ChunksCover
<1>2. 0 \in T
  <2>1. Hi(start, end, chunk, 0) = start
    BY HiGrows
  <2>2. Overlap(needle) \in Nat
    BY LenProperties, EmptySeq DEF Overlap
  <2>3. Lo(start, end, chunk, needle, 0) = start
    BY <2>1, <2>2 DEF Lo
  <2>4. PartOf(t, start, start) = <<>>
    <3>1. Len(t) = b.size /\ b.size \in Nat
      BY BufferText, BufferFacts
    <3>2. start \in 0 .. Len(t) /\ start \in 0 .. start /\ start - start = 0
      BY <3>1
    <3>3. PartOf(t, start, start) \in Seq(Chars) /\ Len(PartOf(t, start, start)) = 0
      BY <3>2, PartIs
    <3> QED
      BY <3>3, EmptySeq
  <2>5. f[0] = <<>>
    BY DEF Carries
  <2>6. Carried(f, t, needle, start, end, chunk, 0)
    BY <2>1, <2>3, <2>4, <2>5 DEF Carried
  <2> QED
    BY <2>6
<1>3. ASSUME NEW i \in Nat, i \in T PROVE i + 1 \in T
  <2>1. ASSUME i + 1 <= N PROVE Carried(f, t, needle, start, end, chunk, i + 1)
    <3> DEFINE j == i + 1
    <3>1. j \in 1 .. N /\ j - 1 = i /\ i <= N
      BY <1>1, <2>1
    <3>2. Carried(f, t, needle, start, end, chunk, j - 1)
      BY <1>3, <3>1
    <3> HIDE DEF j
    <3>3. Carried(f, t, needle, start, end, chunk, j)
      BY <3>1, <3>2, CarriedOn
    <3> QED
      BY <3>3 DEF j
  <2> QED
    BY <2>1
<1>4. Nat \subseteq T
  <2> HIDE DEF T
  <2> QED
    BY <1>2, <1>3, Induction
<1>5. ASSUME NEW i \in 1 .. N
      PROVE  /\ Carried(f, t, needle, start, end, chunk, i - 1)
             /\ Searched(f, t, b, mapped, needle, start, end, chunk, i)
  <2>1. i - 1 \in Nat /\ i - 1 <= N
    BY <1>1
  <2>2. Carried(f, t, needle, start, end, chunk, i - 1)
    BY <1>4, <2>1
  <2> QED
    BY <2>2, ChunkIsSearched
<1> QED
  BY <1>5

(* The occurrences in what is searched with chunk i.                       *)
ChunkFinds(f, t, b, mapped, needle, start, end, chunk, i) ==
  \A k : k \in Occurs(needle, f[i - 1] \o ChunkBytes(b, mapped, start, end, chunk, i))
           <=> /\ k \in Nat
               /\ Lo(start, end, chunk, needle, i - 1) + k \in Occurs(needle, t)
               /\ Lo(start, end, chunk, needle, i - 1) + k + Len(needle)
                    <= Hi(start, end, chunk, i)

LEMMA ChunkFindsAll ==
  ASSUME NEW n \in Nat, NEW b, Buffer(b, n), NEW mapped \in Seq(Chars),
         NEW t \in Seq(Chars), t = Text(b, mapped),
         NEW start \in Nat, NEW end \in Nat, start < end, end <= b.size,
         NEW chunk \in Nat \ {0}, NEW needle \in Seq(Chars), needle # <<>>,
         NEW f, Carries(f, b, mapped, needle, start, end, chunk),
         NEW i \in 1 .. Chunks(start, end, chunk)
  PROVE  ChunkFinds(f, t, b, mapped, needle, start, end, chunk, i)
<1> DEFINE lo == Lo(start, end, chunk, needle, i - 1)
           g == Hi(start, end, chunk, i)
           s == f[i - 1] \o ChunkBytes(b, mapped, start, end, chunk, i)
<1>1. Searched(f, t, b, mapped, needle, start, end, chunk, i)
  BY CarriedIs
<1>2. s = PartOf(t, lo, g)
  BY <1>1 DEF Searched
<1>3. lo \in 0 .. g /\ g \in 0 .. Len(t)
  <2>1. /\ i - 1 \in 0 .. Chunks(start, end, chunk) /\ i \in 0 .. Chunks(start, end, chunk)
        /\ i - 1 <= i
    BY ChunksCover
  <2>2. lo \in start .. Hi(start, end, chunk, i - 1)
          /\ Hi(start, end, chunk, i - 1) \in start .. end /\ g \in start .. end
    BY <2>1, LoIs
  <2>3. Hi(start, end, chunk, i - 1) <= g
    BY <2>1, HiGrows
  <2>4. Len(t) = b.size /\ b.size \in Nat
    BY BufferText, BufferFacts
  <2> HIDE DEF lo, g
  <2> QED
    BY <2>2, <2>3, <2>4
<1> HIDE DEF lo, g, s
<1>4. OccursIn(needle, t, lo, g)
  BY <1>3, OccursInPart
<1> QED
  BY <1>2, <1>4 DEF OccursIn, ChunkFinds, lo, g, s

(* Every occurrence from the start on is found, with the first chunk that  *)
(* it ends in.                                                             *)
LEMMA EndsInChunk ==
  ASSUME NEW start \in Nat, NEW end \in Nat, start < end, NEW chunk \in Nat \ {0},
         NEW x \in Nat, start < x, x <= end
  PROVE  \E i \in 1 .. Chunks(start, end, chunk) :
           Hi(start, end, chunk, i - 1) < x /\ x <= Hi(start, end, chunk, i)
<1> DEFINE N == Chunks(start, end, chunk)
           T == {i \in 0 .. N : x <= Hi(start, end, chunk, i)}
<1>1. N \in Nat /\ Hi(start, end, chunk, N) = end /\ Hi(start, end, chunk, 0) = start
  BY ChunksCover, HiGrows
<1>2. T \in SUBSET Nat /\ N \in T
  BY <1>1
<1>3. PICK i \in T : \A j \in T : i <= j
  <2> HIDE DEF T
  <2> QED
    BY <1>2, Smallest
<1>4. i # 0
  BY <1>1, <1>3
<1>5. i \in 1 .. N /\ i - 1 \in 0 .. N /\ ~(i <= i - 1)
  BY <1>1, <1>3, <1>4
<1>6. ~(x <= Hi(start, end, chunk, i - 1))
  BY <1>3, <1>5
<1>7. Hi(start, end, chunk, i - 1) \in start .. end
  BY <1>5, HiGrows
<1> QED
  BY <1>3, <1>5, <1>6, <1>7

LEMMA FirstIs ==
  ASSUME NEW A \in SUBSET Nat, A # {}
  PROVE  /\ First(A) \in A /\ \A k \in A : First(A) <= k
         /\ \A x \in A : (\A k \in A : x <= k) => First(A) = x
<1>1. \E m \in A : \A k \in A : m <= k
  BY Smallest
<1>2. First(A) \in A /\ \A k \in A : First(A) <= k
  BY <1>1 DEF First
<1>3. ASSUME NEW x \in A, \A k \in A : x <= k PROVE First(A) = x
  <2>1. x <= First(A) /\ First(A) <= x /\ x \in Nat /\ First(A) \in Nat
    BY <1>2, <1>3
  <2> QED
    BY <2>1
<1> QED
  BY <1>2, <1>3

FoundIn(f, b, mapped, needle, start, end, chunk, i) ==
  Occurs(needle, f[i - 1] \o ChunkBytes(b, mapped, start, end, chunk, i))

(* The chunks something is found with.                                     *)
Hits(f, b, mapped, needle, start, end, chunk) ==
  {i \in 1 .. Chunks(start, end, chunk) :
     /\ FoundIn(f, b, mapped, needle, start, end, chunk, i) # {}
     /\ \A j \in 1 .. i : ChunkBytes(b, mapped, start, end, chunk, j) # <<>>}

LEMMA FindsIs ==
  ASSUME NEW f, NEW b, NEW mapped, NEW needle, NEW start, NEW end, NEW chunk
  PROVE  LET hits == Hits(f, b, mapped, needle, start, end, chunk)
             i    == First(hits)
         IN  \/ /\ Finds(f, b, mapped, needle, start, end, chunk) = NotFound
                /\ \/ needle = <<>> \/ start >= b.size \/ end <= start
                   \/ Len(needle) > end - start \/ hits = {}
             \/ /\ hits # {}
                /\ Finds(f, b, mapped, needle, start, end, chunk)
                     = Cursor(start, chunk, i) - Len(f[i - 1])
                         + First(FoundIn(f, b, mapped, needle, start, end, chunk, i))
BY DEF Finds, Hits, FoundIn

FromOn(needle, t, start) == {k \in Occurs(needle, t) : k >= start}

FindsFirstOf(b, mapped, needle, start, chunk, t) ==
  Find(b, mapped, needle, start, b.size, chunk)
    = IF FromOn(needle, t, start) = {} THEN NotFound ELSE First(FromOn(needle, t, start))

(* Find returns the first occurrence in the text, wherever the pieces and  *)
(* the chunks end.                                                         *)
LEMMA FindsFirst ==
  ASSUME NEW n \in Nat, NEW b, Buffer(b, n), NEW mapped \in Seq(Chars),
         NEW t \in Seq(Chars), t = Text(b, mapped),
         NEW start \in Nat, NEW chunk \in Nat \ {0}, NEW needle \in Seq(Chars), needle # <<>>
  PROVE  FindsFirstOf(b, mapped, needle, start, chunk, t)
<1> DEFINE end == b.size
           m == Len(needle)
           A == FromOn(needle, t, start)
<1>1. end \in Nat /\ Len(t) = end /\ m \in Nat \ {0}
  BY BufferFacts, BufferText, LenProperties, EmptySeq
<1>2. ASSUME NEW p \in A PROVE p \in Nat /\ start <= p /\ p + m <= end
  <2>1. p \in 0 .. Len(t) - m /\ p >= start
    BY DEF FromOn, Occurs
  <2> QED
    BY <1>1, <2>1
<1>3. A \in SUBSET Nat
  BY <1>2
<1>4. CASE start >= end
  <2>1. A = {}
    BY <1>1, <1>2, <1>4
  <2>2. Find(b, mapped, needle, start, b.size, chunk) = NotFound
    BY <1>4 DEF Find
  <2> QED
    BY <2>1, <2>2 DEF FindsFirstOf
<1>5. CASE start < end
  <2>1. Least(end, end) = end
    BY DEF Least
  <2>2. PICK f \in [0 .. Chunks(start, end, chunk) -> Seq(Chars)] :
          /\ Carries(f, b, mapped, needle, start, end, chunk)
          /\ Find(b, mapped, needle, start, b.size, chunk)
               = Finds(f, b, mapped, needle, start, end, chunk)
    <3>1. \E f \in [0 .. Chunks(start, Least(end, end), chunk) -> Seq(Chars)] :
            /\ Carries(f, b, mapped, needle, start, Least(end, end), chunk)
            /\ Find(b, mapped, needle, start, end, chunk)
                 = Finds(f, b, mapped, needle, start, Least(end, end), chunk)
      <4> start < Least(end, end)
        BY <1>5, <2>1
      <4> HIDE DEF end
      <4>1. end = b.size
        BY DEF end
      <4> QED
        BY <1>1, <4>1, FindCarries
    <3> QED
      BY <2>1, <3>1
  <2> DEFINE N == Chunks(start, end, chunk)
             lo(i) == Lo(start, end, chunk, needle, i)
             hi(i) == Hi(start, end, chunk, i)
             found(i) == FoundIn(f, b, mapped, needle, start, end, chunk, i)
             H == Hits(f, b, mapped, needle, start, end, chunk)
  <2>3. ASSUME NEW i \in 1 .. N
        PROVE  /\ N \in Nat /\ i - 1 \in 0 .. N /\ i \in 0 .. N
               /\ lo(i - 1) \in start .. hi(i - 1) /\ hi(i - 1) \in start .. end
               /\ hi(i) \in start .. end /\ m = Overlap(needle) + 1
               /\ lo(i - 1) = IF hi(i - 1) - (m - 1) < start THEN start ELSE hi(i - 1) - (m - 1)
    <3>1. N \in Nat /\ i - 1 \in 0 .. N /\ i \in 0 .. N
      <4>1. N \in Nat
        <5> HIDE DEF end
        <5> QED
          BY <1>1, <1>5, ChunksCover
      <4> HIDE DEF N
      <4> QED
        BY <4>1
    <3>2. m = Overlap(needle) + 1 /\ m - 1 = Overlap(needle)
      BY <1>1 DEF Overlap
    <3> QED
      BY <1>1, <1>5, <3>1, <3>2, LoIs DEF Lo
  <2>4. ASSUME NEW i \in 1 .. N
        PROVE  \A k : k \in found(i) <=> /\ k \in Nat /\ lo(i - 1) + k \in Occurs(needle, t)
                                         /\ lo(i - 1) + k + m <= hi(i)
    <3>1. ChunkFinds(f, t, b, mapped, needle, start, end, chunk, i)
      <4> HIDE DEF end
      <4>1. end <= b.size /\ end = b.size
        BY <1>1 DEF end
      <4> QED
        BY <1>1, <1>5, <2>2, <4>1, ChunkFindsAll
    <3> QED
      BY <3>1 DEF ChunkFinds, FoundIn
  <2>5. ASSUME NEW i \in 1 .. N PROVE i \in H <=> found(i) # {}
    <3>1. ASSUME NEW j \in 1 .. i PROVE ChunkBytes(b, mapped, start, end, chunk, j) # <<>>
      <4>1. j \in 1 .. N
        <5>1. N \in Nat
          BY <2>3
        <5> HIDE DEF N
        <5> QED
          BY <5>1
      <4> HIDE DEF end
      <4>2. end <= b.size
        BY <1>1 DEF end
      <4> QED
        BY <1>1, <1>5, <4>1, <4>2, ChunkIsPart
    <3> QED
      BY <3>1 DEF Hits
  <2>6. H \subseteq 1 .. N /\ H \in SUBSET Nat
    BY DEF Hits
  <2>7. ASSUME NEW i \in 1 .. N, NEW k \in found(i)
        PROVE  lo(i - 1) + k \in A /\ k \in Nat /\ lo(i - 1) + k + m <= hi(i)
    <3>1. k \in Nat /\ lo(i - 1) + k \in Occurs(needle, t) /\ lo(i - 1) + k + m <= hi(i)
      BY <2>4
    <3>2. lo(i - 1) >= start /\ lo(i - 1) \in Nat
      BY <2>3
    <3> HIDE DEF lo
    <3>3. lo(i - 1) + k >= start
      BY <3>1, <3>2
    <3> QED
      BY <3>1, <3>3 DEF FromOn
  <2>8. ASSUME NEW p \in A
        PROVE  \E j \in 1 .. N : j \in H /\ p - lo(j - 1) \in found(j) /\ hi(j - 1) < p + m
    <3>1. p + m \in Nat /\ start < p + m /\ p + m <= end /\ p \in Nat /\ start <= p
      BY <1>1, <1>2
    <3>2. PICK j \in 1 .. N : hi(j - 1) < p + m /\ p + m <= hi(j)
      <4> HIDE DEF end
      <4> QED
        BY <1>1, <1>5, <3>1, EndsInChunk
    <3>3. /\ lo(j - 1) \in Nat /\ hi(j - 1) \in Nat /\ hi(j) \in Nat
          /\ lo(j - 1) = IF hi(j - 1) - (m - 1) < start THEN start ELSE hi(j - 1) - (m - 1)
      BY <2>3
    <3> HIDE DEF lo, hi
    <3>4. p - lo(j - 1) \in Nat /\ lo(j - 1) + (p - lo(j - 1)) = p
      BY <1>1, <3>1, <3>2, <3>3, SMTT(30)
    <3>5. p \in Occurs(needle, t)
      BY DEF FromOn
    <3>6. p - lo(j - 1) \in found(j)
      BY <2>4, <3>2, <3>4, <3>5 DEF lo, hi
    <3>7. j \in H
      BY <2>5, <3>6
    <3> QED
      BY <3>2, <3>6, <3>7 DEF lo, hi
  <2> HIDE DEF H, found, N, A
  <2>9. CASE A = {}
    <3>1. H = {}
      <4>1. SUFFICES ASSUME NEW i \in H PROVE FALSE
        OBVIOUS
      <4>2. PICK k : k \in found(i)
        BY <2>5, <2>6
      <4>3. lo(i - 1) + k \in A
        BY <2>6, <2>7, <4>2
      <4> QED
        BY <2>9, <4>3
    <3>2. Finds(f, b, mapped, needle, start, end, chunk) = NotFound
      BY <3>1, FindsIs DEF H
    <3> QED
      BY <2>2, <2>9, <3>2 DEF FindsFirstOf, A
  <2>10. CASE A # {}
    <3>1. PICK p0 \in A : TRUE
      BY <2>10
    <3>2. H # {}
      BY <2>8, <3>1
    <3>3. ~(Len(needle) > end - start)
      <4>1. p0 \in Nat /\ start <= p0 /\ p0 + m <= end
        BY <1>2, <3>1
      <4> QED
        BY <1>1, <4>1
    <3> DEFINE i == First(H)
               k == First(found(i))
    <3>4. i \in H /\ i \in 1 .. N /\ \A j \in H : i <= j
      BY <2>6, <3>2, FirstIs
    <3> HIDE DEF i
    <3>5. found(i) \in SUBSET Nat /\ found(i) # {}
      BY <2>4, <2>5, <3>4
    <3>6. k \in found(i) /\ \A j \in found(i) : k <= j
      BY <3>5, FirstIs
    <3>7. Finds(f, b, mapped, needle, start, end, chunk)
            = Cursor(start, chunk, i) - Len(f[i - 1]) + k
      <4>1. ~(start >= b.size) /\ ~(end <= start) /\ needle # <<>>
        BY <1>1, <1>5
      <4> QED
        BY <3>2, <3>3, <4>1, FindsIs DEF H, i, found
    <3> HIDE DEF k
    <3> DEFINE q == lo(i - 1) + k
    <3>8. q \in A /\ k \in Nat /\ q + m <= hi(i)
      BY <2>7, <3>4, <3>6
    <3>9. Finds(f, b, mapped, needle, start, end, chunk) = q
      <4>1. /\ i - 1 \in 0 .. N /\ lo(i - 1) \in start .. hi(i - 1) /\ hi(i - 1) \in start .. end
        BY <2>3, <3>4
      <4>2. hi(i - 1) = Cursor(start, chunk, i)
        BY <1>1, <1>5, <3>4, HiIs DEF N
      <4>3. Carried(f, t, needle, start, end, chunk, i - 1)
        <5> HIDE DEF end
        <5>1. end <= b.size
          BY <1>1 DEF end
        <5> QED
          BY <1>1, <1>5, <2>2, <3>4, <5>1, CarriedIs DEF N
      <4>4. Len(f[i - 1]) = hi(i - 1) - lo(i - 1)
        <5>1. f[i - 1] = PartOf(t, lo(i - 1), hi(i - 1))
          BY <4>3 DEF Carried
        <5>2. hi(i - 1) \in 0 .. Len(t) /\ lo(i - 1) \in 0 .. hi(i - 1)
          <6> HIDE DEF lo, hi, end
          <6> QED
            BY <1>1, <4>1
        <5> HIDE DEF lo, hi
        <5>3. Len(PartOf(t, lo(i - 1), hi(i - 1))) = hi(i - 1) - lo(i - 1)
          BY <5>2, PartIs
        <5> QED
          BY <5>1, <5>3
      <4> HIDE DEF lo, hi, end
      <4>5. Cursor(start, chunk, i) - Len(f[i - 1]) + k = lo(i - 1) + k
        BY <1>1, <3>8, <4>1, <4>2, <4>4
      <4> QED
        BY <3>7, <4>5
    <3>10. ASSUME NEW p \in A PROVE q <= p
      <4>1. PICK j \in 1 .. N : j \in H /\ p - lo(j - 1) \in found(j) /\ hi(j - 1) < p + m
        BY <2>8
      <4>2. i <= j /\ p \in Nat /\ i \in Nat /\ j \in Nat
        BY <1>2, <3>4, <4>1
      <4>3. CASE i = j
        <5>1. k <= p - lo(i - 1) /\ lo(i - 1) \in Nat
          BY <2>3, <3>4, <3>6, <4>1, <4>3
        <5> HIDE DEF lo
        <5> QED
          BY <3>8, <4>2, <5>1
      <4>4. CASE i # j
        <5>1. i <= j - 1 /\ i \in 0 .. N /\ j - 1 \in 0 .. N
          BY <2>3, <3>4, <4>2, <4>4
        <5>2. hi(i) <= hi(j - 1)
          <6> HIDE DEF end
          <6> QED
            BY <1>1, <1>5, <5>1, HiGrows DEF N
        <5>3. hi(i) \in Nat /\ hi(j - 1) \in Nat /\ lo(i - 1) \in Nat
          BY <2>3, <3>4, <4>1, SMTT(30)
        <5> HIDE DEF lo, hi
        <5> QED
          BY <1>1, <3>8, <4>1, <4>2, <5>2, <5>3
      <4> QED
        BY <4>3, <4>4
    <3>11. First(A) = q
      <4> HIDE DEF q
      <4> QED
        BY <1>3, <3>8, <3>10, FirstIs
    <3> QED
      BY <2>2, <2>10, <3>9, <3>11 DEF FindsFirstOf, A
  <2> QED
    BY <2>9, <2>10
<1> QED
  BY <1>1, <1>4, <1>5

LEMMA FindIsInt ==
  ASSUME NEW n \in Nat, NEW b, Buffer(b, n), NEW mapped \in Seq(Chars), NEW start \in Nat,
         NEW stop \in Nat, NEW chunk \in Nat \ {0}, NEW needle \in Seq(Chars), needle # <<>>
  PROVE  Find(b, mapped, needle, start, stop, chunk) \in Int
<1> DEFINE end == Least(stop, b.size)
<1>1. b.size \in Nat /\ end \in Nat
  <2>1. b.size \in Nat
    BY BufferFacts
  <2>2. end \in {stop, b.size}
    BY <2>1, LeastOf
  <2> QED
    BY <2>1, <2>2
<1>2. CASE end <= start
  <2>1. Find(b, mapped, needle, start, stop, chunk) = NotFound
    BY <1>2 DEF Find
  <2> QED
    BY <2>1 DEF NotFound
<1>3. CASE start < end
  <2>1. PICK f \in [0 .. Chunks(start, end, chunk) -> Seq(Chars)] :
          /\ Carries(f, b, mapped, needle, start, end, chunk)
          /\ Find(b, mapped, needle, start, stop, chunk)
               = Finds(f, b, mapped, needle, start, end, chunk)
    BY <1>3, FindCarries
  <2> HIDE DEF end
  <2> DEFINE H == Hits(f, b, mapped, needle, start, end, chunk)
             i == First(H)
             A == FoundIn(f, b, mapped, needle, start, end, chunk, i)
  <2>2. CASE H = {}
    <3>1. Finds(f, b, mapped, needle, start, end, chunk) = NotFound
      BY <2>2, FindsIs
    <3> QED
      BY <2>1, <3>1 DEF NotFound
  <2>3. CASE H # {}
    <3>1. Chunks(start, end, chunk) \in Nat
      BY <1>1, <1>3, ChunksCover
    <3>2. H \in SUBSET Nat
      BY <3>1 DEF Hits
    <3>3. i \in H
      <4> HIDE DEF H
      <4> QED
        BY <2>3, <3>2, FirstIs
    <3>4. i \in 1 .. Chunks(start, end, chunk) /\ A # {}
      <4> HIDE DEF i
      <4> QED
        BY <3>3 DEF Hits
    <3> HIDE DEF i
    <3>5. Cursor(start, chunk, i) \in Nat
      BY <1>1, <1>3, <3>4, CursorIs
    <3>6. i - 1 \in 0 .. Chunks(start, end, chunk)
      BY <3>1, <3>4
    <3>7. f[i - 1] \in Seq(Chars)
      BY <2>1, <3>6
    <3>8. Len(f[i - 1]) \in Nat
      BY <3>7, LenProperties
    <3>9. A \in SUBSET Nat
      BY DEF FoundIn, Occurs
    <3> HIDE DEF A
    <3>10. First(A) \in Nat
      BY <3>4, <3>9, FirstIs
    <3>11. \/ Finds(f, b, mapped, needle, start, end, chunk) = NotFound
           \/ Finds(f, b, mapped, needle, start, end, chunk)
                = Cursor(start, chunk, i) - Len(f[i - 1]) + First(A)
      BY FindsIs DEF i, A
    <3> QED
      BY <2>1, <3>5, <3>8, <3>10, <3>11 DEF NotFound
  <2> QED
    BY <2>2, <2>3
<1> QED
  BY <1>1, <1>2, <1>3

(* A table whose pieces lie in their storage can be read.                  *)
LEMMA StoredIsReadable ==
  ASSUME NEW added \in Seq(Chars), NEW mapped \in Seq(Chars), NEW n \in Nat, n <= Len(mapped),
         NEW p \in Stored(Len(added), n)
  PROVE  PieceBytes(added, mapped, p) \in Seq(Chars)
<1> DEFINE b == PieceBytes(added, mapped, p)
           storage == IF p.storage = "original" THEN mapped ELSE added
<1>1. p \in Piece /\ p.offset \in Nat /\ p.length \in Nat
  BY DEF Stored, Piece
<1>2. storage \in Seq(Chars) /\ Len(storage) \in Nat
  BY LenProperties
<1>3. p.offset + p.length <= Len(storage)
  <2>1. p.storage \in {"original", "added"}
    BY <1>1 DEF Piece
  <2>2. Len(mapped) \in Nat
    BY LenProperties
  <2>3. CASE p.storage = "original"
    <3>1. p.offset + p.length <= n
      BY <2>3 DEF Stored
    <3> QED
      BY <1>1, <2>2, <2>3, <3>1
  <2>4. CASE p.storage = "added"
    <3>1. p.offset + p.length <= Len(added)
      BY <2>4 DEF Stored
    <3> QED
      BY <2>4, <3>1
  <2> QED
    BY <2>1, <2>3, <2>4
<1>4. b = [k \in 1 .. p.length |->
             IF p.offset + k <= Len(storage) THEN storage[p.offset + k] ELSE Gap]
  BY DEF PieceBytes
<1> HIDE DEF storage, b
<1>5. ASSUME NEW k \in 1 .. p.length PROVE b[k] \in Chars
  <2>1. p.offset + k <= Len(storage) /\ p.offset + k \in 1 .. Len(storage)
    BY <1>1, <1>2, <1>3
  <2>2. storage[p.offset + k] \in Chars
    BY <1>2, <2>1, ElementOfSeq
  <2> QED
    BY <1>4, <2>1, <2>2
<1>6. b \in [1 .. p.length -> Chars]
  BY <1>4, <1>5
<1>7. b \in Seq(Chars)
  BY <1>1, <1>6, SeqDef, SMTT(30)
<1> QED
  BY <1>7 DEF b

LEMMA TextIsReadable ==
  ASSUME NEW added \in Seq(Chars), NEW mapped \in Seq(Chars), NEW n \in Nat, n <= Len(mapped),
         NEW s \in Seq(Stored(Len(added), n))
  PROVE  TextOf(s, added, mapped) \in Seq(Chars)
<1> DEFINE S == Stored(Len(added), n)
           T == {l \in Nat : \A r \in Seq(S) :
                              Len(r) = l => TextOf(r, added, mapped) \in Seq(Chars)}
<1>1. 0 \in T
  <2>1. ASSUME NEW r \in Seq(S), Len(r) = 0 PROVE TextOf(r, added, mapped) \in Seq(Chars)
    <3>1. r = <<>>
      BY <2>1, EmptySeq
    <3>2. TextOf(<<>>, added, mapped) = <<>> /\ <<>> \in Seq(Chars)
      BY TextOfNone, EmptySeq
    <3> QED
      BY <3>1, <3>2
  <2> QED
    BY <2>1
<1>2. ASSUME NEW l \in Nat, l \in T PROVE l + 1 \in T
  <2>1. ASSUME NEW r \in Seq(S), Len(r) = l + 1 PROVE TextOf(r, added, mapped) \in Seq(Chars)
    <3>1. PICK q \in Seq(S), x \in S : r = Append(q, x) /\ Len(q) = l
      <4> HIDE DEF S
      <4> QED
        BY <2>1, EndsWith
    <3>2. TextOf(q, added, mapped) \in Seq(Chars)
      BY <1>2, <3>1
    <3>3. PieceBytes(added, mapped, x) \in Seq(Chars)
      BY StoredIsReadable
    <3>4. q \in Seq(Piece) /\ x \in Piece
      BY StoredArePieces DEF Stored
    <3>5. AppendsText(q, x, added, mapped)
      BY <3>4, TextOfAppend
    <3>6. TextOf(q, added, mapped) \o PieceBytes(added, mapped, x) \in Seq(Chars)
      BY <3>2, <3>3, ConcatProperties
    <3> QED
      BY <3>1, <3>5, <3>6 DEF AppendsText
  <2> QED
    BY <2>1
<1>3. Nat \subseteq T
  <2> HIDE DEF T
  <2> QED
    BY <1>1, <1>2, Induction
<1>4. Len(s) \in Nat
  BY LenProperties
<1> QED
  BY <1>3, <1>4

-----------------------------------------------------------------------------
(* What a step leaves alone.                                               *)

Maps   == OpenMap \/ FollowMap
Stamps == OpenStamp \/ FollowStamp
Shows  == MoveForward \/ MoveBack \/ FindNext

LEMMA FileSteps ==
  ASSUME [Next]_vars
  PROVE  \/ ExternalWrite \/ ExternalDelete \/ Rename \/ ReopenFails \/ RestampFails
         \/ UNCHANGED <<disk, versions>>
BY DEF Next, External, Open, Commands, Saving, Monitor, OpenView, OpenMap, OpenStamp, OpenAdd,
       Edit, Undo, MoveForward, MoveBack, FindNext, Show, Follow, Save, Stream, Compare, SaveFails,
       MoveFails, Reopen, Restamp, SaveFinish, ViewFails, Timer, FollowMap, FollowStamp,
       FollowLoad, FollowFails, Keep, Block, Reload, ReloadFails, vars, file

LEMMA TableSteps ==
  ASSUME [Next]_vars
  PROVE  \/ Maps \/ Stamps \/ Rename \/ Reopen \/ Restamp \/ ReopenFails \/ RestampFails
         \/ MoveFails \/ Timer
         \/ UNCHANGED <<source, known, origin>> /\ (Edit \/ Undo \/ Reload \/ UNCHANGED buffer)
BY DEF Next, External, Open, Commands, Saving, Monitor, OpenView, OpenAdd, Maps, Stamps,
       Edit, Undo, Modify, MoveForward, MoveBack, FindNext, Show, Follow, Save, Stream, Compare,
       SaveFails, SaveFinish, ViewFails, FollowLoad, FollowFails, ExternalWrite, ExternalDelete,
       Keep, Block, Reload, ReloadFails, vars, table

LEMMA EditorSteps ==
  ASSUME [Next]_vars
  PROVE  \/ OpenAdd \/ Edit \/ Undo \/ Shows \/ SaveFinish \/ FollowLoad \/ Reload
         \/ UNCHANGED editor
BY DEF Next, External, Open, Commands, Saving, Monitor, OpenView, OpenMap, OpenStamp, Shows,
       Follow, Save, Stream, Compare, SaveFails, MoveFails, Rename, Reopen,
       Restamp, ReopenFails, RestampFails, Return,
       ViewFails, Timer, FollowMap, FollowStamp, FollowFails, ExternalWrite, ExternalDelete,
       Keep, Block, ReloadFails, vars

LEMMA DocSteps ==
  ASSUME [Next]_vars
  PROVE  \/ OpenAdd \/ Edit \/ Undo \/ Shows \/ Follow \/ SaveFinish \/ FollowLoad
         \/ FollowFails \/ Keep \/ Block \/ Reload
         \/ UNCHANGED doc
BY DEF Next, External, Open, Commands, Saving, Monitor, OpenView, OpenMap, OpenStamp, Shows,
       Save, Stream, Compare, SaveFails, MoveFails, Rename, Reopen,
       Restamp, ReopenFails, RestampFails, Return,
       ViewFails, Timer, FollowMap, FollowStamp, ExternalWrite, ExternalDelete,
       ReloadFails, vars

-----------------------------------------------------------------------------
(* Each part of the invariant is kept.                                     *)

LEMMA NumbersKeep ==
  ASSUME Numbers, [Next]_vars
  PROVE  Numbers'
<1>1. /\ MaxWrites \in Nat /\ MaxCommands \in Nat /\ writes \in Nat /\ commands \in Nat
      /\ versions \in Nat
  BY BoundsAssumption DEF Numbers
<1>2. CASE External
  BY <1>1, <1>2 DEF External, ExternalWrite, ExternalDelete, NewVersion, Numbers
<1>3. CASE Open
  BY <1>1, <1>3 DEF Open, OpenView, OpenMap, OpenStamp, OpenAdd, Map, Stamp, Moves, Numbers,
                    Places, file
<1>4. CASE Commands
  <2>1. CASE Save
    BY <1>1, <2>1 DEF Save, Command, Ready, Numbers, Places, file
  <2>2. ASSUME Command, UNCHANGED <<file, ui>> PROVE Numbers'
    BY <1>1, <2>2 DEF Command, Ready, Numbers, Places, file
  <2>3. CASE Edit \/ Undo \/ Follow
    <3>1. Command /\ UNCHANGED <<file, ui>>
      BY <2>3 DEF Edit, Undo, Follow
    <3> QED
      BY <2>2, <3>1
  <2>4. ASSUME NEW offset, Show(offset) PROVE Numbers'
    BY <2>2, <2>4 DEF Show
  <2>5. CASE MoveForward \/ MoveBack \/ FindNext
    BY <2>4, <2>5 DEF MoveForward, MoveBack, FindNext
  <2> QED
    BY <1>4, <2>1, <2>3, <2>5 DEF Commands
<1>5. CASE Saving
  BY <1>1, <1>5 DEF Saving, Stream, Compare, SaveFails, MoveFails, Rename, Reopen, Restamp,
                    ReopenFails, RestampFails, Return, SaveFinish, ViewFails, Moves,
                    NewVersion, Numbers, Places, file
<1>6. CASE Timer
  <2>1. ui = "idle" /\ ui' \in {"followMap", "changed"} /\ UNCHANGED <<file, commands>>
    BY <1>6 DEF Timer, Ready, Moves
  <2> QED
    BY <2>1 DEF Numbers, Places, file
<1>7. CASE Monitor
  BY <1>1, <1>7 DEF Monitor, FollowMap, FollowStamp, FollowLoad, FollowFails, Keep, Block, Reload,
                    ReloadFails, Map, Stamp, Moves, Numbers, Places, file
<1>8. CASE UNCHANGED vars
  BY <1>8 DEF vars, file, Numbers
<1> QED
  BY <1>2, <1>3, <1>4, <1>5, <1>6, <1>7, <1>8 DEF Next

(* What a save that fails after the rename gives back.                     *)
LEMMA OwnIsVersion ==
  ASSUME LargeFileInv, Renamed
  PROVE  /\ noted.own \in [version : 0 .. versions, bytes : Contents]
         /\ noted.own = Gone \/ noted.own.version > 0
<1>1. versions \in Nat /\ noted \in Notes /\ SaveHolds
  BY DEF LargeFileInv, Numbers, HandlerHolds
<1>2. noted.own \in [version : Nat, bytes : Contents] /\ noted.version \in 1 .. versions
  BY <1>1 DEF Notes, SaveHolds
<1>3. noted.own.version \in 0 .. versions
  BY <1>1, <1>2 DEF SaveHolds
<1> QED
  BY <1>1, <1>2, <1>3 DEF SaveHolds

LEMMA DiskIsVersionKeeps ==
  ASSUME LargeFileInv, [Next]_vars
  PROVE  DiskIsVersion'
<1>1. /\ versions \in Nat \ {0} /\ disk \in [version : 0 .. versions, bytes : Contents]
      /\ noted.bytes \in Contents
  BY DEF LargeFileInv, Numbers, DiskIsVersion, HandlerHolds, Notes
<1>2. ASSUME NEW bytes \in Contents, NewVersion(bytes) PROVE DiskIsVersion'
  <2>1. versions' = versions + 1 /\ disk' = [version |-> versions', bytes |-> bytes]
    BY <1>2 DEF NewVersion
  <2> QED
    BY <1>1, <2>1 DEF DiskIsVersion
<1>3. CASE ExternalWrite
  <2>1. CASE \E bytes \in Files : NewVersion(bytes)
    <3>1. Files \subseteq Contents
      BY FilesAssumption DEF Contents, Chars
    <3> QED
      BY <1>2, <2>1, <3>1
  <2>2. CASE \E byte \in Bytes : NewVersion(Append(disk.bytes, byte))
    <3>1. PICK byte \in Bytes : NewVersion(Append(disk.bytes, byte))
      BY <2>2
    <3>2. Append(disk.bytes, byte) \in Contents
      <4>1. disk.bytes \in Seq(Chars) /\ byte \in Chars
        BY <1>1 DEF Contents, Chars
      <4> QED
        BY <4>1, AppendProperties DEF Contents
    <3> QED
      BY <1>2, <3>1, <3>2
  <2> QED
    BY <1>3, <2>1, <2>2 DEF ExternalWrite
<1>4. CASE ExternalDelete
  <2>1. disk' = Gone /\ versions' = versions
    BY <1>4 DEF ExternalDelete
  <2>2. <<>> \in Contents
    BY EmptySeq DEF Contents
  <2>3. Gone \in [version : 0 .. versions, bytes : Contents]
    BY <1>1, <2>2 DEF Gone
  <2> QED
    BY <2>1, <2>3 DEF DiskIsVersion, Gone
<1>5. CASE Rename
  BY <1>1, <1>2, <1>5 DEF Rename
<1>6. CASE UNCHANGED <<disk, versions>>
  BY <1>6 DEF DiskIsVersion, Gone, LargeFileInv
<1>7. CASE ReopenFails \/ RestampFails
  <2>1. Renamed /\ (disk' = disk \/ disk' = noted.own) /\ versions' = versions
    BY <1>7 DEF ReopenFails, RestampFails, Return, Renamed
  <2>2. CASE disk' = noted.own
    BY <2>1, <2>2, OwnIsVersion DEF DiskIsVersion, Gone
  <2> QED
    BY <1>6, <2>1, <2>2
<1> QED
  BY <1>3, <1>4, <1>5, <1>6, <1>7, FileSteps

(* The disk's version grows, but for a save that fails after the rename.   *)
LEMMA DiskMoves ==
  ASSUME LargeFileInv, [Next]_vars
  PROVE  /\ versions' \in Nat /\ versions <= versions'
         /\ \/ disk' = disk /\ versions' = versions
            \/ disk' = Gone
            \/ disk'.version > versions
            \/ versions' = versions /\ (ReopenFails \/ RestampFails)
<1>1. versions \in Nat
  BY DEF LargeFileInv, Numbers
<1>2. ASSUME NEW bytes, NewVersion(bytes) PROVE disk'.version > versions /\ versions' = versions + 1
  BY <1>1, <1>2 DEF NewVersion
<1>3. CASE ExternalWrite
  BY <1>1, <1>2, <1>3 DEF ExternalWrite
<1>4. CASE ExternalDelete
  BY <1>1, <1>4 DEF ExternalDelete, Gone
<1>5. CASE Rename
  BY <1>1, <1>2, <1>5 DEF Rename
<1>6. CASE ReopenFails \/ RestampFails
  BY <1>1, <1>6 DEF ReopenFails, RestampFails, Return
<1> QED
  BY <1>1, <1>3, <1>4, <1>5, <1>6, FileSteps

LEMMA DiskFacts ==
  ASSUME LargeFileInv
  PROVE  /\ versions \in Nat \ {0} /\ disk.version \in 0 .. versions /\ disk.bytes \in Contents
         /\ disk # Gone => disk.version > 0
BY DEF LargeFileInv, Numbers, DiskIsVersion

LEMMA ClosedIsTyped ==
  /\ ClosedSource.open = FALSE /\ ClosedSource.bytes = <<>> /\ ClosedSource.version = 0
  /\ \A n \in Nat : ClosedSource \in [open : BOOLEAN, bytes : Contents, version : 0 .. n]
<1>1. <<>> \in Contents
  BY EmptySeq DEF Contents
<1> QED
  BY <1>1 DEF ClosedSource

LEMMA SourceIsOldKeeps ==
  ASSUME LargeFileInv, [Next]_vars
  PROVE  SourceIsOld'
<1>1. /\ versions \in Nat \ {0} /\ disk.version \in 0 .. versions /\ disk.bytes \in Contents
      /\ disk # Gone => disk.version > 0
  BY DiskFacts
<1>2. /\ source \in [open : BOOLEAN, bytes : Contents, version : 0 .. versions]
      /\ known \in 0 .. versions /\ origin \in 0 .. versions
      /\ source.open => origin > 0
      /\ source.open => \/ source.version >= origin
                        \/ source.version = Unknown /\ known = Unknown
      /\ source.open /\ disk # Gone
           => /\ source.version <= disk.version
              /\ source.version = disk.version => source.bytes = disk.bytes
  BY DEF LargeFileInv, SourceIsOld
<1>3. /\ versions' \in Nat /\ versions <= versions'
      /\ \/ disk' = disk /\ versions' = versions
         \/ disk' = Gone
         \/ disk'.version > versions
         \/ versions' = versions /\ (ReopenFails \/ RestampFails)
  BY DiskMoves
<1>4. DiskIsVersion' /\ versions' # 0
  BY <1>1, <1>3, DiskIsVersionKeeps
<1>5. ASSUME UNCHANGED <<source, known, origin>>, ~ReopenFails, ~RestampFails
      PROVE  SourceIsOld'
  <2>1. source \in [open : BOOLEAN, bytes : Contents, version : 0 .. versions']
    BY <1>1, <1>2, <1>3
  <2>2. source.open /\ disk' # Gone
          => /\ source.version <= disk'.version
             /\ source.version = disk'.version => source.bytes = disk'.bytes
    <3>1. CASE disk' = disk
      BY <1>2, <3>1
    <3>2. CASE disk' # Gone /\ disk'.version > versions
      <4>1. disk'.version \in Nat
        BY <1>4 DEF DiskIsVersion
      <4> QED
        BY <1>1, <1>2, <3>2, <4>1
    <3> QED
      BY <1>3, <1>5, <3>1, <3>2
  <2> QED
    BY <1>1, <1>2, <1>3, <1>5, <2>1, <2>2 DEF SourceIsOld
<1>6. ASSUME source' = ClosedSource, known' \in 0 .. versions, origin' \in 0 .. versions
      PROVE  SourceIsOld'
  <2>1. source' \in [open : BOOLEAN, bytes : Contents, version : 0 .. versions'] /\ ~source'.open
    BY <1>3, <1>6, ClosedIsTyped
  <2> QED
    BY <1>1, <1>3, <1>6, <2>1 DEF SourceIsOld
<1>7. ASSUME source' = Mapped(disk), disk # Gone, origin' \in 1 .. disk.version,
             known' \in 0 .. versions, disk' = disk, versions' = versions
      PROVE  SourceIsOld'
  <2>1. source' = [open |-> TRUE, bytes |-> disk.bytes, version |-> disk.version]
    BY <1>7 DEF Mapped
  <2> QED
    BY <1>1, <1>7, <2>1 DEF SourceIsOld
<1>8. CASE Maps
  <2>1. \/ /\ disk # Gone /\ source' = Mapped(disk) /\ origin' = disk.version
           /\ UNCHANGED known
        \/ source' = ClosedSource /\ UNCHANGED <<known, origin>>
    BY <1>8 DEF Maps, OpenMap, FollowMap, Map
  <2>2. disk' = disk /\ versions' = versions
    BY <1>8 DEF Maps, OpenMap, FollowMap, file
  <2> QED
    BY <1>1, <1>2, <1>6, <1>7, <2>1, <2>2
<1>9. CASE Stamps
  <2>1. \/ disk # Gone /\ known' = disk.version /\ UNCHANGED <<source, origin>>
        \/ source' = ClosedSource /\ UNCHANGED <<known, origin>>
    BY <1>9 DEF Stamps, OpenStamp, FollowStamp, Stamp
  <2>2. disk' = disk /\ versions' = versions
    BY <1>9 DEF Stamps, OpenStamp, FollowStamp, file
  <2>3. source.version = origin
    BY <1>9 DEF Stamps, OpenStamp, FollowStamp, LargeFileInv, HandlerHolds
  <2>4. CASE disk # Gone /\ known' = disk.version /\ UNCHANGED <<source, origin>>
    BY <1>1, <1>2, <2>2, <2>3, <2>4 DEF SourceIsOld
  <2> QED
    BY <1>2, <1>6, <2>1, <2>4
<1>10. CASE Rename
  <2>1. source' = ClosedSource /\ UNCHANGED <<known, origin>>
    BY <1>10 DEF Rename
  <2> QED
    BY <1>2, <1>6, <2>1
<1>11. ASSUME Renamed
       PROVE  /\ noted.version \in 1 .. versions /\ origin > 0 /\ origin < noted.version
              /\ disk # Gone => noted.version <= disk.version
              /\ ui = "restamp" => source.open /\ noted.version <= source.version
              /\ ui = "reopen" => ~source.open
              /\ noted.own = Gone \/ noted.own.version > 0
  BY <1>11 DEF LargeFileInv, HandlerHolds, SaveHolds
<1>12. CASE Reopen
  <2>1. /\ Renamed /\ disk # Gone /\ source' = Mapped(disk) /\ UNCHANGED <<known, origin>>
        /\ disk' = disk /\ versions' = versions
    BY <1>12 DEF Reopen, Renamed, file
  <2>2. origin' \in 1 .. disk.version
    BY <1>1, <1>2, <1>11, <2>1
  <2> QED
    BY <1>2, <1>7, <2>1, <2>2
<1>13. CASE Restamp
  <2>1. /\ Renamed /\ ui = "restamp" /\ disk # Gone /\ source' = source
        /\ known' = Written(disk) /\ disk' = disk /\ versions' = versions
        /\ origin' = IF noted.sound THEN noted.version ELSE origin
    BY <1>13 DEF Restamp, Renamed, file
  <2>2. known' \in 0 .. versions
    BY <1>1, <2>1 DEF Written, Unknown
  <2>3. origin' \in 1 .. versions /\ origin' <= source.version
    BY <1>1, <1>2, <1>11, <2>1
  <2> QED
    BY <1>1, <1>2, <2>1, <2>2, <2>3 DEF SourceIsOld
<1>14. CASE ReopenFails
  <2>1. Renamed /\ ui = "reopen" /\ UNCHANGED <<source, known, origin, versions>>
    BY <1>14 DEF ReopenFails, Return, Renamed
  <2> QED
    BY <1>1, <1>2, <1>11, <2>1 DEF SourceIsOld
<1>15. CASE RestampFails
  <2>1. /\ Renamed /\ ui = "restamp" /\ known' = Unknown /\ UNCHANGED <<origin, versions>>
        /\ source' = IF noted.same THEN source ELSE [source EXCEPT !.version = Unknown]
        /\ disk' = IF noted.same THEN disk ELSE noted.own
    BY <1>15 DEF RestampFails, Return, Renamed
  <2>2. origin > 0 /\ origin <= source.version
    BY <1>1, <1>2, <1>11, <2>1
  <2>3. CASE noted.same
    BY <1>1, <1>2, <2>1, <2>2, <2>3 DEF SourceIsOld, Unknown
  <2>4. CASE ~noted.same
    <3>1. /\ source' \in [open : BOOLEAN, bytes : Contents, version : 0 .. versions]
          /\ source'.version = 0
      BY <1>1, <1>2, <2>1, <2>4 DEF Unknown
    <3>2. disk' = noted.own /\ (disk' # Gone => disk'.version > 0)
      BY <1>11, <2>1, <2>4
    <3>3. disk'.version \in Nat
      BY <1>4 DEF DiskIsVersion
    <3> QED
      BY <1>1, <1>2, <2>1, <2>2, <3>1, <3>2, <3>3 DEF SourceIsOld, Unknown
  <2> QED
    BY <2>3, <2>4
<1>16. CASE MoveFails
  <2>1. /\ ui = "move" /\ UNCHANGED <<known, origin>> /\ disk' = disk /\ versions' = versions
        /\ \/ source' = ClosedSource
           \/ disk # Gone /\ source' = Mapped(disk)
    BY <1>16 DEF MoveFails, file
  <2>2. source.open /\ known # Unknown
    BY <2>1 DEF LargeFileInv, HandlerHolds
  <2>3. disk # Gone => origin \in 1 .. disk.version
    BY <1>1, <1>2, <2>2
  <2> QED
    BY <1>2, <1>6, <1>7, <2>1, <2>3
<1>17. CASE Timer
  <2>1. /\ UNCHANGED <<known, origin>> /\ (source' = ClosedSource \/ UNCHANGED source)
        /\ ui = "idle"
    BY <1>17 DEF Timer, Ready
  <2>2. ~ReopenFails /\ ~RestampFails
    BY <2>1 DEF ReopenFails, RestampFails
  <2> QED
    BY <1>2, <1>5, <1>6, <2>1, <2>2
<1> QED
  BY <1>5, <1>8, <1>9, <1>10, <1>12, <1>13, <1>14, <1>15, <1>16, <1>17, TableSteps

LEMMA DecodeIs ==
  ASSUME NEW bytes \in Contents, NEW bom \in BOOLEAN
  PROVE  Decode(bytes, bom) \in Contents
<1>1. CASE bytes = <<>>
  BY <1>1 DEF Decode
<1>2. CASE bytes # <<>>
  <2>1. Tail(bytes) \in Seq(Chars)
    BY <1>2, HeadTailProperties DEF Contents
  <2> QED
    BY <2>1 DEF Decode, Contents
<1> QED
  BY <1>1, <1>2

(* What the steps of the editor do to the table.                           *)
LEMMA EditIs ==
  ASSUME LargeFileInv, Edit
  PROVE  \E c \in Changes : CanChange(editor.text, c) /\ Modify(c, Do(c), doc.via)
<1>1. editor.text \in Contents /\ editor.text \in Seq(Chars) /\ Len(editor.text) \in Nat
  BY LenProperties DEF LargeFileInv, HistoryFits, Contents
<1>2. PICK at \in 0 .. Len(editor.text) :
        \/ \E byte \in Bytes : Modify(Change(at, <<>>, <<byte>>, FALSE),
                                      Do(Change(at, <<>>, <<byte>>, FALSE)), doc.via)
        \/ /\ at < Len(editor.text)
           /\ Modify(Change(at, <<editor.text[at + 1]>>, <<>>, FALSE),
                     Do(Change(at, <<editor.text[at + 1]>>, <<>>, FALSE)), doc.via)
  BY Zenon DEF Edit
<1>3. <<>> \in Contents /\ Len(<<>>) = 0 /\ at \in Nat
  BY <1>1, EmptySeq DEF Contents
<1>4. ASSUME NEW byte \in Chars PROVE <<byte>> \in Contents /\ Len(<<byte>>) = 1
  BY DEF Contents
<1>5. CASE \E byte \in Bytes : Modify(Change(at, <<>>, <<byte>>, FALSE),
                                      Do(Change(at, <<>>, <<byte>>, FALSE)), doc.via)
  <2>1. PICK byte \in Bytes : Modify(Change(at, <<>>, <<byte>>, FALSE),
                                     Do(Change(at, <<>>, <<byte>>, FALSE)), doc.via)
    BY <1>5
  <2> DEFINE c == Change(at, <<>>, <<byte>>, FALSE)
  <2>2. c \in Changes /\ c.at = at /\ c.removed = <<>>
    <3>1. <<byte>> \in Contents
      BY <1>4 DEF Chars
    <3> QED
      BY <1>3, <3>1 DEF Change, Changes
  <2> HIDE DEF c
  <2>3. CanChange(editor.text, c)
    BY <1>1, <1>3, <2>2 DEF CanChange
  <2>4. Modify(c, Do(c), doc.via)
    BY <2>1 DEF c
  <2> QED
    BY <2>2, <2>3, <2>4
<1>6. CASE /\ at < Len(editor.text)
           /\ Modify(Change(at, <<editor.text[at + 1]>>, <<>>, FALSE),
                     Do(Change(at, <<editor.text[at + 1]>>, <<>>, FALSE)), doc.via)
  <2> DEFINE r == <<editor.text[at + 1]>>
             c == Change(at, r, <<>>, FALSE)
  <2>1. editor.text[at + 1] \in Chars
    BY <1>1, <1>3, <1>6, ElementOfSeq
  <2>2. r \in Contents /\ Len(r) = 1
    BY <1>4, <2>1
  <2> HIDE DEF r
  <2>3. c \in Changes /\ c.at = at /\ c.removed = r
    BY <1>3, <2>2 DEF Change, Changes
  <2>4. Modify(c, Do(c), doc.via)
    BY <1>6 DEF r
  <2> HIDE DEF c
  <2>5. at < Len(editor.text)
    BY <1>6
  <2>6. at + 1 <= Len(editor.text)
    BY <1>1, <1>3, <2>5
  <2>7. CanChange(editor.text, c)
    BY <2>2, <2>3, <2>6 DEF CanChange
  <2> QED
    BY <2>3, <2>4, <2>7
<1> QED
  BY <1>2, <1>5, <1>6

LEMMA UndoIs ==
  ASSUME LargeFileInv, Undo
  PROVE  /\ editor.past # <<>>
         /\ Modify(Reversed(Last(editor.past)), Undone,
                   IF Last(editor.past).load THEN "undo" ELSE doc.via)
         /\ Reversed(Last(editor.past)) \in Changes
         /\ CanChange(editor.text, Reversed(Last(editor.past))) /\ History(Undone)
         /\ Undone.text = Changed(editor.text, Reversed(Last(editor.past)))
<1>1. editor.past # <<>> /\ Modify(Reversed(Last(editor.past)), Undone,
                                   IF Last(editor.past).load THEN "undo" ELSE doc.via)
  BY DEF Undo
<1>2. HistoryFits
  BY DEF LargeFileInv
<1> QED
  BY <1>1, <1>2, UndoneIs

Reloads(c) == /\ editor' = [Do(c) EXCEPT !.saved = Len(editor.past) + 1]
              /\ buffer' = Recorded(c)
              /\ doc' = [doc EXCEPT !.dirty = FALSE, !.via = "reload", !.flagged = FALSE,
                                    !.fileState = noted.state, !.readOnly = ~CanRecord(c)]

LEMMA ReloadIs ==
  ASSUME LargeFileInv, Reload
  PROVE  \E c \in Changes : CanChange(editor.text, c) /\ Reloads(c)
<1> DEFINE bom == HasBom(disk.bytes)
           all == Decode(disk.bytes, bom)
           try == Change(0, editor.text, all, TRUE)
           c   == IF CanRecordErase(try) THEN try ELSE [try EXCEPT !.added = <<>>]
<1>1. editor.text \in Contents /\ editor.text \in Seq(Chars) /\ Len(editor.text) \in Nat
  BY LenProperties DEF LargeFileInv, HistoryFits, Contents
<1>2. disk.bytes \in Contents /\ bom \in BOOLEAN
  BY DiskFacts DEF HasBom
<1> HIDE DEF bom
<1>3. all \in Contents /\ <<>> \in Contents
  BY <1>2, DecodeIs, EmptySeq DEF Contents
<1>4. Reloads(c)
  BY DEF Reload, Reloads, bom
<1> HIDE DEF all
<1>5. c \in Changes /\ c.at = 0 /\ c.removed = editor.text
  BY <1>1, <1>3 DEF Change, Changes
<1> HIDE DEF c
<1>6. CanChange(editor.text, c)
  BY <1>1, <1>5 DEF CanChange
<1> QED
  BY <1>4, <1>5, <1>6

(* While the table's text waits for its new source, it is not sound.       *)
LEMMA SaveFailsIs ==
  ASSUME LargeFileInv, Reopen \/ ReopenFails \/ RestampFails
  PROVE  ~Sound'
<1>1. /\ source \in [open : BOOLEAN, bytes : Contents, version : 0 .. versions]
      /\ versions \in Nat /\ origin \in 0 .. versions /\ disk.version \in 0 .. versions
  BY DiskFacts DEF LargeFileInv, SourceIsOld
<1>2. Renamed /\ UNCHANGED origin
  BY DEF Reopen, ReopenFails, RestampFails, Return, Renamed
<1>3. /\ noted.version \in 1 .. versions /\ origin > 0 /\ origin < noted.version
      /\ disk # Gone => noted.version <= disk.version
      /\ ui = "reopen" => ~source.open
      /\ ui = "restamp" => noted.version <= source.version
  BY <1>2 DEF LargeFileInv, HandlerHolds, SaveHolds
<1>4. CASE Reopen
  <2>1. disk # Gone /\ source'.version = disk.version
    BY <1>4 DEF Reopen, Mapped
  <2> QED
    BY <1>1, <1>2, <1>3, <2>1 DEF Sound
<1>5. CASE ReopenFails
  BY <1>3, <1>5 DEF ReopenFails, Sound
<1>6. CASE RestampFails
  <2>1. ui = "restamp" /\ (source' = source \/ source' = [source EXCEPT !.version = Unknown])
    BY <1>6 DEF RestampFails
  <2>2. source'.version # origin
    BY <1>1, <1>3, <2>1 DEF Unknown
  <2> QED
    BY <1>2, <2>2 DEF Sound
<1> QED
  BY <1>4, <1>5, <1>6

(* A save that succeeds leaves a table that is sound only if it reads what *)
(* the save wrote, and gives that text then.                               *)
LEMMA RestampIs ==
  ASSUME LargeFileInv, Restamp, Sound'
  PROVE  /\ noted.sound /\ source'.bytes = noted.bytes /\ Len(source'.bytes) = buffer.size
         /\ Full' = noted.bytes
<1>1. /\ source \in [open : BOOLEAN, bytes : Contents, version : 0 .. versions]
      /\ versions \in Nat /\ origin \in 0 .. versions
  BY DiskFacts DEF LargeFileInv, SourceIsOld
<1>2. /\ Renamed /\ ui = "restamp" /\ UNCHANGED source /\ buffer' = Opened(buffer.size)
      /\ origin' = IF noted.sound THEN noted.version ELSE origin
  BY DEF Restamp, Renamed
<1>3. /\ noted.version \in 1 .. versions /\ origin < noted.version
      /\ Len(noted.bytes) = buffer.size /\ noted.version <= source.version
      /\ source.version = noted.version => source.bytes = noted.bytes
      /\ noted.bytes \in Seq(Chars)
  BY <1>2 DEF LargeFileInv, HandlerHolds, SaveHolds, Notes, Contents
<1>4. source.version = origin'
  BY <1>2 DEF Sound
<1>5. noted.sound /\ source.version = noted.version
  BY <1>1, <1>2, <1>3, <1>4
<1>6. Len(noted.bytes) \in Nat
  BY <1>3, LenProperties
<1>7. Text(Opened(buffer.size), noted.bytes) = noted.bytes
  BY <1>3, <1>6, OpenedIsFile
<1> QED
  BY <1>2, <1>3, <1>5, <1>7 DEF Full

LEMMA TableFitsKeeps ==
  ASSUME LargeFileInv, [Next]_vars
  PROVE  TableFits'
<1>1. PICK n \in Nat : Buffer(buffer, n) /\ (Sound => n <= Len(source.bytes))
  BY DEF LargeFileInv, TableFits
<1>2. /\ versions \in Nat \ {0} /\ disk.version \in 0 .. versions /\ disk.bytes \in Contents
      /\ disk # Gone => disk.version > 0
  BY DiskFacts
<1>3. /\ source \in [open : BOOLEAN, bytes : Contents, version : 0 .. versions]
      /\ known \in 0 .. versions /\ origin \in 0 .. versions
      /\ source.open => origin > 0
      /\ source.open => \/ source.version >= origin
                        \/ source.version = Unknown /\ known = Unknown
      /\ source.open /\ disk # Gone
           => /\ source.version <= disk.version
              /\ source.version = disk.version => source.bytes = disk.bytes
  BY DEF LargeFileInv, SourceIsOld
<1>4. doc \in Docs
  BY DEF LargeFileInv, DocIsOpen
<1>5. ASSUME Buffer(buffer', n), Sound' => n <= Len(source'.bytes) PROVE TableFits'
  BY <1>5 DEF TableFits
<1>6. ASSUME NEW m \in Nat, buffer' = Opened(m), Sound' => m <= Len(source'.bytes) PROVE TableFits'
  <2>1. Buffer(buffer', m)
    BY <1>6, OpenedIsFile
  <2> QED
    BY <1>6, <2>1 DEF TableFits
<1>7. ASSUME source' = ClosedSource, buffer' = Opened(0) PROVE TableFits'
  <2>1. ~Sound'
    BY <1>7, ClosedIsTyped DEF Sound
  <2> QED
    BY <1>6, <1>7, <2>1
<1>8. ASSUME ~Sound', UNCHANGED buffer PROVE TableFits'
  BY <1>1, <1>5, <1>8
<1>9. CASE UNCHANGED <<source, origin>> /\ UNCHANGED buffer
  BY <1>1, <1>5, <1>9 DEF Sound
<1>10. ASSUME NEW c \in Changes, buffer' = Recorded(c), UNCHANGED <<source, origin>>
       PROVE  TableFits'
  <2>1. Buffer(buffer', n)
    BY <1>1, <1>4, <1>10, RecordedIsBuffer
  <2> QED
    BY <1>1, <1>5, <1>10, <2>1 DEF Sound
<1>11. CASE UNCHANGED <<source, known, origin>> /\ (Edit \/ Undo \/ Reload)
  <2>1. CASE Edit
    BY <1>10, <1>11, <2>1, EditIs DEF Modify
  <2>2. CASE Undo
    BY <1>10, <1>11, <2>2, UndoIs DEF Modify
  <2>3. CASE Reload
    BY <1>10, <1>11, <2>3, ReloadIs DEF Reloads
  <2> QED
    BY <1>11, <2>1, <2>2, <2>3
<1>12. CASE Maps
  <2>1. \/ /\ source' = Mapped(disk) /\ buffer' = Opened(Len(disk.bytes))
        \/ source' = ClosedSource /\ buffer' = Opened(0)
    BY <1>12 DEF Maps, OpenMap, FollowMap, Map
  <2>2. CASE source' = Mapped(disk) /\ buffer' = Opened(Len(disk.bytes))
    <3>1. Len(disk.bytes) \in Nat /\ source'.bytes = disk.bytes
      BY <1>2, <2>2, LenProperties DEF Contents, Mapped
    <3> QED
      BY <1>6, <2>2, <3>1
  <2> QED
    BY <1>7, <2>1, <2>2
<1>13. CASE Stamps
  <2>1. \/ UNCHANGED <<source, buffer, origin>>
        \/ source' = ClosedSource /\ buffer' = Opened(0)
    BY <1>13 DEF Stamps, OpenStamp, FollowStamp, Stamp
  <2> QED
    BY <1>7, <1>9, <2>1
<1>14. CASE Rename
  <2>1. source' = ClosedSource /\ UNCHANGED buffer
    BY <1>14 DEF Rename
  <2>2. ~Sound'
    BY <2>1, ClosedIsTyped DEF Sound
  <2> QED
    BY <1>8, <2>1, <2>2
<1>15. CASE Reopen \/ ReopenFails \/ RestampFails
  <2>1. UNCHANGED buffer
    BY <1>15 DEF Reopen, ReopenFails, RestampFails, Return
  <2> QED
    BY <1>8, <1>15, <2>1, SaveFailsIs
<1>18. CASE Restamp
  <2>1. buffer' = Opened(buffer.size) /\ buffer.size \in Nat
    BY <1>1, <1>18, BufferFacts DEF Restamp
  <2>2. Sound' => Len(source'.bytes) = buffer.size
    BY <1>18, RestampIs
  <2> QED
    BY <1>6, <2>1, <2>2
<1>16. CASE MoveFails
  <2>1. /\ ui = "move" /\ UNCHANGED <<origin, buffer>>
        /\ \/ source' = ClosedSource
           \/ disk # Gone /\ source' = Mapped(disk)
    BY <1>16 DEF MoveFails
  <2>2. source.open /\ known # Unknown
    BY <2>1 DEF LargeFileInv, HandlerHolds
  <2>3. CASE source' = ClosedSource
    <3>1. ~Sound'
      BY <2>3, ClosedIsTyped DEF Sound
    <3> QED
      BY <1>8, <2>1, <3>1
  <2>4. CASE disk # Gone /\ source' = Mapped(disk)
    <3>1. source'.version = disk.version /\ source'.bytes = disk.bytes
      BY <1>2, <2>4 DEF Mapped
    <3>2. CASE Sound'
      <4>1. source.version = origin /\ source.version = disk.version
        BY <1>2, <1>3, <2>1, <2>2, <2>4, <3>1, <3>2 DEF Sound
      <4>2. Sound /\ source'.bytes = source.bytes
        BY <1>3, <2>2, <2>4, <3>1, <4>1 DEF Sound
      <4> QED
        BY <1>1, <1>5, <2>1, <4>2
    <3> QED
      BY <1>8, <2>1, <3>2
  <2> QED
    BY <2>1, <2>3, <2>4
<1>17. CASE Timer
  <2>1. \/ source' = ClosedSource /\ buffer' = Opened(0)
        \/ UNCHANGED <<source, buffer>>
    BY <1>17 DEF Timer
  <2>2. UNCHANGED origin
    BY <1>17 DEF Timer
  <2> QED
    BY <1>7, <1>9, <2>1, <2>2
<1> QED
  BY <1>9, <1>11, <1>12, <1>13, <1>14, <1>15, <1>16, <1>17, <1>18, TableSteps

-----------------------------------------------------------------------------
(* The window.                                                             *)

LEMMA SpliceAll ==
  ASSUME NEW S, NEW t \in Seq(S), NEW a \in Seq(S)
  PROVE  Splice(t, 0, Len(t), a) = a
<1>1. Len(t) \in Nat /\ 0 + Len(t) + 1 = Len(t) + 1
  BY LenProperties
<1>2. SubSeq(t, 1, 0) = <<>> /\ SubSeq(t, Len(t) + 1, Len(t)) = <<>>
  BY <1>1, SubSeqEmpty
<1>3. <<>> \o a = a /\ a \o <<>> = a
  BY ConcatEmptySeq
<1>4. Splice(t, 0, Len(t), a) = (<<>> \o a) \o <<>>
  BY <1>1, <1>2 DEF Splice
<1> QED
  BY <1>3, <1>4

SetText(t) == Change(0, editor.text, t, TRUE)

LEMMA SetTextIs ==
  ASSUME LargeFileInv, NEW t \in Contents
  PROVE  /\ SetText(t) \in Changes /\ CanChange(editor.text, SetText(t))
         /\ Changed(editor.text, SetText(t)) = t
<1>1. editor.text \in Contents /\ editor.text \in Seq(Chars) /\ t \in Seq(Chars)
  BY DEF LargeFileInv, HistoryFits, Contents
<1>2. Len(editor.text) \in Nat
  BY <1>1, LenProperties
<1>3. SetText(t) \in Changes /\ SetText(t).at = 0 /\ SetText(t).removed = editor.text
        /\ SetText(t).added = t
  BY <1>1 DEF SetText, Change, Changes
<1>4. CanChange(editor.text, SetText(t))
  BY <1>2, <1>3 DEF CanChange
<1>5. Changed(editor.text, SetText(t)) = Splice(editor.text, 0, Len(editor.text), t)
  BY <1>3 DEF Changed
<1> QED
  BY <1>1, <1>3, <1>4, <1>5, SpliceAll

(* The text of a window that can be loaded.                                *)
Loaded(offset) == Decode(WindowBytes(offset), AfterBom(offset))

LoadsWindow(offset) ==
  /\ Loaded(offset) \in Contents
  /\ IsWindow(Loaded(offset), Full, DecodedOffset(offset))
  /\ DecodedOffset(offset) \in Nat
  /\ DecodedOffset(offset) + Len(Loaded(offset)) = offset + Least(buffer.size - offset, Window)

LEMMA LoadedIs ==
  ASSUME LargeFileInv, NEW offset \in Nat, CanLoad(offset)
  PROVE  LoadsWindow(offset)
<1>1. PICK n \in Nat : Buffer(buffer, n)
  BY DEF LargeFileInv, TableFits
<1>2. source.open /\ SourceBytes = source.bytes /\ source.bytes \in Seq(Chars) /\ Window \in Nat
  BY BoundsAssumption DEF LargeFileInv, SourceIsOld, CanLoad, SourceBytes, Contents
<1> DEFINE r == Read(buffer, source.bytes, offset, Window)
           k == Least(buffer.size - offset, Window)
<1>3. Returns(r, buffer, source.bytes, offset, k)
  <2>1. r # <<>>
    BY <1>2 DEF CanLoad, WindowBytes
  <2> QED
    BY <1>1, <1>2, <2>1, ReadReturns
<1>4. Full \in Seq(Cells) /\ Len(Full) = buffer.size /\ buffer.size \in Nat
  BY <1>1, <1>2, BufferText, BufferFacts DEF Full
<1>5. k \in Int
  BY <1>2, <1>4, LeastOf
<1>6. WindowBytes(offset) = r
  BY <1>2 DEF WindowBytes
<1> HIDE DEF r, k
<1>7. r = SubSeq(Full, offset + 1, offset + k) /\ r \in Seq(Chars) /\ Len(r) = k /\ k > 0
        /\ offset + k <= buffer.size
  BY <1>3 DEF Returns, Full
<1>8. r # <<>>
  BY <1>6 DEF CanLoad
<1>9. CASE AfterBom(offset)
  <2>1. Loaded(offset) = Tail(r) /\ DecodedOffset(offset) = 1 /\ offset = 0
    BY <1>6, <1>8, <1>9 DEF Loaded, Decode, DecodedOffset, AfterBom
  <2>2. Tail(r) \in Seq(Chars) /\ Len(Tail(r)) = k - 1
    BY <1>7, <1>8, HeadTailProperties
  <2>3. Tail(r) = SubSeq(Full, 2, k)
    <3>1. 1 \in 1 .. Len(Full) /\ k \in 1 .. Len(Full) /\ 0 + 1 = 1 /\ 0 + k = k /\ 1 + 1 = 2
      BY <1>4, <1>5, <1>7, <2>1
    <3>2. r = SubSeq(Full, 1, k)
      BY <1>7, <2>1, <3>1
    <3>3. Tail(SubSeq(Full, 1, k)) = SubSeq(Full, 1 + 1, k)
      BY <1>4, <3>1, HeadTailOfSubSeq
    <3> QED
      BY <3>1, <3>2, <3>3
  <2>4. 1 + 1 = 2 /\ 1 + (k - 1) = k /\ k <= Len(Full) /\ 1 \in Nat
    BY <1>4, <1>5, <1>7, <2>1
  <2>5. IsWindow(Tail(r), Full, 1)
    BY <2>2, <2>3, <2>4 DEF IsWindow
  <2>6. 1 + Len(Tail(r)) = offset + k
    BY <1>5, <2>1, <2>2
  <2> QED
    BY <2>1, <2>2, <2>4, <2>5, <2>6 DEF LoadsWindow, Contents, k
<1>10. CASE ~AfterBom(offset)
  <2>1. Loaded(offset) = r /\ DecodedOffset(offset) = offset
    BY <1>6, <1>10 DEF Loaded, Decode, DecodedOffset
  <2>2. IsWindow(r, Full, offset)
    BY <1>4, <1>7 DEF IsWindow
  <2> QED
    BY <1>7, <2>1, <2>2 DEF LoadsWindow, Contents, k
<1> QED
  BY <1>9, <1>10

LEMMA LoadIs ==
  ASSUME LargeFileInv, NEW offset \in Nat, CanLoad(offset), NEW d, Load(offset, d)
  PROVE  /\ History(editor') /\ editor'.text = Loaded(offset)
         /\ doc' = [d EXCEPT !.offset = offset, !.decoded = DecodedOffset(offset),
                             !.via = "window",
                             !.dirty = buffer.modified /\ (@ \/ AtSavePoint(editor))]
<1> DEFINE c == SetText(Loaded(offset))
<1>1. Loaded(offset) \in Contents
  BY LoadedIs DEF LoadsWindow
<1>2. c \in Changes /\ CanChange(editor.text, c) /\ Changed(editor.text, c) = Loaded(offset)
  BY <1>1, SetTextIs
<1>3. /\ editor' = IF buffer.modified THEN Do(c)
                   ELSE [Do(c) EXCEPT !.saved = Len(editor.past) + 1]
      /\ doc' = [d EXCEPT !.offset = offset, !.decoded = DecodedOffset(offset),
                          !.via = "window", !.dirty = buffer.modified /\ (@ \/ AtSavePoint(editor))]
  BY DEF Load, SetText, Loaded
<1> HIDE DEF c
<1>4. HistoryFits /\ Len(editor.past) + 1 \in Nat
  BY LenProperties DEF LargeFileInv, HistoryFits
<1>5. Do(c) \in Histories
  BY <1>2, <1>4, DoIs
<1>6. editor' \in Histories /\ editor'.text = Do(c).text /\ editor'.past = Do(c).past
  BY <1>3, <1>4, <1>5 DEF Histories
<1>7. History(editor') /\ editor'.text = Changed(editor.text, c)
  BY <1>2, <1>4, <1>6, DoneIs
<1> QED
  BY <1>2, <1>3, <1>7

LEMMA ShowIs ==
  ASSUME LargeFileInv, Shows
  PROVE  \E offset \in Nat : Show(offset)
<1>1. PICK n \in Nat : Buffer(buffer, n)
  BY DEF LargeFileInv, TableFits
<1>2. /\ buffer.size \in Nat /\ Window \in Nat /\ Chunk \in Nat \ {0} /\ doc.offset \in Nat
      /\ doc.decoded \in Nat
  BY <1>1, BufferFacts, BoundsAssumption DEF LargeFileInv, DocIsOpen, Docs
<1>3. CASE MoveForward
  <2>1. Show(Least(buffer.size, doc.offset + Window))
    BY <1>3 DEF MoveForward
  <2>2. Least(buffer.size, doc.offset + Window) \in Nat
    BY <1>2 DEF Least
  <2> QED
    BY <2>1, <2>2
<1>4. CASE MoveBack
  <2> DEFINE offset == IF doc.offset > Window THEN doc.offset - Window ELSE 0
  <2>1. Show(offset) /\ offset \in Nat
    BY <1>2, <1>4 DEF MoveBack
  <2> HIDE DEF offset
  <2> QED
    BY <2>1
<1>5. CASE FindNext
  <2>1. PICK byte \in Bytes, position \in 0 .. Len(editor.text) :
          LET at == Found(<<byte>>, doc.decoded + position)
              lead == Window \div 4
          IN  Show(IF at > lead THEN at - lead ELSE 0)
    BY <1>5 DEF FindNext
  <2> DEFINE from == doc.decoded + position
             at == Found(<<byte>>, from)
             lead == Window \div 4
  <2>2. from \in Nat /\ lead \in Nat
    BY <1>2
  <2>3. SourceBytes \in Seq(Chars)
    BY EmptySeq DEF LargeFileInv, SourceIsOld, SourceBytes, Contents
  <2>4. <<byte>> \in Seq(Chars) /\ <<byte>> # <<>>
    BY DEF Chars
  <2>5. Show(IF at > lead THEN at - lead ELSE 0)
    BY <2>1
  <2> HIDE DEF from, lead
  <2>6. /\ Find(buffer, SourceBytes, <<byte>>, from, buffer.size, Chunk) \in Int
        /\ Find(buffer, SourceBytes, <<byte>>, 0, from, Chunk) \in Int
    BY <1>1, <1>2, <2>2, <2>3, <2>4, FindIsInt
  <2>7. at \in Int
    BY <2>6 DEF Found
  <2> HIDE DEF at
  <2>8. (IF at > lead THEN at - lead ELSE 0) \in Nat
    BY <2>2, <2>7
  <2> QED
    BY <2>5, <2>8
<1> QED
  BY <1>3, <1>4, <1>5 DEF Shows

LEMMA HistoryFitsKeeps ==
  ASSUME LargeFileInv, [Next]_vars
  PROVE  HistoryFits'
<1>1. HistoryFits /\ History(editor)
  BY HistoryIs DEF LargeFileInv
<1>2. editor.text \in Contents /\ editor.past \in Seq(Changes) /\ editor.saved \in Nat \cup {Never}
        /\ Len(editor.past) \in Nat
  BY <1>1, LenProperties DEF HistoryFits
<1>3. ASSUME History(editor') PROVE HistoryFits'
  BY <1>3 DEF HistoryFits, History, Histories, Lengths
<1>4. CASE OpenAdd
  <2> DEFINE first == SubSeq(noted.bytes, 1, Least(Window, Len(noted.bytes)))
             t == Decode(first, HasBom(noted.bytes))
  <2>1. noted.bytes \in Seq(Chars) /\ Len(noted.bytes) \in Nat /\ Window \in Nat
    BY LenProperties, BoundsAssumption DEF LargeFileInv, HandlerHolds, Notes, Contents
  <2>2. first \in Seq(Chars)
    <3>1. Least(Window, Len(noted.bytes)) \in Int
            /\ Least(Window, Len(noted.bytes)) <= Len(noted.bytes)
      BY <2>1, LeastOf
    <3> QED
      BY <2>1, <3>1, SubSeqIn
  <2>3. HasBom(noted.bytes) \in BOOLEAN
    BY DEF HasBom
  <2>4. editor' = [text |-> t, past |-> <<>>, saved |-> 0]
    BY <1>4 DEF OpenAdd
  <2> HIDE DEF first
  <2>5. t \in Contents
    BY <2>2, <2>3, DecodeIs DEF Contents
  <2> HIDE DEF t
  <2>6. Len(t) \in Nat
    BY <2>5, LenProperties DEF Contents
  <2>7. <<>> \in Seq(Changes) /\ Len(<<>>) = 0
    BY EmptySeq
  <2>8. editor' \in Histories /\ editor'.text = t /\ editor'.past = <<>>
    BY <2>4, <2>5, <2>7 DEF Histories
  <2> DEFINE lengths == [i \in 0 .. 0 |-> Len(t)]
  <2>9. lengths \in [0 .. 0 -> Nat] /\ lengths[0] = Len(t)
    BY <2>6
  <2> HIDE DEF lengths
  <2>10. Lengths(editor', lengths)
    BY <2>7, <2>8, <2>9 DEF Lengths
  <2> QED
    BY <1>3, <2>8, <2>10 DEF History
<1>5. CASE Edit
  <2>1. PICK c \in Changes : CanChange(editor.text, c) /\ Modify(c, Do(c), doc.via)
    BY <1>5, EditIs
  <2>2. editor' = Do(c)
    BY <2>1 DEF Modify
  <2>3. Do(c) \in Histories
    BY <1>1, <2>1, DoIs
  <2> QED
    BY <1>1, <1>3, <2>1, <2>2, <2>3, DoneIs
<1>6. CASE Undo
  <2>1. editor' = Undone /\ History(Undone)
    BY <1>6, UndoIs DEF Modify
  <2> QED
    BY <1>3, <2>1
<1>7. CASE Shows
  <2>1. PICK offset \in Nat : Show(offset)
    BY <1>7, ShowIs
  <2>2. CanLoad(offset) /\ Load(offset, doc)
    BY <2>1 DEF Show
  <2> QED
    BY <1>3, <2>2, LoadIs
<1>8. CASE FollowLoad
  <2>1. CanLoad(TailOffset) /\ Load(TailOffset, [doc EXCEPT !.fileState = noted.state])
    BY <1>8 DEF FollowLoad
  <2>2. TailOffset \in Nat
    BY BoundsAssumption DEF LargeFileInv, HandlerHolds, Notes, States, TailOffset
  <2> QED
    BY <1>3, <2>1, <2>2, LoadIs
<1>9. CASE SaveFinish
  <2>1. editor' = [editor EXCEPT !.saved = Len(editor.past)]
    BY <1>9 DEF SaveFinish
  <2>2. editor \in Histories
    BY <1>1 DEF History
  <2>3. editor' \in Histories /\ editor'.text = editor.text /\ editor'.past = editor.past
    BY <1>2, <2>1, <2>2 DEF Histories
  <2> QED
    BY <1>1, <1>3, <2>3 DEF History, Lengths
<1>10. CASE Reload
  <2>1. PICK c \in Changes : CanChange(editor.text, c) /\ Reloads(c)
    BY <1>10, ReloadIs
  <2>2. editor' = [Do(c) EXCEPT !.saved = Len(editor.past) + 1]
    BY <2>1 DEF Reloads
  <2>3. Do(c) \in Histories
    BY <1>1, <2>1, DoIs
  <2>4. editor' \in Histories /\ editor'.text = Do(c).text /\ editor'.past = Do(c).past
    BY <1>2, <2>2, <2>3 DEF Histories
  <2> QED
    BY <1>1, <1>3, <2>1, <2>4, DoneIs
<1>11. CASE UNCHANGED editor
  BY <1>1, <1>3, <1>11
<1> QED
  BY <1>4, <1>5, <1>6, <1>7, <1>8, <1>9, <1>10, <1>11, EditorSteps

LEMMA StateIs == DiskIsVersion => State(disk) \in States
<1>1. ASSUME DiskIsVersion PROVE disk.version \in Nat /\ Len(disk.bytes) \in Nat
  <2>1. disk.version \in 0 .. versions /\ disk.bytes \in Seq(Chars)
    BY <1>1 DEF DiskIsVersion, Contents
  <2> QED
    BY <2>1, LenProperties
<1> QED
  BY <1>1 DEF State, States

(* Where the UI thread goes.                                               *)
LEMMA Goes ==
  ASSUME [Next]_vars
  PROVE  \/ UNCHANGED ui
         \/ ui' = "idle"
         \/ OpenView /\ ui' = "openMap"
         \/ OpenMap /\ ui' = "openStamp"
         \/ OpenStamp /\ ui' = "openAdd"
         \/ Save /\ ui' = "stream"
         \/ Stream /\ ui' = "compare"
         \/ Compare /\ ui' = "move"
         \/ Rename /\ ui' = "reopen"
         \/ Reopen /\ ui' = "restamp"
         \/ Restamp /\ ui' = "saved"
         \/ Timer /\ ui' \in {"followMap", "changed"}
         \/ FollowMap /\ ui' \in {"followStamp", "followFailed"}
         \/ FollowStamp /\ ui' \in {"followLoad", "followFailed"}
         \/ FollowFails /\ ui' = "changed"
<1>1. CASE External \/ UNCHANGED vars
  BY <1>1 DEF External, ExternalWrite, ExternalDelete, vars
<1>2. CASE Open
  BY <1>2 DEF Open, OpenView, OpenMap, OpenStamp, OpenAdd, Map, Stamp, Moves
<1>3. CASE Commands
  <2>1. ASSUME NEW offset, Show(offset) PROVE UNCHANGED ui
    BY <2>1 DEF Show
  <2>2. CASE MoveForward \/ MoveBack \/ FindNext
    BY <2>1, <2>2 DEF MoveForward, MoveBack, FindNext
  <2>3. CASE Edit \/ Undo \/ Follow
    BY <2>3 DEF Edit, Undo, Follow
  <2>4. CASE Save
    BY <2>4 DEF Save
  <2> QED
    BY <1>3, <2>2, <2>3, <2>4 DEF Commands
<1>4. CASE Saving
  BY <1>4 DEF Saving, Stream, Compare, SaveFails, MoveFails, Rename, Reopen, Restamp,
              ReopenFails, RestampFails, Return, SaveFinish, ViewFails, Moves
<1>5. CASE Timer
  BY <1>5 DEF Timer, Moves
<1>6. CASE Monitor
  BY <1>6 DEF Monitor, FollowMap, FollowStamp, FollowLoad, FollowFails, Keep, Block, Reload,
              ReloadFails, Map, Stamp, Moves
<1> QED
  BY <1>1, <1>2, <1>3, <1>4, <1>5, <1>6 DEF Next

LEMMA DocIsOpenKeeps ==
  ASSUME LargeFileInv, [Next]_vars
  PROVE  DocIsOpen'
<1>1. /\ doc \in Docs /\ (~doc.open => doc.via = "open")
      /\ ui = "idle" \/ (doc.open <=> ~Opening)
  BY DEF LargeFileInv, DocIsOpen
<1>2. State(disk) \in States /\ noted.state \in States
  BY StateIs DEF LargeFileInv, HandlerHolds, Notes
<1>3. \/ UNCHANGED doc
      \/ OpenAdd /\ doc'.open /\ doc' \in Docs
      \/ doc' \in Docs /\ doc'.open /\ doc.open
      \/ doc' \in Docs /\ doc'.open = doc.open /\ doc'.via = doc.via
  <2>1. CASE OpenAdd
    <3>1. doc' = [ClosedDoc EXCEPT !.open = TRUE, !.titled = TRUE, !.bom = HasBom(noted.bytes),
                                   !.fileState = State(disk)]
      BY <2>1 DEF OpenAdd
    <3>2. HasBom(noted.bytes) \in BOOLEAN
      BY DEF HasBom
    <3>3. doc' = [open |-> TRUE, titled |-> TRUE, bom |-> HasBom(noted.bytes), dirty |-> FALSE,
                  readOnly |-> FALSE, flagged |-> FALSE, follow |-> FALSE,
                  fileState |-> State(disk), offset |-> 0, decoded |-> 0, via |-> "open"]
      BY <3>1 DEF ClosedDoc
    <3> QED
      BY <1>2, <2>1, <3>2, <3>3 DEF Docs
  <2>2. ASSUME NEW c, NEW e, NEW via \in {"open", "window", "undo", "reload", "stale"},
               Modify(c, e, via), doc.open
        PROVE  doc' \in Docs /\ doc'.open /\ doc.open
    <3>1. doc' = [doc EXCEPT !.dirty = ~AtSavePoint(e), !.via = via,
                             !.readOnly = @ \/ ~CanRecord(c)]
      BY <2>2 DEF Modify
    <3> QED
      BY <1>1, <2>2, <3>1 DEF Docs
  <2>3. ASSUME NEW offset \in Nat, CanLoad(offset), NEW d \in Docs, Load(offset, d),
               d.open = doc.open
        PROVE  doc' \in Docs /\ doc'.open = doc.open
    <3>1. doc' = [d EXCEPT !.offset = offset, !.decoded = DecodedOffset(offset),
                           !.via = "window",
                           !.dirty = buffer.modified /\ (@ \/ AtSavePoint(editor))]
      BY <2>3, LoadIs
    <3>2. DecodedOffset(offset) \in Nat
      BY <2>3, LoadedIs DEF LoadsWindow
    <3> QED
      BY <2>3, <3>1, <3>2 DEF Docs
  <2>4. CASE Edit
    <3>1. PICK c \in Changes : Modify(c, Do(c), doc.via)
      BY <2>4, EditIs
    <3>2. doc.open /\ doc.via \in {"open", "window", "undo", "reload", "stale"}
      BY <1>1, <2>4 DEF Edit, Command, Ready, Docs
    <3> QED
      BY <2>2, <3>1, <3>2
  <2>5. CASE Undo
    <3>1. Modify(Reversed(Last(editor.past)), Undone,
                 IF Last(editor.past).load THEN "undo" ELSE doc.via)
      BY <2>5, UndoIs
    <3>2. /\ doc.open
          /\ (IF Last(editor.past).load THEN "undo" ELSE doc.via)
               \in {"open", "window", "undo", "reload", "stale"}
      BY <1>1, <2>5 DEF Undo, Command, Ready, Docs
    <3> QED
      BY <2>2, <3>1, <3>2
  <2>6. CASE Shows
    <3>1. PICK offset \in Nat : Show(offset)
      BY <2>6, ShowIs
    <3> QED
      BY <1>1, <2>3, <3>1 DEF Show, Command, Ready
  <2>7. CASE FollowLoad
    <3> DEFINE d == [doc EXCEPT !.fileState = noted.state]
    <3>1. CanLoad(TailOffset) /\ Load(TailOffset, d) /\ doc.open
      BY <1>1, <2>7 DEF FollowLoad, Opening
    <3>2. TailOffset \in Nat
      BY BoundsAssumption DEF LargeFileInv, HandlerHolds, Notes, States, TailOffset
    <3>3. d \in Docs /\ d.open = doc.open
      BY <1>1, <1>2 DEF Docs
    <3> HIDE DEF d
    <3> QED
      BY <2>3, <3>1, <3>2, <3>3
  <2>8. CASE Follow
    BY <1>1, <2>8 DEF Follow, Docs
  <2>9. CASE SaveFinish
    BY <1>1, <1>2, <2>9 DEF SaveFinish, Docs
  <2>10. CASE FollowFails
    <3>1. doc.open /\ doc' = [doc EXCEPT !.follow = FALSE, !.via = "stale"]
      BY <1>1, <2>10 DEF FollowFails, Opening
    <3> QED
      BY <1>1, <3>1 DEF Docs
  <2>11. CASE Keep
    BY <1>1, <1>2, <2>11 DEF Keep, Docs
  <2>12. CASE Block
    BY <1>1, <2>12 DEF Block, Docs
  <2>13. CASE Reload
    <3>1. PICK c \in Changes : Reloads(c)
      BY <2>13, ReloadIs
    <3>2. doc.open
      BY <1>1, <2>13 DEF Reload, Opening
    <3> QED
      BY <1>1, <1>2, <3>1, <3>2 DEF Reloads, Docs
  <2> QED
    BY <2>1, <2>4, <2>5, <2>6, <2>7, <2>8, <2>9, <2>10, <2>11, <2>12, <2>13, DocSteps
<1>4. doc' \in Docs /\ (~doc'.open => doc'.via = "open")
  BY <1>1, <1>3
<1>5. doc.open => doc'.open
  BY <1>3
<1>6. ui' = "idle" \/ (doc'.open <=> ~Opening')
  <2>1. CASE UNCHANGED ui
    <3>1. CASE OpenAdd
      BY <2>1, <3>1 DEF OpenAdd, Moves
    <3>2. CASE ~OpenAdd
      <4>1. doc'.open <=> doc.open
        BY <1>3, <3>2
      <4>2. Opening' <=> Opening
        BY <2>1 DEF Opening
      <4> QED
        BY <1>1, <2>1, <4>1, <4>2
    <3> QED
      BY <3>1, <3>2
  <2>2. CASE ui' = "idle"
    BY <2>2
  <2>3. ASSUME ~doc.open, UNCHANGED doc, ui' \in {"openMap", "openStamp", "openAdd"}
        PROVE  ui' = "idle" \/ (doc'.open <=> ~Opening')
    BY <2>3 DEF Opening
  <2>4. CASE OpenView /\ ui' = "openMap"
    BY <2>3, <2>4 DEF OpenView
  <2>5. CASE OpenMap /\ ui' = "openStamp"
    BY <1>1, <2>3, <2>5 DEF OpenMap, Opening
  <2>6. CASE OpenStamp /\ ui' = "openAdd"
    BY <1>1, <2>3, <2>6 DEF OpenStamp, Opening
  <2>7. ASSUME doc.open, ui' \notin {"openMap", "openStamp", "openAdd"}
        PROVE  ui' = "idle" \/ (doc'.open <=> ~Opening')
    BY <1>5, <2>7 DEF Opening
  <2>8. CASE \/ Save /\ ui' = "stream"
             \/ Timer /\ ui' \in {"followMap", "changed"}
    BY <2>7, <2>8 DEF Save, Timer, Command, Ready
  <2>9. CASE \/ Stream /\ ui' = "compare"
             \/ Compare /\ ui' = "move"
             \/ Rename /\ ui' = "reopen"
             \/ Reopen /\ ui' = "restamp"
             \/ Restamp /\ ui' = "saved"
    BY <1>1, <2>7, <2>9 DEF Stream, Compare, Rename, Reopen, Restamp, Opening
  <2>10. CASE \/ FollowMap /\ ui' \in {"followStamp", "followFailed"}
              \/ FollowStamp /\ ui' \in {"followLoad", "followFailed"}
              \/ FollowFails /\ ui' = "changed"
    BY <1>1, <2>7, <2>10 DEF FollowMap, FollowStamp, FollowFails, Opening
  <2> QED
    BY <2>1, <2>2, <2>4, <2>5, <2>6, <2>8, <2>9, <2>10, Goes
<1> QED
  BY <1>4, <1>6 DEF DocIsOpen

(* How a save comes to the renamed file, and what happens meanwhile.       *)
LEMMA ToRenamed ==
  ASSUME LargeFileInv, [Next]_vars, Renamed'
  PROVE  \/ Rename
         \/ Reopen
         \/ Renamed /\ UNCHANGED <<buffer, source, known, origin, editor, doc, ui, noted>>
<1>1. CASE External \/ UNCHANGED vars
  BY <1>1 DEF External, ExternalWrite, ExternalDelete, vars, table, Renamed
<1>2. CASE Open \/ Timer \/ Monitor
  BY <1>2 DEF Open, OpenView, OpenMap, OpenStamp, OpenAdd, Map, Stamp, Moves, Renamed,
              Timer, Ready, Monitor, FollowMap, FollowStamp, FollowLoad, FollowFails, Keep, Block,
              Reload, ReloadFails
<1>3. CASE Commands
  <2>1. ASSUME NEW offset, Show(offset) PROVE ui' = "idle"
    BY <2>1 DEF Show, Command, Ready
  <2>2. CASE MoveForward \/ MoveBack \/ FindNext
    BY <2>1, <2>2 DEF MoveForward, MoveBack, FindNext, Renamed
  <2>3. CASE Edit \/ Undo \/ Follow \/ Save
    BY <2>3 DEF Edit, Undo, Follow, Save, Command, Ready, Renamed
  <2> QED
    BY <1>3, <2>2, <2>3 DEF Commands
<1>4. CASE Saving
  BY <1>4 DEF Saving, Stream, Compare, SaveFails, MoveFails, Restamp, ReopenFails, RestampFails,
              Return, SaveFinish, ViewFails, Moves, Renamed
<1> QED
  BY <1>1, <1>2, <1>3, <1>4 DEF Next

LEMMA SaveHoldsKeeps ==
  ASSUME LargeFileInv, [Next]_vars, Renamed'
  PROVE  SaveHolds'
<1>1. /\ versions \in Nat \ {0} /\ disk.version \in 0 .. versions /\ disk.bytes \in Contents
      /\ disk # Gone => disk.version > 0
  BY DiskFacts
<1>2. /\ source \in [open : BOOLEAN, bytes : Contents, version : 0 .. versions]
      /\ origin \in 0 .. versions
      /\ source.open => origin > 0
  BY DEF LargeFileInv, SourceIsOld
<1>3. noted \in Notes /\ (Renamed => SaveHolds)
  BY DEF LargeFileInv, HandlerHolds
<1>4. CASE Rename
  <2>1. /\ ui = "move" /\ ui' = "reopen" /\ UNCHANGED <<origin, buffer>>
        /\ versions' = versions + 1 /\ disk' = [version |-> versions', bytes |-> noted.bytes]
        /\ source' = ClosedSource
        /\ noted' = [noted EXCEPT !.own = disk, !.version = versions', !.sound = Sound]
    BY <1>4 DEF Rename, Moves, NewVersion
  <2>2. source.open /\ noted.bytes = Text(buffer, source.bytes)
    BY <2>1 DEF LargeFileInv, HandlerHolds
  <2>3. noted'.own = disk /\ noted'.version = versions + 1 /\ noted'.bytes = noted.bytes
    BY <1>3, <2>1 DEF Notes
  <2>4. Len(noted.bytes) = buffer.size
    <3>1. PICK n \in Nat : Buffer(buffer, n)
      BY DEF LargeFileInv, TableFits
    <3>2. source.bytes \in Seq(Chars)
      BY <1>2 DEF Contents
    <3> QED
      BY <2>2, <3>1, <3>2, BufferText
  <2>5. /\ noted'.version \in 1 .. versions' /\ origin' > 0 /\ origin' < noted'.version
        /\ Len(noted'.bytes) = buffer'.size
    <3>1. origin > 0 /\ origin \in 0 .. versions /\ versions \in Nat \ {0}
      BY <1>1, <1>2, <2>2
    <3>3. versions' = versions + 1 /\ origin' = origin
      BY <2>1
    <3>2. noted'.version = versions + 1 /\ Len(noted'.bytes) = buffer'.size
      BY <2>1, <2>3, <2>4
    <3> QED
      BY <3>1, <3>2, <3>3
  <2>6. /\ noted'.own = Gone \/ noted'.own.version > 0
        /\ noted'.own.version < noted'.version
    BY <1>1, <2>3
  <2>7. disk'.version = noted'.version /\ disk'.bytes = noted'.bytes /\ noted'.version \in Nat
    BY <1>1, <2>1, <2>3
  <2>8. ~source'.open
    BY <2>1, ClosedIsTyped
  <2> QED
    BY <2>1, <2>5, <2>6, <2>7, <2>8 DEF SaveHolds
<1>5. CASE Reopen
  <2>1. /\ ui = "reopen" /\ ui' = "restamp" /\ disk # Gone /\ source' = Mapped(disk)
        /\ UNCHANGED <<disk, versions, buffer, origin, noted>>
    BY <1>5 DEF Reopen, Moves, file
  <2>2. SaveHolds
    BY <1>3, <2>1 DEF Renamed
  <2>3. source'.open /\ source'.version = disk.version /\ source'.bytes = disk.bytes
    BY <2>1 DEF Mapped
  <2> QED
    BY <2>1, <2>2, <2>3 DEF SaveHolds
<1>6. CASE Renamed /\ UNCHANGED <<buffer, source, known, origin, editor, doc, ui, noted>>
  <2>1. SaveHolds
    BY <1>3, <1>6
  <2>2. ~ReopenFails /\ ~RestampFails
    BY <1>6 DEF ReopenFails, RestampFails, Return, Moves, Renamed
  <2>3. versions' \in Nat /\ versions <= versions' /\ disk'.version \in Nat
    BY DiskMoves, DiskIsVersionKeeps DEF DiskIsVersion
  <2>4. noted.version \in 1 .. versions
    BY <2>1 DEF SaveHolds
  <2>5. noted.version \in 1 .. versions'
    BY <1>1, <2>3, <2>4
  <2>6. disk' # Gone => /\ noted.version <= disk'.version
                        /\ disk'.version = noted.version => disk'.bytes = noted.bytes
    <3>1. CASE disk' = disk
      BY <2>1, <3>1 DEF SaveHolds
    <3>2. CASE disk'.version > versions
      BY <1>1, <2>3, <2>4, <3>2
    <3> QED
      BY <2>2, <3>1, <3>2, DiskMoves
  <2> QED
    BY <1>6, <2>1, <2>5, <2>6 DEF SaveHolds
<1> QED
  BY <1>4, <1>5, <1>6, ToRenamed

LEMMA HandlerHoldsKeeps ==
  ASSUME LargeFileInv, [Next]_vars
  PROVE  HandlerHolds'
<1>1. /\ noted \in Notes
      /\ ui \in {"compare", "move"} => source.open /\ noted.bytes = Text(buffer, source.bytes)
      /\ ui = "move" => known # Unknown /\ (known = origin => source.version = origin)
      /\ ui \in {"openStamp", "followStamp"} => source.open /\ source.version = origin
      /\ ui \in {"followMap", "followStamp", "followLoad"} => noted.state.version \in 1 .. versions
      /\ ui = "followMap" /\ disk # Gone => noted.state.version <= disk.version
      /\ ui \in {"followStamp", "followLoad"}
           => /\ source.open /\ source.version >= noted.state.version
              /\ buffer = Opened(Len(source.bytes))
  BY DEF LargeFileInv, HandlerHolds
<1>2. /\ versions \in Nat \ {0} /\ disk.version \in 0 .. versions /\ disk.bytes \in Contents
      /\ disk # Gone => disk.version > 0
  BY DiskFacts
<1>3. /\ source \in [open : BOOLEAN, bytes : Contents, version : 0 .. versions]
      /\ known \in 0 .. versions /\ origin \in 0 .. versions
      /\ source.open => \/ source.version >= origin
                        \/ source.version = Unknown /\ known = Unknown
      /\ source.open /\ disk # Gone => source.version <= disk.version
  BY DEF LargeFileInv, SourceIsOld
<1>4. State(disk) \in States /\ State(disk).version = disk.version
  BY StateIs DEF LargeFileInv, State
<1>5. /\ Nothing \in Notes
      /\ \A s \in States : [Nothing EXCEPT !.state = s] \in Notes
                             /\ [Nothing EXCEPT !.state = s].state = s
      /\ \A b \in Contents : [Nothing EXCEPT !.bytes = b] \in Notes
      /\ \A b \in BOOLEAN : [Nothing EXCEPT !.same = b] \in Notes
  <2>1. <<>> \in Contents /\ Len(<<>>) = 0
    BY EmptySeq DEF Contents
  <2>2. State(Gone) \in States
    BY <2>1 DEF State, Gone, States
  <2>3. Nothing = [state |-> State(Gone), bytes |-> <<>>, same |-> TRUE,
                   own |-> Gone, version |-> 0, sound |-> FALSE]
    BY DEF Nothing
  <2>4. Gone \in [version : Nat, bytes : Contents]
    BY <2>1 DEF Gone
  <2> QED
    BY <2>1, <2>2, <2>3, <2>4 DEF Notes
<1>6. ASSUME noted' \in Notes,
             ui' \notin {"compare", "move", "reopen", "restamp", "openStamp", "followMap",
                         "followStamp", "followLoad"}
      PROVE  HandlerHolds'
  BY <1>6 DEF HandlerHolds, Renamed, Notes
<1>7. CASE External
  <2>1. UNCHANGED <<buffer, source, known, origin, ui, noted>>
    BY <1>7 DEF External, ExternalWrite, ExternalDelete, table
  <2>2. versions' \in Nat /\ versions <= versions'
    BY DiskMoves
  <2>3. noted.state.version \in 1 .. versions => noted.state.version \in 1 .. versions'
    BY <1>2, <2>2
  <2>4. ui = "followMap" /\ disk' # Gone => noted.state.version <= disk'.version
    <3>1. ui = "followMap" => ~ReopenFails /\ ~RestampFails
      BY DEF ReopenFails, RestampFails
    <3>2. disk'.version \in Nat
      BY <2>2, DiskIsVersionKeeps DEF DiskIsVersion
    <3>3. ui = "followMap" => noted.state.version \in Nat /\ noted.state.version <= versions
      BY <1>1, <1>2
    <3> QED
      BY <1>1, <1>2, <3>1, <3>2, <3>3, DiskMoves
  <2>5. Renamed' => SaveHolds'
    BY SaveHoldsKeeps
  <2> QED
    BY <1>1, <2>1, <2>3, <2>4, <2>5 DEF HandlerHolds
<1>8. CASE OpenView
  <2>1. noted' \in Notes /\ ui' = "openMap"
    BY <1>2, <1>5, <1>8 DEF OpenView, Moves
  <2> QED
    BY <1>6, <2>1
<1>9. CASE OpenMap
  <2>1. /\ noted' = noted
        /\ ui' = "idle" \/ (ui' = "openStamp" /\ source' = Mapped(disk) /\ origin' = disk.version)
    BY <1>9 DEF OpenMap, Map, Moves
  <2>2. CASE ui' = "openStamp" /\ source' = Mapped(disk) /\ origin' = disk.version
    <3>1. source'.open /\ source'.version = origin'
      BY <2>2 DEF Mapped
    <3> QED
      BY <1>1, <2>1, <2>2, <3>1 DEF HandlerHolds, Renamed
  <2> QED
    BY <1>1, <1>6, <2>1, <2>2
<1>10. CASE OpenStamp
  <2>1. noted' = noted /\ ui' \in {"idle", "openAdd"}
    BY <1>10 DEF OpenStamp, Stamp, Moves
  <2> QED
    BY <1>1, <1>6, <2>1
<1>11. CASE OpenAdd
  <2>1. noted' = Nothing /\ ui' = "idle"
    BY <1>11 DEF OpenAdd, Moves
  <2> QED
    BY <1>5, <1>6, <2>1
<1>12. CASE Commands
  <2>1. ASSUME NEW offset, Show(offset) PROVE noted' = noted /\ ui' = "idle"
    BY <2>1 DEF Show, Command, Ready
  <2>2. CASE MoveForward \/ MoveBack \/ FindNext
    BY <1>1, <1>6, <2>1, <2>2 DEF MoveForward, MoveBack, FindNext
  <2>3. CASE Edit \/ Undo \/ Follow
    <3>1. noted' = noted /\ ui' = "idle"
      BY <2>3 DEF Edit, Undo, Follow, Command, Ready
    <3> QED
      BY <1>1, <1>6, <3>1
  <2>4. CASE Save
    <3>1. noted' \in Notes /\ ui' = "stream"
      BY <1>5, <2>4 DEF Save
    <3> QED
      BY <1>6, <3>1
  <2> QED
    BY <1>12, <2>2, <2>3, <2>4 DEF Commands
<1>13. CASE Stream
  <2>1. /\ noted' = [noted EXCEPT !.bytes = Text(buffer, source.bytes)] /\ ui' = "compare"
        /\ source.open /\ Readable(Text(buffer, source.bytes))
        /\ UNCHANGED <<buffer, source>>
    BY <1>13 DEF Stream, Moves, table
  <2>2. Text(buffer, source.bytes) \in Contents
    <3>1. PICK n \in Nat : Buffer(buffer, n)
      BY DEF LargeFileInv, TableFits
    <3>2. source.bytes \in Seq(Chars)
      BY <1>3 DEF Contents
    <3>3. Text(buffer, source.bytes) \in Seq(Cells)
      BY <3>1, <3>2, BufferText
    <3> QED
      BY <2>1, <3>3, ReadableText DEF Contents
  <2>3. noted' \in Notes /\ noted'.bytes = Text(buffer, source.bytes)
    BY <1>1, <2>1, <2>2 DEF Notes
  <2> QED
    BY <2>1, <2>3 DEF HandlerHolds, Renamed
<1>14. CASE Compare
  <2>1. /\ ui = "compare" /\ ui' = "move" /\ disk # Gone /\ disk.version = known
        /\ UNCHANGED <<buffer, source, known, origin, noted>>
    BY <1>14 DEF Compare, Moves, table
  <2>2. known # Unknown
    BY <1>2, <2>1 DEF Unknown
  <2>3. source.open /\ source.version >= origin /\ source.version <= known
    BY <1>1, <1>3, <2>1, <2>2
  <2>4. known = origin => source.version = origin
    BY <1>2, <1>3, <2>2, <2>3
  <2> QED
    BY <1>1, <2>1, <2>2, <2>4 DEF HandlerHolds, Renamed
<1>15. CASE SaveFails \/ MoveFails \/ SaveFinish \/ ViewFails
  <2>1. noted' = noted /\ ui' = "idle"
    BY <1>15 DEF SaveFails, MoveFails, SaveFinish, ViewFails, Moves
  <2> QED
    BY <1>1, <1>6, <2>1
<1>21. CASE Rename
  <2>1. /\ noted' = [noted EXCEPT !.own = disk, !.version = versions', !.sound = Sound]
        /\ ui' = "reopen" /\ versions' = versions + 1
    BY <1>21 DEF Rename, Moves, NewVersion
  <2>2. disk \in [version : Nat, bytes : Contents] /\ Sound \in BOOLEAN
    <3>1. disk \in [version : 0 .. versions, bytes : Contents] /\ versions \in Nat
      BY DiskFacts DEF LargeFileInv, DiskIsVersion
    <3> QED
      BY <1>3, <3>1 DEF Sound
  <2>3. noted' \in Notes
    <3>1. versions' \in Nat
      BY <2>1, DiskFacts
    <3> QED
      BY <1>1, <2>1, <2>2, <3>1 DEF Notes
  <2> QED
    BY <2>1, <2>3, SaveHoldsKeeps DEF HandlerHolds, Renamed
<1>22. CASE Reopen
  <2>1. noted' = noted /\ ui' = "restamp"
    BY <1>22 DEF Reopen, Moves
  <2> QED
    BY <1>1, <2>1, SaveHoldsKeeps DEF HandlerHolds, Renamed
<1>23. CASE Restamp
  <2>1. noted' = [Nothing EXCEPT !.same = noted.same] /\ ui' = "saved"
    BY <1>23 DEF Restamp, Moves
  <2>2. noted.same \in BOOLEAN
    BY <1>1 DEF Notes
  <2> QED
    BY <1>5, <1>6, <2>1, <2>2
<1>24. CASE ReopenFails \/ RestampFails
  <2>1. noted' = Nothing /\ ui' = "idle"
    BY <1>24 DEF ReopenFails, RestampFails, Return, Moves
  <2> QED
    BY <1>5, <1>6, <2>1
<1>16. CASE Timer
  <2>1. /\ noted' = [Nothing EXCEPT !.state = State(disk)]
        /\ ui' = IF Follows THEN "followMap" ELSE "changed"
        /\ versions' = versions /\ disk' = disk
    BY <1>16 DEF Timer, Moves, file
  <2>2. noted' \in Notes /\ noted'.state = State(disk)
    BY <1>4, <1>5, <2>1
  <2>3. CASE Follows
    <3>1. disk # Gone
      BY <2>3 DEF Follows
    <3>2. noted'.state.version \in 1 .. versions'
      BY <1>2, <1>4, <2>1, <2>2, <3>1
    <3> QED
      BY <1>2, <1>4, <2>1, <2>2, <2>3, <3>2 DEF HandlerHolds, Renamed
  <2>4. CASE ~Follows
    BY <1>6, <2>1, <2>2, <2>4
  <2> QED
    BY <2>3, <2>4
<1>17. CASE FollowMap
  <2>1. /\ ui = "followMap" /\ noted' = noted /\ versions' = versions
        /\ \/ ui' = "followFailed"
           \/ /\ ui' = "followStamp" /\ disk # Gone /\ source' = Mapped(disk)
              /\ origin' = disk.version /\ buffer' = Opened(Len(disk.bytes))
    BY <1>17 DEF FollowMap, Map, Moves, file
  <2>2. CASE /\ ui' = "followStamp" /\ disk # Gone /\ source' = Mapped(disk)
             /\ origin' = disk.version /\ buffer' = Opened(Len(disk.bytes))
    <3>1. source'.open /\ source'.version = disk.version /\ source'.bytes = disk.bytes
      BY <2>2 DEF Mapped
    <3>2. noted.state.version \in 1 .. versions /\ noted.state.version <= disk.version
      BY <1>1, <1>2, <2>1, <2>2
    <3>3. source'.version >= noted.state.version
      BY <1>2, <3>1, <3>2
    <3> QED
      BY <1>1, <2>1, <2>2, <3>1, <3>2, <3>3 DEF HandlerHolds, Renamed
  <2> QED
    BY <1>1, <1>6, <2>1, <2>2
<1>18. CASE FollowStamp
  <2>1. /\ ui = "followStamp" /\ noted' = noted /\ versions' = versions
        /\ \/ ui' = "followFailed"
           \/ ui' = "followLoad" /\ UNCHANGED <<source, buffer>>
    BY <1>18 DEF FollowStamp, Stamp, Moves, file
  <2> QED
    BY <1>1, <1>6, <2>1 DEF HandlerHolds, Renamed
<1>19. CASE FollowLoad \/ FollowFails \/ Keep \/ Block \/ Reload \/ ReloadFails
  <2>1. noted' = noted /\ ui' \in {"idle", "changed"}
    BY <1>19 DEF FollowLoad, FollowFails, Keep, Block, Reload, ReloadFails, Moves
  <2> QED
    BY <1>1, <1>6, <2>1
<1>20. CASE UNCHANGED vars
  <2>1. Renamed' => SaveHolds'
    BY SaveHoldsKeeps
  <2> QED
    BY <1>1, <1>20, <2>1 DEF vars, file, table, HandlerHolds
<1> QED
  BY <1>7, <1>8, <1>9, <1>10, <1>11, <1>12, <1>13, <1>14, <1>15, <1>16, <1>17, <1>18, <1>19, <1>20,
     <1>21, <1>22, <1>23, <1>24 DEF Next, Open, Saving, Monitor

(* A table whose file was renamed or could not be opened again is sound    *)
(* only when it reads the same text.                                       *)
LEMMA MoveFailsIs ==
  ASSUME LargeFileInv, MoveFails, Sound'
  PROVE  Sound /\ source'.bytes = source.bytes
<1>1. /\ versions \in Nat \ {0}
      /\ disk.version \in 0 .. versions
  BY DiskFacts
<1>2. /\ source.version \in 0 .. versions /\ origin \in 0 .. versions
      /\ source.open => \/ source.version >= origin
                        \/ source.version = Unknown /\ known = Unknown
      /\ source.open /\ disk # Gone
           => /\ source.version <= disk.version
              /\ source.version = disk.version => source.bytes = disk.bytes
  BY DEF LargeFileInv, SourceIsOld
<1>3. source.open /\ known # Unknown
  BY DEF LargeFileInv, HandlerHolds, MoveFails
<1>4. source' # ClosedSource
  BY ClosedIsTyped DEF Sound
<1>5. disk # Gone /\ source' = Mapped(disk) /\ UNCHANGED origin
  BY <1>4 DEF MoveFails
<1>6. source'.bytes = disk.bytes /\ disk.version = origin
  BY <1>1, <1>5 DEF Mapped, Sound
<1>7. source.version = origin
  BY <1>1, <1>2, <1>3, <1>5, <1>6
<1> QED
  BY <1>2, <1>3, <1>5, <1>6, <1>7 DEF Sound

LEMMA FullIs ==
  ASSUME LargeFileInv
  PROVE  Full \in Seq(Cells) /\ Len(Full) = buffer.size /\ buffer.size \in Nat
<1>1. PICK n \in Nat : Buffer(buffer, n)
  BY DEF LargeFileInv, TableFits
<1>2. source.bytes \in Seq(Chars)
  BY DEF LargeFileInv, SourceIsOld, Contents
<1> QED
  BY <1>1, <1>2, BufferText, BufferFacts DEF Full

InWindow == Sound /\ doc.via = "window" /\ ~Following

LEMMA ModifiesWindow ==
  ASSUME LargeFileInv, Sound, NEW c \in Changes, CanChange(editor.text, c),
         IsWindow(editor.text, Full, doc.decoded),
         buffer' = Recorded(c), UNCHANGED <<source, doc.decoded>>,
         editor'.text = Changed(editor.text, c)
  PROVE  IsWindow(editor'.text, Full', doc'.decoded)
<1> DEFINE at == c.at
           k == Len(c.removed)
           a == c.added
           d == doc.decoded
           t == editor.text
<1>1. PICK n \in Nat : Buffer(buffer, n)
  BY DEF LargeFileInv, TableFits
<1>2. source.bytes \in Seq(Chars) /\ doc \in Docs
  BY DEF LargeFileInv, SourceIsOld, DocIsOpen, Contents
<1>3. Full \in Seq(Cells) /\ Len(Full) = buffer.size /\ buffer.size \in Nat
  BY FullIs
<1>4. Chars \subseteq Cells
  BY DEF Cells
<1>5. /\ at \in Nat /\ k \in Nat /\ a \in Seq(Chars) /\ d \in Nat /\ t \in Seq(Chars)
      /\ Len(t) \in Nat /\ at + k <= Len(t) /\ d + Len(t) <= Len(Full)
  BY <1>2, LenProperties
     DEF Changes, Contents, Docs, LargeFileInv, HistoryFits, CanChange, IsWindow
<1>6. a \in Seq(Cells) /\ t \in Seq(Cells)
  BY <1>4, <1>5, SeqMonotonic
<1>7. Logical(c) = d + at /\ Logical(c) + k <= buffer.size
  BY <1>3, <1>5 DEF Logical
<1>8. Records(c, source.bytes)
  BY <1>1, <1>2, <1>7, RecordedIs
<1>9. Text(Recorded(c), source.bytes) = Splice(Full, d + at, k, a)
  BY <1>7, <1>8 DEF Records, Full
<1>10. Full' = Splice(Full, d + at, k, a)
  BY <1>9 DEF Full
<1>11. editor'.text = Splice(t, at, k, a) /\ doc'.decoded = d
  BY DEF Changed
<1> HIDE DEF at, k, a, d, t
<1>12. IsWindow(t, Full, d)
  BY DEF t, d
<1>13. ChangesAlike(t, Full, d, at, k, a)
  BY <1>3, <1>5, <1>6, <1>12, WindowsChangeAlike
<1> QED
  BY <1>10, <1>11, <1>13 DEF ChangesAlike

(* What the window shows is what a save writes.                            *)
LEMMA WindowIsSaved ==
  ASSUME LargeFileInv, [Next]_vars, Renamed', noted'.sound, doc'.via = "window"
  PROVE  IsWindow(editor'.text, noted'.bytes, doc'.decoded)
<1>1. CASE Rename
  <2>1. /\ ui = "move" /\ UNCHANGED <<editor, doc>>
        /\ noted' = [noted EXCEPT !.own = disk, !.version = versions', !.sound = Sound]
    BY <1>1 DEF Rename
  <2>2. noted.bytes = Full /\ noted \in Notes
    BY <2>1 DEF LargeFileInv, HandlerHolds, Full
  <2>3. noted'.sound = Sound /\ noted'.bytes = Full
    BY <2>1, <2>2 DEF Notes
  <2>4. InWindow
    BY <2>1, <2>3 DEF InWindow, Following
  <2>5. IsWindow(editor.text, Full, doc.decoded)
    BY <2>4, FullIs DEF LargeFileInv, WindowIsShown, InWindow, IsWindow, Shown
  <2> QED
    BY <2>1, <2>3, <2>5
<1>2. CASE Reopen
  BY <1>2 DEF Reopen, LargeFileInv, WindowIsShown, Renamed
<1>3. CASE Renamed /\ UNCHANGED <<buffer, source, known, origin, editor, doc, ui, noted>>
  BY <1>3 DEF LargeFileInv, WindowIsShown
<1> QED
  BY <1>1, <1>2, <1>3, ToRenamed

LEMMA WindowIsShownKeeps ==
  ASSUME LargeFileInv, [Next]_vars
  PROVE  WindowIsShown'
<1>1. InWindow => IsWindow(editor.text, Full, doc.decoded)
  BY FullIs DEF LargeFileInv, WindowIsShown, InWindow, IsWindow, Shown
<1>2. SUFFICES ASSUME InWindow' PROVE IsWindow(editor'.text, Full', doc'.decoded)
  <2>4. Renamed' /\ noted'.sound /\ doc'.via = "window"
          => IsWindow(editor'.text, noted'.bytes, doc'.decoded)
    BY WindowIsSaved
  <2>1. PICK n \in Nat : Buffer(buffer', n)
    BY TableFitsKeeps DEF TableFits
  <2>2. source'.bytes \in Seq(Chars)
    BY SourceIsOldKeeps DEF SourceIsOld, Contents
  <2>3. Len(Full') = buffer'.size
    BY <2>1, <2>2, BufferText DEF Full
  <2> QED
    BY <2>3, <2>4 DEF WindowIsShown, InWindow, IsWindow, Shown
<1>3. doc \in Docs
  BY DEF LargeFileInv, DocIsOpen
<1>4. ASSUME UNCHANGED <<buffer, source, origin, editor.text, doc.via, doc.decoded>>, ~Following
      PROVE  IsWindow(editor'.text, Full', doc'.decoded)
  <2>1. InWindow
    BY <1>2, <1>4 DEF InWindow, Sound
  <2> QED
    BY <1>1, <1>4, <2>1 DEF Full
<1>5. CASE External
  <2>1. UNCHANGED <<buffer, source, origin, editor, doc, ui>>
    BY <1>5 DEF External, ExternalWrite, ExternalDelete, table
  <2> QED
    BY <1>2, <1>4, <2>1 DEF InWindow, Following
<1>6. CASE Open
  <2>1. CASE OpenAdd
    <3>1. doc'.via = "open"
      BY <2>1 DEF OpenAdd, ClosedDoc
    <3> QED
      BY <1>2, <3>1 DEF InWindow
  <2>2. CASE OpenView \/ OpenMap \/ OpenStamp
    <3>1. doc'.via = doc.via /\ ~doc.open
      BY <2>2 DEF OpenView, OpenMap, OpenStamp, LargeFileInv, DocIsOpen, Opening
    <3> QED
      BY <1>2, <3>1 DEF InWindow, LargeFileInv, DocIsOpen
  <2> QED
    BY <1>6, <2>1, <2>2 DEF Open
<1>7. ASSUME NEW offset \in Nat, CanLoad(offset), NEW d \in Docs, Load(offset, d),
             UNCHANGED <<buffer, source>>
      PROVE  IsWindow(editor'.text, Full', doc'.decoded)
  <2>1. editor'.text = Loaded(offset)
    BY <1>7, LoadIs
  <2>2. doc' = [d EXCEPT !.offset = offset, !.decoded = DecodedOffset(offset), !.via = "window",
                         !.dirty = buffer.modified /\ (@ \/ AtSavePoint(editor))]
    BY <1>7, LoadIs
  <2>3. doc'.decoded = DecodedOffset(offset)
    BY <1>7, <2>2 DEF Docs
  <2>4. IsWindow(Loaded(offset), Full, DecodedOffset(offset))
    BY <1>7, LoadedIs DEF LoadsWindow
  <2> QED
    BY <1>7, <2>1, <2>3, <2>4 DEF Full
<1>8. CASE Commands
  <2>1. CASE Edit
    <3>1. PICK c \in Changes : CanChange(editor.text, c) /\ Modify(c, Do(c), doc.via)
      BY <2>1, EditIs
    <3>2. /\ buffer' = Recorded(c) /\ UNCHANGED <<source, origin>>
          /\ editor'.text = Changed(editor.text, c)
      BY <3>1 DEF Modify, Do
    <3>3. doc' = [doc EXCEPT !.dirty = ~AtSavePoint(Do(c)), !.via = doc.via,
                             !.readOnly = @ \/ ~CanRecord(c)]
      BY <3>1 DEF Modify
    <3>4. doc'.via = doc.via /\ doc'.decoded = doc.decoded
      BY <1>3, <3>3 DEF Docs
    <3>5. ui = "idle" /\ InWindow
      BY <1>2, <2>1, <3>2, <3>4 DEF Edit, Command, Ready, InWindow, Sound, Following
    <3> QED
      BY <1>1, <3>1, <3>2, <3>4, <3>5, ModifiesWindow DEF InWindow
  <2>2. CASE Undo
    <3> DEFINE c == Reversed(Last(editor.past))
               via == IF Last(editor.past).load THEN "undo" ELSE doc.via
    <3>1. /\ Modify(c, Undone, via) /\ c \in Changes /\ CanChange(editor.text, c)
          /\ Undone.text = Changed(editor.text, c)
      BY <2>2, UndoIs
    <3> HIDE DEF c
    <3>2. /\ buffer' = Recorded(c) /\ UNCHANGED <<source, origin>>
          /\ editor'.text = Changed(editor.text, c)
      BY <3>1 DEF Modify
    <3>3. doc' = [doc EXCEPT !.dirty = ~AtSavePoint(Undone), !.via = via,
                             !.readOnly = @ \/ ~CanRecord(c)]
      BY <3>1 DEF Modify
    <3>4. doc'.via = via /\ doc'.decoded = doc.decoded
      BY <1>3, <3>3 DEF Docs
    <3>5. doc.via = "window"
      BY <1>2, <3>4 DEF InWindow
    <3>6. ui = "idle" /\ InWindow
      BY <1>2, <2>2, <3>2, <3>5 DEF Undo, Command, Ready, InWindow, Sound, Following
    <3> QED
      BY <1>1, <3>1, <3>2, <3>4, <3>6, ModifiesWindow DEF InWindow
  <2>3. CASE Shows
    <3>1. PICK offset \in Nat : Show(offset)
      BY <2>3, ShowIs
    <3>2. CanLoad(offset) /\ Load(offset, doc) /\ UNCHANGED <<buffer, source>>
      BY <3>1 DEF Show, table
    <3> QED
      BY <1>3, <1>7, <3>2
  <2>4. CASE Follow
    <3>1. /\ ui = "idle" /\ UNCHANGED <<buffer, source, origin, editor>>
          /\ doc' = [doc EXCEPT !.follow = ~@]
      BY <2>4 DEF Follow, Command, Ready, table
    <3>2. doc'.via = doc.via /\ doc'.decoded = doc.decoded
      BY <1>3, <3>1 DEF Docs
    <3> QED
      BY <1>4, <3>1, <3>2 DEF Following
  <2>5. CASE Save
    <3>1. ui = "idle" /\ UNCHANGED <<buffer, source, origin, editor, doc>>
      BY <2>5 DEF Save, Command, Ready, table
    <3> QED
      BY <1>4, <3>1 DEF Following
  <2> QED
    BY <1>8, <2>1, <2>2, <2>3, <2>4, <2>5 DEF Commands, Shows
<1>9. CASE Saving
  <2>1. CASE Stream \/ Compare \/ SaveFails \/ ViewFails
    <3>1. ~Following /\ UNCHANGED <<buffer, source, origin, editor, doc>>
      BY <2>1 DEF Stream, Compare, SaveFails, ViewFails, Following, table
    <3> QED
      BY <1>4, <3>1
  <2>2. CASE SaveFinish
    <3>1. /\ ~Following /\ UNCHANGED <<buffer, source, origin>>
          /\ editor' = [editor EXCEPT !.saved = Len(editor.past)]
          /\ doc' = [doc EXCEPT !.fileState = State(disk), !.flagged = FALSE,
                                !.dirty = FALSE, !.titled = TRUE]
      BY <2>2 DEF SaveFinish, Following, table
    <3>2. editor'.text = editor.text
      BY <3>1 DEF LargeFileInv, HistoryFits
    <3>3. doc'.via = doc.via /\ doc'.decoded = doc.decoded
      BY <1>3, <3>1 DEF Docs
    <3> QED
      BY <1>4, <3>1, <3>2, <3>3
  <2>3. CASE Restamp
    <3>1. ui = "restamp" /\ UNCHANGED <<editor, doc>>
      BY <2>3 DEF Restamp
    <3>2. noted.sound /\ Full' = noted.bytes
      BY <1>2, <2>3, RestampIs DEF InWindow
    <3>3. IsWindow(editor.text, noted.bytes, doc.decoded)
      BY <1>2, <3>1, <3>2 DEF InWindow, LargeFileInv, WindowIsShown, Renamed
    <3> QED
      BY <3>1, <3>2, <3>3
  <2>4. CASE Rename \/ Reopen \/ ReopenFails \/ RestampFails
    <3>1. ~Sound'
      BY <2>4, SaveFailsIs, ClosedIsTyped DEF Rename, Sound
    <3> QED
      BY <1>2, <3>1 DEF InWindow
  <2>5. CASE MoveFails
    <3>1. ui = "move" /\ UNCHANGED <<buffer, editor, doc>>
      BY <2>5 DEF MoveFails
    <3>2. Sound /\ source'.bytes = source.bytes
      BY <1>2, <2>5, MoveFailsIs DEF InWindow
    <3>3. InWindow /\ Full' = Full
      BY <1>2, <3>1, <3>2 DEF InWindow, Following, Full
    <3> QED
      BY <1>1, <3>1, <3>3
  <2> QED
    BY <1>9, <2>1, <2>2, <2>3, <2>4, <2>5 DEF Saving
<1>10. CASE Timer
  <2>1. /\ ui = "idle" /\ UNCHANGED <<origin, editor, doc>>
        /\ source' = ClosedSource \/ UNCHANGED <<source, buffer>>
    BY <1>10 DEF Timer, Ready
  <2>2. source' # ClosedSource
    BY <1>2, ClosedIsTyped DEF InWindow, Sound
  <2> QED
    BY <1>4, <2>1, <2>2 DEF Following
<1>11. CASE Monitor
  <2>1. CASE FollowMap \/ FollowStamp
    <3>1. Following'
      BY <2>1 DEF FollowMap, FollowStamp, Map, Stamp, Moves, Following
    <3> QED
      BY <1>2, <3>1 DEF InWindow
  <2>2. CASE FollowLoad
    <3> DEFINE d == [doc EXCEPT !.fileState = noted.state]
    <3>1. CanLoad(TailOffset) /\ Load(TailOffset, d) /\ UNCHANGED <<buffer, source>>
      BY <2>2 DEF FollowLoad, table
    <3>2. TailOffset \in Nat /\ noted.state \in States
      BY BoundsAssumption DEF LargeFileInv, HandlerHolds, Notes, States, TailOffset
    <3>3. d \in Docs
      BY <1>3, <3>2 DEF Docs
    <3> HIDE DEF d
    <3> QED
      BY <1>7, <3>1, <3>2, <3>3
  <2>3. CASE FollowFails
    <3>1. doc' = [doc EXCEPT !.follow = FALSE, !.via = "stale"]
      BY <2>3 DEF FollowFails
    <3>2. doc'.via = "stale"
      BY <1>3, <3>1 DEF Docs
    <3> QED
      BY <1>2, <3>2 DEF InWindow
  <2>4. CASE Keep \/ Block
    <3>1. /\ ui = "changed" /\ UNCHANGED <<buffer, source, origin, editor>>
          /\ \/ doc' = [doc EXCEPT !.titled = FALSE, !.dirty = TRUE, !.flagged = FALSE,
                                   !.fileState = noted.state]
             \/ doc' = [doc EXCEPT !.flagged = TRUE]
      BY <2>4 DEF Keep, Block, table
    <3>2. doc'.via = doc.via /\ doc'.decoded = doc.decoded
      BY <1>3, <3>1 DEF Docs
    <3> QED
      BY <1>4, <3>1, <3>2 DEF Following
  <2>5. CASE Reload
    <3>1. PICK c \in Changes : Reloads(c)
      BY <2>5, ReloadIs
    <3>2. doc'.via = "reload"
      BY <1>3, <3>1 DEF Reloads, Docs
    <3> QED
      BY <1>2, <3>2 DEF InWindow
  <2>6. CASE ReloadFails
    <3>1. ui = "changed" /\ UNCHANGED <<buffer, source, origin, editor, doc>>
      BY <2>6 DEF ReloadFails, table
    <3> QED
      BY <1>4, <3>1 DEF Following
  <2> QED
    BY <1>11, <2>1, <2>2, <2>3, <2>4, <2>5, <2>6 DEF Monitor
<1>12. CASE UNCHANGED vars
  BY <1>2, <1>4, <1>12 DEF vars, table, InWindow, Following
<1> QED
  BY <1>5, <1>6, <1>8, <1>9, <1>10, <1>11, <1>12 DEF Next

-----------------------------------------------------------------------------
(* The theorems.                                                           *)

LEMMA InitIsInv ==
  ASSUME Init
  PROVE  LargeFileInv
<1>1. <<>> \in Contents /\ Len(<<>>) = 0
  BY EmptySeq DEF Contents
<1>2. Files \subseteq Contents
  BY FilesAssumption DEF Contents, Chars
<1>3. Numbers
  BY BoundsAssumption DEF Init, Numbers, Places
<1>4. DiskIsVersion
  BY <1>2 DEF Init, DiskIsVersion
<1>5. source = ClosedSource /\ known = Unknown /\ origin = 0 /\ versions = 1 /\ buffer = Opened(0)
  BY DEF Init
<1>6. SourceIsOld
  BY <1>5, ClosedIsTyped DEF SourceIsOld, Unknown
<1>7. TableFits
  <2>1. Buffer(buffer, 0) /\ ~Sound
    BY <1>5, OpenedIsFile, ClosedIsTyped DEF Sound
  <2> QED
    BY <2>1 DEF TableFits
<1>8. HistoryFits
  <2>1. editor = [text |-> <<>>, past |-> <<>>, saved |-> 0]
    BY DEF Init
  <2>2. <<>> \in Seq(Changes)
    BY EmptySeq
  <2>3. editor.text = <<>> /\ editor.past = <<>> /\ editor \in Histories
    BY <1>1, <2>1, <2>2 DEF Histories
  <2> DEFINE lengths == [i \in 0 .. 0 |-> 0]
  <2>4. lengths \in [0 .. 0 -> Nat] /\ lengths[0] = 0
    OBVIOUS
  <2> HIDE DEF lengths
  <2>5. Lengths(editor, lengths)
    BY <1>1, <2>3, <2>4 DEF Lengths
  <2> QED
    BY <2>3, <2>5, HistoryIs DEF History
<1>9. State(Gone) \in States
  BY <1>1 DEF State, Gone, States
<1>10. DocIsOpen
  <2>1. ClosedDoc \in Docs /\ ~ClosedDoc.open /\ ClosedDoc.via = "open"
    BY <1>9 DEF ClosedDoc, Docs
  <2> QED
    BY <2>1 DEF Init, DocIsOpen
<1>11. HandlerHolds
  BY <1>1, <1>9 DEF Init, HandlerHolds, Nothing, Notes, Gone, Renamed
<1>12. WindowIsShown
  BY <1>5, ClosedIsTyped DEF Init, WindowIsShown, Sound, Renamed
<1> QED
  BY <1>3, <1>4, <1>6, <1>7, <1>8, <1>10, <1>11, <1>12 DEF LargeFileInv

LEMMA NextKeepsInv ==
  ASSUME LargeFileInv, [Next]_vars
  PROVE  LargeFileInv'
<1>1. Numbers'
  BY NumbersKeep DEF LargeFileInv
<1> QED
  BY <1>1, DiskIsVersionKeeps, SourceIsOldKeeps, TableFitsKeeps, HistoryFitsKeeps, DocIsOpenKeeps,
     HandlerHoldsKeeps, WindowIsShownKeeps DEF LargeFileInv

(* The inductive invariant, of every run of the program.                   *)
THEOREM LargeFileIsSound == Spec => []LargeFileInv
<1>1. Init => LargeFileInv
  BY InitIsInv
<1>2. LargeFileInv /\ [Next]_vars => LargeFileInv'
  BY NextKeepsInv
<1> QED
  BY <1>1, <1>2, PTL DEF Spec

LEMMA TypesFollow ==
  ASSUME LargeFileInv
  PROVE  TypeOK
<1>1. PICK n \in Nat : Buffer(buffer, n)
  BY DEF LargeFileInv, TableFits
<1>2. /\ writes \in 0 .. MaxWrites /\ versions \in 1 .. 1 + writes + commands
      /\ ui \in Places /\ commands \in 0 .. MaxCommands
  BY DEF LargeFileInv, Numbers
<1>3. {disk.version, known, origin} \subseteq 0 .. versions
  BY DEF LargeFileInv, DiskIsVersion, SourceIsOld
<1>4. editor.saved \in Nat \cup {Never}
  BY DEF LargeFileInv, HistoryFits
<1>5. /\ Length(buffer.pieces) = buffer.size /\ Unjoined(buffer.pieces)
      /\ buffer.pieces \in Seq(Stored(Len(buffer.added), n))
  BY <1>1, BufferFacts
<1>6. ASSUME NEW i \in DOMAIN buffer.pieces
      PROVE  /\ InStorage(buffer.pieces[i])
             /\ i > 1 => ~Joins(buffer.pieces[i - 1], buffer.pieces[i])
  <2>1. i \in 1 .. Len(buffer.pieces) /\ Len(buffer.pieces) \in Nat
    BY <1>5, LenProperties
  <2>2. buffer.pieces[i] \in Stored(Len(buffer.added), n)
    BY <1>5, <2>1, ElementOfSeq
  <2>3. InStorage(buffer.pieces[i])
    BY <2>2 DEF Stored, InStorage
  <2>4. i > 1 => i \in 2 .. Len(buffer.pieces)
    BY <2>1
  <2> QED
    BY <1>5, <2>3, <2>4 DEF Unjoined
<1> QED
  BY <1>2, <1>3, <1>4, <1>5, <1>6 DEF TypeOK

(* In every state the variables have their types, and the pieces of the    *)
(* table lie in their storage, add up to its size and are joined           *)
(* (SplitAt, Insert, Erase, Normalize).                                    *)
THEOREM TypeCorrect == Spec => []TypeOK
<1>1. LargeFileInv => TypeOK
  BY TypesFollow
<1> QED
  BY <1>1, LargeFileIsSound, PTL

(* A window that was loaded and its table do not part: whatever is edited, *)
(* undone, saved and followed, and however often (UpdateLargeBuffer,       *)
(* LoadLargeFileWindow, SaveAs).                                           *)
THEOREM WindowsAreMapped == Spec => []LoadedWindowIsMapped
<1>1. LargeFileInv => LoadedWindowIsMapped
  BY DEF LargeFileInv, WindowIsShown, LoadedWindowIsMapped, Ready, Following
<1> QED
  BY <1>1, LargeFileIsSound, PTL

LEMMA SavesText ==
  ASSUME LargeFileInv, [Next]_vars, ui = "move", ui' = "reopen", known = origin
  PROVE  Sound /\ disk'.bytes = Full
<1>1. Rename
  BY Goes
<1>2. Sound /\ noted.bytes = Full
  BY DEF LargeFileInv, HandlerHolds, Sound, Full
<1> QED
  BY <1>1, <1>2 DEF Rename, NewVersion

LEMMA KeepsText ==
  ASSUME LargeFileInv, [Next]_vars, ui = "restamp", ui' = "saved"
  PROVE  /\ Sound' => Full' = noted.bytes
         /\ noted.sound /\ disk.version = noted.version => Sound'
<1>1. Restamp
  BY Goes
<1>2. SaveHolds /\ disk # Gone
  BY <1>1 DEF LargeFileInv, HandlerHolds, Renamed, Restamp
<1>3. source.open /\ noted.version <= source.version /\ source.version <= disk.version
  BY <1>2 DEF SaveHolds, LargeFileInv, SourceIsOld
<1>4. source.version \in Nat /\ disk.version \in Nat
  BY DiskFacts DEF LargeFileInv, SourceIsOld
<1>5. noted.sound /\ disk.version = noted.version => Sound'
  BY <1>1, <1>3, <1>4 DEF Restamp, Sound
<1> QED
  BY <1>1, <1>5, RestampIs

(* What SaveAs puts in the place of the file is the edited text; and the   *)
(* table that a successful save leaves gives the text it wrote, unless     *)
(* another program replaced the file before it was opened again.           *)
THEOREM SavesTheText == Spec => SavedIsText
<1>1. LargeFileInv /\ [Next]_vars
        => [/\ ui = "move" /\ ui' = "reopen" /\ known = origin
                 => Sound /\ disk'.bytes = Full
            /\ ui = "restamp" /\ ui' = "saved"
                 => /\ Sound' => Full' = noted.bytes
                    /\ noted.sound /\ disk.version = noted.version => Sound']_vars
  BY SavesText, KeepsText
<1> QED
  BY <1>1, LargeFileIsSound, PTL DEF Spec, SavedIsText

LEMMA FollowLoadShows ==
  ASSUME LargeFileInv, [Next]_vars, ui = "followLoad", ui' = "idle", State(disk) = doc'.fileState
  PROVE  /\ doc'.decoded + Len(editor'.text) = Len(disk.bytes)
         /\ editor'.text = SubSeq(disk.bytes, doc'.decoded + 1, Len(disk.bytes))
<1> DEFINE d == [doc EXCEPT !.fileState = noted.state]
           offset == TailOffset
           size == Len(disk.bytes)
<1>1. FollowLoad
  BY DEF Next, External, Open, Commands, Saving, Monitor, OpenView, OpenMap, OpenStamp, OpenAdd,
         Edit, Undo, MoveForward, MoveBack, FindNext, Show, Command, Ready, Follow, Save, Stream,
         Compare, SaveFails, MoveFails, Rename, Reopen, Restamp, ReopenFails, RestampFails, Return,
         SaveFinish, ViewFails, Timer, FollowMap, FollowStamp, FollowFails, ExternalWrite,
         ExternalDelete, Keep, Block, Reload, ReloadFails, Moves, vars
<1>2. CanLoad(offset) /\ Load(offset, d)
  BY <1>1 DEF FollowLoad
<1>3. /\ noted.state \in States /\ noted.state.version \in 1 .. versions
      /\ source.open /\ source.version >= noted.state.version
      /\ buffer = Opened(Len(source.bytes))
  BY DEF LargeFileInv, HandlerHolds, Notes
<1>4. offset \in Nat /\ Window \in Nat /\ noted.state.size \in Nat
  BY <1>3, BoundsAssumption DEF States, TailOffset
<1>5. doc \in Docs
  BY DEF LargeFileInv, DocIsOpen
<1>6. d \in Docs /\ d.fileState = noted.state
  BY <1>3, <1>5 DEF Docs
<1> HIDE DEF d
<1>7. /\ editor'.text = Loaded(offset)
      /\ doc' = [d EXCEPT !.offset = offset, !.decoded = DecodedOffset(offset), !.via = "window",
                          !.dirty = buffer.modified /\ (@ \/ AtSavePoint(editor))]
  BY <1>2, <1>4, LoadIs
<1>8. doc'.decoded = DecodedOffset(offset) /\ doc'.fileState = noted.state
  BY <1>6, <1>7 DEF Docs
<1>9. disk.version = noted.state.version /\ noted.state.size = size
  BY <1>8 DEF State
<1>10. source.bytes = disk.bytes /\ disk.bytes \in Seq(Chars) /\ size \in Nat
  <2>1. disk # Gone
    BY <1>3, <1>9 DEF Gone
  <2>2. versions \in Nat /\ disk.version \in Nat /\ disk.bytes \in Seq(Chars)
    BY <2>1, DiskFacts DEF Contents
  <2>3. source.version = disk.version
    <3>1. source.version <= disk.version /\ source.version \in Int
      BY <1>3, <2>1, <2>2 DEF LargeFileInv, SourceIsOld
    <3> QED
      BY <1>3, <1>9, <2>2, <3>1
  <2>4. source.bytes = disk.bytes
    BY <1>3, <2>1, <2>3 DEF LargeFileInv, SourceIsOld
  <2> QED
    BY <2>2, <2>4, LenProperties
<1>11. Full = disk.bytes /\ buffer.size = size
  <2>1. Text(Opened(size), disk.bytes) = disk.bytes /\ Opened(size).size = size
    BY <1>10, OpenedIsFile
  <2> QED
    BY <1>3, <1>10, <2>1 DEF Full
<1>12. offset = IF size > Window THEN size - Window ELSE 0
  BY <1>9 DEF TailOffset
<1> HIDE DEF offset, size
<1>13. offset + Least(size - offset, Window) = size
  BY <1>4, <1>10, <1>12 DEF Least
<1>14. LoadsWindow(offset)
  BY <1>2, <1>4, LoadedIs
<1>15. /\ DecodedOffset(offset) + Len(Loaded(offset)) = size
       /\ IsWindow(Loaded(offset), Full, DecodedOffset(offset))
  BY <1>11, <1>13, <1>14 DEF LoadsWindow
<1>16. Loaded(offset) = SubSeq(disk.bytes, DecodedOffset(offset) + 1, size)
  BY <1>11, <1>15 DEF IsWindow
<1> QED
  BY <1>7, <1>8, <1>15, <1>16 DEF size

(* Follow mode never takes growth for seen that it does not show           *)
(* (CheckExternalChanges): the state was captured before the file was      *)
(* mapped again.                                                           *)
THEOREM FollowsToTheEnd == Spec => FollowMissesNoGrowth
<1>1. LargeFileInv /\ [Next]_vars
        => [ui = "followLoad" /\ ui' = "idle" /\ State(disk) = doc'.fileState
              => /\ doc'.decoded + Len(editor'.text) = Len(disk.bytes)
                 /\ editor'.text = SubSeq(disk.bytes, doc'.decoded + 1, Len(disk.bytes))]_vars
  BY FollowLoadShows
<1> QED
  BY <1>1, LargeFileIsSound, PTL DEF Spec, FollowMissesNoGrowth

LEMMA TableFollows ==
  ASSUME LargeFileInv
  PROVE  TableIsText
<1> SUFFICES ASSUME Sound PROVE TableIsText
  BY DEF TableIsText
<1>1. PICK n \in Nat : Buffer(buffer, n) /\ n <= Len(source.bytes)
  BY DEF LargeFileInv, TableFits
<1>2. source.bytes \in Seq(Chars) /\ Chunk \in Nat \ {0}
  BY BoundsAssumption DEF LargeFileInv, SourceIsOld, Contents
<1>3. buffer.size \in Nat /\ Len(Full) = buffer.size
  BY FullIs
<1>4. Full \in Seq(Chars)
  <2>1. /\ buffer.added \in Seq(Chars)
        /\ buffer.pieces \in Seq(Stored(Len(buffer.added), n))
    BY <1>1, BufferFacts
  <2>2. TextOf(buffer.pieces, buffer.added, source.bytes) \in Seq(Chars)
    BY <1>1, <1>2, <2>1, TextIsReadable
  <2> QED
    BY <2>2 DEF Full, Text
<1>5. ASSUME NEW at \in 0 .. buffer.size, NEW pair \in Pairs
      PROVE  /\ Text(Insert(buffer, at, pair), source.bytes) = Splice(Full, at, 0, pair)
             /\ LET hits == {k \in Occurs(pair, Full) : k >= at}
                IN  Find(buffer, source.bytes, pair, at, buffer.size, Chunk)
                      = IF hits = {} THEN NotFound ELSE First(hits)
  <2>1. pair \in Seq(Chars) /\ pair # <<>>
    <3>1. PICK x \in Bytes, y \in Bytes : pair = <<x, y>>
      BY DEF Pairs
    <3>2. x \in Chars /\ y \in Chars
      BY DEF Chars
    <3> QED
      BY <3>1, <3>2
  <2>2. InsertsText(buffer, at, pair, source.bytes)
    BY <1>1, <1>2, <2>1, InsertSplices
  <2>3. FindsFirstOf(buffer, source.bytes, pair, at, Chunk, Full)
    <3>1. Full = Text(buffer, source.bytes) /\ at \in Nat
      BY <1>3 DEF Full
    <3> QED
      BY <1>1, <1>2, <1>4, <2>1, <3>1, FindsFirst
  <2> QED
    BY <2>2, <2>3 DEF InsertsText, FindsFirstOf, FromOn, Full
<1>6. ASSUME NEW at \in 0 .. buffer.size, NEW m \in 0 .. buffer.size - at
      PROVE  Text(Erase(buffer, at, m), source.bytes) = Splice(Full, at, m, <<>>)
  <2>1. CASE m = 0
    <3>1. Erase(buffer, at, m) = buffer
      BY <2>1 DEF Erase
    <3>2. at \in Nat /\ 0 \in Nat /\ at + 0 <= Len(Full) /\ <<>> \in Seq(Chars)
      BY <1>3, EmptySeq
    <3>3. TwoSplices(Full, at, 0, <<>>)
      BY <1>4, <3>2, SpliceTwice
    <3> QED
      BY <2>1, <3>1, <3>3 DEF TwoSplices, Full
  <2>2. CASE m # 0
    <3>1. at \in Nat /\ m \in Nat \ {0} /\ at + m <= buffer.size
      BY <1>3, <2>2
    <3>2. ErasesText(buffer, at, m, source.bytes)
      BY <1>1, <1>2, <3>1, EraseSplices
    <3> QED
      BY <3>2 DEF ErasesText, Full
  <2> QED
    BY <2>1, <2>2
<1> QED
  BY <1>5, <1>6 DEF TableIsText

(* On every table the program comes to, inserting, deleting and searching  *)
(* is what it is on the plain text, for every length of its pieces, its    *)
(* windows and its chunks (Insert, Erase, Normalize, Find).                *)
THEOREM TablesAreTexts == Spec => []TableIsText
<1>1. LargeFileInv => TableIsText
  BY TableFollows
<1> QED
  BY <1>1, LargeFileIsSound, PTL
=============================================================================
