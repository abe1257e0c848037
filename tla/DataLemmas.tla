------------------------------ MODULE DataLemmas ------------------------------
(***************************************************************************)
(* Lemmas about data.  Induction and primitive recursion over the naturals *)
(* in the form that the provers can use: what is shown by induction is a   *)
(* set of numbers, the step of a recursion is a function, so no operator   *)
(* has to be instantiated.  The library's well-foundedness of the naturals *)
(* is what they rest on.  Sequences: what they are flattened to, an        *)
(* induction over them, and what is left of one without one of its places. *)
(* Texts: what each command of TextCommands returns, that trimming, line   *)
(* ends and case settle, and that a text is put together again from its    *)
(* lines.                                                                  *)
(***************************************************************************)
EXTENDS TextCommands, SequenceTheorems, FiniteSetTheorems, WellFoundedInduction, TLAPS

(* A set of numbers that has the first and with each the next has all.     *)
LEMMA Induction ==
  ASSUME NEW S, 0 \in S, \A n \in Nat : n \in S => n + 1 \in S
  PROVE  Nat \subseteq S
<1> DEFINE T == Nat \ S
<1>1. ASSUME T # {} PROVE FALSE
  <2>1. PICK m \in T : \A k \in T : ~(<<k, m>> \in OpToRel(<, Nat))
    BY <1>1, WFMin, NatLessThanWellFounded
  <2>2. \A k \in T : ~(k < m)
    BY <2>1 DEF OpToRel
  <2>3. m \in Nat /\ m \notin S /\ m # 0
    OBVIOUS
  <2>4. m - 1 \in Nat /\ (m - 1) + 1 = m /\ m - 1 < m
    BY <2>3
  <2>5. m - 1 \in S
    BY <2>2, <2>4
  <2> QED
    BY <2>3, <2>4, <2>5
<1> QED
  BY <1>1

(* A set of numbers up to a bound has a greatest one.                      *)
LEMMA Greatest ==
  ASSUME NEW n \in Nat, NEW S \in SUBSET (1 .. n), S # {}
  PROVE  \E x \in S : \A y \in S : x >= y
<1> DEFINE T == {k \in Nat : \A R \in SUBSET (1 .. k) :
                   R # {} => \E x \in R : \A y \in R : x >= y}
<1>1. 0 \in T
  <2>1. 1 .. 0 = {}
    OBVIOUS
  <2> QED
    BY <2>1
<1>2. ASSUME NEW k \in Nat, k \in T PROVE k + 1 \in T
  <2> SUFFICES ASSUME NEW R \in SUBSET (1 .. k + 1), R # {}
               PROVE  \E x \in R : \A y \in R : x >= y
    OBVIOUS
  <2>1. CASE k + 1 \in R
    BY <2>1
  <2>2. CASE k + 1 \notin R
    <3>1. R \in SUBSET (1 .. k)
      BY <2>2
    <3> QED
      BY <1>2, <3>1
  <2> QED
    BY <2>1, <2>2
<1>3. Nat \subseteq T
  <2> HIDE DEF T
  <2> QED
    BY <1>1, <1>2, Induction
<1>4. n \in T
  BY <1>3, Zenon
<1> QED
  BY <1>4

(* A set of numbers has a least one.                                       *)
LEMMA Smallest ==
  ASSUME NEW S \in SUBSET Nat, S # {}
  PROVE  \E m \in S : \A k \in S : m <= k
<1>1. PICK m \in S : \A k \in S : ~(<<k, m>> \in OpToRel(<, Nat))
  BY WFMin, NatLessThanWellFounded
<1>2. \A k \in S : ~(k < m)
  BY <1>1 DEF OpToRel
<1>3. \A k \in S : k \in Nat /\ m \in Nat
  OBVIOUS
<1> QED
  BY <1>2, <1>3

Recursive(f, first, step, N) ==
  f[0] = first /\ \A n \in 1 .. N : f[n] = step[<<n, f[n - 1]>>]

(* A value for the first number and a step to the next define a function.  *)
LEMMA Recursion ==
  ASSUME NEW V, NEW first \in V, NEW N \in Nat, NEW step \in [(1 .. N) \X V -> V]
  PROVE  \E f \in [0 .. N -> V] : Recursive(f, first, step, N)
<1> DEFINE Upto(k) == \E f \in [0 .. k -> V] : Recursive(f, first, step, k)
           S == {k \in Nat : k <= N => Upto(k)}
<1>1. 0 \in S
  <2>1. Recursive([i \in 0 .. 0 |-> first], first, step, 0)
    BY DEF Recursive
  <2> QED
    BY <2>1
<1>2. ASSUME NEW k \in Nat, k \in S PROVE k + 1 \in S
  <2> SUFFICES ASSUME k + 1 <= N PROVE Upto(k + 1)
    OBVIOUS
  <2>1. PICK f \in [0 .. k -> V] : Recursive(f, first, step, k)
    BY <1>2
  <2> DEFINE g == [i \in 0 .. k + 1 |-> IF i = k + 1 THEN step[<<k + 1, f[k]>>] ELSE f[i]]
  <2>2. g \in [0 .. k + 1 -> V]
    OBVIOUS
  <2>3. g[0] = first
    BY <2>1 DEF Recursive
  <2>4. ASSUME NEW n \in 1 .. k + 1 PROVE g[n] = step[<<n, g[n - 1]>>]
    <3>1. g[n - 1] = f[n - 1]
      OBVIOUS
    <3>2. CASE n = k + 1
      BY <3>1, <3>2, SMTT(30)
    <3>3. CASE n # k + 1
      <4>1. n \in 1 .. k /\ g[n] = f[n]
        BY <3>3
      <4> QED
        BY <2>1, <3>1, <4>1 DEF Recursive
    <3> QED
      BY <3>2, <3>3
  <2>5. Recursive(g, first, step, k + 1)
    BY <2>3, <2>4 DEF Recursive
  <2> QED
    BY <2>2, <2>5
<1>3. Nat \subseteq S
  <2> HIDE DEF S
  <2> QED
    BY <1>1, <1>2, Induction
<1>4. N \in S
  BY <1>3, Zenon
<1> QED
  BY <1>4

(* A function that follows the step wherever it has values stays in them.  *)
StepsFrom(h, first, step, N, V) ==
  /\ h = [n \in 0 .. N |-> h[n]] /\ h[0] = first
  /\ \A n \in 1 .. N : h[n - 1] \in V => h[n] = step[<<n, h[n - 1]>>]

LEMMA RecursionStays ==
  ASSUME NEW V, NEW first \in V, NEW N \in Nat, NEW step \in [(1 .. N) \X V -> V],
         NEW h, StepsFrom(h, first, step, N, V)
  PROVE  h \in [0 .. N -> V]
<1> DEFINE T == {n \in Nat : n <= N => h[n] \in V}
<1>1. 0 \in T
  BY DEF StepsFrom
<1>2. ASSUME NEW n \in Nat, n \in T PROVE n + 1 \in T
  <2>1. SUFFICES ASSUME n + 1 <= N PROVE h[n + 1] \in V
    OBVIOUS
  <2>2. n + 1 \in 1 .. N /\ (n + 1) - 1 = n /\ n <= N
    BY <2>1
  <2>3. h[n] \in V
    BY <1>2, <2>2
  <2>4. h[n + 1] = step[<<n + 1, h[n]>>]
    BY <2>2, <2>3 DEF StepsFrom
  <2> QED
    BY <2>2, <2>3, <2>4
<1> HIDE DEF T
<1>3. Nat \subseteq T
  BY <1>1, <1>2, Induction
<1>4. ASSUME NEW n \in 0 .. N PROVE h[n] \in V
  <2>1. n \in T /\ n <= N
    BY <1>3
  <2> QED
    BY <2>1 DEF T
<1>5. h = [n \in 0 .. N |-> h[n]]
  BY DEF StepsFrom
<1> QED
  BY <1>4, <1>5

-----------------------------------------------------------------------------
(* The parts of a sequence that was made of sequences: where each lies.    *)
Laid(all, parts, place) ==
  /\ place[0] = 0 /\ Len(all) = place[Len(parts)]
  /\ \A k \in 1 .. Len(parts) :
       /\ place[k] = place[k - 1] + Len(parts[k])
       /\ \A j \in 1 .. Len(parts[k]) : all[place[k - 1] + j] = parts[k][j]

(* The sequences that come out on the way.                                 *)
Grows(f, parts) ==
  f[0] = <<>> /\ \A n \in 1 .. Len(parts) : f[n] = f[n - 1] \o parts[n]

(* The library's recursion has no value before the first part.             *)
Flattens(g, parts) ==
  g = [i \in 1 .. Len(parts) |-> IF i = 1 THEN parts[i] ELSE g[i - 1] \o parts[i]]

PartAdded(f, parts, n) ==
  /\ Len(f[n]) = Len(f[n - 1]) + Len(parts[n])
  /\ \A i \in 1 .. Len(f[n - 1]) : f[n][i] = f[n - 1][i]
  /\ \A j \in 1 .. Len(parts[n]) : f[n][Len(f[n - 1]) + j] = parts[n][j]

LEMMA GrowsByParts ==
  ASSUME NEW S, NEW parts \in Seq(Seq(S)), NEW f \in [0 .. Len(parts) -> Seq(S)],
         Grows(f, parts), NEW n \in 1 .. Len(parts)
  PROVE  PartAdded(f, parts, n)
<1> DEFINE a == f[n - 1]
           b == parts[n]
<1>1. n - 1 \in 0 .. Len(parts) /\ parts[n] \in Seq(S)
  OBVIOUS
<1>2. a \in Seq(S) /\ b \in Seq(S) /\ f[n] = a \o b
  BY <1>1 DEF Grows
<1> HIDE DEF a, b
<1>3. /\ Len(a \o b) = Len(a) + Len(b) /\ Len(a) \in Nat /\ Len(b) \in Nat
      /\ \A i \in 1 .. Len(a) + Len(b) :
           (a \o b)[i] = IF i <= Len(a) THEN a[i] ELSE b[i - Len(a)]
  BY <1>2, ConcatProperties
<1>4. \A i \in 1 .. Len(a) : (a \o b)[i] = a[i]
  BY <1>3
<1>5. \A j \in 1 .. Len(b) : (a \o b)[Len(a) + j] = b[j]
  BY <1>3
<1> QED
  BY <1>2, <1>3, <1>4, <1>5 DEF a, b, PartAdded

(* What only grows keeps what it has.                                      *)
Keeps(size, at, k, n) == size[k] <= size[n] /\ \A i \in 1 .. size[k] : at[n][i] = at[k][i]

LEMMA GrowingKeeps ==
  ASSUME NEW N \in Nat, NEW size, NEW at, NEW k \in 0 .. N,
         \A n \in 0 .. N : size[n] \in Nat,
         \A n \in 0 .. N - 1 : Keeps(size, at, n, n + 1)
  PROVE  \A n \in k .. N : Keeps(size, at, k, n)
<1> DEFINE T == {d \in Nat : k + d <= N => Keeps(size, at, k, k + d)}
<1>1. 0 \in T
  <2>1. k + 0 = k
    OBVIOUS
  <2>2. Keeps(size, at, k, k)
    BY DEF Keeps
  <2> QED
    BY <2>1, <2>2
<1>2. ASSUME NEW d \in Nat, d \in T PROVE d + 1 \in T
  <2>1. SUFFICES ASSUME k + (d + 1) <= N PROVE Keeps(size, at, k, k + (d + 1))
    OBVIOUS
  <2>2. k + d \in 0 .. N - 1 /\ k + (d + 1) = (k + d) + 1 /\ k + d <= N
          /\ k + (d + 1) \in 0 .. N /\ k + d \in 0 .. N
    BY <2>1
  <2>3. Keeps(size, at, k, k + d)
    BY <1>2, <2>2
  <2>4. size[k] \in Nat /\ size[k + d] \in Nat /\ size[(k + d) + 1] \in Nat
    BY <2>2
  <2>5. Keeps(size, at, k + d, (k + d) + 1)
    BY <2>2
  <2>6. Keeps(size, at, k, (k + d) + 1)
    BY <2>3, <2>4, <2>5 DEF Keeps
  <2> QED
    BY <2>2, <2>6
<1>3. ASSUME NEW n \in k .. N PROVE Keeps(size, at, k, n)
  <2>1. n - k \in Nat /\ k + (n - k) = n /\ n <= N
    OBVIOUS
  <2>2. n - k \in T
    <3> HIDE DEF T
    <3> QED
      BY <1>1, <1>2, <2>1, Induction
  <2>3. k + (n - k) <= N => Keeps(size, at, k, k + (n - k))
    BY <2>2
  <2> QED
    BY <2>1, <2>3
<1> QED
  BY <1>3

LEMMA Flattening ==
  ASSUME NEW S, NEW parts \in Seq(Seq(S))
  PROVE  \E f \in [0 .. Len(parts) -> Seq(S)] :
           Grows(f, parts) /\ FlattenSeq(parts) = f[Len(parts)]
<1> DEFINE step == [p \in (1 .. Len(parts)) \X Seq(S) |-> p[2] \o parts[p[1]]]
           h == CHOOSE g : Flattens(g, parts)
<1>1. Len(parts) \in Nat /\ \A n \in 1 .. Len(parts) : parts[n] \in Seq(S)
  OBVIOUS
<1>2. \E f \in [0 .. Len(parts) -> Seq(S)] : Recursive(f, <<>>, step, Len(parts))
  <2>1. <<>> \in Seq(S)
    BY EmptySeq
  <2>2. ASSUME NEW p \in (1 .. Len(parts)) \X Seq(S) PROVE p[2] \o parts[p[1]] \in Seq(S)
    <3>1. p[2] \in Seq(S) /\ parts[p[1]] \in Seq(S)
      BY <1>1
    <3> QED
      BY <3>1, ConcatProperties
  <2>3. step \in [(1 .. Len(parts)) \X Seq(S) -> Seq(S)]
    BY <2>2
  <2> HIDE DEF step
  <2> QED
    BY <1>1, <2>1, <2>3, Recursion
<1>3. PICK f \in [0 .. Len(parts) -> Seq(S)] : Grows(f, parts)
  <2>1. PICK f \in [0 .. Len(parts) -> Seq(S)] : Recursive(f, <<>>, step, Len(parts))
    BY <1>2
  <2>2. ASSUME NEW n \in 1 .. Len(parts) PROVE f[n] = f[n - 1] \o parts[n]
    <3>1. n - 1 \in 0 .. Len(parts)
      OBVIOUS
    <3>2. f[n - 1] \in Seq(S)
      BY <3>1
    <3>3. f[n] = step[<<n, f[n - 1]>>]
      <4> HIDE DEF step
      <4> QED
        BY <2>1 DEF Recursive
    <3>4. <<n, f[n - 1]>> \in (1 .. Len(parts)) \X Seq(S)
      BY <3>2
    <3>5. step[<<n, f[n - 1]>>] = <<n, f[n - 1]>>[2] \o parts[<<n, f[n - 1]>>[1]]
      BY <3>4, Zenon
    <3> QED
      BY <3>3, <3>5
  <2>3. Grows(f, parts)
    BY <2>1, <2>2 DEF Recursive, Grows
  <2> QED
    BY <2>3
<1> HIDE DEF step
<1>4. Flattens([i \in 1 .. Len(parts) |-> f[i]], parts)
  <2>1. ASSUME NEW i \in 1 .. Len(parts)
        PROVE  f[i] = IF i = 1 THEN parts[i]
                      ELSE [k \in 1 .. Len(parts) |-> f[k]][i - 1] \o parts[i]
    <3>1. f[i] = f[i - 1] \o parts[i]
      BY <1>3 DEF Grows
    <3>2. CASE i = 1
      <4>1. i - 1 = 0 /\ f[0] = <<>>
        BY <1>3, <3>2 DEF Grows
      <4>2. f[i] = <<>> \o parts[i]
        BY <3>1, <4>1, Zenon
      <4> QED
        BY <1>1, <3>2, <4>2, ConcatEmptySeq
    <3>3. CASE i # 1
      <4>1. i - 1 \in 1 .. Len(parts)
        BY <3>3
      <4> QED
        BY <3>1, <3>3, <4>1
    <3> QED
      BY <3>2, <3>3
  <2> QED
    BY <2>1 DEF Flattens
<1>5. Flattens(h, parts)
  BY <1>4, Zenon
<1> HIDE DEF h
<1>6. \A n \in 1 .. Len(parts) : h[n] = IF n = 1 THEN parts[n] ELSE h[n - 1] \o parts[n]
  BY <1>5 DEF Flattens
<1>7. ASSUME NEW n \in 1 .. Len(parts) PROVE h[n] = f[n]
  <2> DEFINE T == {m \in Nat : m + 1 <= Len(parts) => h[m + 1] = f[m + 1]}
  <2>1. 0 \in T
    <3>1. SUFFICES ASSUME 1 <= Len(parts) PROVE h[1] = f[1]
      OBVIOUS
    <3>2. 1 \in 1 .. Len(parts) /\ 1 - 1 = 0
      BY <1>1, <3>1
    <3>3. h[1] = parts[1] /\ parts[1] \in Seq(S)
      BY <1>1, <1>6, <3>2
    <3>4. f[1] = f[0] \o parts[1] /\ f[0] = <<>>
      BY <1>3, <3>2, Zenon DEF Grows
    <3>5. f[1] = <<>> \o parts[1]
      BY <3>4, Zenon
    <3> QED
      BY <3>3, <3>5, ConcatEmptySeq
  <2>2. ASSUME NEW m \in Nat, m \in T PROVE m + 1 \in T
    <3>1. SUFFICES ASSUME (m + 1) + 1 <= Len(parts) PROVE h[(m + 1) + 1] = f[(m + 1) + 1]
      OBVIOUS
    <3>2. (m + 1) + 1 \in 1 .. Len(parts) /\ (m + 1) + 1 # 1 /\ ((m + 1) + 1) - 1 = m + 1
      BY <3>1
    <3>3. h[m + 1] = f[m + 1]
      BY <1>1, <2>2, <3>1
    <3>4. h[(m + 1) + 1] = h[m + 1] \o parts[(m + 1) + 1]
      BY <1>6, <3>2
    <3>5. f[(m + 1) + 1] = f[m + 1] \o parts[(m + 1) + 1]
      BY <1>3, <3>2 DEF Grows
    <3> QED
      BY <3>3, <3>4, <3>5
  <2>3. n - 1 \in Nat /\ (n - 1) + 1 = n
    OBVIOUS
  <2> HIDE DEF T
  <2>4. n - 1 \in T
    BY <2>1, <2>2, <2>3, Induction
  <2> QED
    BY <2>3, <2>4 DEF T
<1>8. FlattenSeq(parts) = f[Len(parts)]
  <2>1. CASE Len(parts) = 0
    <3>1. parts = <<>>
      BY <2>1, EmptySeq
    <3> QED
      BY <1>3, <2>1, <3>1 DEF FlattenSeq, Grows
  <2>2. CASE Len(parts) # 0
    <3>1. FlattenSeq(parts) = h[Len(parts)]
      BY <2>2 DEF FlattenSeq, h, Flattens
    <3> QED
      BY <1>1, <1>7, <2>2, <3>1
  <2> QED
    BY <2>1, <2>2
<1> QED
  BY <1>3, <1>8

LEMMA Flattened ==
  ASSUME NEW S, NEW parts \in Seq(Seq(S))
  PROVE  /\ FlattenSeq(parts) \in Seq(S)
         /\ \E place \in [0 .. Len(parts) -> Nat] : Laid(FlattenSeq(parts), parts, place)
<1>1. Len(parts) \in Nat /\ \A n \in 1 .. Len(parts) : parts[n] \in Seq(S)
  OBVIOUS
<1>2. PICK f \in [0 .. Len(parts) -> Seq(S)] :
        Grows(f, parts) /\ FlattenSeq(parts) = f[Len(parts)]
  BY Flattening
<1>3. Grows(f, parts)
  BY <1>2
<1>4. FlattenSeq(parts) = f[Len(parts)]
  BY <1>2
<1> DEFINE place == [k \in 0 .. Len(parts) |-> Len(f[k])]
<1>5. Len(parts) \in 0 .. Len(parts) /\ \A k \in 0 .. Len(parts) : f[k] \in Seq(S)
  BY <1>1
<1>6. place \in [0 .. Len(parts) -> Nat]
  BY <1>5
<1>7. Laid(f[Len(parts)], parts, place)
  <2>1. place[0] = 0 /\ place[Len(parts)] = Len(f[Len(parts)])
    BY <1>1, <1>3, <1>5, EmptySeq DEF Grows
  <2>2. \A n \in 0 .. Len(parts) : Len(f[n]) \in Nat
    BY <1>5
  <2>3. ASSUME NEW n \in 1 .. Len(parts)
        PROVE  PartAdded(f, parts, n)
    <3> HIDE DEF place
    <3>1. f \in [0 .. Len(parts) -> Seq(S)] /\ Grows(f, parts) /\ parts \in Seq(Seq(S))
      BY <1>3
    <3> QED
      BY <3>1, GrowsByParts, Zenon
  <2>4. ASSUME NEW n \in 0 .. Len(parts) - 1
        PROVE  Keeps(place, f, n, n + 1)
    <3>1. /\ n + 1 \in 1 .. Len(parts) /\ (n + 1) - 1 = n
          /\ n \in 0 .. Len(parts) /\ n + 1 \in 0 .. Len(parts)
      BY <1>1
    <3>2. Len(f[n + 1]) = Len(f[n]) + Len(parts[n + 1])
          /\ \A i \in 1 .. Len(f[n]) : f[n + 1][i] = f[n][i]
      <4>1. PartAdded(f, parts, n + 1)
        BY <2>3, <3>1, Zenon
      <4> QED
        BY <3>1, <4>1 DEF PartAdded
    <3>3. Len(parts[n + 1]) \in Nat
      BY <1>1, <3>1
    <3> QED
      BY <2>2, <3>1, <3>2, <3>3 DEF Keeps
  <2>5. ASSUME NEW k \in 1 .. Len(parts)
        PROVE  /\ place[k] = place[k - 1] + Len(parts[k])
               /\ \A j \in 1 .. Len(parts[k]) :
                    f[Len(parts)][place[k - 1] + j] = parts[k][j]
    <3>1. k \in 0 .. Len(parts) /\ k - 1 \in 0 .. Len(parts) /\ Len(parts) \in k .. Len(parts)
      BY <1>1
    <3>2. place[k] = Len(f[k]) /\ place[k - 1] = Len(f[k - 1]) /\ place[k - 1] \in Nat
      BY <1>6, <3>1
    <3>3. \A n \in 0 .. Len(parts) : place[n] \in Nat
      BY <1>6
    <3> HIDE DEF place
    <3>4. \A n \in k .. Len(parts) :
            Keeps(place, f, k, n)
      <4>1. Len(parts) \in Nat /\ k \in 0 .. Len(parts)
        BY <1>1, <3>1
      <4> QED
        BY <4>1, <2>4, <3>3, GrowingKeeps, Zenon
    <3>5. /\ Len(f[k]) = Len(f[k - 1]) + Len(parts[k])
          /\ \A j \in 1 .. Len(parts[k]) : f[k][Len(f[k - 1]) + j] = parts[k][j]
      BY <2>3 DEF PartAdded
    <3>6. Len(parts[k]) \in Nat
      BY <1>1
    <3>7. \A i \in 1 .. place[k] : f[Len(parts)][i] = f[k][i]
      BY <3>1, <3>4 DEF Keeps
    <3>8. ASSUME NEW j \in 1 .. Len(parts[k])
          PROVE  f[Len(parts)][place[k - 1] + j] = parts[k][j]
      <4>1. \A p, l \in Nat : \A i \in 1 .. l : p + i \in 1 .. p + l
        OBVIOUS
      <4>2. place[k] = place[k - 1] + Len(parts[k])
        BY <3>2, <3>5, Zenon
      <4>3. place[k - 1] + j \in 1 .. place[k]
        BY <3>2, <3>6, <4>1, <4>2, Zenon
      <4>4. f[Len(parts)][place[k - 1] + j] = f[k][place[k - 1] + j]
        BY <4>3, <3>7, Zenon
      <4> QED
        BY <4>4, <3>2, <3>5, Zenon
    <3> QED
      BY <3>2, <3>5, <3>8, Zenon
  <2> QED
    BY <2>1, <2>5 DEF Laid
<1> HIDE DEF place
<1> QED
  BY <1>4, <1>5, <1>6, <1>7

(* What grows from the same parts is the same.                             *)
GrowAlike(f, g, n) == \A k \in 0 .. n : f[k] = g[k]

LEMMA GrowthIsOne ==
  ASSUME NEW S, NEW parts \in Seq(Seq(S)), NEW more \in Seq(Seq(S)),
         NEW f, NEW g, Grows(f, parts), Grows(g, more), Len(parts) <= Len(more),
         \A k \in 1 .. Len(parts) : more[k] = parts[k]
  PROVE  GrowAlike(f, g, Len(parts))
<1> DEFINE T == {k \in Nat : k <= Len(parts) => f[k] = g[k]}
<1>1. 0 \in T
  BY DEF Grows
<1>2. ASSUME NEW k \in Nat, k \in T PROVE k + 1 \in T
  <2>1. SUFFICES ASSUME k + 1 <= Len(parts) PROVE f[k + 1] = g[k + 1]
    OBVIOUS
  <2>2. /\ k + 1 \in 1 .. Len(parts) /\ k + 1 \in 1 .. Len(more)
        /\ (k + 1) - 1 = k /\ k <= Len(parts)
    BY <2>1
  <2>3. f[k] = g[k]
    BY <1>2, <2>2
  <2>4. f[k + 1] = f[k] \o parts[k + 1] /\ g[k + 1] = g[k] \o more[k + 1]
    BY <2>2 DEF Grows
  <2> QED
    BY <2>2, <2>3, <2>4
<1> HIDE DEF T
<1>3. Nat \subseteq T
  BY <1>1, <1>2, Induction
<1>4. ASSUME NEW k \in 0 .. Len(parts) PROVE f[k] = g[k]
  <2>1. k \in T /\ k <= Len(parts)
    BY <1>3
  <2> QED
    BY <2>1 DEF T
<1> QED
  BY <1>4 DEF GrowAlike

LEMMA FlattenNone == FlattenSeq(<<>>) = <<>>
BY EmptySeq DEF FlattenSeq

LEMMA FlattenMore ==
  ASSUME NEW S, NEW parts \in Seq(Seq(S)), NEW p \in Seq(S)
  PROVE  FlattenSeq(Append(parts, p)) = FlattenSeq(parts) \o p
<1> DEFINE more == Append(parts, p)
           n == Len(parts)
<1>1. /\ more \in Seq(Seq(S)) /\ Len(more) = n + 1 /\ more[n + 1] = p /\ n \in Nat
      /\ \A k \in 1 .. n : more[k] = parts[k]
  BY AppendProperties
<1> HIDE DEF more
<1>2. PICK f \in [0 .. Len(parts) -> Seq(S)] : Grows(f, parts) /\ FlattenSeq(parts) = f[n]
  BY Flattening
<1>3. PICK g \in [0 .. Len(more) -> Seq(S)] : Grows(g, more) /\ FlattenSeq(more) = g[n + 1]
  BY <1>1, Flattening
<1>4. GrowAlike(f, g, n)
  <2>1. Len(parts) <= Len(more) /\ Grows(f, parts) /\ Grows(g, more)
    BY <1>1, <1>2, <1>3
  <2>2. \A k \in 1 .. Len(parts) : more[k] = parts[k]
    BY <1>1
  <2> QED
    BY <1>1, <2>1, <2>2, GrowthIsOne, Zenon
<1>5. n + 1 \in 1 .. Len(more) /\ (n + 1) - 1 = n /\ n \in 0 .. n
  BY <1>1
<1>6. g[n + 1] = g[n] \o p /\ f[n] = g[n]
  BY <1>1, <1>3, <1>4, <1>5 DEF Grows, GrowAlike
<1> QED
  BY <1>2, <1>3, <1>6 DEF more

(* A set of sequences that has the empty one and with each any longer by   *)
(* one element has all.                                                    *)
LEMMA SequenceInduction ==
  ASSUME NEW S, NEW P, <<>> \in P,
         \A s \in Seq(S), e \in S : s \in P => Append(s, e) \in P
  PROVE  Seq(S) \subseteq P
<1> DEFINE T == {n \in Nat : \A s \in Seq(S) : Len(s) = n => s \in P}
<1>1. 0 \in T
  <2>1. \A s \in Seq(S) : Len(s) = 0 => s = <<>>
    BY EmptySeq
  <2> QED
    BY <2>1
<1>2. ASSUME NEW n \in Nat, n \in T PROVE n + 1 \in T
  <2> SUFFICES ASSUME NEW s \in Seq(S), Len(s) = n + 1 PROVE s \in P
    OBVIOUS
  <2>1. s # <<>>
    BY EmptySeq
  <2>2. PICK r \in Seq(S), e \in S : s = Append(r, e)
    BY <2>1, SequenceEmptyOrAppend
  <2>3. Len(r) = n
    BY <2>2
  <2>4. r \in P
    BY <1>2, <2>3
  <2> QED
    BY <2>2, <2>4
<1> HIDE DEF T
<1>3. Nat \subseteq T
  BY <1>1, <1>2, Induction
<1>4. ASSUME NEW s \in Seq(S) PROVE s \in P
  <2>1. Len(s) \in T
    BY <1>3
  <2> QED
    BY <2>1 DEF T
<1> QED
  BY <1>4

-----------------------------------------------------------------------------
(* Sequences without repetition.                                           *)

LEMMA Elements ==
  ASSUME NEW S, NEW s \in Seq(S)
  PROVE  /\ DOMAIN s = 1 .. Len(s) /\ Len(s) \in Nat
         /\ \A x : x \in ToSet(s) <=> \E i \in 1 .. Len(s) : x = s[i]
         /\ IsInjective(s) <=> \A i, j \in 1 .. Len(s) : s[i] = s[j] => i = j
<1>1. DOMAIN s = 1 .. Len(s) /\ Len(s) \in Nat
  OBVIOUS
<1> QED BY <1>1 DEF ToSet, IsInjective

(* With a new element at its end or its beginning, it has that as well.    *)
LEMMA Appending ==
  ASSUME NEW S, NEW s \in Seq(S), IsInjective(s), NEW e \in S, e \notin ToSet(s)
  PROVE  /\ Append(s, e) \in Seq(S) /\ IsInjective(Append(s, e))
         /\ ToSet(Append(s, e)) = ToSet(s) \cup {e}
<1> DEFINE t == Append(s, e)
<1>1. /\ t \in Seq(S) /\ Len(t) = Len(s) + 1 /\ t[Len(s) + 1] = e
      /\ \A i \in 1 .. Len(s) : t[i] = s[i]
  BY SMT
<1> HIDE DEF t
<1>2. Len(s) \in Nat
  OBVIOUS
<1>3. \A i \in 1 .. Len(t) : i = Len(s) + 1 \/ (i \in 1 .. Len(s) /\ t[i] = s[i])
  BY <1>1, <1>2, SMT
<1>4. \A i, j \in 1 .. Len(s) : s[i] = s[j] => i = j
  BY Elements
<1>5. \A i \in 1 .. Len(s) : s[i] # e
  BY Elements
<1>6. \A i, j \in 1 .. Len(t) : t[i] = t[j] => i = j
  BY <1>1, <1>3, <1>4, <1>5
<1>7. ASSUME NEW x
      PROVE  x \in ToSet(t) <=> x \in ToSet(s) \cup {e}
  <2>1. x \in ToSet(t) <=> \E i \in 1 .. Len(t) : x = t[i]
    BY <1>1, Elements
  <2>2. x \in ToSet(s) <=> \E i \in 1 .. Len(s) : x = s[i]
    BY Elements
  <2>3. Len(s) + 1 \in 1 .. Len(t) /\ \A i \in 1 .. Len(s) : i \in 1 .. Len(t)
    BY <1>1, <1>2, SMT
  <2> QED BY <2>1, <2>2, <2>3, <1>1, <1>3
<1> QED BY <1>1, <1>6, <1>7, Elements DEF t

LEMMA Prepending ==
  ASSUME NEW S, NEW s \in Seq(S), IsInjective(s), NEW e \in S, e \notin ToSet(s)
  PROVE  /\ InsertAt(s, 1, e) \in Seq(S) /\ IsInjective(InsertAt(s, 1, e))
         /\ ToSet(InsertAt(s, 1, e)) = ToSet(s) \cup {e}
<1> DEFINE t == InsertAt(s, 1, e)
<1>1. SubSeq(s, 1, 1 - 1) = <<>> /\ SubSeq(s, 1, Len(s)) = s
  BY SMT
<1>2. t = <<e>> \o s
  BY <1>1, ConcatEmptySeq DEF InsertAt
<1> HIDE DEF t
<1>3. /\ t \in Seq(S) /\ Len(t) = Len(s) + 1 /\ t[1] = e
      /\ \A i \in 1 .. Len(s) : t[i + 1] = s[i]
  BY <1>2, SMT
<1>4. Len(s) \in Nat
  OBVIOUS
<1>5. \A i \in 1 .. Len(t) : i = 1 \/ (i - 1 \in 1 .. Len(s) /\ t[i] = s[i - 1])
  BY <1>3, <1>4, SMT
<1>6. \A i, j \in 1 .. Len(s) : s[i] = s[j] => i = j
  BY Elements
<1>7. \A i \in 1 .. Len(s) : s[i] # e
  BY Elements
<1>8. ASSUME NEW i \in 1 .. Len(t), NEW j \in 1 .. Len(t), t[i] = t[j]
      PROVE  i = j
  <2>1. CASE i = 1 \/ j = 1
    BY <2>1, <1>8, <1>3, <1>5, <1>7
  <2>2. CASE i # 1 /\ j # 1
    <3>1. i - 1 \in 1 .. Len(s) /\ j - 1 \in 1 .. Len(s) /\ s[i - 1] = s[j - 1]
      BY <2>2, <1>8, <1>5
    <3>2. i - 1 = j - 1
      BY <3>1, <1>6
    <3> QED BY <3>2, <1>3, <1>4, SMT
  <2> QED BY <2>1, <2>2
<1>9. ASSUME NEW x
      PROVE  x \in ToSet(t) <=> x \in ToSet(s) \cup {e}
  <2>1. x \in ToSet(t) <=> \E i \in 1 .. Len(t) : x = t[i]
    BY <1>3, Elements
  <2>2. x \in ToSet(s) <=> \E i \in 1 .. Len(s) : x = s[i]
    BY Elements
  <2>3. 1 \in 1 .. Len(t) /\ \A i \in 1 .. Len(s) : i + 1 \in 1 .. Len(t)
    BY <1>3, <1>4, SMT
  <2> QED BY <2>1, <2>2, <2>3, <1>3, <1>5
<1> QED BY <1>3, <1>8, <1>9, Elements DEF t

(* Behind its first element, it has the others.                            *)
LEMMA Shortening ==
  ASSUME NEW S, NEW s \in Seq(S), IsInjective(s), s # <<>>
  PROVE  /\ Tail(s) \in Seq(S) /\ IsInjective(Tail(s)) /\ Head(s) \in ToSet(s)
         /\ ToSet(Tail(s)) = ToSet(s) \ {Head(s)}
<1> DEFINE t == Tail(s)
<1>1. /\ Len(s) \in Nat \ {0} /\ t \in Seq(S) /\ Len(t) = Len(s) - 1 /\ Head(s) = s[1]
      /\ \A i \in 1 .. Len(s) - 1 : t[i] = s[i + 1]
  BY SMT
<1> HIDE DEF t
<1>2. \A i \in 1 .. Len(s) : i = 1 \/ (i - 1 \in 1 .. Len(t) /\ s[i] = t[i - 1])
  BY <1>1, SMT
<1>3. \A i, j \in 1 .. Len(s) : s[i] = s[j] => i = j
  BY Elements
<1>4. \A i, j \in 1 .. Len(t) : t[i] = t[j] => i = j
  BY <1>1, <1>3, SMT
<1>5. \A i \in 1 .. Len(t) : i + 1 \in 1 .. Len(s) /\ t[i] = s[i + 1] /\ t[i] # s[1]
  BY <1>1, <1>3, SMT
<1>6. 1 \in 1 .. Len(s)
  BY <1>1, SMT
<1>7. ASSUME NEW x
      PROVE  x \in ToSet(t) <=> x \in ToSet(s) \ {Head(s)}
  <2>1. x \in ToSet(t) <=> \E i \in 1 .. Len(t) : x = t[i]
    BY <1>1, Elements
  <2>2. x \in ToSet(s) <=> \E i \in 1 .. Len(s) : x = s[i]
    BY Elements
  <2> QED BY <2>1, <2>2, <1>1, <1>2, <1>5
<1> QED BY <1>1, <1>4, <1>6, <1>7, Elements DEF t

-----------------------------------------------------------------------------
(* Without one of its elements, a sequence has the others.                 *)
LEMMA WithoutPlace ==
  ASSUME NEW S, NEW s \in Seq(S), IsInjective(s), NEW k \in 1 .. Len(s)
  PROVE  /\ RemoveAt(s, k) \in Seq(S) /\ IsInjective(RemoveAt(s, k))
         /\ ToSet(RemoveAt(s, k)) = ToSet(s) \ {s[k]}
<1> DEFINE t == RemoveAt(s, k)
           e == s[k]
<1>1. k \in 1 .. Len(s) /\ s[k] = e
  OBVIOUS
<1>2. /\ SubSeq(s, 1, k - 1) \in Seq(S) /\ Len(SubSeq(s, 1, k - 1)) = k - 1
      /\ \A i \in 1 .. k - 1 : SubSeq(s, 1, k - 1)[i] = s[i]
  BY <1>1, SMT
<1>3. /\ SubSeq(s, k + 1, Len(s)) \in Seq(S) /\ Len(SubSeq(s, k + 1, Len(s))) = Len(s) - k
      /\ \A i \in 1 .. Len(s) - k : SubSeq(s, k + 1, Len(s))[i] = s[i + k]
  BY <1>1, SMT
<1>4. /\ t \in Seq(S) /\ Len(t) = Len(s) - 1
      /\ \A i \in 1 .. Len(s) - 1 : t[i] = IF i < k THEN s[i] ELSE s[i + 1]
  <2> DEFINE a == SubSeq(s, 1, k - 1)
             b == SubSeq(s, k + 1, Len(s))
  <2>1. t = a \o b
    BY DEF RemoveAt
  <2> HIDE DEF t, a, b
  <2>2. /\ a \o b \in Seq(S) /\ Len(a \o b) = Len(a) + Len(b)
        /\ \A i \in 1 .. Len(a) + Len(b) :
             (a \o b)[i] = IF i <= Len(a) THEN a[i] ELSE b[i - Len(a)]
    BY <1>2, <1>3, ConcatProperties DEF a, b
  <2>3. Len(a) = k - 1 /\ Len(b) = Len(s) - k
    BY <1>2, <1>3 DEF a, b
  <2>4. ASSUME NEW i \in 1 .. Len(s) - 1
        PROVE  (a \o b)[i] = IF i < k THEN s[i] ELSE s[i + 1]
    <3>1. CASE i < k
      <4>1. i \in 1 .. k - 1
        BY <3>1, <1>1, SMT
      <4>2. a[i] = s[i]
        BY <4>1, <1>2 DEF a
      <4> QED BY <4>1, <4>2, <3>1, <2>2, <2>3, <1>1, SMT
    <3>2. CASE ~(i < k)
      <4>1. i - (k - 1) \in 1 .. Len(s) - k
        BY <3>2, <1>1, SMT
      <4>2. b[i - (k - 1)] = s[(i - (k - 1)) + k]
        BY <4>1, <1>3 DEF b
      <4>3. (i - (k - 1)) + k = i + 1
        BY <1>1, SMT
      <4>4. i \in 1 .. Len(a) + Len(b) /\ ~(i <= Len(a)) /\ ~(i < k)
        BY <3>2, <2>3, <1>1, SMT
      <4>5. (a \o b)[i] = b[i - (k - 1)]
        BY <4>4, <2>2, <2>3
      <4>6. (a \o b)[i] = s[i + 1]
        BY <4>2, <4>3, <4>5
      <4> QED BY <3>2, <4>6
    <3> QED BY <3>1, <3>2
  <2>5. Len(a \o b) = Len(s) - 1
    BY <2>2, <2>3, <1>1, SMT
  <2> QED BY <2>1, <2>2, <2>4, <2>5
<1> HIDE DEF t, e
<1>5. \A i, j \in 1 .. Len(s) : s[i] = s[j] => i = j
  BY DEF IsInjective
<1>6. \A i, j \in 1 .. Len(t) : t[i] = t[j] => i = j
  BY <1>1, <1>4, <1>5, SMT
<1>7. \A i \in 1 .. Len(t) : \E j \in 1 .. Len(s) : t[i] = s[j] /\ j # k
  BY <1>1, <1>4, SMT
<1>8. \A j \in 1 .. Len(s) : j # k => \E i \in 1 .. Len(t) : t[i] = s[j]
  <2> TAKE j \in 1 .. Len(s)
  <2> HAVE j # k
  <2>1. CASE j < k
    BY <2>1, <1>1, <1>4, SMT
  <2>2. CASE j > k
    <3>1. j - 1 \in 1 .. Len(t) /\ t[j - 1] = s[j]
      BY <2>2, <1>1, <1>4, SMT
    <3> QED BY <3>1
  <2> QED BY <2>1, <2>2, <1>1, SMT
<1>9. IsInjective(t)
  BY <1>4, <1>6, Elements
<1>10. ASSUME NEW x
       PROVE  x \in ToSet(t) <=> x \in ToSet(s) \ {e}
  <2>1. x \in ToSet(t) <=> \E i \in 1 .. Len(t) : x = t[i]
    BY <1>4, Elements
  <2>2. x \in ToSet(s) <=> \E i \in 1 .. Len(s) : x = s[i]
    BY Elements
  <2>3. ASSUME x \in ToSet(t) PROVE x \in ToSet(s) \ {e}
    <3>1. PICK i \in 1 .. Len(t) : x = t[i]
      BY <2>1, <2>3
    <3>2. PICK j \in 1 .. Len(s) : t[i] = s[j] /\ j # k
      BY <1>7
    <3>3. s[j] # s[k]
      BY <3>2, <1>1, <1>5
    <3> QED BY <3>1, <3>2, <3>3, <2>2, <1>1
  <2>4. ASSUME x \in ToSet(s) \ {e} PROVE x \in ToSet(t)
    <3>1. PICK j \in 1 .. Len(s) : x = s[j]
      BY <2>2, <2>4
    <3>2. j # k
      BY <3>1, <2>4, <1>1
    <3>3. PICK i \in 1 .. Len(t) : t[i] = s[j]
      BY <3>2, <1>8
    <3> QED BY <3>1, <3>3, <2>1
  <2> QED BY <2>3, <2>4
<1> QED BY <1>4, <1>9, <1>10 DEF t, e

(* A sequence without one of its places is one of the same.                *)
LEMMA WithoutOne ==
  ASSUME NEW S, NEW s \in Seq(S), NEW k \in 1 .. Len(s)
  PROVE  RemoveAt(s, k) \in Seq(S)
<1>1. SubSeq(s, 1, k - 1) \in Seq(S) /\ SubSeq(s, k + 1, Len(s)) \in Seq(S)
  BY SMT
<1> QED
  BY <1>1 DEF RemoveAt

(* A shorter list does not have all of a longer one without repetition.    *)
LEMMA Crowded ==
  ASSUME NEW n \in Nat, NEW m \in Nat, m < n, NEW f \in [1 .. n -> 1 .. m]
  PROVE  \E i, j \in 1 .. n : i # j /\ f[i] = f[j]
<1>1. /\ IsFiniteSet(1 .. n) /\ IsFiniteSet(1 .. m)
      /\ Cardinality(1 .. n) = n /\ Cardinality(1 .. m) = m
  BY FS_Interval
<1> QED
  BY <1>1, FS_PigeonHole

LEMMA FewerCannotHold ==
  ASSUME NEW S, NEW s \in Seq(S), IsInjective(s), NEW r \in Seq(S), Len(r) < Len(s)
  PROVE  ~(ToSet(s) \subseteq ToSet(r))
<1>1. SUFFICES ASSUME ToSet(s) \subseteq ToSet(r) PROVE FALSE
  OBVIOUS
<1>2. Len(s) \in Nat /\ Len(r) \in Nat
  OBVIOUS
<1>3. \A i, j \in 1 .. Len(s) : s[i] = s[j] => i = j
  BY Elements
<1>4. \A i \in 1 .. Len(s) : \E k \in 1 .. Len(r) : r[k] = s[i]
  <2>1. \A x : x \in ToSet(s) <=> \E i \in 1 .. Len(s) : x = s[i]
    BY Elements
  <2>2. \A x : x \in ToSet(r) <=> \E i \in 1 .. Len(r) : x = r[i]
    BY Elements
  <2> QED
    BY <1>1, <2>1, <2>2, Zenon
<1> DEFINE f == [i \in 1 .. Len(s) |-> CHOOSE k \in 1 .. Len(r) : r[k] = s[i]]
<1>5. f \in [1 .. Len(s) -> 1 .. Len(r)] /\ \A i \in 1 .. Len(s) : r[f[i]] = s[i]
  BY <1>4
<1> HIDE DEF f
<1>6. \E i, j \in 1 .. Len(s) : i # j /\ f[i] = f[j]
  BY <1>2, <1>5, Crowded, Zenon
<1> QED
  BY <1>3, <1>5, <1>6, Zenon

LEMMA LastIs ==
  ASSUME NEW V, NEW s \in Seq(V), s # <<>> PROVE Last(s) \in V /\ Last(s) \in ToSet(s)
<1>1. Len(s) \in 1 .. Len(s)
  <2>1. Len(s) \in Nat /\ Len(s) # 0
    BY EmptySeq
  <2> QED
    BY <2>1
<1> QED
  BY <1>1, Elements DEF Last

LEMMA ElementIs == ASSUME NEW S, NEW s \in Seq(S), NEW i \in DOMAIN s PROVE s[i] \in S
OBVIOUS

LEMMA Regrouped == \A x, y, z \in Seq(Nat) : x \o (y \o z) = (x \o y) \o z
<1> TAKE x, y, z \in Seq(Nat)
<1> QED
  BY ConcatAssociative, SMTT(30)

-----------------------------------------------------------------------------
(* How many elements are not behind one: each number up to the size is one's. *)
IsOrder(S, R) ==
  /\ \A i \in S : <<i, i>> \in R
  /\ \A i, j \in S : i # j => ~(<<i, j>> \in R /\ <<j, i>> \in R)
  /\ \A i, j \in S : <<i, j>> \in R \/ <<j, i>> \in R
  /\ \A i, j, k \in S : <<i, j>> \in R /\ <<j, k>> \in R => <<i, k>> \in R

RankIn(S, R, i) == Cardinality({j \in S : <<j, i>> \in R})

LEMMA Ranked ==
  ASSUME NEW S, NEW R, IsFiniteSet(S), IsOrder(S, R), NEW n \in 1 .. Cardinality(S)
  PROVE  \E i \in S : RankIn(S, R, i) = n
<1> DEFINE Upto(i) == {j \in S : <<j, i>> \in R}
           rank == [i \in S |-> RankIn(S, R, i)]
           C == Cardinality(S)
<1>1. C \in Nat
  BY FS_CardinalityType
<1>2. ASSUME NEW i \in S
      PROVE  /\ IsFiniteSet(Upto(i)) /\ RankIn(S, R, i) = Cardinality(Upto(i))
             /\ RankIn(S, R, i) \in 1 .. C
  <2>1. Upto(i) \in SUBSET S /\ i \in Upto(i)
    BY DEF IsOrder
  <2>2. IsFiniteSet(Upto(i)) /\ Cardinality(Upto(i)) <= C
    BY <2>1, FS_Subset
  <2>3. Cardinality(Upto(i)) \in Nat
    BY <2>2, FS_CardinalityType
  <2>4. Cardinality(Upto(i)) # 0
    BY <2>1, <2>2, FS_EmptySet
  <2>5. RankIn(S, R, i) = Cardinality(Upto(i))
    BY DEF RankIn
  <2> HIDE DEF Upto, C
  <2> QED
    BY <1>1, <2>2, <2>3, <2>4, <2>5
<1>3. ASSUME NEW i \in S, NEW j \in S, <<i, j>> \in R, i # j
      PROVE  RankIn(S, R, i) < RankIn(S, R, j)
  <2>1. Upto(i) \in SUBSET Upto(j) /\ j \in Upto(j) /\ j \notin Upto(i)
    BY <1>3 DEF IsOrder
  <2>2. /\ Cardinality(Upto(i)) <= Cardinality(Upto(j))
        /\ Cardinality(Upto(i)) # Cardinality(Upto(j))
    BY <1>2, <2>1, FS_Subset
  <2>3. /\ RankIn(S, R, i) = Cardinality(Upto(i)) /\ RankIn(S, R, i) \in 1 .. C
        /\ RankIn(S, R, j) = Cardinality(Upto(j)) /\ RankIn(S, R, j) \in 1 .. C
    BY <1>2
  <2> HIDE DEF Upto, C
  <2> QED
    BY <1>1, <2>2, <2>3
<1>4. ASSUME NEW i \in S, NEW j \in S, i # j PROVE RankIn(S, R, i) # RankIn(S, R, j)
  <2>1. RankIn(S, R, i) \in 1 .. C /\ RankIn(S, R, j) \in 1 .. C
    BY <1>2
  <2>2. RankIn(S, R, i) < RankIn(S, R, j) \/ RankIn(S, R, j) < RankIn(S, R, i)
    BY <1>3, <1>4 DEF IsOrder
  <2> HIDE DEF C
  <2> QED
    BY <1>1, <2>1, <2>2
<1>5. rank \in Injection(S, 1 .. C)
  BY <1>2, <1>4 DEF Injection, IsInjective
<1>6. IsFiniteSet(1 .. C) /\ Cardinality(1 .. C) = C
  BY <1>1, FS_Interval
<1>7. rank \in Surjection(S, 1 .. C)
  BY <1>5, <1>6, FS_Injection
<1> QED
  BY <1>7 DEF Surjection

(* The n-th of some numbers.                                               *)
LEMMA NthIs ==
  ASSUME NEW S \in SUBSET Int, IsFiniteSet(S), NEW n \in 1 .. Cardinality(S)
  PROVE  \E i \in S : Cardinality({j \in S : j <= i}) = n
<1> DEFINE R == {p \in S \X S : p[1] <= p[2]}
<1>1. \A i, j \in S : <<i, j>> \in R <=> i <= j
  OBVIOUS
<1>2. \A i \in S : i \in Int
  OBVIOUS
<1> HIDE DEF R
<1>3. IsOrder(S, R)
  BY <1>1, <1>2 DEF IsOrder
<1>4. PICK i \in S : RankIn(S, R, i) = n
  BY <1>3, Ranked
<1>5. {j \in S : <<j, i>> \in R} = {j \in S : j <= i}
  BY <1>1
<1> QED
  BY <1>4, <1>5 DEF RankIn

-----------------------------------------------------------------------------
(* Each text command returns a text.                                       *)
TextsOf == Seq(Nat)

LEMMA TextIs ==
  ASSUME NEW t \in TextsOf
  PROVE  /\ Len(t) \in Nat /\ DOMAIN t = 1 .. Len(t)
         /\ \A i \in 1 .. Len(t) : t[i] \in Nat
BY DEF TextsOf

LEMMA TextPart ==
  ASSUME NEW t \in TextsOf, NEW m \in Nat \ {0}, NEW n \in Int, n <= Len(t)
  PROVE  SubSeq(t, m, n) \in TextsOf /\ Len(SubSeq(t, m, n)) = IF m <= n THEN n - m + 1 ELSE 0
<1>1. \A i \in m .. n : t[i] \in Nat
  BY DEF TextsOf
<1> QED
  BY <1>1, SubSeqProperties DEF TextsOf

LEMMA Together ==
  ASSUME NEW s \in TextsOf, NEW t \in TextsOf
  PROVE  s \o t \in TextsOf /\ Len(s \o t) = Len(s) + Len(t)
BY ConcatProperties DEF TextsOf

LEMMA Few ==
  /\ <<>> \in TextsOf
  /\ \A a \in Nat : <<a>> \in TextsOf /\ Len(<<a>>) = 1
  /\ \A a, b \in Nat : <<a, b>> \in TextsOf /\ Len(<<a, b>>) = 2
BY DEF TextsOf

LEMMA Flat ==
  ASSUME NEW parts \in Seq(TextsOf) PROVE FlattenSeq(parts) \in TextsOf
BY Flattened DEF TextsOf

LEMMA BreaksAre ==
  ASSUME NEW t \in TextsOf
  PROVE  /\ Breaks(t) \subseteq 1 .. Len(t) /\ IsFiniteSet(Breaks(t))
         /\ Cardinality(Breaks(t)) \in Nat
         /\ \A n \in 1 .. Cardinality(Breaks(t)) : NthBreak(t, n) \in Breaks(t)
<1>1. Len(t) \in Nat /\ DOMAIN t = 1 .. Len(t)
  BY TextIs
<1>2. Breaks(t) \subseteq 1 .. Len(t)
  BY <1>1 DEF Breaks
<1>3. IsFiniteSet(1 .. Len(t))
  BY <1>1, FS_Interval
<1>4. IsFiniteSet(Breaks(t))
  BY <1>2, <1>3, FS_Subset
<1>5. Cardinality(Breaks(t)) \in Nat
  BY <1>4, FS_CardinalityType
<1>6. ASSUME NEW n \in 1 .. Cardinality(Breaks(t)) PROVE NthBreak(t, n) \in Breaks(t)
  <2>1. Breaks(t) \in SUBSET Int
    BY <1>1, <1>2
  <2>2. \E i \in Breaks(t) : Cardinality({j \in Breaks(t) : j <= i}) = n
    BY <1>4, <2>1, NthIs
  <2> QED
    BY <2>2 DEF NthBreak
<1> QED
  BY <1>2, <1>4, <1>5, <1>6

IsParsed(lines) ==
  /\ lines = [values |-> lines.values, ending |-> lines.ending,
              terminated |-> lines.terminated]
  /\ lines.values \in Seq(TextsOf) /\ lines.ending \in TextsOf
  /\ lines.terminated \in BOOLEAN

LEMMA EndingIs == ASSUME NEW t PROVE Ending(t) \in TextsOf
<1>1. <<CR, LF>> \in TextsOf /\ <<LF>> \in TextsOf
  BY Few DEF CR, LF
<1> QED
  BY <1>1 DEF Ending

LEMMA BehindIs ==
  ASSUME NEW t \in TextsOf, NEW i \in 1 .. Len(t) PROVE Behind(t, i) \in i + 1 .. Len(t) + 1
<1>1. Len(t) \in Nat
  BY TextIs
<1> QED
  BY <1>1 DEF Behind, IsPair

LEMMA ParseIs == ASSUME NEW t \in TextsOf PROVE IsParsed(ParseLines(t))
<1> DEFINE n      == Cardinality(Breaks(t))
           ends   == [k \in 1 .. n |-> NthBreak(t, k)]
           starts == [k \in 1 .. n + 1 |-> IF k = 1 THEN 1 ELSE Behind(t, ends[k - 1])]
           open   == t = <<>> \/ starts[n + 1] <= Len(t)
           N      == IF open THEN n + 1 ELSE n
           values == [k \in 1 .. N |->
                        SubSeq(t, starts[k], IF k <= n THEN ends[k] - 1 ELSE Len(t))]
<1>1. ParseLines(t) = [values |-> values, ending |-> Ending(t), terminated |-> ~open]
  BY DEF ParseLines
<1>2. n \in Nat /\ Len(t) \in Nat
  BY BreaksAre, TextIs
<1>3. ASSUME NEW k \in 1 .. n PROVE ends[k] \in 1 .. Len(t)
  BY BreaksAre
<1> HIDE DEF n, ends
<1>4. ASSUME NEW k \in 1 .. n + 1 PROVE starts[k] \in Nat \ {0}
  <2>1. CASE k = 1
    BY <2>1
  <2>2. CASE k # 1
    <3>1. k - 1 \in 1 .. n
      BY <1>2, <2>2
    <3>2. ends[k - 1] \in 1 .. Len(t)
      BY <1>3, <3>1
    <3>3. Behind(t, ends[k - 1]) \in Nat \ {0}
      BY <1>2, <3>2, BehindIs
    <3>4. starts[k] = Behind(t, ends[k - 1])
      BY <2>2
    <3> QED
      BY <3>3, <3>4
  <2> QED
    BY <2>1, <2>2
<1> HIDE DEF starts
<1>5. (~open) \in BOOLEAN
  BY Zenon
<1>6. N \in Nat /\ N <= n + 1
  BY <1>2
<1> HIDE DEF open, N
<1>7. ASSUME NEW k \in 1 .. N PROVE values[k] \in TextsOf
  <2>1. k \in 1 .. n + 1
    BY <1>2, <1>6
  <2>2. starts[k] \in Nat \ {0}
    BY <1>4, <2>1
  <2> DEFINE m == IF k <= n THEN ends[k] - 1 ELSE Len(t)
  <2>3. m \in Int /\ m <= Len(t)
    <3>1. CASE k <= n
      <4>1. ends[k] \in 1 .. Len(t)
        BY <1>2, <1>3, <2>1, <3>1
      <4> QED
        BY <1>2, <3>1, <4>1
    <3>2. CASE ~(k <= n)
      BY <1>2, <3>2
    <3> QED
      BY <3>1, <3>2
  <2>4. values[k] = SubSeq(t, starts[k], m)
    OBVIOUS
  <2> HIDE DEF m, values
  <2> QED
    BY <2>2, <2>3, <2>4, TextPart
<1>8. values \in Seq(TextsOf)
  <2>1. values = [k \in 1 .. N |-> values[k]]
    OBVIOUS
  <2> HIDE DEF values
  <2>2. values \in [1 .. N -> TextsOf]
    BY <1>7, <2>1
  <2> QED
    BY <1>6, <2>2
<1>9. Ending(t) \in TextsOf
  BY EndingIs
<1> HIDE DEF values
<1> QED
  BY <1>1, <1>5, <1>8, <1>9 DEF IsParsed

LEMMA JoinedIs ==
  ASSUME NEW values \in Seq(TextsOf), NEW separator \in TextsOf
  PROVE  Joined(values, separator) \in TextsOf
<1> DEFINE parts == [k \in DOMAIN values |->
                       IF k = 1 THEN values[1] ELSE separator \o values[k]]
<1>1. DOMAIN values = 1 .. Len(values) /\ Len(values) \in Nat
  OBVIOUS
<1>2. ASSUME NEW k \in 1 .. Len(values) PROVE parts[k] \in TextsOf
  <2>1. values[k] \in TextsOf
    OBVIOUS
  <2>2. separator \o values[k] \in TextsOf
    BY <2>1, Together
  <2>3. parts[k] = IF k = 1 THEN values[k] ELSE separator \o values[k]
    BY <1>1
  <2> QED
    BY <2>1, <2>2, <2>3
<1>3. parts = [k \in 1 .. Len(values) |-> parts[k]]
  BY <1>1
<1>4. Joined(values, separator) = FlattenSeq(parts)
  BY DEF Joined
<1> HIDE DEF parts
<1>5. parts \in [1 .. Len(values) -> TextsOf]
  BY <1>2, <1>3
<1>6. parts \in Seq(TextsOf)
  BY <1>1, <1>5
<1> QED
  BY <1>4, <1>6, Flat

LEMMA ComposeIs == ASSUME NEW lines, IsParsed(lines) PROVE Compose(lines) \in TextsOf
<1> DEFINE last == IF lines.terminated /\ lines.values # <<>> THEN lines.ending ELSE <<>>
<1>1. Joined(lines.values, lines.ending) \in TextsOf
  BY JoinedIs DEF IsParsed
<1>2. last \in TextsOf
  BY Few DEF IsParsed
<1>3. Compose(lines) = Joined(lines.values, lines.ending) \o last
  BY DEF Compose
<1> HIDE DEF last
<1> QED
  BY <1>1, <1>2, <1>3, Together

LEMMA WithValuesIs ==
  ASSUME NEW lines, IsParsed(lines), NEW values \in Seq(TextsOf)
  PROVE  IsParsed(WithValues(lines, values))
<1>1. WithValues(lines, values) = [values |-> values, ending |-> lines.ending,
                                   terminated |-> lines.terminated]
  BY DEF IsParsed, WithValues
<1> QED
  BY <1>1 DEF IsParsed

LEMMA KeptIs ==
  ASSUME NEW S, NEW values \in Seq(S), NEW positions \in SUBSET (DOMAIN values)
  PROVE  Kept(values, positions) \in Seq(S)
<1> DEFINE nth(k) == CHOOSE i \in positions : Cardinality({j \in positions : j <= i}) = k
           C == Cardinality(positions)
           kept == [k \in 1 .. C |-> values[nth(k)]]
<1>1. DOMAIN values = 1 .. Len(values) /\ Len(values) \in Nat
  OBVIOUS
<1>2. IsFiniteSet(positions)
  <2>1. IsFiniteSet(1 .. Len(values))
    BY <1>1, FS_Interval
  <2> QED
    BY <1>1, <2>1, FS_Subset
<1>3. C \in Nat
  BY <1>2, FS_CardinalityType
<1>4. ASSUME NEW k \in 1 .. C PROVE values[nth(k)] \in S
  <2>1. positions \in SUBSET Int
    BY <1>1
  <2>2. \E i \in positions : Cardinality({j \in positions : j <= i}) = k
    BY <1>2, <2>1, NthIs
  <2>3. nth(k) \in positions
    BY <2>2
  <2> HIDE DEF nth
  <2> QED
    BY <1>1, <2>3
<1>5. Kept(values, positions) = kept
  BY DEF Kept
<1> HIDE DEF nth, C
<1>6. kept \in [1 .. C -> S]
  BY <1>4
<1> QED
  BY <1>3, <1>5, <1>6

-----------------------------------------------------------------------------
(* The order of std::wstring is strict and total.                          *)
Alike(a, b, m) == \A i \in 1 .. m : a[i] = b[i]

LessAt(a, b, n) ==
  /\ n \in 1 .. Len(b) /\ n <= Len(a) + 1 /\ Alike(a, b, n - 1)
  /\ n <= Len(a) => a[n] < b[n]

LEMMA AlikeIs ==
  ASSUME NEW a \in TextsOf, NEW b \in TextsOf, NEW m \in Nat, m <= Len(a), m <= Len(b)
  PROVE  SubSeq(a, 1, m) = SubSeq(b, 1, m) <=> Alike(a, b, m)
<1> DEFINE x == SubSeq(a, 1, m)
           y == SubSeq(b, 1, m)
<1>1. Len(a) \in Nat /\ Len(b) \in Nat
  BY TextIs
<1>2. \A i \in 1 .. m : a[i] \in Nat /\ b[i] \in Nat
  BY <1>1, TextIs
<1>3. /\ x \in TextsOf /\ Len(x) = m /\ \A i \in 1 .. m : x[i] = a[i]
      /\ y \in TextsOf /\ Len(y) = m /\ \A i \in 1 .. m : y[i] = b[i]
  <2>1. m - 1 + 1 = m /\ \A i \in 1 .. m : 1 + i - 1 = i
    OBVIOUS
  <2>2. x \in Seq(Nat) /\ Len(x) = (IF 1 <= m THEN m - 1 + 1 ELSE 0)
        /\ \A i \in 1 .. m - 1 + 1 : x[i] = a[1 + i - 1]
    BY <1>2, SubSeqProperties
  <2>3. y \in Seq(Nat) /\ Len(y) = (IF 1 <= m THEN m - 1 + 1 ELSE 0)
        /\ \A i \in 1 .. m - 1 + 1 : y[i] = b[1 + i - 1]
    BY <1>2, SubSeqProperties
  <2> HIDE DEF x, y
  <2> QED
    BY <2>1, <2>2, <2>3 DEF TextsOf
<1> HIDE DEF x, y
<1>4. x = y => \A i \in 1 .. m : a[i] = b[i]
  BY <1>3
<1>5. ASSUME \A i \in 1 .. m : a[i] = b[i] PROVE x = y
  <2>1. \A i \in 1 .. Len(x) : x[i] = y[i]
    BY <1>3, <1>5
  <2> QED
    BY <1>3, <2>1, SeqEqual DEF TextsOf
<1> QED
  BY <1>4, <1>5 DEF Alike, x, y

LEMMA LessIs ==
  ASSUME NEW a \in TextsOf, NEW b \in TextsOf
  PROVE  Less(a, b) <=> \E n \in Nat : LessAt(a, b, n)
<1>1. Len(a) \in Nat /\ Len(b) \in Nat
  BY TextIs
<1>2. ASSUME NEW n \in 1 .. Len(a), n <= Len(b)
      PROVE  SubSeq(a, 1, n - 1) = SubSeq(b, 1, n - 1) <=> Alike(a, b, n - 1)
  <2>1. n - 1 \in Nat /\ n - 1 <= Len(a) /\ n - 1 <= Len(b)
    BY <1>1, <1>2
  <2> QED
    BY <2>1, AlikeIs
<1>3. ASSUME Len(a) < Len(b)
      PROVE  a = SubSeq(b, 1, Len(a)) <=> Alike(a, b, Len(a))
  <2>1. SubSeq(a, 1, Len(a)) = SubSeq(b, 1, Len(a)) <=> Alike(a, b, Len(a))
    BY <1>1, <1>3, AlikeIs
  <2>2. SubSeq(a, 1, Len(a)) = a
    BY SubSeqFull DEF TextsOf
  <2> QED
    BY <2>1, <2>2
<1>4. ASSUME Less(a, b) PROVE \E n \in Nat : LessAt(a, b, n)
  <2>1. CASE \E n \in 1 .. Len(a) :
               /\ n <= Len(b) /\ SubSeq(a, 1, n - 1) = SubSeq(b, 1, n - 1)
               /\ a[n] < b[n]
    <3>1. PICK n \in 1 .. Len(a) :
                 /\ n <= Len(b) /\ SubSeq(a, 1, n - 1) = SubSeq(b, 1, n - 1)
                 /\ a[n] < b[n]
      BY <2>1
    <3>2. LessAt(a, b, n) /\ n \in Nat
      BY <1>1, <1>2, <3>1 DEF LessAt
    <3> QED
      BY <3>2
  <2>2. CASE Len(a) < Len(b) /\ a = SubSeq(b, 1, Len(a))
    <3>1. LessAt(a, b, Len(a) + 1)
      <4>1. (Len(a) + 1) - 1 = Len(a)
        BY <1>1
      <4> QED
        BY <1>1, <1>3, <2>2, <4>1 DEF LessAt
    <3> QED
      BY <1>1, <3>1
  <2> QED
    BY <1>4, <2>1, <2>2 DEF Less
<1>5. ASSUME NEW n \in Nat, LessAt(a, b, n) PROVE Less(a, b)
  <2>1. CASE n <= Len(a)
    <3>1. n \in 1 .. Len(a) /\ n <= Len(b) /\ a[n] < b[n] /\ Alike(a, b, n - 1)
      BY <1>1, <1>5, <2>1 DEF LessAt
    <3> QED
      BY <1>2, <3>1 DEF Less
  <2>2. CASE ~(n <= Len(a))
    <3>1. n = Len(a) + 1 /\ n - 1 = Len(a) /\ Len(a) < Len(b) /\ Alike(a, b, n - 1)
      BY <1>1, <1>5, <2>2 DEF LessAt
    <3> QED
      BY <1>3, <3>1 DEF Less
  <2> QED
    BY <2>1, <2>2
<1> QED
  BY <1>4, <1>5

LEMMA LessIsStrict ==
  ASSUME NEW a \in TextsOf, NEW b \in TextsOf PROVE ~(Less(a, b) /\ Less(b, a))
<1>1. SUFFICES ASSUME NEW n \in Nat, LessAt(a, b, n), NEW m \in Nat, LessAt(b, a, m)
               PROVE  FALSE
  BY LessIs
<1>2. Len(a) \in Nat /\ Len(b) \in Nat
  BY TextIs
<1>3. \A i \in 1 .. Len(a) : a[i] \in Nat
  BY TextIs
<1>4. \A i \in 1 .. Len(b) : b[i] \in Nat
  BY TextIs
<1> QED
  BY <1>1, <1>2, <1>3, <1>4 DEF LessAt, Alike

LEMMA LessIsTransitive ==
  ASSUME NEW a \in TextsOf, NEW b \in TextsOf, NEW c \in TextsOf, Less(a, b), Less(b, c)
  PROVE  Less(a, c)
<1>1. PICK n \in Nat : LessAt(a, b, n)
  BY LessIs
<1>2. PICK m \in Nat : LessAt(b, c, m)
  BY LessIs
<1>3. Len(a) \in Nat /\ Len(b) \in Nat /\ Len(c) \in Nat
  BY TextIs
<1>4. \A i \in 1 .. Len(a) : a[i] \in Nat
  BY TextIs
<1>5. \A i \in 1 .. Len(b) : b[i] \in Nat
  BY TextIs
<1>6. \A i \in 1 .. Len(c) : c[i] \in Nat
  BY TextIs
<1>7. CASE n <= m
  <2>1. LessAt(a, c, n)
    <3>1. n \in 1 .. Len(c) /\ n <= Len(a) + 1
      BY <1>1, <1>2, <1>3, <1>7 DEF LessAt
    <3>2. Alike(a, c, n - 1)
      BY <1>1, <1>2, <1>3, <1>7 DEF LessAt, Alike
    <3>3. ASSUME n <= Len(a) PROVE a[n] < c[n]
      <4>1. CASE n < m
        BY <1>1, <1>2, <1>3, <3>3, <4>1 DEF LessAt, Alike
      <4>2. CASE n = m
        <5>1. a[n] < b[n] /\ b[n] < c[n] /\ n \in 1 .. Len(b)
          BY <1>1, <1>2, <1>3, <3>3, <4>2 DEF LessAt
        <5>2. a[n] \in Nat /\ b[n] \in Nat /\ c[n] \in Nat
          BY <1>3, <1>4, <1>5, <1>6, <3>1, <3>3, <5>1
        <5> QED
          BY <5>1, <5>2
      <4> QED
        BY <1>7, <4>1, <4>2
    <3> QED
      BY <3>1, <3>2, <3>3 DEF LessAt
  <2> QED
    BY <2>1, LessIs
<1>8. CASE m < n
  <2>1. LessAt(a, c, m)
    <3>1. m \in 1 .. Len(c) /\ m <= Len(a) /\ m \in 1 .. Len(b)
      BY <1>1, <1>2, <1>3, <1>8 DEF LessAt
    <3>2. Alike(a, c, m - 1)
      BY <1>1, <1>2, <1>3, <1>8 DEF LessAt, Alike
    <3>3. a[m] = b[m]
      BY <1>1, <1>3, <1>8, <3>1 DEF LessAt, Alike
    <3>4. b[m] < c[m]
      BY <1>2, <3>1, <1>3 DEF LessAt
    <3> QED
      BY <1>3, <3>1, <3>2, <3>3, <3>4 DEF LessAt
  <2> QED
    BY <2>1, LessIs
<1> QED
  BY <1>7, <1>8

LEMMA LessIsTotal ==
  ASSUME NEW a \in TextsOf, NEW b \in TextsOf, a # b PROVE Less(a, b) \/ Less(b, a)
<1> DEFINE D == {i \in 1 .. Len(a) : i <= Len(b) /\ a[i] # b[i]}
<1>1. Len(a) \in Nat /\ Len(b) \in Nat
  BY TextIs
<1>2. \A i \in 1 .. Len(a) : a[i] \in Nat
  BY TextIs
<1>3. \A i \in 1 .. Len(b) : b[i] \in Nat
  BY TextIs
<1>4. CASE D # {}
  <2>1. D \in SUBSET Nat
    BY <1>1
  <2>2. PICK n \in D : \A k \in D : n <= k
    BY <1>4, <2>1, Smallest
  <2>3. n \in 1 .. Len(a) /\ n \in 1 .. Len(b) /\ a[n] # b[n]
    BY <1>1, <2>2
  <2>4. \A i \in 1 .. n - 1 : a[i] = b[i]
    BY <1>1, <2>2, <2>3
  <2>5. a[n] \in Nat /\ b[n] \in Nat
    BY <1>2, <1>3, <2>3
  <2>6. a[n] < b[n] \/ b[n] < a[n]
    BY <2>3, <2>5
  <2>7. LessAt(a, b, n) \/ LessAt(b, a, n)
    BY <1>1, <2>3, <2>4, <2>6 DEF LessAt, Alike
  <2> QED
    BY <2>3, <2>7, LessIs
<1>5. CASE D = {}
  <2>1. \A i \in 1 .. Len(a) : i <= Len(b) => a[i] = b[i]
    BY <1>5
  <2>2. Len(a) # Len(b)
    <3>1. Len(a) = Len(b) => \A i \in 1 .. Len(a) : a[i] = b[i]
      BY <1>1, <2>1
    <3> QED
      BY <3>1, SeqEqual DEF TextsOf
  <2>3. CASE Len(a) < Len(b)
    <3>1. LessAt(a, b, Len(a) + 1)
      BY <1>1, <2>1, <2>3 DEF LessAt, Alike
    <3> QED
      BY <1>1, <3>1, LessIs
  <2>4. CASE Len(b) < Len(a)
    <3>1. LessAt(b, a, Len(b) + 1)
      BY <1>1, <2>1, <2>4 DEF LessAt, Alike
    <3> QED
      BY <1>1, <3>1, LessIs
  <2> QED
    BY <1>1, <2>2, <2>3, <2>4
<1> QED
  BY <1>4, <1>5

(* What a sort puts before what, and the order of the places that makes.   *)
Precedes(keys, direction, i, j) == IF direction = "ascending" THEN Less(keys[i], keys[j])
                               ELSE Less(keys[j], keys[i])
SortOrder(keys, direction) ==
  {p \in (DOMAIN keys) \X (DOMAIN keys) :
     \/ Precedes(keys, direction, p[1], p[2])
     \/ p[1] <= p[2] /\ ~Precedes(keys, direction, p[2], p[1])}

LEMMA SortIsOrder ==
  ASSUME NEW keys \in Seq(TextsOf), NEW direction
  PROVE  IsOrder(DOMAIN keys, SortOrder(keys, direction))
<1> DEFINE D == DOMAIN keys
           B(i, j) == Precedes(keys, direction, i, j)
           R == SortOrder(keys, direction)
<1>1. D \subseteq Int /\ \A i \in D : keys[i] \in TextsOf
  OBVIOUS
<1>2. \A i, j \in D : ~(B(i, j) /\ B(j, i))
  BY <1>1, LessIsStrict DEF Precedes
<1>3. \A i, j, k \in D : B(i, j) /\ B(j, k) => B(i, k)
  BY <1>1, LessIsTransitive DEF Precedes
<1>4. \A i, j \in D : keys[i] # keys[j] => B(i, j) \/ B(j, i)
  BY <1>1, LessIsTotal DEF Precedes
<1>5. \A i, j, k \in D : keys[i] = keys[j] => /\ B(i, k) <=> B(j, k)
                                              /\ B(k, i) <=> B(k, j)
  BY DEF Precedes
<1>6. \A i, j \in D : <<i, j>> \in R <=> B(i, j) \/ (i <= j /\ ~B(j, i))
  BY DEF SortOrder
<1> HIDE DEF B, R
<1>7. \A i, j \in D : <<i, j>> \in R <=> B(i, j) \/ (i <= j /\ keys[i] = keys[j])
  BY <1>2, <1>4, <1>5, <1>6
<1> HIDE DEF D
<1>8. \A i \in D : <<i, i>> \in R
  BY <1>1, <1>7
<1>9. \A i, j \in D : i # j => ~(<<i, j>> \in R /\ <<j, i>> \in R)
  <2> SUFFICES ASSUME NEW i \in D, NEW j \in D, i # j, <<i, j>> \in R, <<j, i>> \in R
               PROVE  FALSE
    OBVIOUS
  <2>1. i \in Int /\ j \in Int
    BY <1>1
  <2>2. B(i, j) \/ (i <= j /\ keys[i] = keys[j])
    BY <1>7
  <2>3. B(j, i) \/ (j <= i /\ keys[i] = keys[j])
    BY <1>7
  <2>4. ~(B(i, j) /\ B(j, i)) /\ (keys[i] = keys[j] => (B(i, j) <=> B(j, j)))
        /\ (keys[i] = keys[j] => (B(j, i) <=> B(j, j))) /\ ~(B(j, j) /\ B(j, j))
    BY <1>2, <1>5
  <2> QED
    BY <2>1, <2>2, <2>3, <2>4
<1>10. \A i, j \in D : <<i, j>> \in R \/ <<j, i>> \in R
  <2> SUFFICES ASSUME NEW i \in D, NEW j \in D PROVE <<i, j>> \in R \/ <<j, i>> \in R
    OBVIOUS
  <2>1. i \in Int /\ j \in Int
    BY <1>1
  <2>2. CASE keys[i] = keys[j]
    BY <1>7, <2>1, <2>2
  <2>3. CASE keys[i] # keys[j]
    BY <1>4, <1>7, <2>3
  <2> QED
    BY <2>2, <2>3
<1>11. \A i, j, k \in D : <<i, j>> \in R /\ <<j, k>> \in R => <<i, k>> \in R
  <2> SUFFICES ASSUME NEW i \in D, NEW j \in D, NEW k \in D, <<i, j>> \in R, <<j, k>> \in R
               PROVE  <<i, k>> \in R
    OBVIOUS
  <2>1. i \in Int /\ j \in Int /\ k \in Int
    BY <1>1
  <2>2. B(i, j) \/ (i <= j /\ keys[i] = keys[j])
    BY <1>7
  <2>3. B(j, k) \/ (j <= k /\ keys[j] = keys[k])
    BY <1>7
  <2>4. B(i, j) /\ B(j, k) => B(i, k)
    BY <1>3
  <2>5. keys[i] = keys[j] => (B(i, k) <=> B(j, k))
    BY <1>5
  <2>6. keys[j] = keys[k] => (B(i, j) <=> B(i, k))
    BY <1>5
  <2>7. B(i, k) \/ (i <= k /\ keys[i] = keys[k])
    BY <2>1, <2>2, <2>3, <2>4, <2>5, <2>6
  <2> QED
    BY <1>7, <2>7
<1> QED
  BY <1>8, <1>9, <1>10, <1>11 DEF IsOrder, D, R

LEMMA SortedIs ==
  ASSUME NEW S, NEW values \in Seq(S), NEW keys \in Seq(TextsOf), DOMAIN keys = DOMAIN values,
         NEW direction
  PROVE  /\ Sorted(values, keys, direction) \in Seq(S)
         /\ DOMAIN Sorted(values, keys, direction) = DOMAIN values
<1> DEFINE D == DOMAIN values
           R == SortOrder(keys, direction)
           rank == [i \in D |->
                      Cardinality({j \in D : \/ Precedes(keys, direction, j, i)
                                             \/ j <= i /\ ~Precedes(keys, direction, i, j)})]
           nth(k) == CHOOSE i \in D : rank[i] = k
           sorted == [k \in D |-> values[nth(k)]]
<1>1. D = 1 .. Len(values) /\ Len(values) \in Nat
  OBVIOUS
<1>2. IsFiniteSet(D) /\ Cardinality(D) = Len(values)
  <2>1. /\ IsFiniteSet(1 .. Len(values))
        /\ Cardinality(1 .. Len(values)) = IF 1 > Len(values) THEN 0 ELSE Len(values) - 1 + 1
    BY <1>1, FS_Interval
  <2>2. Cardinality(1 .. Len(values)) = Len(values)
    BY <1>1, <2>1
  <2> QED
    BY <1>1, <2>1, <2>2
<1>3. IsOrder(D, R)
  BY SortIsOrder
<1>4. ASSUME NEW i \in D PROVE rank[i] = RankIn(D, R, i)
  <2>1. {j \in D : <<j, i>> \in R}
          = {j \in D : \/ Precedes(keys, direction, j, i)
                       \/ j <= i /\ ~Precedes(keys, direction, i, j)}
    BY DEF SortOrder
  <2> HIDE DEF R
  <2> QED
    BY <2>1 DEF RankIn
<1>5. Sorted(values, keys, direction) = sorted
  BY DEF Sorted, Precedes
<1> HIDE DEF rank, R
<1>6. ASSUME NEW k \in D PROVE values[nth(k)] \in S
  <2>1. k \in 1 .. Cardinality(D)
    BY <1>1, <1>2
  <2> HIDE DEF D
  <2>2. \E i \in D : RankIn(D, R, i) = k
    BY <1>2, <1>3, <2>1, Ranked
  <2>3. \E i \in D : rank[i] = k
    BY <1>4, <2>2
  <2>4. nth(k) \in D
    BY <2>3
  <2> HIDE DEF nth
  <2> QED
    BY <2>4, <1>1
<1> HIDE DEF nth
<1>7. sorted \in [1 .. Len(values) -> S]
  BY <1>1, <1>6
<1>8. DOMAIN sorted = D
  OBVIOUS
<1> QED
  BY <1>1, <1>5, <1>7, <1>8

LEMMA LowerIs == \A c \in Nat : Lower(c) \in Nat /\ Upper(c) \in Nat
BY DEF Lower, Upper, IsUpper, IsLower

LEMMA KeysAre ==
  ASSUME NEW values \in Seq(TextsOf), NEW ignoreCase
  PROVE  KeysOf(values, ignoreCase) \in Seq(TextsOf)
         /\ DOMAIN KeysOf(values, ignoreCase) = DOMAIN values
<1> DEFINE keys == [k \in DOMAIN values |-> Fold(values[k])]
<1>1. DOMAIN values = 1 .. Len(values) /\ Len(values) \in Nat
  OBVIOUS
<1>2. ASSUME NEW k \in 1 .. Len(values) PROVE Fold(values[k]) \in TextsOf
  <2>1. values[k] \in TextsOf
    OBVIOUS
  <2>2. /\ Len(values[k]) \in Nat /\ DOMAIN values[k] = 1 .. Len(values[k])
        /\ \A i \in 1 .. Len(values[k]) : values[k][i] \in Nat
    BY <2>1, TextIs
  <2>3. [i \in DOMAIN values[k] |-> Lower(values[k][i])] \in [1 .. Len(values[k]) -> Nat]
    BY <2>2, LowerIs
  <2> QED
    BY <2>2, <2>3 DEF Fold, TextsOf
<1>3. keys \in [1 .. Len(values) -> TextsOf] /\ DOMAIN keys = DOMAIN values
  BY <1>1, <1>2
<1>4. KeysOf(values, ignoreCase) = IF ignoreCase THEN keys ELSE values
  BY DEF KeysOf
<1> HIDE DEF keys
<1> QED
  BY <1>1, <1>3, <1>4

LEMMA ReverseIs == ASSUME NEW S, NEW s \in Seq(S) PROVE Reverse(s) \in Seq(S)
<1>1. Reverse(s) = [i \in 1 .. Len(s) |-> s[(Len(s) - i) + 1]]
  BY DEF Reverse
<1> QED
  BY <1>1

LEMMA SortLinesIs ==
  ASSUME NEW t \in TextsOf, NEW direction, NEW unique, NEW ignoreCase
  PROVE  SortLines(t, direction, unique, ignoreCase) \in TextsOf
<1> DEFINE lines  == ParseLines(t)
           values == lines.values
           sorted == IF direction = "reverse" THEN Reverse(values)
                     ELSE Sorted(values, KeysOf(values, ignoreCase), direction)
           keys   == KeysOf(sorted, ignoreCase)
           firsts == {k \in DOMAIN sorted : k = 1 \/ keys[k] # keys[k - 1]}
           result == IF unique THEN Kept(sorted, firsts) ELSE sorted
<1>1. IsParsed(lines)
  BY ParseIs
<1>2. values \in Seq(TextsOf)
  BY <1>1 DEF IsParsed
<1>3. SortLines(t, direction, unique, ignoreCase) = Compose(WithValues(lines, result))
  BY DEF SortLines
<1> HIDE DEF values, lines
<1>4. KeysOf(values, ignoreCase) \in Seq(TextsOf)
      /\ DOMAIN KeysOf(values, ignoreCase) = DOMAIN values
  BY <1>2, KeysAre
<1>5. Sorted(values, KeysOf(values, ignoreCase), direction) \in Seq(TextsOf)
  BY <1>2, <1>4, SortedIs
<1>6. sorted \in Seq(TextsOf)
  BY <1>2, <1>5, ReverseIs
<1>7. firsts \in SUBSET (DOMAIN sorted)
  OBVIOUS
<1> HIDE DEF sorted, firsts
<1>8. result \in Seq(TextsOf)
  BY <1>6, <1>7, KeptIs
<1> HIDE DEF result
<1>9. IsParsed(WithValues(lines, result))
  BY <1>1, <1>8, WithValuesIs
<1> QED
  BY <1>3, <1>9, ComposeIs

LEMMA RemoveBlankLinesIs ==
  ASSUME NEW t \in TextsOf, NEW whitespaceOnly
  PROVE  RemoveBlankLines(t, whitespaceOnly) \in TextsOf
<1> DEFINE lines == ParseLines(t)
           isText(line) == /\ line # <<>>
                           /\ whitespaceOnly => \E j \in DOMAIN line : ~IsSpace(line[j])
           places == {k \in DOMAIN lines.values : isText(lines.values[k])}
           values == Kept(lines.values, places)
           result == [lines EXCEPT !.values = values, !.terminated = @ /\ values # <<>>]
<1>1. IsParsed(lines)
  BY ParseIs
<1>2. RemoveBlankLines(t, whitespaceOnly) = Compose(result)
  BY DEF RemoveBlankLines
<1>3. places \in SUBSET (DOMAIN lines.values)
  OBVIOUS
<1> HIDE DEF lines, places
<1>4. values \in Seq(TextsOf)
  BY <1>1, <1>3, KeptIs DEF IsParsed
<1> HIDE DEF values
<1> DEFINE isClosed == lines.terminated /\ values # <<>>
<1>5. result = [values |-> values, ending |-> lines.ending, terminated |-> isClosed]
  <2>1. result = [lines EXCEPT !.values = values, !.terminated = isClosed]
    OBVIOUS
  <2> HIDE DEF isClosed, result
  <2>2. lines = [values |-> lines.values, ending |-> lines.ending,
                 terminated |-> lines.terminated]
    BY <1>1 DEF IsParsed
  <2> QED
    BY <2>1, <2>2
<1>6. isClosed \in BOOLEAN
  BY Zenon
<1> HIDE DEF result, isClosed
<1>7. IsParsed(result)
  BY <1>1, <1>4, <1>5, <1>6 DEF IsParsed
<1> QED
  BY <1>2, <1>7, ComposeIs

LEMMA SolidIs ==
  ASSUME NEW line \in TextsOf
  PROVE  /\ LastSolid(line) \in 0 .. Len(line) /\ FirstSolid(line) \in 1 .. Len(line) + 1
<1>1. Len(line) \in Nat /\ DOMAIN line = 1 .. Len(line)
  BY TextIs
<1>2. Solid(line) \in SUBSET (1 .. Len(line)) /\ Solid(line) \in SUBSET Nat
  BY <1>1 DEF Solid
<1>3. CASE Solid(line) = {}
  BY <1>1, <1>3 DEF LastSolid, FirstSolid
<1>4. CASE Solid(line) # {}
  <2>1. \E i \in Solid(line) : \A j \in Solid(line) : j <= i
    <3>1. \E i \in Solid(line) : \A j \in Solid(line) : i >= j
      BY <1>1, <1>2, <1>4, Greatest
    <3> QED
      BY <1>2, <3>1
  <2>2. \E i \in Solid(line) : \A j \in Solid(line) : i <= j
    BY <1>2, <1>4, Smallest
  <2>3. LastSolid(line) \in Solid(line) /\ FirstSolid(line) \in Solid(line)
    BY <1>4, <2>1, <2>2 DEF LastSolid, FirstSolid
  <2> QED
    BY <1>1, <1>2, <2>3
<1> QED
  BY <1>3, <1>4

LEMMA TrimIs == ASSUME NEW t \in TextsOf PROVE TrimTrailingWhitespace(t) \in TextsOf
<1> DEFINE lines == ParseLines(t)
           values == [k \in DOMAIN lines.values |->
                        SubSeq(lines.values[k], 1, LastSolid(lines.values[k]))]
<1>1. IsParsed(lines)
  BY ParseIs
<1>2. TrimTrailingWhitespace(t) = Compose(WithValues(lines, values))
  BY DEF TrimTrailingWhitespace
<1> HIDE DEF lines
<1>3. lines.values \in Seq(TextsOf)
  BY <1>1 DEF IsParsed
<1>4. DOMAIN lines.values = 1 .. Len(lines.values) /\ Len(lines.values) \in Nat
  BY <1>3
<1>5. ASSUME NEW k \in 1 .. Len(lines.values)
      PROVE  SubSeq(lines.values[k], 1, LastSolid(lines.values[k])) \in TextsOf
  <2> DEFINE line == lines.values[k]
  <2>1. line \in TextsOf
    BY <1>3
  <2> HIDE DEF line
  <2>2. LastSolid(line) \in 0 .. Len(line) /\ Len(line) \in Nat
    BY <2>1, SolidIs, TextIs
  <2>3. SubSeq(line, 1, LastSolid(line)) \in TextsOf
    BY <2>1, <2>2, TextPart
  <2> QED
    BY <2>3 DEF line
<1>6. values \in [1 .. Len(lines.values) -> TextsOf]
  BY <1>4, <1>5
<1> HIDE DEF values
<1>7. values \in Seq(TextsOf)
  BY <1>4, <1>6
<1> QED
  BY <1>1, <1>2, <1>7, WithValuesIs, ComposeIs

LEMMA JoinLinesIs ==
  ASSUME NEW t \in TextsOf, NEW separator \in TextsOf
  PROVE  JoinLines(t, separator) \in TextsOf
<1> DEFINE values == ParseLines(t).values
           places == {k \in DOMAIN values : Solid(values[k]) # {}}
           solid  == Kept(values, places)
           parts  == [k \in DOMAIN solid |->
                        SubSeq(solid[k], FirstSolid(solid[k]), LastSolid(solid[k]))]
<1>1. values \in Seq(TextsOf)
  BY ParseIs DEF IsParsed
<1>2. JoinLines(t, separator) = Joined(parts, separator)
  BY DEF JoinLines
<1>3. places \in SUBSET (DOMAIN values)
  OBVIOUS
<1> HIDE DEF values, places
<1>4. solid \in Seq(TextsOf)
  BY <1>1, <1>3, KeptIs
<1> HIDE DEF solid
<1>5. DOMAIN solid = 1 .. Len(solid) /\ Len(solid) \in Nat
  BY <1>4
<1>6. ASSUME NEW k \in 1 .. Len(solid)
      PROVE  SubSeq(solid[k], FirstSolid(solid[k]), LastSolid(solid[k])) \in TextsOf
  <2> DEFINE line == solid[k]
  <2>1. line \in TextsOf
    BY <1>4
  <2> HIDE DEF line
  <2>2. /\ LastSolid(line) \in 0 .. Len(line) /\ FirstSolid(line) \in 1 .. Len(line) + 1
        /\ Len(line) \in Nat
    BY <2>1, SolidIs, TextIs
  <2>3. /\ FirstSolid(line) \in Nat \ {0} /\ LastSolid(line) \in Int
        /\ LastSolid(line) <= Len(line)
    BY <2>2
  <2>4. SubSeq(line, FirstSolid(line), LastSolid(line)) \in TextsOf
    BY <2>1, <2>3, TextPart
  <2> QED
    BY <2>4 DEF line
<1>7. parts \in [1 .. Len(solid) -> TextsOf]
  BY <1>5, <1>6
<1> HIDE DEF parts
<1>8. parts \in Seq(TextsOf)
  BY <1>5, <1>7
<1> QED
  BY <1>2, <1>8, JoinedIs

(* A line is cut until it fits; each cut takes a character away.           *)
CutOf(s, column) ==
  LET spaces == {i \in 1 .. column : s[i + 1] = SPACE}
  IN  IF spaces = {} THEN column ELSE CHOOSE i \in spaces : \A j \in spaces : j <= i

RestOf(s, column) ==
  LET r == SubSeq(s, CutOf(s, column) + 1, Len(s)) IN SubSeq(r, FirstSolid(r), Len(r))

Shortened(s, column) == IF Len(s) > column THEN RestOf(s, column) ELSE s

Shortens(g, line, column) ==
  g = [n \in 0 .. Len(line) |-> IF n = 0 THEN line ELSE Shortened(g[n - 1], column)]

LEMMA CutIs == ASSUME NEW column \in Nat \ {0}, NEW s PROVE CutOf(s, column) \in 1 .. column
<1> DEFINE spaces == {i \in 1 .. column : s[i + 1] = SPACE}
<1>1. spaces \in SUBSET (1 .. column)
  OBVIOUS
<1>2. CutOf(s, column) = IF spaces = {} THEN column
                         ELSE CHOOSE i \in spaces : \A j \in spaces : j <= i
  BY DEF CutOf
<1> HIDE DEF spaces
<1>3. CASE spaces = {}
  BY <1>2, <1>3
<1>4. CASE spaces # {}
  <2>1. \E i \in spaces : \A j \in spaces : i >= j
    BY <1>1, <1>4, Greatest
  <2>2. \E i \in spaces : \A j \in spaces : j <= i
    BY <1>1, <2>1
  <2>3. CutOf(s, column) \in spaces
    BY <1>2, <1>4, <2>2
  <2> QED
    BY <1>1, <2>3
<1> QED
  BY <1>3, <1>4

LEMMA RestIs ==
  ASSUME NEW column \in Nat \ {0}, NEW s \in TextsOf
  PROVE  /\ Shortened(s, column) \in TextsOf
         /\ Len(s) > column => Len(Shortened(s, column)) < Len(s)
<1>1. CASE Len(s) > column
  <2> DEFINE c == CutOf(s, column)
             r == SubSeq(s, c + 1, Len(s))
             f == FirstSolid(r)
  <2>1. c \in 1 .. column /\ Len(s) \in Nat
    BY CutIs, TextIs
  <2>2. Shortened(s, column) = SubSeq(r, f, Len(r))
    BY <1>1 DEF Shortened, RestOf
  <2> HIDE DEF c
  <2>3. r \in TextsOf /\ Len(r) = Len(s) - c
    <3>1. c + 1 \in Nat \ {0} /\ Len(s) \in Int /\ c + 1 <= Len(s)
          /\ Len(s) - (c + 1) + 1 = Len(s) - c
      BY <1>1, <2>1
    <3> QED
      BY <3>1, TextPart
  <2> HIDE DEF r
  <2>4. f \in 1 .. Len(r) + 1 /\ Len(r) \in Nat
    BY <2>3, SolidIs, TextIs
  <2> HIDE DEF f
  <2>5. f \in Nat \ {0} /\ Len(r) \in Int /\ Len(r) <= Len(r)
    BY <2>4
  <2>6. /\ SubSeq(r, f, Len(r)) \in TextsOf
        /\ Len(SubSeq(r, f, Len(r))) = IF f <= Len(r) THEN Len(r) - f + 1 ELSE 0
    BY <2>3, <2>5, TextPart
  <2>7. Len(SubSeq(r, f, Len(r))) < Len(s)
    BY <1>1, <2>1, <2>3, <2>4, <2>6
  <2> QED
    BY <2>2, <2>6, <2>7
<1>2. CASE ~(Len(s) > column)
  BY <1>2 DEF Shortened
<1> QED
  BY <1>1, <1>2

LEMMA ShortensIs ==
  ASSUME NEW column \in Nat \ {0}, NEW line \in TextsOf,
         NEW left, left = CHOOSE g : Shortens(g, line, column)
  PROVE  /\ left \in [0 .. Len(line) -> TextsOf] /\ left[0] = line
         /\ \A n \in 1 .. Len(line) : left[n] = Shortened(left[n - 1], column)
<1> DEFINE N == Len(line)
           step == [p \in (1 .. N) \X TextsOf |-> Shortened(p[2], column)]
<1>1. N \in Nat
  BY TextIs
<1>2. \A p \in (1 .. N) \X TextsOf : Shortened(p[2], column) \in TextsOf
  <2> TAKE p \in (1 .. N) \X TextsOf
  <2>1. p[2] \in TextsOf
    OBVIOUS
  <2> QED
    BY <2>1, RestIs
<1>3. step \in [(1 .. N) \X TextsOf -> TextsOf]
  BY <1>2
<1>4. ASSUME NEW n \in 1 .. N, NEW s \in TextsOf PROVE step[<<n, s>>] = Shortened(s, column)
  OBVIOUS
<1> HIDE DEF step, N
<1>5. PICK f \in [0 .. N -> TextsOf] : Recursive(f, line, step, N)
  BY <1>1, <1>3, Recursion
<1>6. Shortens(f, line, column)
  <2>1. f[0] = line
    BY <1>5 DEF Recursive
  <2>2. ASSUME NEW n \in 1 .. N PROVE f[n] = Shortened(f[n - 1], column)
    <3>1. f[n - 1] \in TextsOf
      BY <1>1
    <3>2. f[n] = step[<<n, f[n - 1]>>]
      BY <1>5 DEF Recursive
    <3> QED
      BY <1>4, <3>1, <3>2
  <2>3. \A n \in 0 .. N : f[n] = IF n = 0 THEN line ELSE Shortened(f[n - 1], column)
    BY <1>1, <2>1, <2>2
  <2>4. f = [n \in 0 .. N |-> IF n = 0 THEN line ELSE Shortened(f[n - 1], column)]
    BY <2>3
  <2> QED
    BY <2>4 DEF Shortens, N
<1>7. Shortens(left, line, column)
  BY <1>6
<1>8. left[0] = line /\ \A n \in 1 .. N : left[n] = Shortened(left[n - 1], column)
  <2>1. \A n \in 0 .. N : left[n] = IF n = 0 THEN line ELSE Shortened(left[n - 1], column)
    BY <1>7, Zenon DEF Shortens, N
  <2> QED
    BY <1>1, <2>1
<1>9. left = [n \in 0 .. N |-> left[n]]
  <2>1. left = [n \in 0 .. N |-> IF n = 0 THEN line ELSE Shortened(left[n - 1], column)]
    BY <1>7 DEF Shortens, N
  <2> QED
    BY <2>1
<1>10. StepsFrom(left, line, step, N, TextsOf)
  BY <1>4, <1>8, <1>9 DEF StepsFrom
<1>11. left \in [0 .. N -> TextsOf]
  BY <1>1, <1>3, <1>10, RecursionStays
<1> QED
  BY <1>8, <1>11 DEF N

LEMMA ShortEnough ==
  ASSUME NEW column \in Nat \ {0}, NEW line \in TextsOf,
         NEW left \in [0 .. Len(line) -> TextsOf], left[0] = line,
         \A n \in 1 .. Len(line) : left[n] = Shortened(left[n - 1], column)
  PROVE  \E n \in 0 .. Len(line) : /\ Len(left[n]) <= column
                                   /\ \A k \in 0 .. n - 1 : Len(left[k]) > column
<1> DEFINE N == Len(line)
           S == {n \in 0 .. N : Len(left[n]) <= column}
           T == {n \in Nat : n <= N => Len(left[n]) <= N - n \/ \E k \in 0 .. n : k \in S}
<1>1. N \in Nat
  BY TextIs
<1>2. \A n \in 0 .. N : left[n] \in TextsOf /\ Len(left[n]) \in Nat
  BY <1>1, TextIs
<1> HIDE DEF N
<1>3. 0 \in T
  BY <1>1 DEF N
<1>4. ASSUME NEW n \in Nat, n \in T PROVE n + 1 \in T
  <2> SUFFICES ASSUME n + 1 <= N, ~\E k \in 0 .. n + 1 : k \in S
               PROVE  Len(left[n + 1]) <= N - (n + 1)
    OBVIOUS
  <2>1. n \in 0 .. N /\ n + 1 \in 1 .. N /\ (n + 1) - 1 = n /\ n + 1 \in 0 .. N
    BY <1>1
  <2>2. ~(Len(left[n]) <= column)
    BY <2>1
  <2>3. Len(left[n]) <= N - n
    <3>1. \A k \in 0 .. n : k \in 0 .. n + 1
      OBVIOUS
    <3> QED
      BY <1>4, <2>1, <3>1
  <2>4. left[n + 1] = Shortened(left[n], column)
    BY <2>1 DEF N
  <2>5. left[n] \in TextsOf /\ Len(left[n]) \in Nat /\ Len(left[n + 1]) \in Nat
    BY <1>2, <2>1
  <2>6. Len(left[n]) > column => Len(Shortened(left[n], column)) < Len(left[n])
    BY <2>5, RestIs
  <2> QED
    BY <1>1, <2>2, <2>3, <2>4, <2>5, <2>6
<1>5. Nat \subseteq T
  <2> HIDE DEF T
  <2> QED
    BY <1>3, <1>4, Induction
<1>6. N \in T
  BY <1>1, <1>5, Zenon
<1>7. S # {}
  <2>1. CASE Len(left[N]) <= N - N
    <3>1. N \in S
      BY <1>1, <1>2, <2>1
    <3> QED
      BY <3>1
  <2>2. CASE \E k \in 0 .. N : k \in S
    BY <2>2, Zenon
  <2>3. N <= N
    BY <1>1
  <2> QED
    BY <1>6, <2>1, <2>2, <2>3
<1>8. S \in SUBSET Nat
  BY <1>1
<1>9. PICK n \in S : \A k \in S : n <= k
  BY <1>7, <1>8, Smallest
<1>10. \A k \in 0 .. n - 1 : Len(left[k]) > column
  <2> TAKE k \in 0 .. n - 1
  <2>1. k \in 0 .. N /\ k < n
    BY <1>1, <1>9
  <2>2. k \notin S
    BY <1>8, <1>9, <2>1
  <2>3. Len(left[k]) \in Nat
    BY <1>2, <2>1
  <2> QED
    BY <2>1, <2>2, <2>3
<1> QED
  BY <1>9, <1>10 DEF N

LEMMA WrappedIs ==
  ASSUME NEW column \in Nat \ {0}, NEW line \in TextsOf
  PROVE  Wrapped(line, column) \in Seq(TextsOf)
<1> DEFINE left == CHOOSE g : Shortens(g, line, column)
           fits(n) == /\ Len(left[n]) <= column
                      /\ \A k \in 0 .. n - 1 : Len(left[k]) > column
           n == CHOOSE n \in 0 .. Len(line) : fits(n)
           wrapped == [k \in 1 .. n + 1 |->
                         IF k <= n THEN SubSeq(left[k - 1], 1, CutOf(left[k - 1], column))
                         ELSE left[n]]
<1>1. Wrapped(line, column) = wrapped
  BY DEF Wrapped, Shortens, Shortened, RestOf, CutOf
<1>2. /\ left \in [0 .. Len(line) -> TextsOf] /\ left[0] = line
      /\ \A m \in 1 .. Len(line) : left[m] = Shortened(left[m - 1], column)
  BY ShortensIs
<1> HIDE DEF left
<1>3. \E m \in 0 .. Len(line) : /\ Len(left[m]) <= column
                                /\ \A k \in 0 .. m - 1 : Len(left[k]) > column
  BY <1>2, ShortEnough
<1>4. n \in 0 .. Len(line) /\ fits(n)
  BY <1>3
<1> HIDE DEF n
<1>5. Len(line) \in Nat
  BY TextIs
<1>6. ASSUME NEW k \in 1 .. n + 1 PROVE wrapped[k] \in TextsOf
  <2>1. CASE k <= n
    <3> DEFINE s == left[k - 1]
    <3>1. k - 1 \in 0 .. n - 1 /\ k - 1 \in 0 .. Len(line)
      BY <1>4, <1>5, <2>1
    <3>2. s \in TextsOf /\ Len(s) > column
      BY <1>2, <1>4, <3>1
    <3>3. wrapped[k] = SubSeq(s, 1, CutOf(s, column))
      BY <2>1
    <3> HIDE DEF s
    <3>4. CutOf(s, column) \in 1 .. column /\ Len(s) \in Nat
      BY <3>2, CutIs, TextIs
    <3>5. CutOf(s, column) \in Int /\ CutOf(s, column) <= Len(s)
      BY <3>2, <3>4
    <3>6. 1 \in Nat \ {0}
      OBVIOUS
    <3> HIDE DEF wrapped, fits
    <3>7. SubSeq(s, 1, CutOf(s, column)) \in TextsOf
      BY <3>2, <3>5, <3>6, TextPart
    <3> QED
      BY <3>3, <3>7
  <2>2. CASE ~(k <= n)
    <3>1. wrapped[k] = left[n]
      BY <2>2
    <3>2. left[n] \in TextsOf
      BY <1>2, <1>4
    <3> QED
      BY <3>1, <3>2
  <2> QED
    BY <2>1, <2>2
<1>7. wrapped \in Seq(TextsOf)
  <2>1. wrapped = [k \in 1 .. n + 1 |-> wrapped[k]] /\ n + 1 \in Nat
    BY <1>4, <1>5
  <2> HIDE DEF wrapped
  <2>2. wrapped \in [1 .. n + 1 -> TextsOf]
    BY <1>6, <2>1
  <2> QED
    BY <2>1, <2>2
<1> QED
  BY <1>1, <1>7

LEMMA SplitLinesIs ==
  ASSUME NEW t \in TextsOf, NEW column \in Nat PROVE SplitLines(t, column) \in TextsOf
<1>1. CASE column = 0
  BY <1>1 DEF SplitLines
<1>2. CASE column # 0
  <2> DEFINE lines == ParseLines(t)
             parts == [k \in DOMAIN lines.values |-> Wrapped(lines.values[k], column)]
  <2>1. IsParsed(lines)
    BY ParseIs
  <2>2. SplitLines(t, column) = Compose(WithValues(lines, FlattenSeq(parts)))
    BY <1>2 DEF SplitLines
  <2> HIDE DEF lines
  <2>3. lines.values \in Seq(TextsOf)
    BY <2>1 DEF IsParsed
  <2>4. DOMAIN lines.values = 1 .. Len(lines.values) /\ Len(lines.values) \in Nat
    BY <2>3
  <2>5. ASSUME NEW k \in 1 .. Len(lines.values)
        PROVE  Wrapped(lines.values[k], column) \in Seq(TextsOf)
    <3>1. lines.values[k] \in TextsOf /\ column \in Nat \ {0}
      BY <1>2, <2>3
    <3> QED
      BY <3>1, WrappedIs
  <2>6. parts \in [1 .. Len(lines.values) -> Seq(TextsOf)]
    BY <2>4, <2>5
  <2> HIDE DEF parts
  <2>7. parts \in Seq(Seq(TextsOf))
    BY <2>4, <2>6
  <2>8. FlattenSeq(parts) \in Seq(TextsOf)
    BY <2>7, Flattened
  <2> QED
    BY <2>1, <2>2, <2>8, WithValuesIs, ComposeIs
<1> QED
  BY <1>1, <1>2

-----------------------------------------------------------------------------
LEMMA Pieced ==
  ASSUME NEW t \in TextsOf, NEW parts, parts = [i \in DOMAIN t |-> parts[i]],
         \A i \in 1 .. Len(t) : parts[i] \in TextsOf
  PROVE  FlattenSeq(parts) \in TextsOf
<1>1. Len(t) \in Nat /\ DOMAIN t = 1 .. Len(t)
  BY TextIs
<1>2. parts \in [1 .. Len(t) -> TextsOf]
  BY <1>1
<1>3. parts \in Seq(TextsOf)
  BY <1>1, <1>2
<1> QED
  BY <1>3, Flat

Columns(g, t, width) ==
  g = [i \in 0 .. Len(t) |->
         IF i = 0 \/ t[i] \in {CR, LF} THEN 0
         ELSE g[i - 1] + IF t[i] = TAB THEN width - (g[i - 1] % width) ELSE 1]

NextColumn(c, x, width) ==
  IF c \in {CR, LF} THEN 0 ELSE x + IF c = TAB THEN width - (x % width) ELSE 1

LEMMA NextColumnIs ==
  ASSUME NEW width \in Nat \ {0}, NEW x \in Nat, NEW c
  PROVE  /\ NextColumn(c, x, width) \in Nat
         /\ c = TAB => NextColumn(c, x, width) - x \in Nat
<1>1. x % width \in 0 .. width - 1
  OBVIOUS
<1>2. TAB \notin {CR, LF}
  BY DEF TAB, CR, LF
<1> QED
  BY <1>1, <1>2 DEF NextColumn

LEMMA ColumnIs ==
  ASSUME NEW t \in TextsOf, NEW width \in Nat \ {0}
  PROVE  \A i \in 1 .. Len(t) :
           t[i] = TAB => Column(t, width)[i] - Column(t, width)[i - 1] \in Nat
<1> DEFINE N == Len(t)
           h == Column(t, width)
           step == [p \in (1 .. N) \X Nat |-> NextColumn(t[p[1]], p[2], width)]
<1>1. N \in Nat
  BY TextIs
<1>2. \A p \in (1 .. N) \X Nat : NextColumn(t[p[1]], p[2], width) \in Nat
  <2> TAKE p \in (1 .. N) \X Nat
  <2>1. p[2] \in Nat
    OBVIOUS
  <2> QED
    BY <2>1, NextColumnIs
<1>3. step \in [(1 .. N) \X Nat -> Nat]
  BY <1>2
<1>4. ASSUME NEW i \in 1 .. N, NEW x \in Nat
      PROVE  step[<<i, x>>] = NextColumn(t[i], x, width)
  OBVIOUS
<1>5. h = CHOOSE g : Columns(g, t, width)
  BY DEF Column, Columns
<1> HIDE DEF step, N, h
<1>6. PICK f \in [0 .. N -> Nat] : Recursive(f, 0, step, N)
  BY <1>1, <1>3, Recursion
<1>7. Columns(f, t, width)
  <2>1. f[0] = 0
    BY <1>6 DEF Recursive
  <2>2. ASSUME NEW i \in 1 .. N PROVE f[i] = NextColumn(t[i], f[i - 1], width)
    <3>1. f[i - 1] \in Nat
      BY <1>1
    <3>2. f[i] = step[<<i, f[i - 1]>>]
      BY <1>6 DEF Recursive
    <3> QED
      BY <1>4, <3>1, <3>2
  <2>3. ASSUME NEW i \in 0 .. N
        PROVE  f[i] = IF i = 0 \/ t[i] \in {CR, LF} THEN 0
                      ELSE f[i - 1] + IF t[i] = TAB THEN width - (f[i - 1] % width) ELSE 1
    <3>1. CASE i = 0
      BY <2>1, <3>1
    <3>2. CASE i # 0
      <4>1. f[i] = NextColumn(t[i], f[i - 1], width)
        BY <1>1, <2>2, <3>2
      <4> QED
        BY <3>2, <4>1 DEF NextColumn
    <3> QED
      BY <3>1, <3>2
  <2>4. f = [i \in 0 .. N |->
               IF i = 0 \/ t[i] \in {CR, LF} THEN 0
               ELSE f[i - 1] + IF t[i] = TAB THEN width - (f[i - 1] % width) ELSE 1]
    BY <2>3
  <2> QED
    BY <2>4 DEF Columns, N
<1>8. Columns(h, t, width)
  BY <1>5, <1>7
<1>9. ASSUME NEW i \in 0 .. N
      PROVE  h[i] = IF i = 0 \/ t[i] \in {CR, LF} THEN 0
                    ELSE h[i - 1] + IF t[i] = TAB THEN width - (h[i - 1] % width) ELSE 1
  BY <1>8, Zenon DEF Columns, N
<1>10. h[0] = 0 /\ \A i \in 1 .. N : h[i] = NextColumn(t[i], h[i - 1], width)
  <2>1. h[0] = 0
    BY <1>1, <1>9
  <2>2. ASSUME NEW i \in 1 .. N PROVE h[i] = NextColumn(t[i], h[i - 1], width)
    <3>1. i \in 0 .. N /\ i # 0
      BY <1>1
    <3> QED
      BY <1>9, <3>1 DEF NextColumn
  <2> QED
    BY <2>1, <2>2
<1>11. h = [i \in 0 .. N |-> h[i]]
  <2> DEFINE e == [i \in 0 .. N |->
                     IF i = 0 \/ t[i] \in {CR, LF} THEN 0
                     ELSE h[i - 1] + IF t[i] = TAB THEN width - (h[i - 1] % width) ELSE 1]
  <2>1. h = e
    BY <1>8 DEF Columns, N
  <2>2. e = [i \in 0 .. N |-> e[i]]
    OBVIOUS
  <2> QED
    BY <2>1, <2>2
<1>12. StepsFrom(h, 0, step, N, Nat)
  BY <1>4, <1>10, <1>11 DEF StepsFrom
<1>13. h \in [0 .. N -> Nat]
  BY <1>1, <1>3, <1>12, RecursionStays
<1>14. ASSUME NEW i \in 1 .. N, t[i] = TAB PROVE h[i] - h[i - 1] \in Nat
  <2>1. h[i - 1] \in Nat
    BY <1>1, <1>13
  <2>2. h[i] = NextColumn(t[i], h[i - 1], width)
    BY <1>10
  <2> QED
    BY <1>14, <2>1, <2>2, NextColumnIs
<1> QED
  BY <1>14 DEF N, h

LEMMA SpacesAre == \A n \in Nat : Spaces(n) \in TextsOf /\ Len(Spaces(n)) = n
<1>1. ASSUME NEW n \in Nat PROVE Spaces(n) \in TextsOf /\ Len(Spaces(n)) = n
  <2>1. [i \in 1 .. n |-> SPACE] \in [1 .. n -> Nat]
    BY DEF SPACE
  <2> QED
    BY <2>1 DEF Spaces, TextsOf
<1> QED
  BY <1>1

LEMMA OneOf == ASSUME NEW t \in TextsOf, NEW i \in 1 .. Len(t) PROVE <<t[i]>> \in TextsOf
BY TextIs, Few

LEMMA TabsToSpacesIs ==
  ASSUME NEW t \in TextsOf, NEW width \in Nat PROVE TabsToSpaces(t, width) \in TextsOf
<1> DEFINE column == Column(t, width)
           parts == [i \in DOMAIN t |->
                       IF t[i] = TAB THEN Spaces(column[i] - column[i - 1]) ELSE <<t[i]>>]
<1>1. CASE width = 0
  BY <1>1 DEF TabsToSpaces
<1>2. CASE width # 0
  <2>1. TabsToSpaces(t, width) = FlattenSeq(parts)
    BY <1>2 DEF TabsToSpaces
  <2>2. ASSUME NEW i \in 1 .. Len(t) PROVE parts[i] \in TextsOf
    <3>1. parts[i] = IF t[i] = TAB THEN Spaces(column[i] - column[i - 1]) ELSE <<t[i]>>
      BY TextIs
    <3>2. <<t[i]>> \in TextsOf
      BY OneOf
    <3>3. t[i] = TAB => column[i] - column[i - 1] \in Nat
      BY <1>2, ColumnIs
    <3> HIDE DEF parts, column
    <3>4. t[i] = TAB => Spaces(column[i] - column[i - 1]) \in TextsOf
      BY <3>3, SpacesAre
    <3> QED
      BY <3>1, <3>2, <3>4
  <2>3. parts = [i \in DOMAIN t |-> parts[i]]
    OBVIOUS
  <2> HIDE DEF parts
  <2> QED
    BY <2>1, <2>2, <2>3, Pieced
<1> QED
  BY <1>1, <1>2

LEMMA SpacesToTabsIs ==
  ASSUME NEW t \in TextsOf, NEW width \in Nat PROVE SpacesToTabs(t, width) \in TextsOf
<1> DEFINE lineEnds == {0} \cup {i \in DOMAIN t : t[i] \in {CR, LF}}
           column(i) == i - (CHOOSE j \in lineEnds : j <= i
                                      /\ \A k \in lineEnds : k <= i => k <= j)
           isStop(i) == column(i) % width = 0
           isSpaces(i, j) == \A k \in i .. j : t[k] = SPACE
           reachesStop(i) == \E j \in i .. Len(t) : isSpaces(i, j) /\ isStop(j)
           isLonger(i) == i > 1 /\ t[i - 1] = SPACE /\ ~isStop(i - 1)
           piece(i) == CASE ~(t[i] = SPACE /\ reachesStop(i)) -> <<t[i]>>
                         [] t[i] = SPACE /\ reachesStop(i) /\ ~isStop(i) -> <<>>
                         [] t[i] = SPACE /\ isStop(i) -> <<IF isLonger(i) THEN TAB ELSE SPACE>>
           parts == [i \in DOMAIN t |-> piece(i)]
<1>1. SpacesToTabs(t, width) = IF width = 0 THEN t ELSE FlattenSeq(parts)
  BY DEF SpacesToTabs
<1> HIDE DEF isStop, reachesStop, isLonger
<1>2. DOMAIN t = 1 .. Len(t)
  BY TextIs
<1>3. ASSUME NEW i \in 1 .. Len(t) PROVE piece(i) \in TextsOf
  <2>1. <<t[i]>> \in TextsOf /\ <<>> \in TextsOf /\ <<TAB>> \in TextsOf /\ <<SPACE>> \in TextsOf
    BY OneOf, Few DEF TAB, SPACE
  <2> QED
    BY <2>1
<1>4. \A i \in 1 .. Len(t) : parts[i] \in TextsOf
  BY <1>2, <1>3
<1>5. parts = [i \in DOMAIN t |-> parts[i]]
  OBVIOUS
<1> HIDE DEF parts
<1>6. FlattenSeq(parts) \in TextsOf
  BY <1>4, <1>5, Pieced
<1> QED
  BY <1>1, <1>6

LEMMA ConvertCaseIs ==
  ASSUME NEW t \in TextsOf, NEW letterCase PROVE ConvertCase(t, letterCase) \in TextsOf
<1> DEFINE isWord(i) == i = 1 \/ IsSpace(t[i - 1]) \/ IsPunct(t[i - 1])
           isSentence(i) == \A j \in 1 .. i - 1 : IsAlpha(t[j]) =>
                              \E k \in j + 1 .. i - 1 : t[k] \in {46, 33, 63}
           isUpper(i) == \/ letterCase = "upper"
                         \/ letterCase = "title" /\ isWord(i)
                         \/ letterCase = "sentence" /\ isSentence(i)
           result == [i \in DOMAIN t |-> IF isUpper(i) THEN Upper(t[i]) ELSE Lower(t[i])]
<1>1. ConvertCase(t, letterCase) = result
  BY DEF ConvertCase
<1> HIDE DEF isUpper
<1>2. Len(t) \in Nat /\ DOMAIN t = 1 .. Len(t) /\ \A i \in 1 .. Len(t) : t[i] \in Nat
  BY TextIs
<1>3. \A i \in 1 .. Len(t) : Upper(t[i]) \in Nat /\ Lower(t[i]) \in Nat
  BY <1>2, LowerIs
<1>4. result \in [1 .. Len(t) -> Nat]
  BY <1>2, <1>3
<1> QED
  BY <1>1, <1>2, <1>4 DEF TextsOf

LEMMA HexIs == /\ \A n \in Nat : HexDigit(n) \in Nat
               /\ \A c \in Nat : HexValue(c) \in Nat
BY DEF HexDigit, HexValue, IsDigit

LEMMA ShortEscapesAre ==
  /\ DOMAIN ShortEscapes \subseteq Nat
  /\ \A c \in DOMAIN ShortEscapes : ShortEscapes[c] \in Nat
BY DEF ShortEscapes, CR, LF, TAB

LEMMA HexCodes ==
  ASSUME NEW c \in Nat
  PROVE  /\ <<37, HexDigit(c \div 16), HexDigit(c % 16)>> \in TextsOf
         /\ <<92, 117, 48, 48, HexDigit(c \div 16), HexDigit(c % 16)>> \in TextsOf
<1>1. c \div 16 \in Nat /\ c % 16 \in Nat
  OBVIOUS
<1>2. HexDigit(c \div 16) \in Nat /\ HexDigit(c % 16) \in Nat
  BY <1>1, HexIs
<1>3. ASSUME NEW a \in Nat, NEW b \in Nat
      PROVE  <<37, a, b>> \in TextsOf /\ <<92, 117, 48, 48, a, b>> \in TextsOf
  BY DEF TextsOf
<1> QED
  BY <1>2, <1>3

LEMMA EscapeIs == ASSUME NEW t \in TextsOf PROVE EscapeJsonString(t) \in TextsOf
<1> DEFINE parts == [i \in DOMAIN t |->
              IF t[i] \in DOMAIN ShortEscapes THEN <<92, ShortEscapes[t[i]]>>
              ELSE IF t[i] < 32
              THEN <<92, 117, 48, 48, HexDigit(t[i] \div 16), HexDigit(t[i] % 16)>>
              ELSE <<t[i]>>]
<1>1. EscapeJsonString(t) = FlattenSeq(parts)
  BY DEF EscapeJsonString
<1>2. ASSUME NEW i \in 1 .. Len(t) PROVE parts[i] \in TextsOf
  <2>1. t[i] \in Nat /\ DOMAIN t = 1 .. Len(t)
    BY TextIs
  <2>2. <<t[i]>> \in TextsOf
    BY OneOf
  <2>3. <<92, 117, 48, 48, HexDigit(t[i] \div 16), HexDigit(t[i] % 16)>> \in TextsOf
    BY <2>1, HexCodes
  <2>4. ASSUME t[i] \in DOMAIN ShortEscapes PROVE <<92, ShortEscapes[t[i]]>> \in TextsOf
    BY <2>4, ShortEscapesAre, Few
  <2> QED
    BY <2>1, <2>2, <2>3, <2>4
<1>3. parts = [i \in DOMAIN t |-> parts[i]]
  OBVIOUS
<1> HIDE DEF parts
<1> QED
  BY <1>1, <1>2, <1>3, Pieced

LEMMA UnescapeIs ==
  ASSUME NEW t \in TextsOf, UnescapeJsonString(t) # None
  PROVE  UnescapeJsonString(t) \in TextsOf
<1> DEFINE opens[i \in DOMAIN t] == t[i] = 92 /\ ~(i > 1 /\ opens[i - 1])
           meanings(c) == {m \in DOMAIN ShortEscapes : ShortEscapes[m] = c}
                            \cup {m \in {47} : m = c}
           isRead(i) == i < Len(t) /\ meanings(t[i + 1]) # {}
           parts == [i \in DOMAIN t |->
                       IF opens[i] THEN <<>>
                       ELSE IF i > 1 /\ opens[i - 1]
                       THEN <<CHOOSE m \in meanings(t[i]) : TRUE>>
                       ELSE <<t[i]>>]
<1>1. UnescapeJsonString(t) = IF \E i \in DOMAIN t : opens[i] /\ ~isRead(i) THEN None
                              ELSE FlattenSeq(parts)
  BY DEF UnescapeJsonString
<1> HIDE DEF opens
<1>2. \A i \in DOMAIN t : opens[i] => isRead(i)
  BY <1>1
<1>3. UnescapeJsonString(t) = FlattenSeq(parts)
  BY <1>1, <1>2
<1>4. Len(t) \in Nat /\ DOMAIN t = 1 .. Len(t)
  BY TextIs
<1>5. \A c : meanings(c) \subseteq Nat
  BY ShortEscapesAre
<1> HIDE DEF meanings
<1>6. ASSUME NEW i \in 1 .. Len(t) PROVE parts[i] \in TextsOf
  <2>1. <<>> \in TextsOf /\ <<t[i]>> \in TextsOf
    BY OneOf, Few
  <2>2. ASSUME i > 1, opens[i - 1]
        PROVE  <<CHOOSE m \in meanings(t[i]) : TRUE>> \in TextsOf
    <3>1. i - 1 \in DOMAIN t /\ (i - 1) + 1 = i
      BY <1>4, <2>2
    <3>2. meanings(t[i]) # {}
      BY <1>2, <2>2, <3>1
    <3>3. (CHOOSE m \in meanings(t[i]) : TRUE) \in Nat
      BY <1>5, <3>2
    <3> QED
      BY <3>3, Few
  <2> QED
    BY <1>4, <2>1, <2>2
<1>7. parts = [i \in DOMAIN t |-> parts[i]]
  OBVIOUS
<1> HIDE DEF parts
<1> QED
  BY <1>3, <1>6, <1>7, Pieced

LEMMA UrlEncodeIs == ASSUME NEW t \in TextsOf PROVE UrlEncode(t) \in TextsOf
<1> DEFINE isKept(c) == IsAlpha(c) \/ IsDigit(c) \/ c \in {45, 95, 46, 126}
           parts == [i \in DOMAIN t |->
                       IF isKept(t[i]) THEN <<t[i]>>
                       ELSE <<37, HexDigit(t[i] \div 16), HexDigit(t[i] % 16)>>]
<1>1. UrlEncode(t) = FlattenSeq(parts)
  BY DEF UrlEncode
<1> HIDE DEF isKept
<1>2. ASSUME NEW i \in 1 .. Len(t) PROVE parts[i] \in TextsOf
  <2>1. t[i] \in Nat /\ DOMAIN t = 1 .. Len(t)
    BY TextIs
  <2>2. <<t[i]>> \in TextsOf
    BY OneOf
  <2>3. <<37, HexDigit(t[i] \div 16), HexDigit(t[i] % 16)>> \in TextsOf
    BY <2>1, HexCodes
  <2> QED
    BY <2>1, <2>2, <2>3
<1>3. parts = [i \in DOMAIN t |-> parts[i]]
  OBVIOUS
<1> HIDE DEF parts
<1> QED
  BY <1>1, <1>2, <1>3, Pieced

LEMMA UrlDecodeIs ==
  ASSUME NEW t \in TextsOf, UrlDecode(t) # None PROVE UrlDecode(t) \in TextsOf
<1> DEFINE opens(i)  == i > 0 /\ t[i] = 37
           isCode(i) == i + 2 <= Len(t) /\ HexValue(t[i + 1]) < 16 /\ HexValue(t[i + 2]) < 16
           isInside(i) == opens(i - 1) \/ opens(i - 2)
           parts == [i \in DOMAIN t |->
                       IF opens(i) THEN <<HexValue(t[i + 1]) * 16 + HexValue(t[i + 2])>>
                       ELSE IF isInside(i) THEN <<>>
                       ELSE <<IF t[i] = 43 THEN SPACE ELSE t[i]>>]
<1>1. UrlDecode(t) = IF \E i \in DOMAIN t : opens(i) /\ ~isCode(i) THEN None
                     ELSE FlattenSeq(parts)
  BY DEF UrlDecode
<1> HIDE DEF opens, isInside
<1>2. \A i \in DOMAIN t : opens(i) => isCode(i)
  BY <1>1
<1>3. UrlDecode(t) = FlattenSeq(parts)
  BY <1>1, <1>2
<1>4. Len(t) \in Nat /\ DOMAIN t = 1 .. Len(t)
  BY TextIs
<1>5. ASSUME NEW i \in 1 .. Len(t) PROVE parts[i] \in TextsOf
  <2>1. <<>> \in TextsOf /\ <<t[i]>> \in TextsOf /\ <<SPACE>> \in TextsOf
    BY OneOf, Few DEF SPACE
  <2>2. ASSUME opens(i) PROVE <<HexValue(t[i + 1]) * 16 + HexValue(t[i + 2])>> \in TextsOf
    <3>1. i + 1 \in 1 .. Len(t) /\ i + 2 \in 1 .. Len(t)
      BY <1>2, <1>4, <2>2
    <3>2. HexValue(t[i + 1]) \in Nat /\ HexValue(t[i + 2]) \in Nat
      BY <3>1, TextIs, HexIs
    <3>3. HexValue(t[i + 1]) * 16 + HexValue(t[i + 2]) \in Nat
      BY <3>2
    <3> QED
      BY <3>3, Few
  <2> QED
    BY <1>4, <2>1, <2>2
<1>6. parts = [i \in DOMAIN t |-> parts[i]]
  OBVIOUS
<1> HIDE DEF parts
<1> QED
  BY <1>3, <1>5, <1>6, Pieced

LineEndings == {"crlf", "lf", "cr"}

LEMMA DelimiterIs ==
  ASSUME NEW ending \in LineEndings
  PROVE  Delimiter(ending) \in TextsOf
<1>1. <<CR, LF>> \in TextsOf /\ <<LF>> \in TextsOf /\ <<CR>> \in TextsOf
  BY Few DEF CR, LF
<1> QED
  BY <1>1 DEF Delimiter, LineEndings

LEMMA NormalizeIs ==
  ASSUME NEW t \in TextsOf, NEW ending \in LineEndings
  PROVE  NormalizeLineEndings(t, ending) \in TextsOf
<1> DEFINE parts == [i \in DOMAIN t |-> IF i \in Breaks(t) THEN Delimiter(ending)
                                        ELSE IF t[i] = LF THEN <<>> ELSE <<t[i]>>]
<1>1. NormalizeLineEndings(t, ending) = FlattenSeq(parts)
  BY DEF NormalizeLineEndings
<1>2. ASSUME NEW i \in 1 .. Len(t) PROVE parts[i] \in TextsOf
  <2>1. DOMAIN t = 1 .. Len(t) /\ <<>> \in TextsOf /\ <<t[i]>> \in TextsOf
    BY TextIs, OneOf, Few
  <2>2. Delimiter(ending) \in TextsOf
    BY DelimiterIs
  <2> QED
    BY <2>1, <2>2
<1>3. parts = [i \in DOMAIN t |-> parts[i]]
  OBVIOUS
<1> HIDE DEF parts
<1> QED
  BY <1>1, <1>2, <1>3, Pieced

LEMMA FinalNewlineIs ==
  ASSUME NEW t \in TextsOf, NEW newline \in TextsOf
  PROVE  EnsureFinalNewline(t, newline) \in TextsOf
<1>1. t \o newline \in TextsOf
  BY Together
<1> QED
  BY <1>1 DEF EnsureFinalNewline

LEMMA DetectIs == \A t : DetectLineEnding(t) \in LineEndings
BY DEF DetectLineEnding, LineEndings

-----------------------------------------------------------------------------
(* The halves of a text that was put together.                             *)
Halves(t, p, a, b) == SubSeq(t, 1, p) = a /\ SubSeq(t, p + 1, Len(t)) = b

LEMMA HalvesOf ==
  ASSUME NEW a \in TextsOf, NEW b \in TextsOf, NEW t, t = a \o b, NEW p, Len(a) = p
  PROVE  Halves(t, p, a, b)
<1>1. /\ a \o b \in Seq(Nat) /\ Len(a \o b) = Len(a) + Len(b)
      /\ \A i \in 1 .. Len(a) + Len(b) :
           (a \o b)[i] = IF i <= Len(a) THEN a[i] ELSE b[i - Len(a)]
  BY ConcatProperties DEF TextsOf
<1>2. p \in Nat /\ Len(b) \in Nat /\ Len(t) = p + Len(b)
  BY <1>1, TextIs
<1>3. \A i \in 1 .. Len(t) : t[i] = IF i <= p THEN a[i] ELSE b[i - p]
  BY <1>1, <1>2
<1>4. \A i \in 1 .. Len(t) : t[i] \in Nat
  BY <1>1, <1>2
<1> DEFINE x == SubSeq(t, 1, p)
           y == SubSeq(t, p + 1, Len(t))
<1>5. x \in Seq(Nat) /\ Len(x) = p /\ \A i \in 1 .. p : x[i] = t[i]
  <2>1. \A i \in 1 .. p : t[i] \in Nat
    BY <1>2, <1>4
  <2>2. /\ x \in Seq(Nat) /\ Len(x) = IF 1 <= p THEN p - 1 + 1 ELSE 0
        /\ \A i \in 1 .. p - 1 + 1 : x[i] = t[1 + i - 1]
    BY <1>2, <2>1, SubSeqProperties
  <2> HIDE DEF x
  <2> QED
    BY <1>2, <2>2
<1>6. y \in Seq(Nat) /\ Len(y) = Len(b) /\ \A i \in 1 .. Len(b) : y[i] = t[p + i]
  <2>1. \A i \in p + 1 .. Len(t) : t[i] \in Nat
    BY <1>2, <1>4
  <2>2. /\ y \in Seq(Nat)
        /\ Len(y) = IF p + 1 <= Len(t) THEN Len(t) - (p + 1) + 1 ELSE 0
        /\ \A i \in 1 .. Len(t) - (p + 1) + 1 : y[i] = t[(p + 1) + i - 1]
    BY <1>2, <2>1, SubSeqProperties
  <2>3. /\ Len(t) - (p + 1) + 1 = Len(b)
        /\ Len(b) = IF p + 1 <= Len(t) THEN Len(t) - (p + 1) + 1 ELSE 0
    BY <1>2
  <2> HIDE DEF y
  <2>4. y \in Seq(Nat) /\ Len(y) = Len(b)
    BY <2>2, <2>3, Zenon
  <2>5. ASSUME NEW i \in 1 .. Len(b) PROVE y[i] = t[p + i]
    <3>1. (p + 1) + i - 1 = p + i
      BY <1>2
    <3>2. y[i] = t[(p + 1) + i - 1]
      BY <2>2, <2>3
    <3> QED
      BY <3>1, <3>2, Zenon
  <2> QED
    BY <2>4, <2>5
<1> HIDE DEF x, y
<1>7. x = a
  <2>1. \A i \in 1 .. Len(x) : x[i] = a[i]
    BY <1>2, <1>3, <1>5
  <2> QED
    BY <1>5, <2>1, SeqEqual DEF TextsOf
<1>8. y = b
  <2>1. \A i \in 1 .. Len(y) : y[i] = b[i]
    <3> TAKE i \in 1 .. Len(y)
    <3>1. p + i \in 1 .. Len(t) /\ ~(p + i <= p) /\ (p + i) - p = i
      BY <1>2, <1>6
    <3> QED
      BY <1>3, <1>6, <3>1
  <2> QED
    BY <1>6, <2>1, SeqEqual DEF TextsOf
<1> QED
  BY <1>7, <1>8 DEF x, y, Halves

-----------------------------------------------------------------------------
(* Texts and their line ends: a character more, and what normalizing makes *)
(* of it.                                                                  *)

(* One character more.                                                     *)
EndsIn(t, c) == Len(t) > 0 /\ t[Len(t)] = c

Rewritten(t, c, ending) ==
  IF c = CR \/ (c = LF /\ ~EndsIn(t, CR)) THEN Delimiter(ending)
  ELSE IF c = LF THEN <<>> ELSE <<c>>

LEMMA LongerIs ==
  ASSUME NEW t \in TextsOf, NEW c \in Nat
  PROVE  /\ Append(t, c) \in TextsOf /\ Append(t, c) = t \o <<c>>
         /\ Len(Append(t, c)) = Len(t) + 1 /\ Append(t, c)[Len(t) + 1] = c
         /\ \A i \in 1 .. Len(t) : Append(t, c)[i] = t[i]
BY AppendProperties, AppendIsConcat DEF TextsOf

LEMMA TextInduction ==
  ASSUME NEW P, <<>> \in P, \A t \in TextsOf, c \in Nat : t \in P => Append(t, c) \in P
  PROVE  TextsOf \subseteq P
BY SequenceInduction DEF TextsOf

NormalizedParts(t, ending) ==
  [i \in DOMAIN t |-> IF i \in Breaks(t) THEN Delimiter(ending)
                      ELSE IF t[i] = LF THEN <<>> ELSE <<t[i]>>]

LEMMA NormalizedPartsAre ==
  ASSUME NEW t \in TextsOf, NEW ending \in LineEndings
  PROVE  /\ NormalizedParts(t, ending) \in Seq(TextsOf)
         /\ Len(NormalizedParts(t, ending)) = Len(t)
         /\ NormalizeLineEndings(t, ending) = FlattenSeq(NormalizedParts(t, ending))
<1> DEFINE parts == NormalizedParts(t, ending)
<1>1. Len(t) \in Nat /\ DOMAIN t = 1 .. Len(t)
  BY TextIs
<1>2. ASSUME NEW i \in 1 .. Len(t) PROVE parts[i] \in TextsOf
  <2>1. <<>> \in TextsOf /\ <<t[i]>> \in TextsOf /\ Delimiter(ending) \in TextsOf
    BY OneOf, Few, DelimiterIs
  <2> QED
    BY <1>1, <2>1 DEF NormalizedParts
<1>3. parts \in [1 .. Len(t) -> TextsOf]
  BY <1>1, <1>2 DEF NormalizedParts
<1>4. parts \in Seq(TextsOf) /\ Len(parts) = Len(t)
  BY <1>1, <1>3
<1>5. NormalizeLineEndings(t, ending) = FlattenSeq(parts)
  BY DEF NormalizeLineEndings, NormalizedParts
<1> QED
  BY <1>4, <1>5

LEMMA NormalizedNothing ==
  ASSUME NEW ending \in LineEndings PROVE NormalizeLineEndings(<<>>, ending) = <<>>
<1>1. <<>> \in TextsOf /\ Len(<<>>) = 0
  BY Few
<1>2. Len(NormalizedParts(<<>>, ending)) = 0 /\ NormalizedParts(<<>>, ending) \in Seq(TextsOf)
  BY <1>1, NormalizedPartsAre
<1>3. NormalizedParts(<<>>, ending) = <<>>
  BY <1>2, EmptySeq
<1> QED
  BY <1>1, <1>3, NormalizedPartsAre, FlattenNone

LEMMA BreaksOfLonger ==
  ASSUME NEW t \in TextsOf, NEW c \in Nat
  PROVE  /\ \A i \in 1 .. Len(t) : i \in Breaks(Append(t, c)) <=> i \in Breaks(t)
         /\ Len(t) + 1 \in Breaks(Append(t, c)) <=> c = CR \/ (c = LF /\ ~EndsIn(t, CR))
<1> DEFINE u == Append(t, c)
<1>1. /\ u \in TextsOf /\ Len(u) = Len(t) + 1 /\ u[Len(t) + 1] = c
      /\ \A i \in 1 .. Len(t) : u[i] = t[i]
  BY LongerIs
<1>2. Len(t) \in Nat /\ DOMAIN t = 1 .. Len(t) /\ DOMAIN u = 1 .. Len(u)
  BY <1>1, TextIs
<1> HIDE DEF u
<1>3. ASSUME NEW i \in 1 .. Len(t) PROVE i \in Breaks(u) <=> i \in Breaks(t)
  <2>1. u[i] = t[i] /\ (i > 1 => u[i - 1] = t[i - 1])
    BY <1>1, <1>2
  <2> QED
    BY <1>1, <1>2, <2>1 DEF Breaks
<1>4. Len(t) + 1 \in Breaks(u) <=> c = CR \/ (c = LF /\ ~EndsIn(t, CR))
  <2>1. (Len(t) + 1 > 1 /\ u[(Len(t) + 1) - 1] = CR) <=> EndsIn(t, CR)
    BY <1>1, <1>2 DEF EndsIn
  <2>2. Len(t) + 1 \in Breaks(u)
          <=> \/ c = CR
              \/ c = LF /\ ~(Len(t) + 1 > 1 /\ u[(Len(t) + 1) - 1] = CR)
    BY <1>1, <1>2 DEF Breaks
  <2> QED
    BY <2>1, <2>2
<1> QED
  BY <1>3, <1>4 DEF u

LEMMA NormalizedMore ==
  ASSUME NEW t \in TextsOf, NEW c \in Nat, NEW ending \in LineEndings
  PROVE  NormalizeLineEndings(Append(t, c), ending)
           = NormalizeLineEndings(t, ending) \o Rewritten(t, c, ending)
<1> DEFINE u == Append(t, c)
           parts == NormalizedParts(t, ending)
           more  == NormalizedParts(u, ending)
           p     == Rewritten(t, c, ending)
<1>1. /\ u \in TextsOf /\ Len(u) = Len(t) + 1 /\ u[Len(t) + 1] = c
      /\ \A i \in 1 .. Len(t) : u[i] = t[i]
  BY LongerIs
<1>2. Len(t) \in Nat /\ DOMAIN t = 1 .. Len(t) /\ DOMAIN u = 1 .. Len(u)
  BY <1>1, TextIs
<1>3. /\ parts \in Seq(TextsOf) /\ Len(parts) = Len(t)
      /\ more \in Seq(TextsOf) /\ Len(more) = Len(t) + 1
  BY <1>1, NormalizedPartsAre
<1>4. p \in TextsOf
  BY Few, DelimiterIs DEF Rewritten
<1>5. ASSUME NEW i \in 1 .. Len(t) PROVE more[i] = parts[i]
  BY <1>1, <1>2, BreaksOfLonger DEF NormalizedParts
<1>6. more[Len(t) + 1] = p
  <2>1. Len(t) + 1 \in DOMAIN u
    BY <1>1, <1>2
  <2>2. more[Len(t) + 1] = IF Len(t) + 1 \in Breaks(u) THEN Delimiter(ending)
                           ELSE IF c = LF THEN <<>> ELSE <<c>>
    BY <1>1, <2>1 DEF NormalizedParts
  <2> QED
    BY <2>2, BreaksOfLonger DEF Rewritten
<1>7. NormalizeLineEndings(u, ending) = FlattenSeq(more)
  BY <1>1, NormalizedPartsAre
<1>8. NormalizeLineEndings(t, ending) = FlattenSeq(parts)
  BY NormalizedPartsAre
<1> HIDE DEF parts, more, p, u
<1>9. more = Append(parts, p)
  <2>1. /\ Append(parts, p) \in Seq(TextsOf) /\ Len(Append(parts, p)) = Len(t) + 1
        /\ Append(parts, p)[Len(t) + 1] = p
        /\ \A i \in 1 .. Len(t) : Append(parts, p)[i] = parts[i]
    BY <1>3, <1>4, AppendProperties
  <2>2. \A i \in 1 .. Len(t) + 1 : more[i] = Append(parts, p)[i]
    BY <1>2, <1>5, <1>6, <2>1
  <2> QED
    BY <1>3, <2>1, <2>2, SeqEqual
<1>10. FlattenSeq(Append(parts, p)) = FlattenSeq(parts) \o p
  BY <1>3, <1>4, FlattenMore DEF TextsOf
<1> QED
  BY <1>7, <1>8, <1>9, <1>10 DEF u, p

LEMMA DelimitersAre ==
  ASSUME NEW t \in TextsOf
  PROVE  /\ Delimiter("crlf") = <<CR, LF>> /\ t \o <<CR, LF>> = Append(Append(t, CR), LF)
         /\ Delimiter("lf") = <<LF>> /\ t \o <<LF>> = Append(t, LF)
         /\ Delimiter("cr") = <<CR>> /\ t \o <<CR>> = Append(t, CR)
<1>1. CR \in Nat /\ LF \in Nat /\ CR # LF
  BY DEF CR, LF
<1>2. Append(t, CR) \in TextsOf /\ Append(t, CR) = t \o <<CR>> /\ Append(t, LF) = t \o <<LF>>
  BY <1>1, LongerIs
<1>3. Append(Append(t, CR), LF) = (t \o <<CR>>) \o <<LF>>
  BY <1>1, <1>2, LongerIs
<1>4. (t \o <<CR>>) \o <<LF>> = t \o (<<CR>> \o <<LF>>)
  BY <1>1, Few, ConcatAssociative DEF TextsOf
<1>5. <<CR>> \o <<LF>> = <<CR, LF>>
  <2>1. <<CR>> \in Seq(Nat) /\ <<LF>> \in Seq(Nat) /\ <<CR, LF>> \in Seq(Nat)
    BY <1>1
  <2>2. /\ <<CR>> \o <<LF>> \in Seq(Nat) /\ Len(<<CR>> \o <<LF>>) = 2
        /\ (<<CR>> \o <<LF>>)[1] = CR /\ (<<CR>> \o <<LF>>)[2] = LF
    BY <2>1, ConcatProperties
  <2>3. \A i \in 1 .. 2 : (<<CR>> \o <<LF>>)[i] = <<CR, LF>>[i]
    BY <2>2
  <2> QED
    BY <2>1, <2>2, <2>3, SeqEqual
<1> QED
  BY <1>2, <1>3, <1>4, <1>5 DEF Delimiter

LEMMA EndedBy ==
  ASSUME NEW t \in TextsOf, NEW c \in Nat
  PROVE  \A d : EndsIn(Append(t, c), d) <=> d = c
<1>1. Len(Append(t, c)) = Len(t) + 1 /\ Append(t, c)[Len(t) + 1] = c /\ Len(t) \in Nat
  BY LongerIs, TextIs
<1> QED
  BY <1>1 DEF EndsIn

LEMMA NormalizedEnd ==
  ASSUME NEW t \in TextsOf, NEW a \in LineEndings, NEW b \in LineEndings,
         a = "lf" => ~EndsIn(t, CR)
  PROVE  NormalizeLineEndings(t \o Delimiter(a), b) = NormalizeLineEndings(t, b) \o Delimiter(b)
<1>1. CR \in Nat /\ LF \in Nat /\ CR # LF
  BY DEF CR, LF
<1>2. /\ NormalizeLineEndings(t, b) \in TextsOf /\ Delimiter(b) \in TextsOf
      /\ NormalizeLineEndings(t, b) \o Delimiter(b) \in TextsOf
  BY NormalizeIs, DelimiterIs, Together
<1>3. NormalizeLineEndings(Append(t, CR), b) = NormalizeLineEndings(t, b) \o Delimiter(b)
  BY <1>1, NormalizedMore DEF Rewritten
<1>4. CASE a = "cr"
  BY <1>3, <1>4, DelimitersAre
<1>5. CASE a = "lf"
  <2>1. NormalizeLineEndings(Append(t, LF), b) = NormalizeLineEndings(t, b) \o Delimiter(b)
    BY <1>1, <1>5, NormalizedMore DEF Rewritten
  <2> QED
    BY <1>5, <2>1, DelimitersAre
<1>6. CASE a = "crlf"
  <2>1. Append(t, CR) \in TextsOf /\ EndsIn(Append(t, CR), CR)
    BY <1>1, LongerIs, EndedBy
  <2>2. NormalizeLineEndings(Append(Append(t, CR), LF), b)
          = NormalizeLineEndings(Append(t, CR), b) \o <<>>
    BY <1>1, <2>1, NormalizedMore DEF Rewritten
  <2>3. (NormalizeLineEndings(t, b) \o Delimiter(b)) \o <<>>
          = NormalizeLineEndings(t, b) \o Delimiter(b)
    BY <1>2, ConcatEmptySeq DEF TextsOf
  <2> QED
    BY <1>3, <1>6, <2>2, <2>3, DelimitersAre
<1> QED
  BY <1>4, <1>5, <1>6 DEF LineEndings

(* Line ends that were set are set again.                                  *)
LEMMA NormalizedTwice ==
  ASSUME NEW a \in LineEndings, NEW b \in LineEndings
  PROVE  \A t \in TextsOf :
           NormalizeLineEndings(NormalizeLineEndings(t, a), b) = NormalizeLineEndings(t, b)
<1> DEFINE P == {t \in TextsOf :
             /\ NormalizeLineEndings(NormalizeLineEndings(t, a), b) = NormalizeLineEndings(t, b)
             /\ a # "cr" => ~EndsIn(NormalizeLineEndings(t, a), CR)}
<1>1. <<>> \in P
  BY Few, NormalizedNothing DEF EndsIn
<1>2. ASSUME NEW t \in TextsOf, NEW c \in Nat, t \in P PROVE Append(t, c) \in P
  <2> DEFINE x == NormalizeLineEndings(t, a)
             y == NormalizeLineEndings(t, b)
             u == Append(t, c)
  <2>1. u \in TextsOf /\ x \in TextsOf /\ y \in TextsOf
    BY LongerIs, NormalizeIs
  <2>2. NormalizeLineEndings(x, b) = y /\ (a # "cr" => ~EndsIn(x, CR))
    BY <1>2
  <2>3. NormalizeLineEndings(u, a) = x \o Rewritten(t, c, a)
    BY NormalizedMore
  <2>4. NormalizeLineEndings(u, b) = y \o Rewritten(t, c, b)
    BY NormalizedMore
  <2>5. CR \in Nat /\ LF \in Nat /\ CR # LF
    BY DEF CR, LF
  <2> HIDE DEF x, y, u
  <2>6. CASE c = CR \/ (c = LF /\ ~EndsIn(t, CR))
    <3>1. Rewritten(t, c, a) = Delimiter(a) /\ Rewritten(t, c, b) = Delimiter(b)
      BY <2>6 DEF Rewritten
    <3>2. NormalizeLineEndings(x \o Delimiter(a), b) = y \o Delimiter(b)
      <4>1. a = "lf" => ~EndsIn(x, CR)
        BY <2>2
      <4> QED
        BY <2>1, <2>2, <4>1, NormalizedEnd
    <3>3. a # "cr" => ~EndsIn(x \o Delimiter(a), CR)
      <4>1. ~EndsIn(Append(x, LF), CR) /\ ~EndsIn(Append(Append(x, CR), LF), CR)
        BY <2>1, <2>5, LongerIs, EndedBy
      <4> QED
        BY <2>1, <4>1, DelimitersAre DEF LineEndings
    <3> QED
      BY <2>1, <2>3, <2>4, <3>1, <3>2, <3>3 DEF u
  <2>7. CASE c = LF /\ EndsIn(t, CR)
    <3>1. Rewritten(t, c, a) = <<>> /\ Rewritten(t, c, b) = <<>>
      BY <2>5, <2>7 DEF Rewritten
    <3>2. x \o <<>> = x /\ y \o <<>> = y
      BY <2>1, ConcatEmptySeq DEF TextsOf
    <3> QED
      BY <2>1, <2>2, <2>3, <2>4, <3>1, <3>2 DEF u
  <2>8. CASE c # CR /\ c # LF
    <3>1. Rewritten(t, c, a) = <<c>> /\ Rewritten(t, c, b) = <<c>> /\ Rewritten(x, c, b) = <<c>>
      BY <2>8 DEF Rewritten
    <3>2. x \o <<c>> = Append(x, c)
      BY <2>1, LongerIs
    <3>3. NormalizeLineEndings(Append(x, c), b) = y \o <<c>>
      BY <2>1, <2>2, <3>1, NormalizedMore
    <3>4. ~EndsIn(Append(x, c), CR)
      BY <2>1, <2>8, EndedBy
    <3> QED
      BY <2>1, <2>3, <2>4, <3>1, <3>2, <3>3, <3>4 DEF u
  <2> QED
    BY <2>6, <2>7, <2>8
<1> HIDE DEF P
<1>3. TextsOf \subseteq P
  BY <1>1, <1>2, TextInduction
<1> QED
  BY <1>3 DEF P

(* What a final line end is.                                               *)
IsEnded(t) == t = <<>> \/ t[Len(t)] \in {CR, LF}

LEMMA EndedIs ==
  ASSUME NEW t \in TextsOf
  PROVE  /\ IsEnded(<<>>)
         /\ \A c \in Nat : IsEnded(Append(t, c)) <=> c \in {CR, LF}
         /\ \A ending \in LineEndings : IsEnded(t \o Delimiter(ending))
<1>1. IsEnded(<<>>)
  BY DEF IsEnded
<1>2. ASSUME NEW s \in TextsOf, NEW c \in Nat PROVE IsEnded(Append(s, c)) <=> c \in {CR, LF}
  <2>1. /\ Len(Append(s, c)) = Len(s) + 1 /\ Append(s, c)[Len(s) + 1] = c /\ Len(s) \in Nat
        /\ Append(s, c) \in TextsOf
    BY LongerIs, TextIs
  <2>2. Append(s, c) # <<>>
    BY AppendProperties, SMTT(30) DEF TextsOf
  <2> QED
    BY <2>1, <2>2 DEF IsEnded
<1>3. ASSUME NEW ending \in LineEndings PROVE IsEnded(t \o Delimiter(ending))
  <2>1. CR \in Nat /\ LF \in Nat
    BY DEF CR, LF
  <2>2. Append(t, CR) \in TextsOf
    BY <2>1, LongerIs
  <2>3. /\ IsEnded(Append(t, CR)) /\ IsEnded(Append(t, LF))
        /\ IsEnded(Append(Append(t, CR), LF))
    BY <1>2, <2>1, <2>2
  <2> QED
    BY <2>3, DelimitersAre DEF LineEndings
<1> QED
  BY <1>1, <1>2, <1>3

LEMMA EndedStays ==
  ASSUME NEW ending \in LineEndings
  PROVE  \A t \in TextsOf : IsEnded(t) => IsEnded(NormalizeLineEndings(t, ending))
<1> DEFINE P == {t \in TextsOf : IsEnded(t) => IsEnded(NormalizeLineEndings(t, ending))}
<1>1. <<>> \in P
  BY Few, NormalizedNothing
<1>2. ASSUME NEW t \in TextsOf, NEW c \in Nat, t \in P PROVE Append(t, c) \in P
  <2> DEFINE x == NormalizeLineEndings(t, ending)
  <2>1. Append(t, c) \in TextsOf /\ x \in TextsOf
    BY LongerIs, NormalizeIs
  <2>2. NormalizeLineEndings(Append(t, c), ending) = x \o Rewritten(t, c, ending)
    BY NormalizedMore
  <2>3. IsEnded(t) => IsEnded(x)
    BY <1>2
  <2>4. IsEnded(Append(t, c)) <=> c \in {CR, LF}
    BY EndedIs
  <2> HIDE DEF x
  <2>5. CASE c = CR \/ (c = LF /\ ~EndsIn(t, CR))
    <3>1. Rewritten(t, c, ending) = Delimiter(ending)
      BY <2>5 DEF Rewritten
    <3> QED
      BY <2>1, <2>2, <3>1, EndedIs
  <2>6. CASE c = LF /\ EndsIn(t, CR)
    <3>1. Rewritten(t, c, ending) = <<>>
      BY <2>6 DEF Rewritten, CR, LF
    <3>2. IsEnded(t)
      BY <2>6 DEF EndsIn, IsEnded
    <3>3. x \o <<>> = x
      BY <2>1, ConcatEmptySeq DEF TextsOf
    <3> QED
      BY <2>1, <2>2, <2>3, <3>1, <3>2, <3>3
  <2>7. CASE c # CR /\ c # LF
    BY <2>1, <2>4, <2>7
  <2> QED
    BY <2>5, <2>6, <2>7
<1> HIDE DEF P
<1>3. TextsOf \subseteq P
  BY <1>1, <1>2, TextInduction
<1> QED
  BY <1>3 DEF P

-----------------------------------------------------------------------------
(* Lines, texts with one kind of line end, and trimmed texts.              *)

(* Texts without line ends.                                                *)
SingleLines == Seq(Nat \ {CR, LF})

LEMMA SingleLinesAre == SingleLines \subseteq TextsOf
<1>1. ASSUME NEW s \in SingleLines PROVE s \in Seq(Nat)
  BY <1>1 DEF SingleLines
<1> QED
  BY <1>1 DEF TextsOf

LEMMA NormalizedLine ==
  ASSUME NEW t \in TextsOf, NEW ending \in LineEndings
  PROVE  \A s \in SingleLines :
           NormalizeLineEndings(t \o s, ending) = NormalizeLineEndings(t, ending) \o s
<1> DEFINE x == NormalizeLineEndings(t, ending)
           P == {s \in SingleLines : NormalizeLineEndings(t \o s, ending) = x \o s}
<1>1. x \in TextsOf
  BY NormalizeIs
<1>2. <<>> \in P
  <2>1. t \o <<>> = t /\ x \o <<>> = x
    BY <1>1, ConcatEmptySeq DEF TextsOf
  <2>2. <<>> \in SingleLines
    BY DEF SingleLines
  <2> QED
    BY <2>1, <2>2
<1>3. ASSUME NEW s \in SingleLines, NEW c \in Nat \ {CR, LF}, s \in P PROVE Append(s, c) \in P
  <2>1. s \in TextsOf /\ <<c>> \in TextsOf /\ t \o s \in TextsOf /\ x \o s \in TextsOf
    BY <1>1, SingleLinesAre, Few, Together
  <2>2. Append(s, c) \in SingleLines /\ Append(s, c) = s \o <<c>>
    BY AppendProperties, AppendIsConcat DEF SingleLines
  <2>3. t \o (s \o <<c>>) = (t \o s) \o <<c>> /\ x \o (s \o <<c>>) = (x \o s) \o <<c>>
    BY <1>1, <2>1, ConcatAssociative, SMTT(30) DEF TextsOf
  <2>4. (t \o s) \o <<c>> = Append(t \o s, c)
    BY <2>1, LongerIs
  <2>5. NormalizeLineEndings(Append(t \o s, c), ending)
          = NormalizeLineEndings(t \o s, ending) \o <<c>>
    BY <2>1, NormalizedMore DEF Rewritten
  <2>6. NormalizeLineEndings(t \o s, ending) = x \o s
    BY <1>3
  <2> HIDE DEF x
  <2> QED
    BY <2>2, <2>3, <2>4, <2>5, <2>6
<1> HIDE DEF P, x
<1>4. SingleLines \subseteq P
  BY <1>2, <1>3, SequenceInduction DEF SingleLines
<1> QED
  BY <1>4 DEF P, x

LEMMA LineStays ==
  ASSUME NEW ending \in LineEndings, NEW s \in SingleLines
  PROVE  NormalizeLineEndings(s, ending) = s
<1>1. <<>> \in TextsOf /\ s \in TextsOf
  BY Few, SingleLinesAre
<1>2. <<>> \o s = s
  BY <1>1, ConcatEmptySeq DEF TextsOf
<1>3. NormalizeLineEndings(<<>> \o s, ending) = NormalizeLineEndings(<<>>, ending) \o s
  BY <1>1, NormalizedLine
<1> QED
  BY <1>2, <1>3, NormalizedNothing

(* Which of the two kinds of line end trimming sets.                       *)
Uniform(t) == IF HasPair(t) THEN "crlf" ELSE "lf"

LEMMA NoReturns == \A t \in TextsOf : ~HasPair(NormalizeLineEndings(t, "lf"))
<1> DEFINE P == {t \in TextsOf : NormalizeLineEndings(t, "lf") \in Seq(Nat \ {CR})}
<1>1. "lf" \in LineEndings /\ LF \in Nat \ {CR}
  BY DEF LineEndings, CR, LF
<1>2. <<>> \in P
  <2>1. <<>> \in TextsOf /\ <<>> \in Seq(Nat \ {CR})
    BY Few
  <2>2. NormalizeLineEndings(<<>>, "lf") = <<>>
    BY <1>1, NormalizedNothing
  <2> QED
    BY <2>1, <2>2
<1>3. ASSUME NEW t \in TextsOf, NEW c \in Nat, t \in P PROVE Append(t, c) \in P
  <2>1. Append(t, c) \in TextsOf
    BY LongerIs
  <2>2. NormalizeLineEndings(Append(t, c), "lf")
          = NormalizeLineEndings(t, "lf") \o Rewritten(t, c, "lf")
    BY <1>1, NormalizedMore
  <2>3. Delimiter("lf") = <<LF>>
    BY <2>1, DelimitersAre
  <2>4. Rewritten(t, c, "lf") \in Seq(Nat \ {CR})
    <3>1. <<>> \in Seq(Nat \ {CR}) /\ \A d \in Nat \ {CR} : <<d>> \in Seq(Nat \ {CR})
      OBVIOUS
    <3> QED
      BY <1>1, <2>3, <3>1 DEF Rewritten
  <2>5. NormalizeLineEndings(t, "lf") \in Seq(Nat \ {CR})
    BY <1>3
  <2> QED
    BY <2>1, <2>2, <2>4, <2>5, ConcatProperties
<1>4. TextsOf \subseteq P
  <2> HIDE DEF P
  <2> QED
    BY <1>2, <1>3, TextInduction
<1>5. ASSUME NEW s \in Seq(Nat \ {CR}) PROVE ~HasPair(s)
  <2>1. \A i \in DOMAIN s : s[i] # CR
    OBVIOUS
  <2> QED
    BY <2>1 DEF HasPair, IsPair
<1> QED
  BY <1>4, <1>5

LEMMA PairStays ==
  ASSUME NEW s \in TextsOf, NEW t \in TextsOf, HasPair(s)
  PROVE  HasPair(s \o t)
<1>1. PICK i \in DOMAIN s : IsPair(s, i)
  BY DEF HasPair
<1>2. /\ Len(s) \in Nat /\ Len(t) \in Nat /\ DOMAIN s = 1 .. Len(s) /\ s \o t \in TextsOf
      /\ Len(s \o t) = Len(s) + Len(t) /\ DOMAIN (s \o t) = 1 .. Len(s \o t)
  BY TextIs, Together
<1>3. \A j \in 1 .. Len(s) : (s \o t)[j] = s[j]
  BY <1>2, ConcatProperties DEF TextsOf
<1>4. i \in 1 .. Len(s) /\ i + 1 \in 1 .. Len(s) /\ s[i] = CR /\ s[i + 1] = LF
  BY <1>1, <1>2 DEF IsPair
<1>5. i \in DOMAIN (s \o t) /\ IsPair(s \o t, i)
  BY <1>2, <1>3, <1>4 DEF IsPair
<1> QED
  BY <1>5 DEF HasPair

LEMMA PairedOrLine ==
  \A t \in TextsOf : HasPair(NormalizeLineEndings(t, "crlf")) \/ t \in SingleLines
<1> DEFINE P == {t \in TextsOf : HasPair(NormalizeLineEndings(t, "crlf")) \/ t \in SingleLines}
<1>1. "crlf" \in LineEndings /\ CR \in Nat /\ LF \in Nat
  BY DEF LineEndings, CR, LF
<1>2. <<>> \in P
  BY Few DEF SingleLines
<1>3. ASSUME NEW t \in TextsOf, NEW c \in Nat, t \in P PROVE Append(t, c) \in P
  <2> DEFINE x == NormalizeLineEndings(t, "crlf")
             r == Rewritten(t, c, "crlf")
  <2>1. Append(t, c) \in TextsOf /\ x \in TextsOf /\ r \in TextsOf
    BY <1>1, LongerIs, NormalizeIs, DelimiterIs, Few DEF Rewritten
  <2>2. NormalizeLineEndings(Append(t, c), "crlf") = x \o r
    BY <1>1, NormalizedMore
  <2>3. HasPair(x) \/ t \in SingleLines
    BY <1>3
  <2>4. CASE HasPair(x)
    <3> HIDE DEF x, r
    <3>1. HasPair(x \o r)
      BY <2>1, <2>4, PairStays
    <3> QED
      BY <2>1, <2>2, <3>1
  <2>5. CASE t \in SingleLines /\ c \notin {CR, LF}
    <3>1. Append(t, c) \in SingleLines
      BY <2>5, AppendProperties DEF SingleLines
    <3> QED
      BY <2>1, <3>1
  <2>6. CASE t \in SingleLines /\ c \in {CR, LF}
    <3>1. ~EndsIn(t, CR)
      BY <2>6 DEF SingleLines, EndsIn
    <3>2. r = <<CR, LF>>
      BY <2>1, <2>6, <3>1, DelimitersAre DEF Rewritten
    <3> HIDE DEF x, r
    <3> DEFINE u == x \o r
    <3>3. /\ Len(u) = Len(x) + 2 /\ u[Len(x) + 1] = CR /\ u[Len(x) + 2] = LF
          /\ Len(x) \in Nat /\ DOMAIN u = 1 .. Len(u)
      <4>1. Len(r) = 2 /\ r[1] = CR /\ r[2] = LF
        BY <3>2
      <4>2. u \in TextsOf /\ Len(u) = Len(x) + Len(r) /\ Len(x) \in Nat
        BY <2>1, Together, TextIs
      <4>3. \A i \in 1 .. Len(x) + Len(r) : u[i] = IF i <= Len(x) THEN x[i] ELSE r[i - Len(x)]
        BY <2>1, ConcatProperties DEF TextsOf
      <4> HIDE DEF u
      <4>4. u[Len(x) + 1] = r[(Len(x) + 1) - Len(x)] /\ u[Len(x) + 2] = r[(Len(x) + 2) - Len(x)]
        BY <4>1, <4>2, <4>3
      <4>5. (Len(x) + 1) - Len(x) = 1 /\ (Len(x) + 2) - Len(x) = 2
        BY <4>2
      <4> QED
        BY <4>1, <4>2, <4>4, <4>5, TextIs
    <3> HIDE DEF u
    <3>4. Len(x) + 1 \in DOMAIN u /\ IsPair(u, Len(x) + 1)
      <4>1. (Len(x) + 1) + 1 = Len(x) + 2
        BY <3>3
      <4> QED
        BY <3>3, <4>1 DEF IsPair
    <3>5. HasPair(u)
      BY <3>4 DEF HasPair
    <3> QED
      BY <2>1, <2>2, <3>5 DEF u
  <2> QED
    BY <2>3, <2>4, <2>5, <2>6
<1> HIDE DEF P
<1>4. TextsOf \subseteq P
  BY <1>2, <1>3, TextInduction
<1> QED
  BY <1>4 DEF P

(* A text with one of these two kinds of line end stays as it is.          *)
LEMMA UniformIsOne ==
  ASSUME NEW t \in TextsOf, NEW ending \in {"crlf", "lf"}, NormalizeLineEndings(t, ending) = t
  PROVE  NormalizeLineEndings(t, Uniform(t)) = t
<1>1. CASE ending = "lf"
  <2>1. ~HasPair(t)
    BY <1>1, NoReturns
  <2> QED
    BY <1>1, <2>1 DEF Uniform
<1>2. CASE ending = "crlf" /\ HasPair(t)
  BY <1>2 DEF Uniform
<1>3. CASE ending = "crlf" /\ ~HasPair(t)
  <2>1. t \in SingleLines
    BY <1>3, PairedOrLine
  <2>2. "lf" \in LineEndings
    BY DEF LineEndings
  <2> QED
    BY <1>3, <2>1, <2>2, LineStays DEF Uniform
<1> QED
  BY <1>1, <1>2, <1>3

(* No line of the text ends with a blank.                                  *)
IsTrimmed(t) ==
  \A i \in 1 .. Len(t) : t[i] \in Blank => i < Len(t) /\ t[i + 1] \notin {CR, LF}
TrimmedTexts == {t \in TextsOf : IsTrimmed(t)}

LEMMA TrimmedBoth ==
  ASSUME NEW s \in TrimmedTexts, NEW t \in TrimmedTexts PROVE s \o t \in TrimmedTexts
<1> DEFINE u == s \o t
<1>1. /\ s \in TextsOf /\ t \in TextsOf /\ u \in TextsOf /\ Len(u) = Len(s) + Len(t)
      /\ Len(s) \in Nat /\ Len(t) \in Nat /\ IsTrimmed(s) /\ IsTrimmed(t)
  BY Together, TextIs DEF TrimmedTexts
<1>2. \A i \in 1 .. Len(s) + Len(t) : u[i] = IF i <= Len(s) THEN s[i] ELSE t[i - Len(s)]
  BY <1>1, ConcatProperties DEF TextsOf
<1> HIDE DEF u
<1>3. ASSUME NEW i \in 1 .. Len(u), u[i] \in Blank PROVE i < Len(u) /\ u[i + 1] \notin {CR, LF}
  <2>1. CASE i <= Len(s)
    <3>1. s[i] \in Blank /\ i \in 1 .. Len(s)
      BY <1>1, <1>2, <1>3, <2>1
    <3>2. i < Len(s) /\ s[i + 1] \notin {CR, LF}
      BY <1>1, <3>1 DEF IsTrimmed
    <3>3. i + 1 \in 1 .. Len(s) + Len(t) /\ i + 1 <= Len(s)
      BY <1>1, <3>2
    <3> QED
      BY <1>1, <1>2, <3>2, <3>3
  <2>2. CASE ~(i <= Len(s))
    <3> DEFINE j == i - Len(s)
    <3>1. t[j] \in Blank /\ j \in 1 .. Len(t)
      BY <1>1, <1>2, <1>3, <2>2
    <3>2. j < Len(t) /\ t[j + 1] \notin {CR, LF}
      BY <1>1, <3>1 DEF IsTrimmed
    <3>3. i + 1 \in 1 .. Len(s) + Len(t) /\ ~(i + 1 <= Len(s)) /\ (i + 1) - Len(s) = j + 1
      BY <1>1, <2>2, <3>2
    <3>4. u[i + 1] = t[j + 1]
      BY <1>2, <3>3
    <3> QED
      BY <1>1, <3>2, <3>4
  <2> QED
    BY <2>1, <2>2
<1> QED
  BY <1>1, <1>3 DEF u, IsTrimmed, TrimmedTexts

(* Texts that are closed under joining two are closed under joining many.  *)
ClosedTexts(P) == P \subseteq TextsOf /\ <<>> \in P /\ \A p, q \in P : p \o q \in P

LEMMA FlatStays ==
  ASSUME NEW P, ClosedTexts(P) PROVE \A parts \in Seq(P) : FlattenSeq(parts) \in P
<1> DEFINE T == {parts \in Seq(P) : FlattenSeq(parts) \in P}
<1>1. <<>> \in T
  BY FlattenNone DEF ClosedTexts
<1>2. ASSUME NEW parts \in Seq(P), NEW p \in P, parts \in T PROVE Append(parts, p) \in T
  <2>1. Append(parts, p) \in Seq(P)
    BY AppendProperties
  <2>2. parts \in Seq(Seq(Nat)) /\ p \in Seq(Nat)
    BY DEF ClosedTexts, TextsOf
  <2>3. FlattenSeq(Append(parts, p)) = FlattenSeq(parts) \o p
    BY <2>2, FlattenMore
  <2>4. FlattenSeq(parts) \o p \in P
    BY <1>2 DEF ClosedTexts
  <2> QED
    BY <2>1, <2>3, <2>4
<1> HIDE DEF T
<1>3. Seq(P) \subseteq T
  BY <1>1, <1>2, SequenceInduction
<1> QED
  BY <1>3 DEF T

LEMMA TrimmedIsClosed == ClosedTexts(TrimmedTexts)
<1>1. <<>> \in TrimmedTexts
  BY Few DEF TrimmedTexts, IsTrimmed
<1> QED
  BY <1>1, TrimmedBoth DEF ClosedTexts, TrimmedTexts

LEMMA TrimmedEnd == \A ending \in LineEndings : Delimiter(ending) \in TrimmedTexts
<1>1. ASSUME NEW ending \in LineEndings PROVE IsTrimmed(Delimiter(ending))
  <2>1. CR \notin Blank /\ LF \notin Blank
    BY DEF CR, LF, Blank, SPACE, TAB
  <2>2. \A i \in 1 .. Len(Delimiter(ending)) : Delimiter(ending)[i] \in {CR, LF}
    <3>1. Delimiter(ending) \in {<<CR, LF>>, <<LF>>, <<CR>>}
      BY DEF LineEndings, Delimiter
    <3>2. \A s \in {<<CR, LF>>, <<LF>>, <<CR>>} : \A i \in 1 .. Len(s) : s[i] \in {CR, LF}
      OBVIOUS
    <3> QED
      BY <3>1, <3>2
  <2> QED
    BY <2>1, <2>2 DEF IsTrimmed
<1> QED
  BY <1>1, DelimiterIs DEF TrimmedTexts

LEMMA TrimmedLine ==
  ASSUME NEW s \in SingleLines, Len(s) > 0 => s[Len(s)] \notin Blank
  PROVE  s \in TrimmedTexts
<1>1. s \in TextsOf /\ Len(s) \in Nat /\ \A i \in 1 .. Len(s) : s[i] \notin {CR, LF}
  BY SingleLinesAre, TextIs DEF SingleLines
<1>2. ASSUME NEW i \in 1 .. Len(s), s[i] \in Blank PROVE i < Len(s) /\ s[i + 1] \notin {CR, LF}
  <2>1. i < Len(s)
    BY <1>1, <1>2
  <2>2. i + 1 \in 1 .. Len(s)
    BY <1>1, <2>1
  <2> QED
    BY <1>1, <2>1, <2>2
<1> QED
  BY <1>1, <1>2 DEF IsTrimmed, TrimmedTexts

-----------------------------------------------------------------------------
(* The lines that parsing gives.                                           *)

(* The n-th line of a text: where it begins and where its characters end.  *)
LineFrom(t, n) == IF n = 1 THEN 1 ELSE Behind(t, NthBreak(t, n - 1))
LineTo(t, n) == IF n <= Cardinality(Breaks(t)) THEN NthBreak(t, n) - 1 ELSE Len(t)
IsOpen(t) == t = <<>> \/ LineFrom(t, Cardinality(Breaks(t)) + 1) <= Len(t)

LinesOf(t, lines) ==
  /\ lines.ending = Ending(t) /\ lines.terminated = ~IsOpen(t)
  /\ Len(lines.values) = IF IsOpen(t) THEN Cardinality(Breaks(t)) + 1 ELSE Cardinality(Breaks(t))
  /\ \A k \in 1 .. Len(lines.values) :
       lines.values[k] = SubSeq(t, LineFrom(t, k), LineTo(t, k))

LEMMA ParseGivesLines == ASSUME NEW t \in TextsOf PROVE LinesOf(t, ParseLines(t))
<1> DEFINE n      == Cardinality(Breaks(t))
           ends   == [k \in 1 .. n |-> NthBreak(t, k)]
           starts == [k \in 1 .. n + 1 |-> IF k = 1 THEN 1 ELSE Behind(t, ends[k - 1])]
           open   == t = <<>> \/ starts[n + 1] <= Len(t)
           N      == IF open THEN n + 1 ELSE n
           values == [k \in 1 .. N |->
                        SubSeq(t, starts[k], IF k <= n THEN ends[k] - 1 ELSE Len(t))]
<1>1. ParseLines(t) = [values |-> values, ending |-> Ending(t), terminated |-> ~open]
  BY DEF ParseLines
<1>2. n \in Nat /\ Len(t) \in Nat
  BY BreaksAre, TextIs
<1>3. ASSUME NEW k \in 1 .. n + 1 PROVE starts[k] = LineFrom(t, k)
  <2>1. CASE k = 1
    BY <2>1 DEF LineFrom
  <2>2. CASE k # 1
    <3>1. k - 1 \in 1 .. n
      BY <1>2, <2>2
    <3>2. ends[k - 1] = NthBreak(t, k - 1)
      BY <3>1
    <3> QED
      BY <2>2, <3>2 DEF LineFrom
  <2> QED
    BY <2>1, <2>2
<1>4. open <=> IsOpen(t)
  BY <1>2, <1>3 DEF IsOpen
<1>5. ASSUME NEW k \in 1 .. N PROVE values[k] = SubSeq(t, LineFrom(t, k), LineTo(t, k))
  <2>1. k \in 1 .. n + 1
    BY <1>2
  <2>2. starts[k] = LineFrom(t, k)
    BY <1>3, <2>1
  <2>3. (IF k <= n THEN ends[k] - 1 ELSE Len(t)) = LineTo(t, k)
    BY <1>2, <2>1 DEF LineTo
  <2> HIDE DEF starts, ends, n
  <2> QED
    BY <2>2, <2>3
<1>6. N \in Nat
  BY <1>2
<1>7. Len(values) = N
  <2> HIDE DEF N
  <2> QED
    BY <1>6
<1>8. N = IF IsOpen(t) THEN n + 1 ELSE n
  BY <1>4
<1>9. (~open) = (~IsOpen(t))
  BY <1>4, Zenon
<1> HIDE DEF values, N, open, starts, ends
<1> QED
  BY <1>1, <1>5, <1>7, <1>8, <1>9 DEF LinesOf

-----------------------------------------------------------------------------
(* The line ends in their order.                                           *)
RankOf(t, i) == Cardinality({j \in Breaks(t) : j <= i})

LEMMA BreakIs ==
  ASSUME NEW t \in TextsOf, NEW i \in 1 .. Len(t)
  PROVE  i \in Breaks(t) <=> t[i] = CR \/ (t[i] = LF /\ ~(i > 1 /\ t[i - 1] = CR))
BY TextIs DEF Breaks

LEMMA RankRises ==
  ASSUME NEW t \in TextsOf, NEW j \in Breaks(t)
  PROVE  /\ RankOf(t, j) \in 1 .. Cardinality(Breaks(t))
         /\ \A i \in Breaks(t) : i < j => RankOf(t, i) < RankOf(t, j)
<1>1. /\ Breaks(t) \subseteq 1 .. Len(t) /\ IsFiniteSet(Breaks(t)) /\ Len(t) \in Nat
      /\ Cardinality(Breaks(t)) \in Nat
  BY BreaksAre, TextIs
<1> DEFINE Upto(i) == {k \in Breaks(t) : k <= i}
<1>2. ASSUME NEW i \in Breaks(t)
      PROVE  /\ IsFiniteSet(Upto(i)) /\ Cardinality(Upto(i)) \in 1 .. Cardinality(Breaks(t))
             /\ i \in Upto(i)
  <2>1. Upto(i) \in SUBSET Breaks(t) /\ i \in Upto(i)
    BY <1>1
  <2>2. IsFiniteSet(Upto(i)) /\ Cardinality(Upto(i)) <= Cardinality(Breaks(t))
    BY <1>1, <2>1, FS_Subset
  <2>3. Cardinality(Upto(i)) \in Nat /\ Cardinality(Upto(i)) # 0
    BY <2>1, <2>2, FS_EmptySet, FS_CardinalityType
  <2> HIDE DEF Upto
  <2> QED
    BY <1>1, <2>1, <2>2, <2>3
<1>3. ASSUME NEW i \in Breaks(t), i < j PROVE Cardinality(Upto(i)) < Cardinality(Upto(j))
  <2>1. Upto(i) \in SUBSET Upto(j) /\ j \notin Upto(i)
    BY <1>1, <1>3
  <2>2. Cardinality(Upto(i)) <= Cardinality(Upto(j)) /\ Cardinality(Upto(i)) # Cardinality(Upto(j))
    BY <1>2, <2>1, FS_Subset
  <2>3. /\ Cardinality(Upto(i)) \in 1 .. Cardinality(Breaks(t))
        /\ Cardinality(Upto(j)) \in 1 .. Cardinality(Breaks(t))
    BY <1>2
  <2> HIDE DEF Upto
  <2> QED
    BY <1>1, <2>2, <2>3
<1> QED
  BY <1>2, <1>3 DEF RankOf

LEMMA RankOfNth ==
  ASSUME NEW t \in TextsOf, NEW n \in 1 .. Cardinality(Breaks(t))
  PROVE  NthBreak(t, n) \in Breaks(t) /\ RankOf(t, NthBreak(t, n)) = n
<1>1. Breaks(t) \in SUBSET Int /\ IsFiniteSet(Breaks(t))
  BY BreaksAre
<1>2. \E i \in Breaks(t) : Cardinality({j \in Breaks(t) : j <= i}) = n
  BY <1>1, NthIs
<1> QED
  BY <1>2 DEF NthBreak, RankOf

(* The line end before the n-th line, and that there is none inside of it. *)
EndBefore(t, n) == IF n = 1 THEN 0 ELSE NthBreak(t, n - 1)

LEMMA NoneBetween ==
  ASSUME NEW t \in TextsOf, NEW n \in 1 .. Cardinality(Breaks(t)) + 1
  PROVE  /\ EndBefore(t, n) \in 0 .. Len(t)
         /\ n <= Cardinality(Breaks(t)) =>
              NthBreak(t, n) \in 1 .. Len(t) /\ EndBefore(t, n) < NthBreak(t, n)
         /\ \A i \in Breaks(t) : EndBefore(t, n) < i =>
              n <= Cardinality(Breaks(t)) /\ NthBreak(t, n) <= i
<1> DEFINE C == Cardinality(Breaks(t))
           p == EndBefore(t, n)
<1>1. /\ C \in Nat /\ Len(t) \in Nat /\ Breaks(t) \subseteq 1 .. Len(t)
  BY BreaksAre, TextIs
<1>2. \A i \in Breaks(t) : RankOf(t, i) \in 1 .. C
  BY RankRises
<1>3. \A i, j \in Breaks(t) : i < j => RankOf(t, i) < RankOf(t, j)
  BY RankRises
<1>4. n # 1 => p \in Breaks(t) /\ RankOf(t, p) = n - 1
  <2>1. n # 1 => n - 1 \in 1 .. C
    BY <1>1
  <2> QED
    BY <2>1, RankOfNth DEF EndBefore
<1>5. n = 1 => p = 0
  BY DEF EndBefore
<1>6. n <= C => NthBreak(t, n) \in Breaks(t) /\ RankOf(t, NthBreak(t, n)) = n
  BY <1>1, RankOfNth
<1> HIDE DEF p, C
<1>7. p \in 0 .. Len(t)
  BY <1>1, <1>4, <1>5
<1>8. ASSUME n <= C PROVE NthBreak(t, n) \in 1 .. Len(t) /\ p < NthBreak(t, n)
  <2> DEFINE e == NthBreak(t, n)
  <2>1. e \in Breaks(t) /\ RankOf(t, e) = n
    BY <1>6, <1>8
  <2> HIDE DEF e
  <2>2. e \in 1 .. Len(t)
    BY <1>1, <2>1
  <2>3. CASE n = 1
    BY <1>5, <2>2, <2>3 DEF e
  <2>4. CASE n # 1
    <3>1. p \in Breaks(t) /\ RankOf(t, p) = n - 1 /\ n \in Int
      BY <1>4, <2>4
    <3>2. ~(e < p)
      BY <1>3, <2>1, <3>1
    <3>3. e # p
      BY <2>1, <3>1
    <3> QED
      BY <1>1, <2>2, <3>1, <3>2, <3>3 DEF e
  <2> QED
    BY <2>3, <2>4
<1>9. ASSUME NEW i \in Breaks(t), p < i PROVE n <= C /\ NthBreak(t, n) <= i
  <2>1. RankOf(t, i) \in 1 .. C /\ i \in 1 .. Len(t)
    BY <1>1, <1>2
  <2>2. n <= RankOf(t, i)
    <3>1. CASE n = 1
      BY <1>1, <2>1, <3>1
    <3>2. CASE n # 1
      <4>1. p \in Breaks(t) /\ RankOf(t, p) = n - 1 /\ n \in Int
        BY <1>4, <3>2
      <4>2. RankOf(t, p) < RankOf(t, i)
        BY <1>3, <1>9, <4>1
      <4> QED
        BY <1>1, <2>1, <4>1, <4>2
    <3> QED
      BY <3>1, <3>2
  <2>3. n <= C
    BY <1>1, <2>1, <2>2
  <2>4. NthBreak(t, n) \in Breaks(t) /\ RankOf(t, NthBreak(t, n)) = n
    BY <1>6, <2>3
  <2>5. ~(i < NthBreak(t, n))
    BY <1>1, <1>3, <2>1, <2>2, <2>4
  <2>6. NthBreak(t, n) \in 1 .. Len(t)
    BY <1>1, <2>4
  <2> QED
    BY <1>1, <2>1, <2>3, <2>5, <2>6
<1> QED
  BY <1>7, <1>8, <1>9 DEF p, C

(* A line has no line ends; one follows it, unless the text ends there.    *)
LineIn(t, n) ==
  /\ LineFrom(t, n) \in 1 .. Len(t) + 1
  /\ LineTo(t, n) \in LineFrom(t, n) - 1 .. Len(t)
  /\ \A i \in LineFrom(t, n) .. LineTo(t, n) : t[i] \in Nat \ {CR, LF}
  /\ n <= Cardinality(Breaks(t)) => LineTo(t, n) + 1 \in Breaks(t)

LEMMA LineIs ==
  ASSUME NEW t \in TextsOf, NEW n \in 1 .. Cardinality(Breaks(t)) + 1
  PROVE  LineIn(t, n)
<1> DEFINE C == Cardinality(Breaks(t))
           p == EndBefore(t, n)
           a == LineFrom(t, n)
           b == LineTo(t, n)
           e == NthBreak(t, n)
<1>1. /\ C \in Nat /\ Len(t) \in Nat /\ Breaks(t) \subseteq 1 .. Len(t)
      /\ \A i \in 1 .. Len(t) : t[i] \in Nat
  BY BreaksAre, TextIs
<1>2. \A i \in 1 .. Len(t) :
        i \in Breaks(t) <=> t[i] = CR \/ (t[i] = LF /\ ~(i > 1 /\ t[i - 1] = CR))
  BY BreakIs
<1>3. /\ p \in 0 .. Len(t)
      /\ n <= C => e \in 1 .. Len(t) /\ p < e
      /\ \A i \in Breaks(t) : p < i => n <= C /\ e <= i
  BY NoneBetween
<1>4. CR # LF /\ CR \in Nat /\ LF \in Nat
  BY DEF CR, LF
<1>5. b = IF n <= C THEN e - 1 ELSE Len(t)
  BY DEF LineTo
<1>6. n <= C => e \in Breaks(t)
  BY <1>1, RankOfNth
<1>7. /\ p = 0 => a = 1
      /\ p # 0 => a = IF t[p] = CR /\ p < Len(t) /\ t[p + 1] = LF THEN p + 2 ELSE p + 1
  <2>1. n = 1 => p = 0 /\ a = 1
    BY DEF EndBefore, LineFrom
  <2>2. n # 1 => p = NthBreak(t, n - 1) /\ a = Behind(t, p)
    BY DEF EndBefore, LineFrom
  <2>3. n # 1 => p # 0
    <3>1. n # 1 => n - 1 \in 1 .. C
      BY <1>1
    <3>2. n # 1 => p \in Breaks(t)
      BY <2>2, <3>1, RankOfNth
    <3> QED
      BY <1>1, <3>2
  <2> QED
    BY <2>1, <2>2, <2>3 DEF Behind, IsPair
<1> HIDE DEF C, p, a, b, e
<1>8. a \in 1 .. Len(t) + 1 /\ a > p
  BY <1>1, <1>3, <1>7
<1>9. a <= b + 1
  <2>1. CASE n <= C
    <3>1. CASE a = p + 1
      BY <1>1, <1>3, <1>5, <2>1, <3>1
    <3>2. CASE a # p + 1
      <4>1. p # 0 /\ a = p + 2 /\ t[p] = CR /\ p < Len(t) /\ t[p + 1] = LF
        BY <1>3, <1>7, <3>2
      <4>2. p + 1 \in 1 .. Len(t) /\ p + 1 > 1 /\ (p + 1) - 1 = p
        BY <1>1, <1>3, <4>1
      <4>3. p + 1 \notin Breaks(t)
        BY <1>2, <1>4, <4>1, <4>2
      <4>4. e # p + 1
        BY <1>6, <2>1, <4>3
      <4> QED
        BY <1>1, <1>3, <1>5, <2>1, <4>1, <4>4
    <3> QED
      BY <3>1, <3>2
  <2>2. CASE ~(n <= C)
    BY <1>1, <1>5, <1>8, <2>2
  <2> QED
    BY <2>1, <2>2
<1>10. b \in a - 1 .. Len(t)
  BY <1>1, <1>3, <1>5, <1>8, <1>9
<1>11. ASSUME NEW i \in p + 1 .. b PROVE i \notin Breaks(t)
  <2>1. CASE n <= C
    BY <1>1, <1>3, <1>5, <2>1
  <2>2. CASE ~(n <= C)
    BY <1>1, <1>3, <2>2
  <2> QED
    BY <2>1, <2>2
<1>12. ASSUME NEW i \in a .. b PROVE t[i] \in Nat \ {CR, LF}
  <2>1. i \in 1 .. Len(t) /\ i \in p + 1 .. b
    BY <1>1, <1>3, <1>8, <1>10
  <2>2. i \notin Breaks(t)
    BY <1>11, <2>1
  <2>3. t[i] # CR
    BY <1>2, <2>1, <2>2
  <2>4. ASSUME t[i] = LF PROVE FALSE
    <3>1. i > 1 /\ t[i - 1] = CR
      BY <1>2, <2>1, <2>2, <2>4
    <3>2. i - 1 \in 1 .. Len(t) /\ i - 1 >= p
      BY <1>1, <1>3, <2>1, <3>1
    <3>3. i - 1 \in Breaks(t)
      BY <1>2, <3>1, <3>2
    <3>4. i - 1 \notin p + 1 .. b
      BY <1>11, <3>3
    <3>5. i - 1 = p
      BY <1>1, <1>3, <1>10, <2>1, <3>2, <3>4
    <3>6. p # 0 /\ t[p] = CR /\ p < Len(t) /\ p + 1 = i
      BY <1>1, <1>3, <2>1, <3>1, <3>2, <3>5
    <3>7. a = p + 2
      BY <1>7, <2>4, <3>6
    <3> QED
      BY <1>3, <3>6, <3>7
  <2> QED
    BY <1>1, <2>1, <2>3, <2>4
<1>13. n <= C => b + 1 \in Breaks(t)
  BY <1>1, <1>3, <1>5, <1>6
<1> QED
  BY <1>8, <1>10, <1>12, <1>13 DEF LineIn, a, b, C

-----------------------------------------------------------------------------
(* The text up to a position with its line ends set.                       *)
UpTo(t, i, ending) == NormalizeLineEndings(SubSeq(t, 1, i), ending)

LEMMA UpToIs ==
  ASSUME NEW t \in TextsOf, NEW ending \in LineEndings, NEW i \in 0 .. Len(t)
  PROVE  SubSeq(t, 1, i) \in TextsOf /\ Len(SubSeq(t, 1, i)) = i
         /\ UpTo(t, i, ending) \in TextsOf
<1>1. i \in Int /\ i <= Len(t) /\ 1 \in Nat \ {0}
  BY TextIs
<1>2. SubSeq(t, 1, i) \in TextsOf /\ Len(SubSeq(t, 1, i)) = IF 1 <= i THEN i - 1 + 1 ELSE 0
  BY <1>1, TextPart
<1>3. Len(SubSeq(t, 1, i)) = i
  BY <1>1, <1>2
<1> QED
  BY <1>2, <1>3, NormalizeIs DEF UpTo

LEMMA LineAdded ==
  ASSUME NEW t \in TextsOf, NEW ending \in LineEndings,
         NEW n \in 1 .. Cardinality(Breaks(t)) + 1
  PROVE  /\ SubSeq(t, LineFrom(t, n), LineTo(t, n)) \in SingleLines
         /\ UpTo(t, LineTo(t, n), ending)
              = UpTo(t, LineFrom(t, n) - 1, ending) \o SubSeq(t, LineFrom(t, n), LineTo(t, n))
<1> DEFINE a == LineFrom(t, n)
           b == LineTo(t, n)
<1>1. /\ a \in 1 .. Len(t) + 1 /\ b \in a - 1 .. Len(t) /\ Len(t) \in Nat
      /\ \A i \in a .. b : t[i] \in Nat \ {CR, LF}
  BY LineIs, TextIs DEF LineIn
<1> HIDE DEF a, b
<1>2. SubSeq(t, a, b) \in SingleLines
  BY <1>1, SubSeqProperties DEF SingleLines
<1>3. SubSeq(t, 1, b) = SubSeq(t, 1, a - 1) \o SubSeq(t, a, b)
  <2>1. 1 \in 1 .. Len(t) + 1 /\ a - 1 \in 1 - 1 .. Len(t) /\ b \in a - 1 .. Len(t)
    BY <1>1
  <2>2. SubSeq(t, 1, a - 1) \o SubSeq(t, (a - 1) + 1, b) = SubSeq(t, 1, b)
    BY <2>1, ConcatAdjacentSubSeq DEF TextsOf
  <2>3. (a - 1) + 1 = a
    BY <1>1
  <2> QED
    BY <2>2, <2>3
<1>4. a - 1 \in 0 .. Len(t)
  BY <1>1
<1>5. SubSeq(t, 1, a - 1) \in TextsOf
  BY <1>4, UpToIs
<1>6. NormalizeLineEndings(SubSeq(t, 1, a - 1) \o SubSeq(t, a, b), ending)
        = NormalizeLineEndings(SubSeq(t, 1, a - 1), ending) \o SubSeq(t, a, b)
  BY <1>2, <1>5, NormalizedLine
<1> QED
  BY <1>2, <1>3, <1>6 DEF UpTo, a, b

LEMMA OneAdded ==
  ASSUME NEW t \in TextsOf, NEW ending \in LineEndings, NEW i \in 1 .. Len(t)
  PROVE  UpTo(t, i, ending)
           = UpTo(t, i - 1, ending) \o
               IF i \in Breaks(t) THEN Delimiter(ending) ELSE IF t[i] = LF THEN <<>> ELSE <<t[i]>>
<1> DEFINE s == SubSeq(t, 1, i - 1)
<1>1. i - 1 \in 0 .. Len(t) /\ 1 \in 1 .. Len(t) /\ i \in 1 .. Len(t) /\ t[i] \in Nat
  BY TextIs
<1>2. s \in TextsOf /\ Len(s) = i - 1
  BY <1>1, UpToIs
<1>3. SubSeq(t, 1, i) = Append(s, t[i])
  <2>1. SubSeq(t, 1, i) = s \o <<t[i]>>
    BY <1>1, SubSeqRecursiveSecond DEF TextsOf
  <2> QED
    BY <1>1, <1>2, <2>1, LongerIs
<1>4. EndsIn(s, CR) <=> i > 1 /\ t[i - 1] = CR
  <2>1. CASE i = 1
    BY <1>2, <2>1 DEF EndsIn
  <2>2. CASE i # 1
    <3>1. i - 1 \in 1 .. i - 1 /\ i - 1 > 0 /\ i > 1
      BY <1>1, <2>2
    <3>2. s[i - 1] = t[i - 1]
      BY <1>1, <2>2
    <3> QED
      BY <1>2, <3>1, <3>2 DEF EndsIn
  <2> QED
    BY <2>1, <2>2
<1>5. i \in Breaks(t) <=> t[i] = CR \/ (t[i] = LF /\ ~EndsIn(s, CR))
  BY <1>4, BreakIs
<1>6. NormalizeLineEndings(Append(s, t[i]), ending)
        = NormalizeLineEndings(s, ending) \o Rewritten(s, t[i], ending)
  BY <1>1, <1>2, NormalizedMore
<1> HIDE DEF s
<1> QED
  BY <1>3, <1>5, <1>6 DEF UpTo, Rewritten, s

LEMMA EndAdded ==
  ASSUME NEW t \in TextsOf, NEW ending \in LineEndings, NEW n \in 1 .. Cardinality(Breaks(t))
  PROVE  UpTo(t, LineFrom(t, n + 1) - 1, ending)
           = UpTo(t, LineTo(t, n), ending) \o Delimiter(ending)
<1> DEFINE e == NthBreak(t, n)
<1>1. /\ Cardinality(Breaks(t)) \in Nat /\ Len(t) \in Nat /\ Breaks(t) \subseteq 1 .. Len(t)
  BY BreaksAre, TextIs
<1>2. e \in Breaks(t) /\ e \in 1 .. Len(t)
  BY <1>1, RankOfNth
<1>3. LineTo(t, n) = e - 1 /\ LineFrom(t, n + 1) = Behind(t, e)
  <2>1. n + 1 # 1 /\ (n + 1) - 1 = n /\ n <= Cardinality(Breaks(t))
    BY <1>1
  <2> QED
    BY <2>1 DEF LineTo, LineFrom
<1> HIDE DEF e
<1>4. UpTo(t, e, ending) = UpTo(t, e - 1, ending) \o Delimiter(ending)
  BY <1>2, OneAdded
<1>5. CASE ~IsPair(t, e)
  <2>1. LineFrom(t, n + 1) - 1 = e
    BY <1>2, <1>3, <1>5 DEF Behind
  <2> QED
    BY <1>3, <1>4, <2>1
<1>6. CASE IsPair(t, e)
  <2>1. t[e] = CR /\ e < Len(t) /\ t[e + 1] = LF /\ CR # LF
    BY <1>6 DEF IsPair, CR, LF
  <2>2. e + 1 \in 1 .. Len(t) /\ e + 1 > 1 /\ (e + 1) - 1 = e
    BY <1>1, <1>2, <2>1
  <2>3. e + 1 \notin Breaks(t)
    BY <2>1, <2>2, BreakIs
  <2>4. UpTo(t, e + 1, ending) = UpTo(t, (e + 1) - 1, ending) \o <<>>
    BY <2>1, <2>2, <2>3, OneAdded
  <2>5. UpTo(t, e, ending) \o <<>> = UpTo(t, e, ending)
    <3>1. UpTo(t, e, ending) \in TextsOf
      BY <1>1, <1>2, UpToIs
    <3> QED
      BY <3>1, ConcatEmptySeq DEF TextsOf
  <2>6. LineFrom(t, n + 1) - 1 = e + 1
    BY <1>2, <1>3, <1>6 DEF Behind
  <2> QED
    BY <1>3, <1>4, <2>2, <2>4, <2>5, <2>6
<1> QED
  BY <1>5, <1>6

-----------------------------------------------------------------------------
(* Parsing, trimming and composing.                                        *)

(* What is joined: the lines, but for the first behind a line end.         *)
JoinedParts(values, separator) ==
  [k \in DOMAIN values |-> IF k = 1 THEN values[1] ELSE separator \o values[k]]

LEMMA JoinedPartsAre ==
  ASSUME NEW values \in Seq(TextsOf), NEW separator \in TextsOf
  PROVE  /\ JoinedParts(values, separator) \in Seq(Seq(Nat))
         /\ Len(JoinedParts(values, separator)) = Len(values)
<1> DEFINE parts == JoinedParts(values, separator)
<1>1. DOMAIN values = 1 .. Len(values) /\ Len(values) \in Nat
  OBVIOUS
<1>2. ASSUME NEW k \in 1 .. Len(values) PROVE parts[k] \in Seq(Nat)
  <2>1. values[k] \in TextsOf
    OBVIOUS
  <2>2. separator \o values[k] \in TextsOf
    BY <2>1, Together
  <2>3. parts[k] = IF k = 1 THEN values[k] ELSE separator \o values[k]
    BY <1>1 DEF JoinedParts
  <2> QED
    BY <2>1, <2>2, <2>3 DEF TextsOf
<1>3. parts = [k \in 1 .. Len(values) |-> parts[k]]
  BY <1>1 DEF JoinedParts
<1> HIDE DEF parts
<1>4. parts \in [1 .. Len(values) -> Seq(Nat)]
  BY <1>2, <1>3
<1> QED
  BY <1>1, <1>4 DEF parts

(* The lines of a text, joined up to the n-th, are the text up to there.   *)
LEMMA JoinedUpTo ==
  ASSUME NEW t \in TextsOf, NEW ending \in LineEndings, NEW values \in Seq(TextsOf),
         Len(values) <= Cardinality(Breaks(t)) + 1,
         \A k \in 1 .. Len(values) : values[k] = SubSeq(t, LineFrom(t, k), LineTo(t, k)),
         values # <<>>
  PROVE  Joined(values, Delimiter(ending)) = UpTo(t, LineTo(t, Len(values)), ending)
<1> DEFINE parts == JoinedParts(values, Delimiter(ending))
           C == Cardinality(Breaks(t))
           N == Len(values)
<1>1. C \in Nat /\ N \in Nat \ {0} /\ Delimiter(ending) \in TextsOf /\ DOMAIN values = 1 .. N
      /\ N <= C + 1
  BY BreaksAre, DelimiterIs, EmptySeq
<1>2. parts \in Seq(Seq(Nat)) /\ Len(parts) = N
  BY <1>1, JoinedPartsAre
<1>3. PICK f \in [0 .. Len(parts) -> Seq(Nat)] :
        Grows(f, parts) /\ FlattenSeq(parts) = f[Len(parts)]
  BY <1>2, Flattening
<1>4. f[0] = <<>> /\ \A k \in 1 .. N : f[k] = f[k - 1] \o parts[k]
  BY <1>2, <1>3 DEF Grows
<1>5. parts[1] = values[1] /\ \A k \in 2 .. N : parts[k] = Delimiter(ending) \o values[k]
  BY <1>1 DEF JoinedParts
<1>6. Joined(values, Delimiter(ending)) = FlattenSeq(parts)
  BY DEF Joined, JoinedParts
<1> HIDE DEF parts, C
<1> DEFINE T == {m \in Nat : m + 1 <= N => f[m + 1] = UpTo(t, LineTo(t, m + 1), ending)}
<1>7. 0 \in T
  <2>1. 1 \in 1 .. N /\ 1 \in 1 .. C + 1 /\ 1 - 1 = 0
    BY <1>1
  <2>2. LineFrom(t, 1) - 1 = 0
    BY DEF LineFrom
  <2>3. UpTo(t, 0, ending) = <<>>
    <3>1. 0 < 1 /\ 0 \in Int /\ 1 \in Int
      OBVIOUS
    <3>2. SubSeq(t, 1, 0) = <<>>
      BY <3>1, SubSeqEmpty
    <3> QED
      BY <3>2, NormalizedNothing DEF UpTo
  <2>4. UpTo(t, LineTo(t, 1), ending) = <<>> \o values[1]
    BY <2>1, <2>2, <2>3, LineAdded DEF C
  <2>5. f[1] = f[0] \o parts[1]
    BY <1>4, <2>1
  <2> QED
    BY <1>4, <1>5, <2>4, <2>5
<1>8. ASSUME NEW m \in Nat, m \in T PROVE m + 1 \in T
  <2> DEFINE k == m + 1
  <2> SUFFICES ASSUME k + 1 <= N PROVE f[k + 1] = UpTo(t, LineTo(t, k + 1), ending)
    OBVIOUS
  <2>1. k \in 1 .. C /\ k \in 1 .. N /\ k + 1 \in 2 .. N /\ k + 1 \in 1 .. C + 1
        /\ k + 1 \in 1 .. N /\ (k + 1) - 1 = k
    BY <1>1
  <2>2. f[k] = UpTo(t, LineTo(t, k), ending)
    BY <1>8, <2>1
  <2> HIDE DEF k
  <2>3. f[k + 1] = f[k] \o (Delimiter(ending) \o values[k + 1])
    BY <1>4, <1>5, <2>1
  <2>4. f[k] \in Seq(Nat) /\ Delimiter(ending) \in Seq(Nat) /\ values[k + 1] \in Seq(Nat)
    <3>1. k \in 0 .. Len(parts)
      BY <1>2, <2>1
    <3>2. values[k + 1] \in TextsOf
      BY <2>1
    <3> QED
      BY <1>1, <3>1, <3>2 DEF TextsOf
  <2>5. f[k] \o (Delimiter(ending) \o values[k + 1])
          = (f[k] \o Delimiter(ending)) \o values[k + 1]
    BY <2>4, Regrouped, Zenon
  <2>6. UpTo(t, LineFrom(t, k + 1) - 1, ending) = f[k] \o Delimiter(ending)
    BY <2>1, <2>2, EndAdded DEF C
  <2>7. UpTo(t, LineTo(t, k + 1), ending)
          = UpTo(t, LineFrom(t, k + 1) - 1, ending) \o values[k + 1]
    BY <2>1, LineAdded DEF C
  <2> QED
    BY <2>3, <2>5, <2>6, <2>7
<1> HIDE DEF T
<1>9. Nat \subseteq T
  BY <1>7, <1>8, Induction
<1>10. N - 1 \in Nat /\ (N - 1) + 1 = N /\ N - 1 \in T
  BY <1>1, <1>9
<1>11. f[N] = UpTo(t, LineTo(t, N), ending)
  BY <1>1, <1>10 DEF T
<1> QED
  BY <1>2, <1>3, <1>6, <1>11

(* Taking a text apart and composing it with another line end sets its     *)
(* line ends.                                                              *)
Recomposed(t, ending) ==
  Compose([values |-> ParseLines(t).values, ending |-> Delimiter(ending),
           terminated |-> ParseLines(t).terminated])

LEMMA RecomposedIs ==
  ASSUME NEW t \in TextsOf, NEW ending \in LineEndings
  PROVE  Recomposed(t, ending) = NormalizeLineEndings(t, ending)
<1> DEFINE lines == ParseLines(t)
           values == lines.values
           C == Cardinality(Breaks(t))
<1>1. IsParsed(lines) /\ LinesOf(t, lines)
  BY ParseIs, ParseGivesLines
<1> HIDE DEF lines
<1>2. /\ values \in Seq(TextsOf) /\ lines.terminated = ~IsOpen(t)
      /\ Len(values) = IF IsOpen(t) THEN C + 1 ELSE C
      /\ \A k \in 1 .. Len(values) : values[k] = SubSeq(t, LineFrom(t, k), LineTo(t, k))
  BY <1>1 DEF IsParsed, LinesOf
<1>3. C \in Nat /\ Len(t) \in Nat /\ Delimiter(ending) \in TextsOf
  BY BreaksAre, TextIs, DelimiterIs
<1>4. Recomposed(t, ending)
        = Joined(values, Delimiter(ending))
            \o IF lines.terminated /\ values # <<>> THEN Delimiter(ending) ELSE <<>>
  BY DEF Recomposed, Compose, lines
<1>5. UpTo(t, Len(t), ending) = NormalizeLineEndings(t, ending)
  BY SubSeqFull DEF UpTo, TextsOf
<1> HIDE DEF values
<1>6. ASSUME values # <<>>
      PROVE  Joined(values, Delimiter(ending)) = UpTo(t, LineTo(t, Len(values)), ending)
  <2>1. Len(values) <= Cardinality(Breaks(t)) + 1
    BY <1>2, <1>3
  <2> QED
    BY <1>2, <1>6, <2>1, JoinedUpTo
<1>7. CASE IsOpen(t)
  <2>1. Len(values) = C + 1 /\ values # <<>>
    BY <1>2, <1>3, <1>7, EmptySeq
  <2>2. LineTo(t, Len(values)) = Len(t)
    BY <1>3, <2>1 DEF LineTo
  <2>3. Joined(values, Delimiter(ending)) = NormalizeLineEndings(t, ending)
    BY <1>5, <1>6, <2>1, <2>2
  <2>4. Recomposed(t, ending) = NormalizeLineEndings(t, ending) \o <<>>
    BY <1>2, <1>4, <1>7, <2>3
  <2>5. NormalizeLineEndings(t, ending) \in Seq(Nat)
    BY NormalizeIs DEF TextsOf
  <2> QED
    BY <2>4, <2>5, ConcatEmptySeq
<1>8. CASE ~IsOpen(t)
  <2>1. t # <<>> /\ LineFrom(t, C + 1) > Len(t)
    <3>1. LineFrom(t, C + 1) \in 1 .. Len(t) + 1
      <4>1. C + 1 \in 1 .. C + 1
        BY <1>3
      <4> QED
        BY <4>1, LineIs DEF LineIn
    <3> QED
      BY <1>3, <1>8, <3>1 DEF IsOpen
  <2>2. LineFrom(t, C + 1) = Len(t) + 1
    <3>1. LineFrom(t, C + 1) \in 1 .. Len(t) + 1
      <4>1. C + 1 \in 1 .. C + 1
        BY <1>3
      <4> QED
        BY <4>1, LineIs DEF LineIn
    <3> QED
      BY <1>3, <2>1, <3>1
  <2>3. Len(t) # 0
    BY <2>1, EmptySeq
  <2>4. C # 0
    <3>1. C = 0 => LineFrom(t, C + 1) = 1
      BY DEF LineFrom
    <3> QED
      BY <1>3, <2>2, <2>3, <3>1
  <2>5. Len(values) = C /\ values # <<>> /\ C \in 1 .. C
    BY <1>2, <1>3, <1>8, <2>4, EmptySeq
  <2>6. UpTo(t, LineFrom(t, C + 1) - 1, ending) = UpTo(t, LineTo(t, C), ending) \o Delimiter(ending)
    BY <2>5, EndAdded
  <2>7. LineFrom(t, C + 1) - 1 = Len(t)
    BY <1>3, <2>2
  <2>8. Recomposed(t, ending) = Joined(values, Delimiter(ending)) \o Delimiter(ending)
    BY <1>2, <1>4, <1>8, <2>5
  <2> QED
    BY <1>5, <1>6, <2>5, <2>6, <2>7, <2>8
<1> QED
  BY <1>7, <1>8

-----------------------------------------------------------------------------
(* Trimming.                                                               *)
LEMMA LastSolidIs ==
  ASSUME NEW line \in TextsOf
  PROVE  /\ LastSolid(line) \in 0 .. Len(line)
         /\ LastSolid(line) > 0 => line[LastSolid(line)] \notin Blank
         /\ Len(line) > 0 /\ line[Len(line)] \notin Blank => LastSolid(line) = Len(line)
<1>1. Len(line) \in Nat /\ DOMAIN line = 1 .. Len(line) /\ LastSolid(line) \in 0 .. Len(line)
  BY TextIs, SolidIs
<1>2. Solid(line) \in SUBSET (1 .. Len(line))
  BY <1>1 DEF Solid
<1>3. CASE Solid(line) = {}
  <2>1. LastSolid(line) = 0
    BY <1>3 DEF LastSolid
  <2>2. \A i \in 1 .. Len(line) : line[i] \in Blank
    BY <1>1, <1>3 DEF Solid
  <2>3. Len(line) > 0 => Len(line) \in 1 .. Len(line)
    BY <1>1
  <2> QED
    BY <1>1, <2>1, <2>2, <2>3
<1>4. CASE Solid(line) # {}
  <2>1. \E i \in Solid(line) : \A j \in Solid(line) : j <= i
    <3>1. \E i \in Solid(line) : \A j \in Solid(line) : i >= j
      BY <1>1, <1>2, <1>4, Greatest
    <3> QED
      BY <1>2, <3>1
  <2>2. LastSolid(line) \in Solid(line) /\ \A j \in Solid(line) : j <= LastSolid(line)
    BY <1>4, <2>1 DEF LastSolid
  <2>3. line[LastSolid(line)] \notin Blank
    BY <2>2 DEF Solid
  <2>4. Len(line) > 0 /\ line[Len(line)] \notin Blank => Len(line) \in Solid(line)
    BY <1>1 DEF Solid
  <2> QED
    BY <1>1, <2>2, <2>3, <2>4
<1> QED
  BY <1>3, <1>4

TrimmedLineOf(line) == SubSeq(line, 1, LastSolid(line))

LEMMA TrimmedLineIs ==
  ASSUME NEW line \in SingleLines
  PROVE  TrimmedLineOf(line) \in TrimmedTexts /\ TrimmedLineOf(line) \in SingleLines
<1> DEFINE n == LastSolid(line)
           s == TrimmedLineOf(line)
<1>1. line \in TextsOf /\ Len(line) \in Nat /\ n \in 0 .. Len(line)
      /\ (n > 0 => line[n] \notin Blank)
  BY SingleLinesAre, TextIs, LastSolidIs
<1>2. \A i \in 1 .. n : line[i] \in Nat \ {CR, LF}
  BY <1>1 DEF SingleLines
<1>3. s = SubSeq(line, 1, n)
  BY DEF TrimmedLineOf
<1> HIDE DEF n, s
<1>4. s \in SingleLines /\ Len(s) = n /\ \A i \in 1 .. n : s[i] = line[i]
  <2>1. /\ s \in Seq(Nat \ {CR, LF}) /\ Len(s) = IF 1 <= n THEN n - 1 + 1 ELSE 0
        /\ \A i \in 1 .. n - 1 + 1 : s[i] = line[1 + i - 1]
    <3>1. 1 \in Int /\ n \in Int
      BY <1>1
    <3> QED
      BY <1>2, <1>3, <3>1, SubSeqProperties
  <2>2. Len(s) = n
    BY <1>1, <2>1
  <2>3. ASSUME NEW i \in 1 .. n PROVE s[i] = line[i]
    <3>1. i \in 1 .. n - 1 + 1 /\ 1 + i - 1 = i
      BY <1>1
    <3> QED
      BY <2>1, <3>1
  <2> QED
    BY <2>1, <2>2, <2>3 DEF SingleLines
<1>5. Len(s) > 0 => s[Len(s)] \notin Blank
  BY <1>1, <1>4
<1> QED
  BY <1>4, <1>5, TrimmedLine DEF s

LEMMA LinesAreSingle ==
  ASSUME NEW t \in TextsOf, NEW k \in 1 .. Len(ParseLines(t).values)
  PROVE  /\ k \in 1 .. Cardinality(Breaks(t)) + 1
         /\ ParseLines(t).values[k] = SubSeq(t, LineFrom(t, k), LineTo(t, k))
         /\ ParseLines(t).values[k] \in SingleLines
<1>1. LinesOf(t, ParseLines(t)) /\ Cardinality(Breaks(t)) \in Nat
  BY ParseGivesLines, BreaksAre
<1>2. k \in 1 .. Cardinality(Breaks(t)) + 1
  BY <1>1 DEF LinesOf
<1>3. "lf" \in LineEndings
  BY DEF LineEndings
<1>4. SubSeq(t, LineFrom(t, k), LineTo(t, k)) \in SingleLines
  BY <1>2, <1>3, LineAdded
<1> QED
  BY <1>1, <1>2, <1>4 DEF LinesOf

LEMMA ComposedStays ==
  ASSUME NEW P, ClosedTexts(P), NEW values \in Seq(P), NEW ending, Delimiter(ending) \in P,
         NEW terminated \in BOOLEAN
  PROVE  Compose([values |-> values, ending |-> Delimiter(ending), terminated |-> terminated])
           \in P
<1> DEFINE end == Delimiter(ending)
           parts == JoinedParts(values, end)
           last == IF terminated /\ values # <<>> THEN end ELSE <<>>
<1> HIDE DEF end
<1>1. DOMAIN values = 1 .. Len(values) /\ Len(values) \in Nat /\ end \in P
  BY DEF end
<1>2. ASSUME NEW k \in 1 .. Len(values) PROVE parts[k] \in P
  <2>1. values[k] \in P
    OBVIOUS
  <2>2. end \o values[k] \in P
    BY <1>1, <2>1 DEF ClosedTexts
  <2>3. parts[k] = IF k = 1 THEN values[k] ELSE end \o values[k]
    BY <1>1 DEF JoinedParts
  <2> QED
    BY <2>1, <2>2, <2>3
<1>3. parts = [k \in 1 .. Len(values) |-> parts[k]]
  BY <1>1 DEF JoinedParts
<1>4. Joined(values, end) = FlattenSeq(parts)
  BY DEF Joined, JoinedParts
<1> HIDE DEF parts
<1>5. parts \in [1 .. Len(values) -> P]
  BY <1>2, <1>3
<1>6. parts \in Seq(P)
  BY <1>1, <1>5
<1>7. Joined(values, end) \in P
  BY <1>4, <1>6, FlatStays
<1>8. last \in P
  BY <1>1 DEF ClosedTexts
<1>9. Compose([values |-> values, ending |-> Delimiter(ending), terminated |-> terminated])
        = Joined(values, end) \o last
  BY DEF Compose, end
<1> HIDE DEF last
<1> QED
  BY <1>7, <1>8, <1>9 DEF ClosedTexts

LEMMA UniformIs ==
  ASSUME NEW t \in TextsOf
  PROVE  Uniform(t) \in {"crlf", "lf"} /\ Uniform(t) \in LineEndings
         /\ Ending(t) = Delimiter(Uniform(t))
BY DelimitersAre DEF Uniform, Ending, LineEndings

(* What trimming composes.                                                 *)
TrimmedValues(t) ==
  [k \in 1 .. Len(ParseLines(t).values) |-> TrimmedLineOf(ParseLines(t).values[k])]

LEMMA TrimComposes ==
  ASSUME NEW t \in TextsOf
  PROVE  /\ ParseLines(t).terminated \in BOOLEAN /\ ParseLines(t).values \in Seq(TextsOf)
         /\ TrimTrailingWhitespace(t)
              = Compose([values |-> TrimmedValues(t), ending |-> Delimiter(Uniform(t)),
                         terminated |-> ParseLines(t).terminated])
<1> DEFINE lines == ParseLines(t)
<1>1. IsParsed(lines) /\ LinesOf(t, lines)
  BY ParseIs, ParseGivesLines
<1>2. lines.ending = Delimiter(Uniform(t))
  BY <1>1, UniformIs DEF LinesOf
<1>3. TrimTrailingWhitespace(t)
        = Compose(WithValues(lines, [k \in DOMAIN lines.values |-> TrimmedLineOf(lines.values[k])]))
  BY DEF TrimTrailingWhitespace, TrimmedLineOf
<1>4. DOMAIN lines.values = 1 .. Len(lines.values)
  BY <1>1 DEF IsParsed
<1>5. [k \in DOMAIN lines.values |-> TrimmedLineOf(lines.values[k])] = TrimmedValues(t)
  BY <1>4 DEF TrimmedValues
<1> HIDE DEF lines
<1>6. \A values : WithValues(lines, values)
                    = [values |-> values, ending |-> lines.ending, terminated |-> lines.terminated]
  BY <1>1 DEF IsParsed, WithValues
<1>7. lines.terminated \in BOOLEAN /\ lines.values \in Seq(TextsOf)
  BY <1>1 DEF IsParsed
<1> QED
  BY <1>2, <1>3, <1>5, <1>6, <1>7 DEF lines

LEMMA TrimTrims == ASSUME NEW t \in TextsOf PROVE TrimTrailingWhitespace(t) \in TrimmedTexts
<1> DEFINE N == Len(ParseLines(t).values)
<1>1. ParseLines(t).terminated \in BOOLEAN /\ N \in Nat
  <2> DEFINE values == ParseLines(t).values
  <2>1. ParseLines(t).terminated \in BOOLEAN /\ values \in Seq(TextsOf)
    BY TrimComposes
  <2> HIDE DEF values
  <2>2. Len(values) \in Nat
    BY <2>1
  <2> QED
    BY <2>1, <2>2 DEF values
<1>2. \A k \in 1 .. N : TrimmedLineOf(ParseLines(t).values[k]) \in TrimmedTexts
  BY LinesAreSingle, TrimmedLineIs
<1>3. TrimmedValues(t) \in [1 .. N -> TrimmedTexts]
  BY <1>2 DEF TrimmedValues
<1> HIDE DEF N
<1>4. TrimmedValues(t) \in Seq(TrimmedTexts)
  BY <1>1, <1>3
<1> QED
  BY <1>1, <1>4, TrimComposes, ComposedStays, TrimmedIsClosed, TrimmedEnd, UniformIs

LEMMA TrimmedLinesStay ==
  ASSUME NEW t \in TrimmedTexts, NEW k \in 1 .. Len(ParseLines(t).values)
  PROVE  /\ TrimmedLineOf(ParseLines(t).values[k]) = ParseLines(t).values[k]
         /\ ParseLines(t).values[k] \in TrimmedTexts
<1> DEFINE line == ParseLines(t).values[k]
           a == LineFrom(t, k)
           b == LineTo(t, k)
           C == Cardinality(Breaks(t))
<1>1. t \in TextsOf /\ IsTrimmed(t) /\ Len(t) \in Nat
  BY TextIs DEF TrimmedTexts
<1>2. k \in 1 .. C + 1 /\ line = SubSeq(t, a, b) /\ line \in SingleLines /\ C \in Nat
  BY <1>1, LinesAreSingle, BreaksAre
<1>3. /\ a \in 1 .. Len(t) + 1 /\ b \in a - 1 .. Len(t)
      /\ k <= C => b + 1 \in Breaks(t)
      /\ ~(k <= C) => b = Len(t)
  BY <1>1, <1>2, LineIs DEF LineIn, LineTo
<1>4. \A i \in Breaks(t) : t[i] \in {CR, LF}
  BY DEF Breaks
<1> HIDE DEF line, a, b, C
<1>5. line \in TextsOf /\ Len(line) \in Nat
  BY <1>2, SingleLinesAre, TextIs
<1>6. ASSUME Len(line) > 0 PROVE line[Len(line)] \notin Blank
  <2>1. /\ Len(line) = IF a <= b THEN b - a + 1 ELSE 0
        /\ \A i \in 1 .. b - a + 1 : line[i] = t[a + i - 1]
    <3>1. \A i \in a .. b : t[i] \in Nat
      BY <1>1, <1>3, TextIs
    <3>2. a \in Int /\ b \in Int
      BY <1>1, <1>3
    <3> QED
      BY <1>2, <3>1, <3>2, SubSeqProperties
  <2>2. a <= b /\ Len(line) = b - a + 1 /\ b - a + 1 \in 1 .. b - a + 1
        /\ a + (b - a + 1) - 1 = b /\ b \in 1 .. Len(t)
    BY <1>1, <1>3, <1>6, <2>1
  <2>3. line[Len(line)] = t[b]
    BY <2>1, <2>2
  <2>4. ASSUME t[b] \in Blank PROVE FALSE
    <3>1. b < Len(t) /\ t[b + 1] \notin {CR, LF}
      BY <1>1, <2>2, <2>4 DEF IsTrimmed
    <3> QED
      BY <1>1, <1>3, <1>4, <3>1
  <2> QED
    BY <2>3, <2>4
<1>7. LastSolid(line) = Len(line)
  <2>1. CASE Len(line) = 0
    BY <1>5, <2>1, LastSolidIs
  <2>2. CASE Len(line) > 0
    BY <1>5, <1>6, <2>2, LastSolidIs
  <2> QED
    BY <1>5, <2>1, <2>2
<1>8. TrimmedLineOf(line) = line
  BY <1>5, <1>7, SubSeqFull DEF TrimmedLineOf, TextsOf
<1> QED
  BY <1>2, <1>6, <1>8, TrimmedLine DEF line

LEMMA TrimmedStays ==
  ASSUME NEW t \in TrimmedTexts
  PROVE  /\ TrimTrailingWhitespace(t) = NormalizeLineEndings(t, Uniform(t))
         /\ \A ending \in LineEndings : NormalizeLineEndings(t, ending) \in TrimmedTexts
<1> DEFINE values == ParseLines(t).values
           N == Len(values)
<1>1. t \in TextsOf
  BY DEF TrimmedTexts
<1>2. values \in Seq(TextsOf) /\ ParseLines(t).terminated \in BOOLEAN
  BY <1>1, TrimComposes
<1>3. values = [k \in 1 .. N |-> values[k]] /\ N \in Nat
  BY <1>2
<1>4. TrimmedValues(t) = values
  BY <1>3, TrimmedLinesStay DEF TrimmedValues
<1>5. values \in Seq(TrimmedTexts)
  <2>1. \A k \in 1 .. N : values[k] \in TrimmedTexts
    BY TrimmedLinesStay
  <2> HIDE DEF values
  <2>2. values \in [1 .. N -> TrimmedTexts]
    BY <1>3, <2>1
  <2> QED
    BY <1>3, <2>2
<1>6. TrimTrailingWhitespace(t) = Recomposed(t, Uniform(t))
  BY <1>1, <1>4, TrimComposes DEF Recomposed
<1>7. ASSUME NEW ending \in LineEndings
      PROVE  NormalizeLineEndings(t, ending) \in TrimmedTexts
  <2>1. Recomposed(t, ending) \in TrimmedTexts
    BY <1>2, <1>5, ComposedStays, TrimmedIsClosed, TrimmedEnd DEF Recomposed
  <2> QED
    BY <1>1, <2>1, RecomposedIs
<1> QED
  BY <1>1, <1>6, <1>7, RecomposedIs, UniformIs

-----------------------------------------------------------------------------
(* Commands on texts that change nothing when they are repeated.           *)

(* Texts whose line ends are of one kind, and what can follow them.        *)
SettledTexts(ending) ==
  {x \in TextsOf : /\ NormalizeLineEndings(x, ending) = x
                   /\ ending = "lf" => ~EndsIn(x, CR)}

Pieces(ending) ==
  {p \in TextsOf : \A x \in SettledTexts(ending) : x \o p \in SettledTexts(ending)}

LEMMA LineIsPiece ==
  ASSUME NEW ending \in LineEndings, NEW s \in SingleLines PROVE s \in Pieces(ending)
<1>1. s \in TextsOf /\ Len(s) \in Nat /\ \A i \in 1 .. Len(s) : s[i] # CR
  BY SingleLinesAre, TextIs DEF SingleLines
<1>2. ASSUME NEW x \in SettledTexts(ending) PROVE x \o s \in SettledTexts(ending)
  <2>1. x \in TextsOf /\ Len(x) \in Nat /\ NormalizeLineEndings(x, ending) = x
    BY TextIs DEF SettledTexts
  <2>2. x \o s \in TextsOf /\ NormalizeLineEndings(x \o s, ending) = x \o s
    <3>1. x \o s \in TextsOf
      BY <1>1, <2>1, Together, Zenon
    <3>2. NormalizeLineEndings(x \o s, ending) = NormalizeLineEndings(x, ending) \o s
      BY <2>1, NormalizedLine
    <3> QED
      BY <2>1, <3>1, <3>2
  <2>3. ASSUME ending = "lf", EndsIn(x \o s, CR) PROVE FALSE
    <3> DEFINE u == x \o s
    <3>1. Len(u) = Len(x) + Len(s)
          /\ \A i \in 1 .. Len(x) + Len(s) : u[i] = IF i <= Len(x) THEN x[i] ELSE s[i - Len(x)]
      BY <1>1, <2>1, ConcatProperties DEF TextsOf
    <3>2. u # <<>> /\ u[Len(u)] = CR
      BY <2>3 DEF EndsIn
    <3> HIDE DEF u
    <3>3. u \in Seq(Nat)
      BY <2>2 DEF u, TextsOf
    <3>4. Len(u) \in 1 .. Len(x) + Len(s)
      BY <1>1, <2>1, <3>1, <3>2, <3>3, EmptySeq
    <3>5. Len(s) = 0
      BY <1>1, <2>1, <3>1, <3>2, <3>4
    <3>6. x[Len(x)] = CR /\ Len(x) > 0
      BY <1>1, <2>1, <3>1, <3>2, <3>4, <3>5
    <3>7. EndsIn(x, CR)
      BY <2>1, <3>6, EmptySeq DEF EndsIn
    <3> QED
      BY <2>3, <3>7 DEF SettledTexts
  <2> QED
    BY <2>2, <2>3 DEF SettledTexts
<1> QED
  BY <1>1, <1>2 DEF Pieces

LEMMA EndIsPiece ==
  ASSUME NEW ending \in LineEndings PROVE Delimiter(ending) \in Pieces(ending)
<1>1. ASSUME NEW x \in SettledTexts(ending) PROVE x \o Delimiter(ending) \in SettledTexts(ending)
  <2> DEFINE u == x \o Delimiter(ending)
  <2>1. /\ x \in TextsOf /\ NormalizeLineEndings(x, ending) = x
        /\ ending = "lf" => ~EndsIn(x, CR)
    BY DEF SettledTexts
  <2>2. u \in TextsOf
    BY <2>1, DelimiterIs, Together
  <2>3. NormalizeLineEndings(u, ending) = u
    BY <2>1, NormalizedEnd
  <2>4. ending = "lf" => ~EndsIn(u, CR)
    <3>1. ending = "lf" => u = Append(x, LF)
      BY <2>1, LongerIs, DelimitersAre DEF LF
    <3>2. CR \in Nat /\ LF \in Nat /\ CR # LF
      BY DEF CR, LF
    <3> QED
      BY <2>1, <3>1, <3>2, EndedBy, ZenonT(30)
  <2> QED
    BY <2>2, <2>3, <2>4 DEF SettledTexts
<1> QED
  BY <1>1, DelimiterIs DEF Pieces

LEMMA PiecesAreClosed == ASSUME NEW ending \in LineEndings PROVE ClosedTexts(Pieces(ending))
<1>1. <<>> \in Pieces(ending)
  <2>1. <<>> \in SingleLines
    BY DEF SingleLines
  <2> QED
    BY <2>1, LineIsPiece
<1>2. ASSUME NEW p \in Pieces(ending), NEW q \in Pieces(ending) PROVE p \o q \in Pieces(ending)
  <2>1. p \in TextsOf /\ q \in TextsOf /\ p \o q \in TextsOf
    BY Together DEF Pieces
  <2>2. ASSUME NEW x \in SettledTexts(ending) PROVE x \o (p \o q) \in SettledTexts(ending)
    <3>1. x \in TextsOf
      BY DEF SettledTexts
    <3>2. x \o (p \o q) = (x \o p) \o q
      BY <2>1, <3>1, Regrouped, Zenon DEF TextsOf
    <3>3. (x \o p) \o q \in SettledTexts(ending)
      BY DEF Pieces
    <3> QED
      BY <3>2, <3>3
  <2> QED
    BY <2>1, <2>2 DEF Pieces
<1> QED
  BY <1>1, <1>2 DEF ClosedTexts, Pieces

LEMMA PiecesSettle ==
  ASSUME NEW ending \in LineEndings PROVE Pieces(ending) \subseteq SettledTexts(ending)
<1>1. <<>> \in SettledTexts(ending)
  BY Few, NormalizedNothing DEF SettledTexts, EndsIn
<1>2. ASSUME NEW p \in Pieces(ending) PROVE p \in SettledTexts(ending)
  <2>1. <<>> \o p \in SettledTexts(ending) /\ p \in Seq(Nat)
    BY <1>1 DEF Pieces, TextsOf
  <2>2. <<>> \o p = p
    BY <2>1, ConcatEmptySeq
  <2> QED
    BY <2>1, <2>2
<1> QED
  BY <1>2

(* editing.cpp:84: trimming a second time changes nothing, whatever        *)
(* line ends the text has and whether the last line has one.               *)
THEOREM TrimSettles ==
  \A t \in TextsOf : TrimTrailingWhitespace(TrimTrailingWhitespace(t)) = TrimTrailingWhitespace(t)
<1> TAKE t \in TextsOf
<1> DEFINE s == TrimTrailingWhitespace(t)
           N == Len(ParseLines(t).values)
<1>1. Uniform(t) \in {"crlf", "lf"} /\ Uniform(t) \in LineEndings
  BY UniformIs
<1>2. /\ ParseLines(t).terminated \in BOOLEAN
      /\ s = Compose([values |-> TrimmedValues(t), ending |-> Delimiter(Uniform(t)),
                      terminated |-> ParseLines(t).terminated])
      /\ ParseLines(t).values \in Seq(TextsOf)
  BY TrimComposes
<1>3. N \in Nat
  <2> DEFINE values == ParseLines(t).values
  <2>1. values \in Seq(TextsOf)
    BY <1>2
  <2> HIDE DEF values
  <2>2. Len(values) \in Nat
    BY <2>1
  <2> QED
    BY <2>2 DEF values
<1>4. \A k \in 1 .. N : TrimmedLineOf(ParseLines(t).values[k]) \in Pieces(Uniform(t))
  BY <1>1, LinesAreSingle, TrimmedLineIs, LineIsPiece
<1>5. TrimmedValues(t) \in [1 .. N -> Pieces(Uniform(t))]
  BY <1>4 DEF TrimmedValues
<1>6. TrimmedValues(t) \in Seq(Pieces(Uniform(t)))
  <2> HIDE DEF N
  <2> QED
    BY <1>3, <1>5
<1>7. s \in SettledTexts(Uniform(t))
  <2>1. ClosedTexts(Pieces(Uniform(t))) /\ Delimiter(Uniform(t)) \in Pieces(Uniform(t))
    BY <1>1, PiecesAreClosed, EndIsPiece
  <2>2. s \in Pieces(Uniform(t))
    BY <1>2, <1>6, <2>1, ComposedStays
  <2> QED
    BY <1>1, <2>2, PiecesSettle
<1>8. s \in TrimmedTexts
  BY TrimTrims
<1> HIDE DEF s
<1>9. TrimTrailingWhitespace(s) = NormalizeLineEndings(s, Uniform(s))
  BY <1>8, TrimmedStays
<1>10. NormalizeLineEndings(s, Uniform(s)) = s
  BY <1>1, <1>7, UniformIsOne DEF SettledTexts
<1> QED
  BY <1>9, <1>10 DEF s

(* editing.cpp:16, 35: a text that is taken apart into its lines and       *)
(* composed again differs from it only in the kind of its line ends, and   *)
(* its lines are as many as the status bar counts.                         *)
THEOREM ParsedIsComposed ==
  \A t \in TextsOf :
    /\ Compose(ParseLines(t)) = NormalizeLineEndings(t, Uniform(t))
    /\ CountLines(t) = Len(ParseLines(t).values) + IF ParseLines(t).terminated THEN 1 ELSE 0
<1> TAKE t \in TextsOf
<1> DEFINE lines == ParseLines(t)
<1>1. IsParsed(lines) /\ LinesOf(t, lines) /\ Cardinality(Breaks(t)) \in Nat
  BY ParseIs, ParseGivesLines, BreaksAre
<1>2. lines = [values |-> lines.values, ending |-> Delimiter(Uniform(t)),
               terminated |-> lines.terminated]
  <2>1. lines.ending = Delimiter(Uniform(t))
    BY <1>1, UniformIs DEF LinesOf
  <2> HIDE DEF lines
  <2> QED
    BY <1>1, <2>1 DEF IsParsed
<1>3. Compose(lines) = Recomposed(t, Uniform(t))
  <2>1. Compose(lines) = Compose([values |-> lines.values, ending |-> Delimiter(Uniform(t)),
                                  terminated |-> lines.terminated])
    BY <1>2
  <2> QED
    BY <2>1 DEF Recomposed
<1>4. CountLines(t) = Len(lines.values) + IF lines.terminated THEN 1 ELSE 0
  <2> HIDE DEF lines
  <2> DEFINE C == Cardinality(Breaks(t))
  <2>1. /\ C \in Nat /\ lines.terminated = ~IsOpen(t)
        /\ Len(lines.values) = IF IsOpen(t) THEN C + 1 ELSE C
    BY <1>1 DEF LinesOf
  <2>2. CountLines(t) = C + 1
    BY DEF CountLines
  <2> HIDE DEF C
  <2>3. CASE IsOpen(t)
    <3>1. lines.terminated = FALSE /\ Len(lines.values) = C + 1
      BY <2>1, <2>3, Zenon
    <3> QED
      BY <2>1, <2>2, <3>1
  <2>4. CASE ~IsOpen(t)
    <3>1. lines.terminated = TRUE /\ Len(lines.values) = C
      BY <2>1, <2>4, Zenon
    <3> QED
      BY <2>1, <2>2, <3>1
  <2> QED
    BY <2>3, <2>4
<1> QED
  BY <1>3, <1>4, RecomposedIs, UniformIs

(* text.cpp:12: setting the line ends forgets which they were: setting     *)
(* them twice is setting them as the second time.                          *)
THEOREM LineEndsAreForgotten ==
  \A t \in TextsOf, a, b \in LineEndings :
    NormalizeLineEndings(NormalizeLineEndings(t, a), b) = NormalizeLineEndings(t, b)
BY NormalizedTwice
(* Changing the case of a character changes nothing else about it.         *)
SameKind(d, c) ==
  /\ (IsSpace(d) <=> IsSpace(c)) /\ (IsPunct(d) <=> IsPunct(c)) /\ (IsAlpha(d) <=> IsAlpha(c))
  /\ d \in {46, 33, 63} <=> c \in {46, 33, 63}

LEMMA CaseOnly ==
  ASSUME NEW c \in Nat, NEW d \in {Upper(c), Lower(c)}
  PROVE  SameKind(d, c) /\ Upper(Upper(c)) = Upper(c) /\ Lower(Lower(c)) = Lower(c)
BY DEF SameKind, Upper, Lower, IsSpace, IsPunct, IsAlpha, IsUpper, IsLower, IsDigit,
       TAB, LF, CR, SPACE

(* editing.cpp:163: what is in upper, lower, title or sentence case stays  *)
(* as it is, and as long, when it is put in that case again.               *)
THEOREM CaseSettles ==
  \A t \in TextsOf : \A letterCase :
    /\ Len(ConvertCase(t, letterCase)) = Len(t)
    /\ ConvertCase(ConvertCase(t, letterCase), letterCase) = ConvertCase(t, letterCase)
<1> TAKE t \in TextsOf
<1> TAKE letterCase
<1> DEFINE isRaised(s, i) ==
             \/ letterCase = "upper"
             \/ letterCase = "title" /\ (i = 1 \/ IsSpace(s[i - 1]) \/ IsPunct(s[i - 1]))
             \/ letterCase = "sentence" /\ \A j \in 1 .. i - 1 :
                  IsAlpha(s[j]) => \E k \in j + 1 .. i - 1 : s[k] \in {46, 33, 63}
           inCase(s) == [i \in DOMAIN s |-> IF isRaised(s, i) THEN Upper(s[i]) ELSE Lower(s[i])]
           u == inCase(t)
<1>1. \A s : ConvertCase(s, letterCase) = inCase(s)
  BY DEF ConvertCase
<1>2. DOMAIN t = 1 .. Len(t) /\ Len(t) \in Nat /\ \A i \in 1 .. Len(t) : t[i] \in Nat
  BY TextIs DEF TextsOf
<1>3. \A i \in 1 .. Len(t) : u[i] = IF isRaised(t, i) THEN Upper(t[i]) ELSE Lower(t[i])
  BY <1>2
<1>4. DOMAIN u = 1 .. Len(t)
  BY <1>2
<1> HIDE DEF u
<1>5. ASSUME NEW i \in 1 .. Len(t) PROVE SameKind(u[i], t[i])
  <2>1. u[i] \in {Upper(t[i]), Lower(t[i])} /\ t[i] \in Nat
    BY <1>2, <1>3
  <2> QED
    BY <2>1, CaseOnly
<1>6. ASSUME NEW i \in 1 .. Len(t) PROVE isRaised(u, i) <=> isRaised(t, i)
  <2>1. \A j \in 1 .. i - 1 : SameKind(u[j], t[j])
    BY <1>2, <1>5
  <2>2. i # 1 => i - 1 \in 1 .. i - 1
    BY <1>2
  <2>3. i # 1 => ((IsSpace(u[i - 1]) \/ IsPunct(u[i - 1]))
                    <=> (IsSpace(t[i - 1]) \/ IsPunct(t[i - 1])))
    BY <2>1, <2>2 DEF SameKind
  <2>4. ASSUME NEW j \in 1 .. i - 1
        PROVE  (IsAlpha(u[j]) <=> IsAlpha(t[j]))
               /\ ((\E k \in j + 1 .. i - 1 : u[k] \in {46, 33, 63})
                     <=> (\E k \in j + 1 .. i - 1 : t[k] \in {46, 33, 63}))
    <3>1. \A k \in j + 1 .. i - 1 : k \in 1 .. i - 1
      BY <1>2
    <3> QED
      BY <2>1, <3>1 DEF SameKind
  <2> QED
    BY <2>3, <2>4
<1>7. ASSUME NEW i \in 1 .. Len(t)
      PROVE  u[i] = IF isRaised(u, i) THEN Upper(u[i]) ELSE Lower(u[i])
  <2> HIDE DEF isRaised
  <2>1. Upper(Upper(t[i])) = Upper(t[i]) /\ Lower(Lower(t[i])) = Lower(t[i])
    BY <1>2, CaseOnly
  <2> QED
    BY <1>3, <1>6, <2>1
<1>8. Len(u) = Len(t)
  BY <1>2 DEF u
<1>9. inCase(u) = u
  <2>1. u = [i \in 1 .. Len(t) |-> u[i]]
    BY <1>2 DEF u
  <2> HIDE DEF isRaised
  <2> QED
    BY <1>4, <1>7, <2>1
<1>10. ConvertCase(t, letterCase) = u
  BY <1>1 DEF u
<1> HIDE DEF inCase
<1> QED
  BY <1>1, <1>8, <1>9, <1>10
=============================================================================
