---------------------------- MODULE SequenceLemmas ----------------------------
(***************************************************************************)
(* Facts about numbers and sequences that the proofs of several components *)
(* need: the least position that matches, a sequence without one, induction *)
(* over the naturals with a set for the property, and functions defined by *)
(* recursion over the naturals.                                            *)
(***************************************************************************)
EXTENDS Naturals, SequencesExt, SequenceTheorems, WellFoundedInduction, TLAPS

\* A set of naturals that is not empty has a least element, and Min is it.
LEMMA MinOfNats ==
    ASSUME NEW T \in SUBSET Nat, T # {}
    PROVE  Min(T) \in T /\ \A y \in T : Min(T) <= y
<1>1. IsWellFoundedOn(OpToRel(<, Nat), Nat)
  BY NatLessThanWellFounded
<1>2. PICK x \in T : \A y \in T : ~(<< y, x >> \in OpToRel(<, Nat))
  BY <1>1, WFMin, Zenon
<1>3. \A y \in T : x <= y
  <2>1. SUFFICES ASSUME NEW y \in T PROVE ~(y < x)
    BY SMT
  <2>2. ~(<< y, x >> \in OpToRel(<, Nat))
    BY <1>2
  <2> QED BY <2>2 DEF OpToRel
<1> QED BY <1>3 DEF Min

\* A set of naturals with an upper bound has a greatest element, Max.
LEMMA MaxOfNats ==
    ASSUME NEW n \in Nat, NEW T \in SUBSET (1..n), T # {}
    PROVE  Max(T) \in T /\ \A y \in T : Max(T) >= y
<1> DEFINE R == {n - i : i \in T}
<1>1. R \in SUBSET Nat
  <2>1. \A i \in T : i \in Int /\ i <= n
    OBVIOUS
  <2>2. \A i \in T : n - i \in Nat
    BY <2>1, SMT
  <2> QED BY <2>2
<1>2. R # {}
  OBVIOUS
<1>3. Min(R) \in R /\ \A y \in R : Min(R) <= y
  BY <1>1, <1>2, MinOfNats, Zenon
<1>4. PICK m \in T : Min(R) = n - m
  BY <1>3
<1>5. ASSUME NEW y \in T PROVE m >= y
  <2>1. n - y \in R
    OBVIOUS
  <2>2. n - m <= n - y
    BY <2>1, <1>3, <1>4, Zenon
  <2>3. m \in Int /\ y \in Int
    OBVIOUS
  <2> QED BY <2>2, <2>3, SMT
<1> HIDE DEF R
<1> QED BY <1>5 DEF Max
-----------------------------------------------------------------------------
(***************************************************************************)
(* The search of index(where:).                                            *)
(***************************************************************************)
\* If some position matches, SelectInSeq returns one that does.
LEMMA SelectInSeqFinds ==
    ASSUME NEW S, NEW s \in Seq(S), NEW e, \E i \in DOMAIN s : s[i] = e
    PROVE  /\ SelectInSeq(s, LAMBDA x : x = e) \in 1..Len(s)
           /\ s[SelectInSeq(s, LAMBDA x : x = e)] = e
<1> DEFINE I == {i \in 1..Len(s) : s[i] = e}
<1>1. DOMAIN s = 1..Len(s) /\ Len(s) \in Nat
  BY LenProperties
<1>2. I \in SUBSET Nat /\ I # {}
  BY <1>1
<1>3. Min(I) \in I
  BY <1>2, MinOfNats, Zenon
<1>4. SelectInSeq(s, LAMBDA x : x = e) = Min(I)
  BY <1>2 DEF SelectInSeq
<1> QED BY <1>3, <1>4

-----------------------------------------------------------------------------
(***************************************************************************)
(* A sequence without one of its elements.                                 *)
(***************************************************************************)
LEMMA RemoveAtShifts ==
    ASSUME NEW S, NEW s \in Seq(S), NEW i \in 1..Len(s)
    PROVE  /\ RemoveAt(s, i) \in Seq(S)
           /\ Len(RemoveAt(s, i)) = Len(s) - 1
           /\ \A k \in 1..(Len(s) - 1) :
                 RemoveAt(s, i)[k] = IF k < i THEN s[k] ELSE s[k + 1]
<1> DEFINE front == SubSeq(s, 1, i - 1)
           back  == SubSeq(s, i + 1, Len(s))
<1>1. Len(s) \in Nat /\ i \in Int /\ 1 <= i /\ i <= Len(s)
  BY LenProperties
<1>2. \A k \in 1..Len(s) : s[k] \in S
  BY ElementOfSeq
<1>3. /\ front \in Seq(S)
      /\ Len(front) = i - 1
      /\ \A k \in 1..(i - 1) : front[k] = s[k]
  <2>1. \A k \in 1..(i - 1) : s[k] \in S
    BY <1>1, <1>2
  <2> QED BY <1>1, <2>1, SubSeqProperties
<1>4. /\ back \in Seq(S)
      /\ Len(back) = Len(s) - i
      /\ \A k \in 1..(Len(s) - i) : back[k] = s[k + i]
  <2>1. \A k \in (i + 1)..Len(s) : s[k] \in S
    BY <1>1, <1>2
  <2>2. /\ back \in Seq(S)
        /\ Len(back) = IF i + 1 <= Len(s) THEN Len(s) - (i + 1) + 1 ELSE 0
        /\ \A k \in 1..(Len(s) - (i + 1) + 1) : back[k] = s[(i + 1) + k - 1]
    BY <1>1, <2>1, SubSeqProperties
  <2> QED BY <1>1, <2>2
<1> HIDE DEF front, back
<1>5. /\ front \o back \in Seq(S)
      /\ Len(front \o back) = Len(s) - 1
      /\ \A k \in 1..(Len(s) - 1) :
            (front \o back)[k] = IF k <= i - 1 THEN front[k] ELSE back[k - (i - 1)]
  <2>1. /\ front \o back \in Seq(S)
        /\ Len(front \o back) = Len(front) + Len(back)
        /\ \A k \in 1..(Len(front) + Len(back)) :
              (front \o back)[k] = IF k <= Len(front) THEN front[k] ELSE back[k - Len(front)]
    BY <1>3, <1>4, ConcatProperties, Zenon
  <2>2. Len(front) + Len(back) = Len(s) - 1
    BY <1>1, <1>3, <1>4
  <2> QED BY <1>3, <2>1, <2>2
<1>6. ASSUME NEW k \in 1..(Len(s) - 1)
      PROVE  (front \o back)[k] = IF k < i THEN s[k] ELSE s[k + 1]
  <2>1. CASE k < i
    BY <1>1, <1>3, <1>5, <2>1
  <2>2. CASE ~(k < i)
    <3>1. (front \o back)[k] = back[k - (i - 1)]
      <4>1. ~(k <= i - 1)
        BY <1>1, <2>2
      <4> QED BY <1>5, <4>1
    <3>2. k - (i - 1) \in 1..(Len(s) - i) /\ (k - (i - 1)) + i = k + 1
      BY <1>1, <2>2
    <3> QED BY <1>4, <2>2, <3>1, <3>2
  <2> QED BY <2>1, <2>2
<1>7. RemoveAt(s, i) = front \o back
  BY DEF RemoveAt, front, back
<1> QED BY <1>1, <1>5, <1>6, <1>7

\* Taking one out of elements that all differ leaves elements that all differ.
LEMMA RemoveAtIsInjective ==
    ASSUME NEW S, NEW s \in Seq(S), NEW i \in 1..Len(s), IsInjective(s)
    PROVE  IsInjective(RemoveAt(s, i))
<1> DEFINE rest == RemoveAt(s, i)
           from(k) == IF k < i THEN k ELSE k + 1
<1>1. Len(s) \in Nat /\ DOMAIN s = 1..Len(s)
  BY LenProperties
<1>2. /\ rest \in Seq(S)
      /\ Len(rest) = Len(s) - 1
      /\ \A k \in 1..(Len(s) - 1) : rest[k] = IF k < i THEN s[k] ELSE s[k + 1]
  BY RemoveAtShifts
<1> HIDE DEF rest
<1>3. DOMAIN rest = 1..(Len(s) - 1)
  BY <1>2, LenProperties
<1>4. \A k \in DOMAIN rest : from(k) \in DOMAIN s /\ rest[k] = s[from(k)]
  BY <1>1, <1>2, <1>3
<1>5. \A k, l \in DOMAIN rest : k # l => from(k) # from(l)
  BY <1>1, <1>3
<1> HIDE DEF from
<1>6. IsInjective(rest)
  BY <1>4, <1>5, Zenon DEF IsInjective
<1> QED BY <1>6 DEF rest

\* A sequence keeps its elements apart when one that is new joins it.
LEMMA AppendIsInjective ==
    ASSUME NEW S, NEW s \in Seq(S), NEW e \in S, IsInjective(s),
           \A i \in DOMAIN s : s[i] # e
    PROVE  IsInjective(Append(s, e))
<1> DEFINE new == Append(s, e)
<1>1. Len(s) \in Nat /\ DOMAIN s = 1..Len(s)
  BY LenProperties
<1>2. /\ new \in Seq(S)
      /\ Len(new) = Len(s) + 1
      /\ \A k \in 1..Len(s) : new[k] = s[k]
      /\ new[Len(s) + 1] = e
  BY AppendProperties
<1> HIDE DEF new
<1>3. DOMAIN new = 1..(Len(s) + 1)
  BY <1>2, LenProperties
<1>4. ASSUME NEW k \in DOMAIN new, NEW l \in DOMAIN new, new[k] = new[l]
      PROVE  k = l
  <2>1. CASE k = Len(s) + 1 /\ l = Len(s) + 1
    BY <2>1
  <2>2. CASE k \in 1..Len(s) /\ l \in 1..Len(s)
    BY <1>1, <1>2, <1>4, <2>2 DEF IsInjective
  <2>3. CASE k \in 1..Len(s) /\ l = Len(s) + 1
    BY <1>1, <1>2, <1>4, <2>3
  <2>4. CASE k = Len(s) + 1 /\ l \in 1..Len(s)
    BY <1>1, <1>2, <1>4, <2>4
  <2> QED BY <1>1, <1>3, <2>1, <2>2, <2>3, <2>4
<1>5. IsInjective(new)
  BY <1>4 DEF IsInjective
<1> QED BY <1>5 DEF new

\* A set of naturals with 0 and, with each number, the next one is all of them.
LEMMA InductionOnNat ==
    ASSUME NEW P \in SUBSET Nat, 0 \in P, \A n \in P : n + 1 \in P
    PROVE  P = Nat
<1>1. SUFFICES ASSUME Nat \ P # {} PROVE FALSE
  OBVIOUS
<1> DEFINE m == Min(Nat \ P)
<1>2. m \in Nat \ P /\ \A y \in Nat \ P : m <= y
  BY <1>1, MinOfNats
<1> HIDE DEF m
<1>3. m - 1 \in Nat
  BY <1>2
<1>4. m - 1 \in P
  BY <1>2, <1>3
<1>5. (m - 1) + 1 \in P
  BY <1>4
<1> QED BY <1>2, <1>5

\* A function of the numbers is defined by its first value and what follows each.
LEMMA RecursionOnNat ==
    ASSUME NEW S, NEW first \in S, NEW step \in [S -> S]
    PROVE  \E f \in [Nat -> S] :
              f[0] = first /\ \A n \in Nat : f[n + 1] = step[f[n]]
<1> DEFINE Part(g, n) ==
             /\ g \in [0..n -> S]
             /\ g[0] = first
             /\ \A i \in 0..(n - 1) : g[i + 1] = step[g[i]]
           P == {n \in Nat : \E g \in [0..n -> S] : Part(g, n)}
<1>1. 0 \in P
  <2>1. [i \in 0..0 |-> first] \in [0..0 -> S]
    OBVIOUS
  <2>2. Part([i \in 0..0 |-> first], 0)
    BY <2>1
  <2> QED BY <2>1, <2>2
<1>2. ASSUME NEW n \in P PROVE n + 1 \in P
  <2>1. PICK g \in [0..n -> S] : Part(g, n)
    BY <1>2
  <2> DEFINE h == [i \in 0..(n + 1) |-> IF i = n + 1 THEN step[g[n]] ELSE g[i]]
  <2>2. h \in [0..(n + 1) -> S]
    OBVIOUS
  <2>3. h[0] = first
    BY <2>1
  <2>4. \A i \in 0..((n + 1) - 1) : h[i + 1] = step[h[i]]
    BY <2>1
  <2> HIDE DEF h
  <2>5. Part(h, n + 1)
    BY <2>2, <2>3, <2>4
  <2>6. n + 1 \in Nat
    BY <1>2
  <2> HIDE DEF Part
  <2> QED BY <2>2, <2>5, <2>6
<1>3. \A n \in Nat : \E g \in [0..n -> S] : Part(g, n)
  <2> HIDE DEF Part
  <2>1. P = Nat
    BY <1>1, <1>2, InductionOnNat
  <2> QED BY <2>1
<1>4. ASSUME NEW m \in Nat, NEW n \in Nat, NEW g, NEW h, Part(g, m), Part(h, n)
      PROVE  \A i \in Nat : i <= m /\ i <= n => g[i] = h[i]
  <2> DEFINE Q == {i \in Nat : i <= m /\ i <= n => g[i] = h[i]}
  <2>1. 0 \in Q
    BY <1>4
  <2>2. ASSUME NEW i \in Q PROVE i + 1 \in Q
    BY <1>4, <2>2
  <2> HIDE DEF Part
  <2>3. Q = Nat
    BY <2>1, <2>2, InductionOnNat
  <2> QED BY <2>3
<1> DEFINE piece == [n \in Nat |-> CHOOSE g \in [0..n -> S] : Part(g, n)]
           f == [n \in Nat |-> piece[n][n]]
<1>5. \A n \in Nat : Part(piece[n], n)
  <2> HIDE DEF Part
  <2> QED BY <1>3
<1>6. \A n \in Nat : piece[n] \in [0..n -> S]
  BY <1>5
<1> HIDE DEF piece
<1>7. f \in [Nat -> S]
  BY <1>6
<1>8. f[0] = first
  BY <1>5
<1>9. ASSUME NEW n \in Nat PROVE f[n + 1] = step[f[n]]
  <2>1. piece[n + 1][n] = piece[n][n]
    <3>1. Part(piece[n + 1], n + 1) /\ Part(piece[n], n)
      BY <1>5
    <3> HIDE DEF Part
    <3>2. \A i \in Nat : i <= n + 1 /\ i <= n => piece[n + 1][i] = piece[n][i]
      BY <1>4, <3>1
    <3> QED BY <3>2
  <2>2. piece[n + 1][n + 1] = step[piece[n + 1][n]]
    BY <1>5
  <2> QED BY <2>1, <2>2
<1> QED BY <1>7, <1>8, <1>9

\* What it says of f, as one fact.
Recursive(f, S, first, step) ==
    f \in [Nat -> S] /\ f[0] = first /\ \A n \in Nat : f[n + 1] = step[f[n]]

\* There is a function that goes on by a step.
LEMMA RecursiveExists ==
    ASSUME NEW S, NEW first, NEW step, first \in S, step \in [S -> S]
    PROVE  \E f : Recursive(f, S, first, step)
BY RecursionOnNat DEF Recursive

\* How a loop over the numbers up to N stands after each of its rounds.
Loop(g, S, N, first, step) ==
    /\ g \in [0..N -> S]
    /\ g[0] = first
    /\ \A i \in 1..N : g[i] = step[<< g[i - 1], i >>]

\* A loop over the numbers up to N has an outcome.
LEMMA LoopExists ==
    ASSUME NEW S, NEW first \in S, NEW N \in Nat, NEW step \in [S \X (1..N) -> S]
    PROVE  \E g : Loop(g, S, N, first, step)
<1> DEFINE T == S \X Nat
           start == << first, 0 >>
           next == [x \in T |-> << IF x[2] < N THEN step[<< x[1], x[2] + 1 >>] ELSE x[1], x[2] + 1 >>]
<1>1. start \in T
  OBVIOUS
<1>2. next \in [T -> T]
  <2> SUFFICES ASSUME NEW x \in T PROVE next[x] \in T
    OBVIOUS
  <2>1. x[1] \in S /\ x[2] \in Nat /\ x[2] + 1 \in Nat
    OBVIOUS
  <2>2. x[2] < N => << x[1], x[2] + 1 >> \in S \X (1..N)
    BY <2>1
  <2> QED BY <2>1, <2>2
<1> HIDE DEF T, next, start
<1>3. PICK f : Recursive(f, T, start, next)
  BY <1>1, <1>2, RecursiveExists, Zenon
<1>4. f[0] = start /\ \A n \in Nat : f[n] \in T /\ f[n + 1] = next[f[n]]
  BY <1>3 DEF Recursive
<1>5. \A x \in T : x[1] \in S /\ x[2] \in Nat /\ next[x][2] = x[2] + 1
  BY DEF T, next
<1>6. \A x \in T : x[2] < N => next[x][1] = step[<< x[1], x[2] + 1 >>]
  BY DEF T, next
<1> DEFINE P == {n \in Nat : f[n][2] = n}
<1>7. P = Nat
  <2>1. 0 \in P
    BY <1>4 DEF start
  <2>2. ASSUME NEW n \in P PROVE n + 1 \in P
    <3>1. n \in Nat /\ f[n][2] = n
      OBVIOUS
    <3>2. f[n + 1][2] = f[n][2] + 1
      BY <1>4, <1>5, <3>1
    <3> QED BY <3>1, <3>2
  <2> HIDE DEF P
  <2>3. P \in SUBSET Nat
    BY DEF P
  <2> QED BY <2>1, <2>2, <2>3, InductionOnNat
<1> DEFINE g == [i \in 0..N |-> f[i][1]]
<1>8. g \in [0..N -> S]
  BY <1>4, <1>5
<1>9. g[0] = first
  BY <1>4 DEF start
<1>10. ASSUME NEW i \in 1..N PROVE g[i] = step[<< g[i - 1], i >>]
  <2>1. i - 1 \in Nat /\ (i - 1) + 1 = i /\ i - 1 < N /\ i - 1 \in 0..N /\ i \in 0..N
    OBVIOUS
  <2>2. f[i] = next[f[i - 1]]
    BY <1>4, <2>1
  <2>3. f[i - 1][2] = i - 1
    BY <1>7, <2>1
  <2>4. f[i][1] = step[<< f[i - 1][1], i >>]
    BY <1>4, <1>6, <2>1, <2>2, <2>3
  <2> QED BY <2>1, <2>4
<1> HIDE DEF g
<1> QED BY <1>8, <1>9, <1>10 DEF Loop

\* Appending and joining add to the elements.
LEMMA ToSetOfAppend ==
    ASSUME NEW S, NEW s \in Seq(S), NEW e \in S
    PROVE  ToSet(Append(s, e)) = ToSet(s) \cup {e}
<1>1. Len(s) \in Nat /\ DOMAIN s = 1..Len(s)
  BY LenProperties
<1>2. /\ Append(s, e) \in Seq(S) /\ Len(Append(s, e)) = Len(s) + 1
      /\ \A i \in 1..Len(s) : Append(s, e)[i] = s[i]
      /\ Append(s, e)[Len(s) + 1] = e
  BY AppendProperties
<1>3. DOMAIN Append(s, e) = 1..(Len(s) + 1)
  BY <1>2, LenProperties
<1>4. \A i \in 1..(Len(s) + 1) : i \in 1..Len(s) \/ i = Len(s) + 1
  BY <1>1
<1>5. Len(s) + 1 \in 1..(Len(s) + 1) /\ \A i \in 1..Len(s) : i \in 1..(Len(s) + 1)
  BY <1>1
<1> DEFINE t == Append(s, e)
<1> HIDE DEF t
<1>6. ToSet(t) = ToSet(s) \cup {e}
  BY <1>1, <1>2, <1>3, <1>4, <1>5, Zenon DEF ToSet, t
<1> QED BY <1>6 DEF t

LEMMA ToSetOfConcat ==
    ASSUME NEW S, NEW s \in Seq(S), NEW t \in Seq(S)
    PROVE  ToSet(s \o t) = ToSet(s) \cup ToSet(t)
<1> DEFINE u == s \o t
<1>1. /\ Len(s) \in Nat /\ DOMAIN s = 1..Len(s)
      /\ Len(t) \in Nat /\ DOMAIN t = 1..Len(t)
  BY LenProperties
<1>2. /\ u \in Seq(S) /\ Len(u) = Len(s) + Len(t)
      /\ \A i \in 1..(Len(s) + Len(t)) : u[i] = IF i <= Len(s) THEN s[i] ELSE t[i - Len(s)]
  BY ConcatProperties
<1> HIDE DEF u
<1>3. DOMAIN u = 1..(Len(s) + Len(t))
  BY <1>2, LenProperties
<1>4. \A i \in 1..Len(s) : i \in DOMAIN u /\ u[i] = s[i]
  BY <1>1, <1>2, <1>3
<1>5. \A i \in 1..Len(t) : Len(s) + i \in DOMAIN u /\ u[Len(s) + i] = t[i]
  <2> SUFFICES ASSUME NEW i \in 1..Len(t) PROVE Len(s) + i \in DOMAIN u /\ u[Len(s) + i] = t[i]
    OBVIOUS
  <2>1. /\ Len(s) + i \in 1..(Len(s) + Len(t)) /\ ~(Len(s) + i <= Len(s))
        /\ (Len(s) + i) - Len(s) = i
    BY <1>1
  <2> QED BY <1>2, <1>3, <2>1
<1>6. ASSUME NEW i \in DOMAIN u PROVE u[i] \in ToSet(s) \cup ToSet(t)
  <2>1. CASE i <= Len(s)
    <3>1. i \in 1..Len(s)
      BY <1>1, <1>3, <1>6, <2>1
    <3> QED BY <1>1, <1>4, <3>1 DEF ToSet
  <2>2. CASE ~(i <= Len(s))
    <3>1. i - Len(s) \in 1..Len(t) /\ i \in 1..(Len(s) + Len(t))
      BY <1>1, <1>3, <1>6, <2>2
    <3>2. u[i] = t[i - Len(s)]
      BY <1>2, <2>2, <3>1
    <3> QED BY <1>1, <3>1, <3>2 DEF ToSet
  <2> QED BY <2>1, <2>2
<1>7. ToSet(s) \subseteq ToSet(u)
  BY <1>1, <1>4, Zenon DEF ToSet
<1>8. ToSet(t) \subseteq ToSet(u)
  BY <1>1, <1>5, Zenon DEF ToSet
<1>9. ToSet(u) \subseteq ToSet(s) \cup ToSet(t)
  BY <1>6 DEF ToSet
<1> QED BY <1>7, <1>8, <1>9 DEF u
===============================================================================
