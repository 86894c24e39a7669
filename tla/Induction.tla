------------------------------ MODULE Induction ------------------------------
(***************************************************************************)
(* Induction on natural numbers in the form that the proofs of this        *)
(* project use.  The library's induction theorems take an operator for the *)
(* property to be proved; here it is a set of numbers, those that have the *)
(* property, and all follows from the order of the natural numbers being   *)
(* well-founded.  From this comes what the proofs need of a recursive      *)
(* function that works through a text: that it exists and is unique.       *)
(***************************************************************************)
EXTENDS Integers, Sequences, SequenceTheorems, WellFoundedInduction, TLAPS

Less == {pair \in Nat \X Nat : pair[1] < pair[2]}

\* There is no endless descent in the natural numbers.
LEMMA LessIsWellFounded == IsWellFoundedOn(Less, Nat)
BY NatLessThanWellFounded DEF OpToRel, Less

\* Every set of natural numbers that is not empty has a least element.
LEMMA LeastElement ==
  ASSUME NEW S \in SUBSET Nat, S # {}
  PROVE  \E n \in S : \A m \in S : n <= m
<1>1. \E n \in S : \A m \in S : <<m, n>> \notin Less
  BY LessIsWellFounded, WFMin
<1>2. \A n, m \in Nat : <<m, n>> \notin Less => n <= m
  BY DEF Less
<1>3. QED
  BY <1>1, <1>2

\* A set that contains a number whenever it contains all smaller ones contains
\* all numbers.
LEMMA StrongInduction ==
  ASSUME NEW T,
         \A n \in Nat : (\A m \in Nat : m < n => m \in T) => n \in T
  PROVE  \A n \in Nat : n \in T
<1> DEFINE S == {n \in Nat : n \notin T}
<1> SUFFICES ASSUME S # {} PROVE FALSE
  OBVIOUS
<1>1. PICK n \in S : \A m \in S : n <= m
  <2>1. S \in SUBSET Nat
    OBVIOUS
  <2> HIDE DEF S
  <2>2. QED
    BY <2>1, LeastElement
<1>2. \A m \in Nat : m < n => m \in T
  BY <1>1
<1>3. QED
  BY <1>1, <1>2

\* The same from the other end of 1..L.
LEMMA DownwardInduction ==
  ASSUME NEW L \in Nat, NEW T,
         \A n \in 1..L : (\A m \in (n + 1)..L : m \in T) => n \in T
  PROVE  \A n \in 1..L : n \in T
<1> DEFINE U == {k \in Nat : L - k \in 1..L => L - k \in T}
<1>1. ASSUME NEW k \in Nat, \A j \in Nat : j < k => j \in U PROVE k \in U
  <2> SUFFICES ASSUME L - k \in 1..L PROVE L - k \in T
    OBVIOUS
  <2>1. ASSUME NEW m \in (L - k + 1)..L PROVE m \in T
    <3>1. L - m \in Nat /\ L - m < k /\ L - (L - m) = m /\ m \in 1..L
      OBVIOUS
    <3>2. L - m \in U
      BY <1>1, <3>1
    <3>3. QED
      BY <3>1, <3>2
  <2>2. QED
    BY <2>1
<1>2. \A k \in Nat : k \in U
  <2> HIDE DEF U
  <2>1. QED
    BY <1>1, StrongInduction
<1>3. TAKE n \in 1..L
<1>4. L - n \in U /\ L - (L - n) = n
  <2>1. L - n \in Nat /\ L - (L - n) = n
    OBVIOUS
  <2> HIDE DEF U
  <2>2. QED
    BY <1>2, <2>1
<1>5. QED
  BY <1>4

-----------------------------------------------------------------------------
(* Recursive functions that walk through a text                            *)

\* Concatenation, under a name that the provers leave alone.
Join(s, t) == s \o t

\* What a recursive function makes of a text of length L that it walks through to
\* the right, adding word[n] at position n and going on at n + step[n]: f[n] is
\* what comes of the text from n on.
IsWalk(from, L, word, step, f) ==
  f = [n \in from..(L + 1) |-> IF n > L THEN <<>> ELSE Join(word[n], f[n + step[n]])]

\* The walk gets on, and ends right behind the text.
IsSteps(L, step) == step \in [1..L -> Nat \ {0}] /\ \A n \in 1..L : n + step[n] <= L + 1

\* A walk may begin at 1, in an empty text too.
LEMMA IsFirst == \A L \in Nat : 1 \in 1..(L + 1)
OBVIOUS

\* A walk taken position by position.
LEMMA WalkPointwise ==
  ASSUME NEW L \in Nat, NEW word, NEW step, NEW f, NEW from \in 1..(L + 1), IsWalk(from, L, word, step, f)
  PROVE  /\ f[L + 1] = <<>>
         /\ \A n \in from..L : f[n] = Join(word[n], f[n + step[n]])
<1> DEFINE W(n) == Join(word[n], f[n + step[n]])
<1>1. f = [n \in from..(L + 1) |-> IF n > L THEN <<>> ELSE W(n)]
  BY DEF IsWalk
<1>2. ASSUME NEW n \in from..L PROVE n \in from..(L + 1) /\ ~(n > L)
  OBVIOUS
<1>3. L + 1 \in from..(L + 1) /\ L + 1 > L
  OBVIOUS
<1> HIDE DEF W
<1>4. f[L + 1] = <<>>
  BY <1>1, <1>3
<1>5. \A n \in from..L : f[n] = W(n)
  BY <1>1, <1>2
<1>6. QED
  BY <1>4, <1>5 DEF W

\* There is such a function, so the one that the recursive definition chooses is
\* one.
LEMMA WalkExists ==
  ASSUME NEW L \in Nat, NEW word, NEW step, IsSteps(L, step)
  PROVE  \E f : IsWalk(1, L, word, step, f)
<1> DEFINE T == {n \in 1..(L + 1) : \E f : IsWalk(n, L, word, step, f)}
<1>1. ASSUME NEW n \in 1..(L + 1), \A m \in (n + 1)..(L + 1) : m \in T PROVE n \in T
  <2>1. CASE n = L + 1
    <3> DEFINE f == [m \in n..(L + 1) |-> <<>>]
    <3>1. \A m \in n..(L + 1) : m > L
      BY <2>1
    <3>2. IsWalk(n, L, word, step, f)
      BY <3>1 DEF IsWalk
    <3>3. QED
      BY <3>2
  <2>2. CASE n \in 1..L
    <3>0. n + 1 \in 1..(L + 1)
      BY <2>2
    <3>1. n + 1 \in T
      BY <1>1, <2>2
    <3>2. PICK f : IsWalk(n + 1, L, word, step, f)
      BY <3>1
    <3> DEFINE g == [m \in n..(L + 1) |-> IF m = n THEN Join(word[n], f[n + step[n]]) ELSE f[m]]
               W(m) == Join(word[m], g[m + step[m]])
    <3>3. /\ f[L + 1] = <<>>
          /\ \A m \in (n + 1)..L : f[m] = Join(word[m], f[m + step[m]])
      BY <2>2, <3>2, <3>0, WalkPointwise
    <3>4. \A m \in n..L : m + step[m] \in (n + 1)..(L + 1)
      BY <2>2 DEF IsSteps
    <3>5. \A m \in (n + 1)..(L + 1) : g[m] = f[m]
      BY <2>2
    <3>6. g[n] = Join(word[n], f[n + step[n]])
      BY <2>2
    <3> HIDE DEF g
    <3>7. \A m \in n..L : g[m] = W(m)
      <4> SUFFICES ASSUME NEW m \in n..L PROVE g[m] = W(m)
        OBVIOUS
      <4>1. g[m + step[m]] = f[m + step[m]]
        BY <3>4, <3>5
      <4>2. m = n \/ m \in (n + 1)..L
        BY <2>2
      <4>3. g[m] = Join(word[m], f[m + step[m]])
        BY <3>3, <3>5, <3>6, <4>2
      <4>4. QED
        BY <4>1, <4>3
    <3>8. g[L + 1] = <<>>
      BY <2>2, <3>3, <3>5
    <3> HIDE DEF W
    <3>9. g = [m \in n..(L + 1) |-> IF m > L THEN <<>> ELSE W(m)]
      <4>1. \A m \in n..(L + 1) : g[m] = IF m > L THEN <<>> ELSE W(m)
        <5> TAKE m \in n..(L + 1)
        <5>1. (m > L /\ m = L + 1) \/ (~(m > L) /\ m \in n..L)
          BY <2>2
        <5>2. QED
          BY <3>7, <3>8, <5>1
      <4>2. QED
        BY <4>1 DEF g
    <3>10. IsWalk(n, L, word, step, g)
      BY <3>9 DEF IsWalk, W
    <3>11. QED
      BY <3>10
  <2>3. QED
    BY <2>1, <2>2
<1>2. 1 \in T
  <2>1. L + 1 \in Nat /\ 1 \in 1..(L + 1)
    OBVIOUS
  <2> HIDE DEF T
  <2>2. QED
    BY <1>1, <2>1, DownwardInduction
<1>3. QED
  BY <1>2

\* A walk through the end of a text is the end of the walk through the text; in
\* particular there is only one walk.
LEMMA WalkShift ==
  ASSUME NEW L \in Nat, NEW word, NEW step, IsSteps(L, step), NEW f, IsWalk(1, L, word, step, f),
         NEW M \in Nat, NEW word2, NEW step2, IsSteps(M, step2), NEW g, IsWalk(1, M, word2, step2, g),
         NEW d \in Nat, L = d + M,
         \A n \in 1..M : word2[n] = word[d + n] /\ step2[n] = step[d + n]
  PROVE  \A n \in 1..(M + 1) : g[n] = f[d + n]
<1> DEFINE T == {n \in 1..(M + 1) : g[n] = f[d + n]}
<1>0. /\ f[L + 1] = <<>> /\ \A n \in 1..L : f[n] = Join(word[n], f[n + step[n]])
      /\ g[M + 1] = <<>> /\ \A n \in 1..M : g[n] = Join(word2[n], g[n + step2[n]])
  BY IsFirst, WalkPointwise
<1>1. ASSUME NEW n \in 1..(M + 1), \A m \in (n + 1)..(M + 1) : m \in T PROVE n \in T
  <2>1. CASE n = M + 1
    BY <1>0, <2>1
  <2>2. CASE n \in 1..M
    <3>1. d + n \in 1..L
      BY <2>2
    <3>2. n + step2[n] \in (n + 1)..(M + 1)
      <4>1. step2[n] \in Nat \ {0} /\ n + step2[n] <= M + 1
        BY <2>2 DEF IsSteps
      <4>2. QED
        BY <4>1
    <3>3. g[n + step2[n]] = f[d + (n + step2[n])]
      BY <1>1, <3>2
    <3>4. d + (n + step2[n]) = (d + n) + step[d + n]
      BY <2>2 DEF IsSteps
    <3>5. g[n] = Join(word[d + n], f[(d + n) + step[d + n]])
      BY <1>0, <2>2, <3>3, <3>4
    <3>6. QED
      BY <1>0, <3>1, <3>5
  <2>3. QED
    BY <2>1, <2>2
<1>2. \A n \in 1..(M + 1) : n \in T
  <2>1. M + 1 \in Nat
    OBVIOUS
  <2> HIDE DEF T
  <2>2. QED
    BY <1>1, <2>1, DownwardInduction
<1>3. QED
  BY <1>2

\* What comes of a text is a text.
LEMMA WalkType ==
  ASSUME NEW L \in Nat, NEW word, NEW step, IsSteps(L, step), NEW f, IsWalk(1, L, word, step, f),
         NEW S, \A n \in 1..L : word[n] \in Seq(S)
  PROVE  \A n \in 1..(L + 1) : f[n] \in Seq(S)
<1> DEFINE T == {n \in 1..(L + 1) : f[n] \in Seq(S)}
<1>0. f[L + 1] = <<>> /\ \A n \in 1..L : f[n] = Join(word[n], f[n + step[n]])
  BY IsFirst, WalkPointwise
<1>1. ASSUME NEW n \in 1..(L + 1), \A m \in (n + 1)..(L + 1) : m \in T PROVE n \in T
  <2>1. CASE n = L + 1
    BY <1>0, <2>1, EmptySeq
  <2>2. CASE n \in 1..L
    <3>1. n + step[n] \in (n + 1)..(L + 1)
      BY <2>2 DEF IsSteps
    <3>2. f[n + step[n]] \in Seq(S) /\ word[n] \in Seq(S)
      BY <1>1, <2>2, <3>1
    <3>3. Join(word[n], f[n + step[n]]) \in Seq(S)
      BY <3>2, ConcatProperties DEF Join
    <3>4. QED
      BY <1>0, <2>2, <3>3
  <2>3. QED
    BY <2>1, <2>2
<1>2. \A n \in 1..(L + 1) : n \in T
  <2>1. L + 1 \in Nat
    OBVIOUS
  <2> HIDE DEF T
  <2>2. QED
    BY <1>1, <2>1, DownwardInduction
<1>3. QED
  BY <1>2
=============================================================================
