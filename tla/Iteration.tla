----------------------------- MODULE Iteration -----------------------------
(***************************************************************************)
(* Facts about loops that the proofs of several components rest on.  The   *)
(* models write a loop as a function walk on 0..N with walk[0] given and   *)
(* walk[i] computed from walk[i - 1]: there is exactly one such function,  *)
(* and what holds at 0 and is kept by every round holds at all of 0..N.    *)
(* Induction takes a set of numbers where it usually takes a predicate.    *)
(***************************************************************************)
EXTENDS FreeList, Integers, WellFoundedInduction, TLAPS

Below == {mn \in Nat \X Nat : mn[1] < mn[2]}

LEMMA BelowWellFounded == IsWellFoundedOn(Below, Nat)
  BY NatLessThanWellFounded, Zenon DEF OpToRel, Below

\* Every set of natural numbers that is not empty has a least element.
THEOREM LeastNumber ==
    ASSUME NEW T, T \subseteq Nat, T # {}
    PROVE  \E m \in T : \A n \in T : m <= n
<1>1. PICK m \in T : \A n \in T : <<n, m>> \notin Below
  BY WFMin, BelowWellFounded, Zenon
<1>2. ASSUME NEW n \in T PROVE m <= n
  <2>1. <<n, m>> \notin Below /\ <<n, m>> \in Nat \X Nat
    BY <1>1
  <2> QED
    BY <2>1 DEF Below
<1> QED
  BY <1>2

\* Induction over 0..N.
THEOREM RoundInduction ==
    ASSUME NEW N \in Nat, NEW T, 0 \in T,
           \A i \in 1..N : i - 1 \in T => i \in T
    PROVE  \A i \in 0..N : i \in T
<1> DEFINE Bad == {i \in 0..N : i \notin T}
<1> SUFFICES ASSUME Bad # {} PROVE FALSE
  OBVIOUS
<1>1. PICK m \in Bad : \A n \in Bad : m <= n
  <2>1. Bad \subseteq Nat
    OBVIOUS
  <2> HIDE DEF Bad
  <2> QED
    BY <2>1, LeastNumber
<1>2. m \in 1..N /\ m \notin T
  BY <1>1
<1>3. m - 1 \in 0..N /\ m - 1 \notin Bad
  BY <1>1, <1>2
<1> QED
  BY <1>2, <1>3

\* The loop starts with v0 and does step[<<i, v>>] in its round i.
IsLoop(walk, N, v0, step) ==
    /\ DOMAIN walk = 0..N
    /\ walk[0] = v0
    /\ \A i \in 1..N : walk[i] = step[<<i, walk[i - 1]>>]

\* Two runs of a loop are the same.
THEOREM LoopUnique ==
    ASSUME NEW N \in Nat, NEW v0, NEW step, NEW f, NEW g,
           IsLoop(f, N, v0, step), IsLoop(g, N, v0, step)
    PROVE  \A i \in 0..N : f[i] = g[i]
<1> DEFINE T == {i \in 0..N : f[i] = g[i]}
<1>1. 0 \in T
  BY DEF IsLoop
<1>2. ASSUME NEW i \in 1..N, i - 1 \in T PROVE i \in T
  <2>1. f[i - 1] = g[i - 1] /\ i \in 0..N
    BY <1>2
  <2>2. f[i] = step[<<i, f[i - 1]>>] /\ g[i] = step[<<i, g[i - 1]>>]
    BY DEF IsLoop
  <2>3. f[i] = g[i]
    BY <2>1, <2>2, Zenon
  <2> QED
    BY <2>1, <2>3
<1> HIDE DEF T
<1>3. \A i \in 0..N : i \in T
  BY <1>1, <1>2, RoundInduction
<1> QED
  BY <1>3 DEF T

\* A loop that stays in a set of values can be run for any number of rounds.
THEOREM LoopExists ==
    ASSUME NEW N \in Nat, NEW V, NEW v0 \in V, NEW step \in [(1..N) \X V -> V]
    PROVE  \E f \in [0..N -> V] : IsLoop(f, N, v0, step)
<1> DEFINE T == {n \in 0..N : \E f \in [0..n -> V] : IsLoop(f, n, v0, step)}
<1>1. 0 \in T
  <2>1. [i \in 0..0 |-> v0] \in [0..0 -> V]
    OBVIOUS
  <2>2. IsLoop([i \in 0..0 |-> v0], 0, v0, step)
    BY DEF IsLoop
  <2> QED
    BY <2>1, <2>2
<1>2. ASSUME NEW n \in 1..N, n - 1 \in T PROVE n \in T
  <2>1. PICK f \in [0..(n - 1) -> V] : IsLoop(f, n - 1, v0, step)
    BY <1>2
  <2> DEFINE g == [i \in 0..n |-> IF i < n THEN f[i] ELSE step[<<n, f[n - 1]>>]]
  <2>2. f[n - 1] \in V
    OBVIOUS
  <2>3. step[<<n, f[n - 1]>>] \in V
    BY <2>2
  <2>4. g \in [0..n -> V]
    BY <2>3
  <2>5. g[0] = v0
    BY <2>1 DEF IsLoop
  <2>6. ASSUME NEW i \in 1..n PROVE g[i] = step[<<i, g[i - 1]>>]
    <3>1. g[i - 1] = f[i - 1]
      OBVIOUS
    <3>2. g[i] = step[<<i, f[i - 1]>>]
      <4>1. CASE i = n
        <5>1. g[n] = step[<<n, f[n - 1]>>]
          OBVIOUS
        <5> QED
          BY <4>1, <5>1, Zenon
      <4>2. CASE i # n
        <5>1. i \in 1..(n - 1) /\ g[i] = f[i]
          BY <4>2
        <5>2. f[i] = step[<<i, f[i - 1]>>]
          BY <2>1, <5>1 DEF IsLoop
        <5> QED
          BY <5>1, <5>2, Zenon
      <4> QED
        BY <4>1, <4>2
    <3> QED
      BY <3>1, <3>2, Zenon
  <2>7. IsLoop(g, n, v0, step)
    BY <2>4, <2>5, <2>6 DEF IsLoop
  <2> QED
    BY <2>4, <2>7
<1> HIDE DEF T
<1>3. N \in T
  BY <1>1, <1>2, RoundInduction
<1> QED
  BY <1>3 DEF T

-----------------------------------------------------------------------------
\* The walk along a free list.
IsWalk(walk, l, n) ==
    /\ Listed(l, n) = {walk[i] : i \in 0..n} \ {NULL}
    /\ walk[0] = l.head
    /\ \A i \in 1..n : walk[i - 1] = NULL => walk[i] = NULL
    /\ \A i \in 1..n : walk[i - 1] # NULL => walk[i] = l.next[walk[i - 1]]

LEMMA ListedWalk ==
    ASSUME NEW F, NEW l \in Lists(F), NEW n \in Nat
    PROVE  \E walk \in [0..n -> F \cup {NULL}] : IsWalk(walk, l, n)
<1> DEFINE V == F \cup {NULL}
           step == [iv \in (1..n) \X V |->
                      IF iv[2] = NULL THEN NULL ELSE l.next[iv[2]]]
           walk == CHOOSE w : w = [i \in 0..n |->
                      IF i = 0 THEN l.head
                      ELSE IF w[i - 1] = NULL THEN NULL ELSE l.next[w[i - 1]]]
<1>1. l.head \in V /\ step \in [(1..n) \X V -> V]
  BY DEF Lists
<1>2. PICK f \in [0..n -> V] : IsLoop(f, n, l.head, step)
  <2> HIDE DEF step
  <2> QED
    BY <1>1, LoopExists
<1>3. f[0] = l.head
  BY <1>2 DEF IsLoop
<1>4. ASSUME NEW i \in 1..n
      PROVE  f[i] = IF f[i - 1] = NULL THEN NULL ELSE l.next[f[i - 1]]
  <2>1. f[i] = step[<<i, f[i - 1]>>]
    BY <1>2 DEF IsLoop
  <2>2. <<i, f[i - 1]>> \in (1..n) \X V
    OBVIOUS
  <2> QED
    BY <2>1, <2>2
<1>5. f = [i \in 0..n |-> IF i = 0 THEN l.head
                          ELSE IF f[i - 1] = NULL THEN NULL ELSE l.next[f[i - 1]]]
  BY <1>3, <1>4
<1>6. walk = [i \in 0..n |-> IF i = 0 THEN l.head
                             ELSE IF walk[i - 1] = NULL THEN NULL
                             ELSE l.next[walk[i - 1]]]
  BY <1>5, Zenon
<1>7. Listed(l, n) = {walk[i] : i \in 0..n} \ {NULL}
  BY Zenon DEF Listed
<1> HIDE DEF walk
<1>8. walk[0] = l.head
  BY <1>6
<1>9. \A i \in 1..n :
         walk[i] = IF walk[i - 1] = NULL THEN NULL ELSE l.next[walk[i - 1]]
  BY <1>6
<1>10. walk \in [0..n -> V]
  <2> DEFINE T == {i \in 0..n : walk[i] \in V}
  <2>1. 0 \in T
    BY <1>1, <1>8
  <2>2. \A i \in 1..n : i - 1 \in T => i \in T
    BY <1>9 DEF Lists
  <2> HIDE DEF T
  <2>3. \A i \in 0..n : i \in T
    BY <2>1, <2>2, RoundInduction
  <2> QED
    BY <1>6, <2>3 DEF T
<1>11. IsWalk(walk, l, n)
  BY <1>7, <1>8, <1>9 DEF IsWalk
<1> QED
  BY <1>10, <1>11

\* A free list stays in a set that its pointers do not leave.
LEMMA ListedWithin ==
    ASSUME NEW F, NEW l \in Lists(F), NEW n \in Nat, NEW S \in SUBSET F,
           l.head \in S \cup {NULL},
           \A f \in S : l.next[f] \in S \cup {NULL}
    PROVE  Listed(l, n) \subseteq S
<1>0. PICK walk \in [0..n -> F \cup {NULL}] : IsWalk(walk, l, n)
  BY ListedWalk
<1>1. /\ Listed(l, n) = {walk[i] : i \in 0..n} \ {NULL}
      /\ walk[0] = l.head
      /\ \A i \in 1..n : walk[i - 1] = NULL => walk[i] = NULL
      /\ \A i \in 1..n : walk[i - 1] # NULL => walk[i] = l.next[walk[i - 1]]
  BY <1>0 DEF IsWalk
<1> DEFINE T == {i \in 0..n : walk[i] \in S \cup {NULL}}
<1>2. 0 \in T
  BY <1>1
<1>3. \A i \in 1..n : i - 1 \in T => i \in T
  BY <1>1
<1> HIDE DEF T
<1>4. \A i \in 0..n : i \in T
  BY <1>2, <1>3, RoundInduction
<1> QED
  BY <1>1, <1>4 DEF T

\* A free list in which every frame points to the one after it, up to the
\* last, is all frames from its head on.
LEMMA ListedRange ==
    ASSUME NEW last \in Nat, NEW l \in Lists(1..last), NEW first \in 1..(last + 1),
           l.head = (IF first <= last THEN first ELSE NULL),
           \A f \in first..last : l.next[f] = (IF f < last THEN f + 1 ELSE NULL)
    PROVE  Listed(l, last) = first..last
<1>0. PICK walk \in [0..last -> (1..last) \cup {NULL}] : IsWalk(walk, l, last)
  BY ListedWalk
<1>1. /\ Listed(l, last) = {walk[i] : i \in 0..last} \ {NULL}
      /\ walk[0] = l.head
      /\ \A i \in 1..last : walk[i - 1] = NULL => walk[i] = NULL
      /\ \A i \in 1..last : walk[i - 1] # NULL => walk[i] = l.next[walk[i - 1]]
  BY <1>0 DEF IsWalk
<1> USE DEF NULL
<1> DEFINE T == {i \in 0..last : walk[i] = IF first + i <= last THEN first + i ELSE NULL}
<1>2. 0 \in T
  BY <1>1
<1>3. ASSUME NEW i \in 1..last, i - 1 \in T PROVE i \in T
  <2>1. walk[i - 1] = IF first + i - 1 <= last THEN first + i - 1 ELSE NULL
    BY <1>3
  <2>2. CASE first + i - 1 <= last
    <3>1. walk[i - 1] = first + i - 1 /\ walk[i - 1] # NULL /\ first + i - 1 \in first..last
      BY <2>1, <2>2
    <3>2. walk[i] = l.next[first + i - 1]
      BY <1>1, <3>1
    <3>3. l.next[first + i - 1] =
             IF first + i - 1 < last THEN (first + i - 1) + 1 ELSE NULL
      BY <3>1
    <3> QED
      BY <3>2, <3>3
  <2>3. CASE ~(first + i - 1 <= last)
    BY <1>1, <2>1, <2>3
  <2> QED
    BY <2>2, <2>3
<1> HIDE DEF T
<1>4. \A i \in 0..last : i \in T
  BY <1>2, <1>3, RoundInduction
<1>5. \A i \in 0..last : walk[i] = IF first + i <= last THEN first + i ELSE NULL
  BY <1>4 DEF T
<1>6. ASSUME NEW f \in first..last PROVE f \in Listed(l, last)
  <2>1. f - first \in 0..last /\ walk[f - first] = f /\ f # NULL
    BY <1>5
  <2> QED
    BY <1>1, <2>1
<1>7. ASSUME NEW f \in Listed(l, last) PROVE f \in first..last
  <2>1. PICK i \in 0..last : f = walk[i] /\ f # NULL
    BY <1>1
  <2> QED
    BY <1>5, <2>1
<1> QED
  BY <1>6, <1>7
=============================================================================
