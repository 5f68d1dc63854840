---------------------------- MODULE RootfsProofs ----------------------------
(***************************************************************************)
(* The root file system for archives of any length, with any names, sizes  *)
(* and modes, and for any number of slots.                                 *)
(***************************************************************************)
EXTENDS Rootfs, SequenceTheorems, FiniteSetTheorems, TLAPS

Loop == INSTANCE Iteration

-----------------------------------------------------------------------------
\* The least element of a set is the element below all others.
LEMMA MinIs ==
    ASSUME NEW S \in SUBSET Int, NEW m \in S, \A x \in S : m <= x
    PROVE  Min(S) = m
<1>1. ASSUME NEW n \in S, \A y \in S : n <= y
      PROVE  n = m
  BY <1>1
<1> QED
  BY <1>1 DEF Min

LEMMA MinIn ==
    ASSUME NEW S \in SUBSET Nat, S # {}
    PROVE  Min(S) \in S /\ \A x \in S : Min(S) <= x
<1>1. PICK m \in S : \A n \in S : m <= n
  BY Loop!LeastNumber
<1>2. Min(S) = m
  BY <1>1, MinIs
<1> QED
  BY <1>1, <1>2

\* A field of a name is never overfull.
LEMMA StoredType ==
    ASSUME NEW s \in Seq(Chars)
    PROVE  Stored(s) \in Seq(Chars) /\ Len(Stored(s)) < ROOTFS_MAX_FILENAME_SIZE
<1> DEFINE M == ROOTFS_MAX_FILENAME_SIZE
           full == (Len(s) \div M) * M
<1>1. M \in Nat /\ M > 0 /\ Len(s) \in Nat
  BY RootfsAssumption
<1>2. full \in Nat /\ full <= Len(s) /\ Len(s) - full < M
  <2>1. Len(s) \div M \in Nat /\ Len(s) = M * (Len(s) \div M) + (Len(s) % M)
    BY <1>1
  <2>2. Len(s) % M \in Nat /\ Len(s) % M < M
    BY <1>1
  <2>3. full = M * (Len(s) \div M)
    BY <1>1, <2>1
  <2> QED
    BY <1>1, <2>1, <2>2, <2>3
<1> HIDE DEF full
<1>3. Stored(s) = SubSeq(s, full + 1, Len(s))
  BY DEF Stored, full
<1>4. SubSeq(s, full + 1, Len(s)) \in Seq(Chars)
      /\ Len(SubSeq(s, full + 1, Len(s))) = Len(s) - full
  BY <1>1, <1>2, SubSeqProperties
<1> QED
  BY <1>1, <1>2, <1>3, <1>4

\* Padding from a multiple of four, and what cpio does.
LEMMA RoundUpIs ==
    ASSUME NEW n \in Nat
    PROVE  RoundUp(n) = Padded(n) /\ Padded(n) \in Nat /\ Padded(n) % 4 = 0
<1>1. Padded(n) \in n..(n + 3) /\ Padded(n) % 4 = 0
  BY DEF Padded
<1>2. \A m \in n..(n + 3) : m % 4 = 0 => m = Padded(n)
  BY DEF Padded
<1> QED
  BY <1>1, <1>2 DEF RoundUp

LEMMA PaddedFrom ==
    ASSUME NEW h \in Nat, h % 4 = 0, NEW n \in Nat
    PROVE  Padded(h + n) = h + Padded(n)
  BY DEF Padded

-----------------------------------------------------------------------------
\* A function that is computed from its value before has the values of any
\* loop that does the same.
LEMMA SameLoop ==
    ASSUME NEW n \in Nat, NEW f, NEW w,
           f[0] = w[0],
           \A i \in 1..n : f[i - 1] = w[i - 1] => f[i] = w[i]
    PROVE  \A i \in 0..n : w[i] = f[i]
<1> DEFINE T == {i \in 0..n : w[i] = f[i]}
<1>1. 0 \in T
  OBVIOUS
<1>2. \A i \in 1..n : i - 1 \in T => i \in T
  OBVIOUS
<1> HIDE DEF T
<1>3. \A i \in 0..n : i \in T
  BY <1>1, <1>2, Loop!RoundInduction
<1> QED
  BY <1>3 DEF T

\* The value that int_from_string computes, digit by digit.
IsTotal(total, s) ==
    /\ total \in [0..Len(s) -> Nat]
    /\ total[0] = 0
    /\ \A i \in 1..Len(s) : total[i] = 16 * total[i - 1] + s[i]

LEMMA TotalRounds ==
    ASSUME NEW s \in Seq(0..15)
    PROVE  \E total : IsTotal(total, s) /\ int_from_string(s) = total[Len(s)]
<1> DEFINE n == Len(s)
           step == [iv \in (1..n) \X Nat |-> 16 * iv[2] + s[iv[1]]]
           total == CHOOSE w : w = [i \in 0..n |->
                       IF i = 0 THEN 0 ELSE 16 * w[i - 1] + int_from_char(s[i])]
<1>1. n \in Nat /\ \A i \in 1..n : s[i] \in 0..15
  OBVIOUS
<1>2. \A i \in 1..n : int_from_char(s[i]) = s[i]
  BY <1>1 DEF int_from_char
<1>3. DOMAIN s = 1..n /\ ~ \E i \in DOMAIN s : int_from_char(s[i]) = -1
  BY <1>1, <1>2
<1>4. int_from_string(s) = total[n]
  BY <1>3 DEF int_from_string
<1>5. step \in [(1..n) \X Nat -> Nat]
  <2>1. \A iv \in (1..n) \X Nat : 16 * iv[2] + s[iv[1]] \in Nat
    <3> HIDE DEF n
    <3> TAKE iv \in (1..n) \X Nat
    <3>1. s[iv[1]] \in 0..15 /\ iv[2] \in Nat
      BY <1>1
    <3>2. \A a \in Nat, d \in 0..15 : 16 * a + d \in Nat
      OBVIOUS
    <3> QED
      BY <3>1, <3>2, Zenon
  <2> QED
    BY <2>1
<1> HIDE DEF n
<1>6. PICK f \in [0..n -> Nat] : Loop!IsLoop(f, n, 0, step)
  <2> HIDE DEF step
  <2> QED
    BY <1>1, <1>5, Loop!LoopExists
<1>7. f[0] = 0
  BY <1>6 DEF Loop!IsLoop
<1>8. ASSUME NEW i \in 1..n PROVE f[i] = 16 * f[i - 1] + s[i]
  <2>1. f[i] = step[<<i, f[i - 1]>>]
    BY <1>6 DEF Loop!IsLoop
  <2>2. <<i, f[i - 1]>> \in (1..n) \X Nat
    BY <1>1
  <2> QED
    BY <2>1, <2>2
<1>9. f = [i \in 0..n |-> IF i = 0 THEN 0 ELSE 16 * f[i - 1] + int_from_char(s[i])]
  BY <1>1, <1>2, <1>7, <1>8
<1>10. total = [i \in 0..n |-> IF i = 0 THEN 0 ELSE 16 * total[i - 1] + int_from_char(s[i])]
  BY <1>9, Zenon
<1> HIDE DEF total
<1>11. total[0] = 0 /\ \A i \in 1..n : total[i] = 16 * total[i - 1] + s[i]
  <2>1. \A i \in 0..n :
           total[i] = IF i = 0 THEN 0 ELSE 16 * total[i - 1] + int_from_char(s[i])
    BY <1>10, Zenon
  <2>2. 0 \in 0..n /\ \A i \in 1..n : i \in 0..n /\ i # 0
    BY <1>1
  <2> QED
    BY <1>2, <2>1, <2>2, Zenon
<1>12. \A i \in 1..n : f[i - 1] = total[i - 1] => f[i] = total[i]
  BY <1>8, <1>11
<1>13. \A i \in 0..n : total[i] = f[i]
  <2>1. f[0] = total[0]
    BY <1>7, <1>11
  <2> QED
    BY <1>1, <1>12, <2>1, SameLoop, Zenon
<1>14. IsTotal(f, s) /\ int_from_string(s) = f[n]
  BY <1>1, <1>4, <1>7, <1>8, <1>13 DEF n, IsTotal
<1> QED
  BY <1>14 DEF n

\* The value that the places of the digits give.
IsSum(place, sum, s) ==
    /\ place \in [0..Len(s) -> Nat] /\ sum \in [0..Len(s) -> Nat]
    /\ place[0] = 1 /\ sum[0] = 0
    /\ \A i \in 1..Len(s) : place[i] = 16 * place[i - 1]
    /\ \A i \in 1..Len(s) :
          sum[i] = sum[i - 1] + (s[Len(s) + 1 - i] % 16) * place[i - 1]

LEMMA ValueRounds ==
    ASSUME NEW s \in Seq(Digits)
    PROVE  \E place, sum : IsSum(place, sum, s) /\ Value(s) = sum[Len(s)]
<1> DEFINE n == Len(s)
           place == CHOOSE w : w = [i \in 0..n |-> IF i = 0 THEN 1 ELSE 16 * w[i - 1]]
           sum == CHOOSE w : w = [i \in 0..n |->
                     IF i = 0 THEN 0
                     ELSE w[i - 1] + (s[n + 1 - i] % 16) * place[i - 1]]
<1>1. n \in Nat /\ \A i \in 1..n : s[n + 1 - i] % 16 \in Nat
  <2>1. n \in Nat /\ \A i \in 1..n : n + 1 - i \in 1..n
    OBVIOUS
  <2>2. \A i \in 1..n : s[i] \in Digits
    OBVIOUS
  <2>3. \A x \in Digits : x % 16 \in Nat
    BY DEF Digits
  <2> QED
    BY <2>1, <2>2, <2>3
<1>2. Value(s) = sum[n]
  BY DEF Value
<1> HIDE DEF n
<1>3. /\ place \in [0..n -> Nat]
      /\ place[0] = 1 /\ \A i \in 1..n : place[i] = 16 * place[i - 1]
  <2> DEFINE step == [iv \in (1..n) \X Nat |-> 16 * iv[2]]
  <2>1. step \in [(1..n) \X Nat -> Nat]
    OBVIOUS
  <2>2. PICK f \in [0..n -> Nat] : Loop!IsLoop(f, n, 1, step)
    <3> HIDE DEF step
    <3> QED
      BY <1>1, <2>1, Loop!LoopExists
  <2>3. f[0] = 1
    BY <2>2 DEF Loop!IsLoop
  <2>4. ASSUME NEW i \in 1..n PROVE f[i] = 16 * f[i - 1]
    <3>1. f[i] = step[<<i, f[i - 1]>>]
      BY <2>2 DEF Loop!IsLoop
    <3>2. <<i, f[i - 1]>> \in (1..n) \X Nat
      BY <1>1
    <3> QED
      BY <3>1, <3>2
  <2>5. f = [i \in 0..n |-> IF i = 0 THEN 1 ELSE 16 * f[i - 1]]
    BY <1>1, <2>3, <2>4
  <2>6. place = [i \in 0..n |-> IF i = 0 THEN 1 ELSE 16 * place[i - 1]]
    BY <2>5, Zenon
  <2> HIDE DEF place
  <2>7. place[0] = 1 /\ \A i \in 1..n : place[i] = 16 * place[i - 1]
    <3>1. \A i \in 0..n : place[i] = IF i = 0 THEN 1 ELSE 16 * place[i - 1]
      BY <2>6, Zenon
    <3>2. 0 \in 0..n /\ \A i \in 1..n : i \in 0..n /\ i # 0
      BY <1>1
    <3> QED
      BY <3>1, <3>2, Zenon
  <2>8. \A i \in 1..n : f[i - 1] = place[i - 1] => f[i] = place[i]
    BY <2>4, <2>7
  <2>9. \A i \in 0..n : place[i] = f[i]
    <3>1. f[0] = place[0]
      BY <2>3, <2>7
    <3> QED
      BY <1>1, <2>8, <3>1, SameLoop, Zenon
  <2> QED
    BY <2>6, <2>7, <2>9
<1> HIDE DEF place
<1> DEFINE step == [iv \in (1..n) \X Nat |->
                      iv[2] + (s[n + 1 - iv[1]] % 16) * place[iv[1] - 1]]
<1>4. \A i \in 1..n : (s[n + 1 - i] % 16) * place[i - 1] \in Nat
  <2> TAKE i \in 1..n
  <2>1. s[n + 1 - i] % 16 \in Nat /\ place[i - 1] \in Nat
    BY <1>1, <1>3
  <2>2. \A a, b \in Nat : a * b \in Nat
    OBVIOUS
  <2> QED
    BY <2>1, <2>2, Zenon
<1>5. step \in [(1..n) \X Nat -> Nat]
  <2>1. \A iv \in (1..n) \X Nat : iv[2] + (s[n + 1 - iv[1]] % 16) * place[iv[1] - 1] \in Nat
    <3> TAKE iv \in (1..n) \X Nat
    <3>1. (s[n + 1 - iv[1]] % 16) * place[iv[1] - 1] \in Nat
      BY <1>4
    <3> QED
      BY <3>1
  <2> QED
    BY <2>1
<1>6. PICK f \in [0..n -> Nat] : Loop!IsLoop(f, n, 0, step)
  <2> HIDE DEF step
  <2> QED
    BY <1>1, <1>5, Loop!LoopExists
<1>7. f[0] = 0
  BY <1>6 DEF Loop!IsLoop
<1>8. ASSUME NEW i \in 1..n
      PROVE  f[i] = f[i - 1] + (s[n + 1 - i] % 16) * place[i - 1]
  <2>1. f[i] = step[<<i, f[i - 1]>>]
    BY <1>6 DEF Loop!IsLoop
  <2>2. <<i, f[i - 1]>> \in (1..n) \X Nat
    BY <1>1
  <2> QED
    BY <2>1, <2>2
<1>9. f = [i \in 0..n |-> IF i = 0 THEN 0
                          ELSE f[i - 1] + (s[n + 1 - i] % 16) * place[i - 1]]
  BY <1>1, <1>7, <1>8
<1>10. sum = [i \in 0..n |-> IF i = 0 THEN 0
                             ELSE sum[i - 1] + (s[n + 1 - i] % 16) * place[i - 1]]
  BY <1>9, Zenon
<1> HIDE DEF sum
<1>11. /\ sum[0] = 0
       /\ \A i \in 1..n : sum[i] = sum[i - 1] + (s[n + 1 - i] % 16) * place[i - 1]
  <2>1. \A i \in 0..n :
           sum[i] = IF i = 0 THEN 0 ELSE sum[i - 1] + (s[n + 1 - i] % 16) * place[i - 1]
    BY <1>10, Zenon
  <2>2. 0 \in 0..n /\ \A i \in 1..n : i \in 0..n /\ i # 0
    BY <1>1
  <2> QED
    BY <2>1, <2>2, Zenon
<1>12. \A i \in 1..n : f[i - 1] = sum[i - 1] => f[i] = sum[i]
  BY <1>8, <1>11
<1>13. \A i \in 0..n : sum[i] = f[i]
  <2>1. f[0] = sum[0]
    BY <1>7, <1>11
  <2> QED
    BY <1>1, <1>12, <2>1, SameLoop, Zenon
<1>14. IsSum(place, f, s) /\ Value(s) = f[n]
  BY <1>1, <1>2, <1>3, <1>7, <1>8, <1>13 DEF n, IsSum
<1> QED
  BY <1>14 DEF n

\* What is not read of a number so far, and what has been added up from its
\* end, make up the number.
LEMMA TotalIsSum ==
    ASSUME NEW s \in Seq(0..15), NEW total, NEW place, NEW sum,
           IsTotal(total, s), IsSum(place, sum, s)
    PROVE  total[Len(s)] = sum[Len(s)]
<1> DEFINE n == Len(s)
           T == {i \in 0..n : total[n - i] * place[i] + sum[i] = total[n]}
<1>1. n \in Nat /\ \A i \in 1..n : s[n + 1 - i] \in 0..15
  OBVIOUS
<1>2. /\ total \in [0..n -> Nat] /\ place \in [0..n -> Nat] /\ sum \in [0..n -> Nat]
      /\ total[0] = 0 /\ place[0] = 1 /\ sum[0] = 0
  BY DEF IsTotal, IsSum
<1>3. 0 \in T
  <2>1. total[n] \in Nat /\ n - 0 = n
    BY <1>1, <1>2
  <2> QED
    BY <1>1, <1>2, <2>1
<1>4. ASSUME NEW i \in 1..n, i - 1 \in T PROVE i \in T
  <2> DEFINE a == total[n - i]
             b == total[n - (i - 1)]
             p == place[i - 1]
             q == place[i]
             x == sum[i - 1]
             y == sum[i]
             d == s[n + 1 - i]
  <2>1. /\ n - i \in 0..n /\ n - (i - 1) \in 1..n /\ n - (i - 1) - 1 = n - i
        /\ i - 1 \in 0..n /\ n + 1 - i = n - (i - 1) /\ i \in 0..n
    BY <1>1
  <2>2. a \in Nat /\ b \in Nat /\ p \in Nat /\ q \in Nat /\ x \in Nat /\ y \in Nat
    <3>1. n - (i - 1) \in 0..n
      BY <2>1
    <3> HIDE DEF n
    <3> QED
      BY <1>2, <2>1, <3>1
  <2>3. b = 16 * a + d
    BY <2>1 DEF IsTotal
  <2>4. d \in 0..15 /\ d % 16 = d
    BY <1>1
  <2>5. q = 16 * p /\ y = x + d * p
    BY <2>4 DEF IsSum
  <2>6. b * p + x = total[n]
    BY <1>4
  <2> HIDE DEF a, b, p, q, x, y, d
  <2>7. a * q + y = b * p + x
    <3>1. a * (16 * p) = (16 * a) * p
      BY <2>2
    <3>2. (16 * a + d) * p = (16 * a) * p + d * p
      BY <2>2, <2>4
    <3>3. d * p \in Nat /\ (16 * a) * p \in Nat
      BY <2>2, <2>4
    <3> QED
      BY <2>2, <2>3, <2>5, <3>1, <3>2, <3>3
  <2> QED
    BY <2>1, <2>6, <2>7 DEF a, q, y
<1> HIDE DEF T
<1>5. n \in T
  <2>1. \A i \in 0..n : i \in T
    BY <1>1, <1>3, <1>4, Loop!RoundInduction
  <2> QED
    BY <1>1, <2>1
<1>6. total[n - n] * place[n] + sum[n] = total[n]
  BY <1>5 DEF T
<1>7. n - n = 0 /\ place[n] \in Nat /\ sum[n] \in Nat
  BY <1>1, <1>2
<1>8. 0 * place[n] + sum[n] = sum[n]
  BY <1>7
<1> QED
  BY <1>2, <1>6, <1>7, <1>8

\* int_from_string gives the number that is written, or -1.
LEMMA ValueIs ==
    ASSUME NEW s \in Seq(Digits)
    PROVE  /\ Value(s) \in Nat
           /\ int_from_string(s) = -1 \/ int_from_string(s) = Value(s)
<1>1. PICK place, sum : IsSum(place, sum, s) /\ Value(s) = sum[Len(s)]
  BY ValueRounds
<1>2. Value(s) \in Nat
  BY <1>1 DEF IsSum
<1>3. CASE \E i \in DOMAIN s : int_from_char(s[i]) = -1
  BY <1>2, <1>3 DEF int_from_string
<1>4. CASE ~ \E i \in DOMAIN s : int_from_char(s[i]) = -1
  <2>1. \A i \in 1..Len(s) : s[i] \in 0..15
    BY <1>4 DEF int_from_char
  <2>2. s \in Seq(0..15)
    <3>1. Len(s) \in Nat /\ s = [i \in 1..Len(s) |-> s[i]]
      OBVIOUS
    <3>2. s \in [1..Len(s) -> 0..15]
      BY <2>1, <3>1
    <3> QED
      BY <3>1, <3>2
  <2>3. PICK total : IsTotal(total, s) /\ int_from_string(s) = total[Len(s)]
    BY <2>2, TotalRounds
  <2>4. total[Len(s)] = sum[Len(s)]
    BY <1>1, <2>2, <2>3, TotalIsSum
  <2> QED
    BY <1>1, <1>2, <2>3, <2>4
<1> QED
  BY <1>3, <1>4

-----------------------------------------------------------------------------
Rounds == ROOTFS_FILE_COUNT + 1

\* A round of a walk along next_file.
Onward(fs, ns, w) ==
    IF next_file(fs, ns, Last(w)) = NULL THEN w
    ELSE Append(w, next_file(fs, ns, Last(w)))

IsWalk(walk, fs, ns, first) ==
    /\ walk[0] = <<first>>
    /\ \A i \in 1..Rounds : walk[i] = Onward(fs, ns, walk[i - 1])
    /\ Siblings(fs, ns, first) = walk[Rounds]

\* A walk stays in a set that next_file does not leave.
LEMMA SiblingsWalk ==
    ASSUME NEW fs, NEW ns, NEW P, NEW first \in P,
           \A p \in P : next_file(fs, ns, p) \in P \cup {NULL}
    PROVE  \E walk \in [0..Rounds -> Seq(P) \ {<<>>}] : IsWalk(walk, fs, ns, first)
<1> DEFINE V == Seq(P) \ {<<>>}
           step == [iv \in (1..Rounds) \X V |-> Onward(fs, ns, iv[2])]
           walk == CHOOSE w : w = [i \in 0..(ROOTFS_FILE_COUNT + 1) |->
                      IF i = 0 THEN <<first>>
                      ELSE IF next_file(fs, ns, Last(w[i - 1])) = NULL THEN w[i - 1]
                           ELSE Append(w[i - 1], next_file(fs, ns, Last(w[i - 1])))]
<1>1. Rounds \in Nat /\ Rounds > 0
  BY RootfsAssumption DEF Rounds
<1>2. <<first>> \in V
  OBVIOUS
<1>3. ASSUME NEW v \in V PROVE Last(v) \in P /\ Onward(fs, ns, v) \in V
  <2>1. v \in Seq(P) /\ v # <<>>
    OBVIOUS
  <2>2. Last(v) \in P
    BY <2>1 DEF Last
  <2>3. ASSUME NEW q \in P PROVE Append(v, q) \in Seq(P) /\ Append(v, q) # <<>>
    BY <2>1, AppendProperties
  <2>4. next_file(fs, ns, Last(v)) # NULL => next_file(fs, ns, Last(v)) \in P
    BY <2>2
  <2> QED
    BY <2>1, <2>2, <2>3, <2>4 DEF Onward
<1> HIDE DEF V
<1>4. step \in [(1..Rounds) \X V -> V]
  BY <1>3
<1>5. PICK f \in [0..Rounds -> V] : Loop!IsLoop(f, Rounds, <<first>>, step)
  <2> HIDE DEF step
  <2> QED
    BY <1>1, <1>2, <1>4, Loop!LoopExists
<1>6. f[0] = <<first>>
  BY <1>5 DEF Loop!IsLoop
<1>7. ASSUME NEW i \in 1..Rounds PROVE f[i] = Onward(fs, ns, f[i - 1])
  <2>1. f[i] = step[<<i, f[i - 1]>>]
    BY <1>5 DEF Loop!IsLoop
  <2>2. <<i, f[i - 1]>> \in (1..Rounds) \X V
    BY <1>1
  <2> QED
    BY <2>1, <2>2
<1>8. f = [i \in 0..(ROOTFS_FILE_COUNT + 1) |->
              IF i = 0 THEN <<first>>
              ELSE IF next_file(fs, ns, Last(f[i - 1])) = NULL THEN f[i - 1]
                   ELSE Append(f[i - 1], next_file(fs, ns, Last(f[i - 1])))]
  <2>1. f = [i \in 0..Rounds |-> IF i = 0 THEN <<first>> ELSE Onward(fs, ns, f[i - 1])]
    <3>1. \A i \in 0..Rounds :
             f[i] = IF i = 0 THEN <<first>> ELSE Onward(fs, ns, f[i - 1])
      <4> TAKE i \in 0..Rounds
      <4>1. i = 0 \/ i \in 1..Rounds
        BY <1>1
      <4>2. CASE i = 0
        BY <1>6, <4>2
      <4>3. CASE i \in 1..Rounds
        <5>1. i # 0
          BY <4>3
        <5> QED
          BY <1>7, <4>3, <5>1, Zenon
      <4> QED
        BY <4>1, <4>2, <4>3
    <3> QED
      BY <3>1
  <2> QED
    BY <2>1 DEF Onward, Rounds
<1>9. walk = [i \in 0..(ROOTFS_FILE_COUNT + 1) |->
                 IF i = 0 THEN <<first>>
                 ELSE IF next_file(fs, ns, Last(walk[i - 1])) = NULL THEN walk[i - 1]
                      ELSE Append(walk[i - 1], next_file(fs, ns, Last(walk[i - 1])))]
  BY <1>8, Zenon
<1>10. Siblings(fs, ns, first) = walk[ROOTFS_FILE_COUNT + 1]
  BY Zenon DEF Siblings
<1> HIDE DEF walk
<1>11. walk[0] = <<first>> /\ \A i \in 1..Rounds : walk[i] = Onward(fs, ns, walk[i - 1])
  <2>1. walk = [i \in 0..Rounds |-> IF i = 0 THEN <<first>> ELSE Onward(fs, ns, walk[i - 1])]
    BY <1>9, Zenon DEF Onward, Rounds
  <2>2. 0 \in 0..Rounds /\ \A i \in 1..Rounds : i \in 0..Rounds /\ i # 0
    BY <1>1
  <2>3. \A i \in 0..Rounds :
           walk[i] = IF i = 0 THEN <<first>> ELSE Onward(fs, ns, walk[i - 1])
    BY <2>1, Zenon
  <2> QED
    BY <2>2, <2>3, Zenon
<1>12. \A i \in 1..Rounds : f[i - 1] = walk[i - 1] => f[i] = walk[i]
  BY <1>7, <1>11, Zenon
<1>13. \A i \in 0..Rounds : walk[i] = f[i]
  <2>1. f[0] = walk[0]
    BY <1>6, <1>11
  <2> QED
    BY <1>1, <1>12, <2>1, SameLoop, Zenon
<1>14. IsWalk(f, fs, ns, first)
  <2>1. Siblings(fs, ns, first) = f[Rounds]
    BY <1>1, <1>10, <1>13 DEF Rounds
  <2> QED
    BY <1>6, <1>7, <2>1 DEF IsWalk
<1> QED
  BY <1>14 DEF V

LEMMA LastWithin ==
    ASSUME NEW fs, NEW ns, NEW P, NEW first \in P,
           \A p \in P : next_file(fs, ns, p) \in P \cup {NULL}
    PROVE  Last(Siblings(fs, ns, first)) \in P
<1>1. PICK walk \in [0..Rounds -> Seq(P) \ {<<>>}] : IsWalk(walk, fs, ns, first)
  BY SiblingsWalk
<1>2. Siblings(fs, ns, first) \in Seq(P) \ {<<>>}
  BY <1>1, RootfsAssumption DEF IsWalk, Rounds
<1> QED
  BY <1>2 DEF Last

-----------------------------------------------------------------------------
FileType ==
    [name : Seq(Chars), parent : Pointers, type : Types, next : Pointers, link : Pointers]
InodeType == [number : Number \cup {0}, data : Pointers, size : Nat]

LEMMA PointerIs ==
    ASSUME NEW p \in Pointers
    PROVE  \/ p = NULL
           \/ p[1] = "file" /\ p[2] \in Files /\ p = <<"file", p[2]>> /\ p # NULL
           \/ p[1] = "inode" /\ p[2] \in Inodes /\ p = <<"inode", p[2]>> /\ p # NULL
           \/ p[1] = "archive" /\ p[2] \in Nat /\ p = <<"archive", p[2]>> /\ p # NULL
<1>1. CASE p = NULL
  BY <1>1
<1>2. CASE p \in {"file"} \X Files
  BY <1>2 DEF NULL
<1>3. CASE p \in {"inode"} \X Inodes
  BY <1>3 DEF NULL
<1>4. CASE p \in {"archive"} \X Nat
  BY <1>4 DEF NULL
<1> QED
  BY <1>1, <1>2, <1>3, <1>4 DEF Pointers

LEMMA PointerIn ==
    /\ NULL \in Pointers /\ Elsewhere \in Pointers /\ Elsewhere # NULL
    /\ \A i \in Files : <<"file", i>> \in Pointers /\ <<"file", i>> # NULL
    /\ \A i \in Inodes : <<"inode", i>> \in Pointers /\ <<"inode", i>> # NULL
    /\ \A n \in Nat : <<"archive", n>> \in Pointers /\ <<"archive", n>> # NULL
  BY DEF Pointers, NULL, Elsewhere

LEMMA NextFileIs ==
    ASSUME NEW fs, NEW ns, NEW p
    PROVE  /\ p[1] = "file" => next_file(fs, ns, p) = fs[p[2]].next
           /\ p[1] = "inode" /\ p[2] + 1 \in Inodes =>
                 next_file(fs, ns, p) = ns[p[2] + 1].data
           /\ p[1] = "inode" /\ p[2] + 1 \notin Inodes => next_file(fs, ns, p) = Elsewhere
           /\ p[1] = "archive" => next_file(fs, ns, p) = Elsewhere
  BY DEF next_file

LEMMA NextFileType ==
    ASSUME NEW fs \in [Files -> FileType], NEW ns \in [Inodes -> InodeType],
           NEW p \in Pointers \ {NULL}
    PROVE  next_file(fs, ns, p) \in Pointers
<1>1. CASE p[1] = "file"
  BY <1>1, NextFileIs, PointerIs DEF FileType
<1>2. CASE p[1] = "inode" /\ p[2] + 1 \in Inodes
  BY <1>2, NextFileIs DEF InodeType
<1>3. CASE p[1] = "inode" /\ p[2] + 1 \notin Inodes
  BY <1>3, NextFileIs, PointerIn
<1>4. CASE p[1] = "archive"
  BY <1>4, NextFileIs, PointerIn
<1> QED
  BY <1>1, <1>2, <1>3, <1>4, PointerIs

\* Where a walk has ended: at a file or an inode with a null pointer to follow.
IsEnd(fs, ns, p) ==
    \/ p[1] = "file" /\ p[2] \in Files /\ fs[p[2]].next = NULL
    \/ p[1] = "inode" /\ p[2] \in Inodes /\ p[2] + 1 \in Inodes /\ ns[p[2] + 1].data = NULL

LEMMA WalkEndsAt ==
    ASSUME NEW fs \in [Files -> FileType], NEW ns \in [Inodes -> InodeType],
           NEW first \in Pointers \ {NULL}, WalkEnds(fs, ns, first)
    PROVE  IsEnd(fs, ns, Last(Siblings(fs, ns, first)))
<1> DEFINE P == Pointers \ {NULL}
           last == Last(Siblings(fs, ns, first))
<1>1. \A p \in P : next_file(fs, ns, p) \in P \cup {NULL}
  BY NextFileType
<1>2. last \in P
  BY <1>1, LastWithin
<1>3. next_file(fs, ns, last) = NULL
  BY DEF WalkEnds
<1> HIDE DEF last
<1>4. \/ last[1] = "file" /\ last[2] \in Files
      \/ last[1] = "inode" /\ last[2] \in Inodes
      \/ last[1] = "archive"
  BY <1>2, PointerIs
<1>5. IsEnd(fs, ns, last)
  BY <1>3, <1>4, NextFileIs, PointerIn DEF IsEnd
<1> QED
  BY <1>5 DEF last

-----------------------------------------------------------------------------
\* The arrays and indices as TypeOK has them.
ArraysTyped ==
    /\ files \in [Files -> FileType]
    /\ inodes \in [Inodes -> InodeType]
    /\ findex \in Files /\ iindex \in Inodes /\ ino \in Inodes

LEMMA CountFacts ==
    /\ Files \subseteq Nat /\ Inodes \subseteq Nat
    /\ ROOTFS_FILE_COUNT \in Nat /\ ROOTFS_FILE_COUNT > 0 /\ 0 \in Files
    /\ ROOTFS_INODE_COUNT \in Nat /\ ROOTFS_INODE_COUNT > 0 /\ 0 \in Inodes
  BY RootfsAssumption DEF Files, Inodes

LEMMA EntryFacts ==
    ASSUME NEW e \in Entries
    PROVE  /\ e.mode \in Types /\ e.number \in Number
           /\ Stored(e.base) \in Seq(Chars) /\ Stored(e.dir) \in Seq(Chars)
           /\ Len(Stored(e.base)) < ROOTFS_MAX_FILENAME_SIZE
           /\ Length(e) \in Nat
           /\ int_from_string(e.size) = -1 \/ int_from_string(e.size) = Length(e)
           /\ NameSize(e) \in Nat
           /\ int_from_string(e.namesize) = -1 \/ int_from_string(e.namesize) = NameSize(e)
<1>1. /\ e.mode \in {"DIRECTORY", "REGULAR", "INVALID"} /\ e.size \in Seq(Digits)
      /\ e.dir \in Seq(Chars) /\ e.base \in Seq(Chars)
      /\ e.namesize \in Seq(Digits) /\ Value(e.namesize) = NameSize(e)
  BY RootfsAssumption
<1>2. /\ Value(e.size) \in Nat
      /\ int_from_string(e.size) = -1 \/ int_from_string(e.size) = Value(e.size)
  BY <1>1, ValueIs, Zenon
<1>3. /\ Value(e.namesize) \in Nat
      /\ int_from_string(e.namesize) = -1 \/ int_from_string(e.namesize) = Value(e.namesize)
  BY <1>1, ValueIs, Zenon
<1> QED
  BY <1>1, <1>2, <1>3, StoredType DEF Types, Number, Length

\* The word of the union is null, an inode, or as it was.
LEMMA LinkIs ==
    ASSUME ArraysTyped, NEW e \in Entries
    PROVE  /\ Link(e) \in Pointers
           /\ e.mode = "DIRECTORY" => Link(e) = NULL
           /\ \/ Link(e) = NULL
              \/ \E i \in Inodes : Link(e) = <<"inode", i>>
              \/ Link(e) = files[findex].link
<1> DEFINE same == {i \in Inodes : inodes[i].number = e.number}
<1>1. same # {} => Min(same) \in Inodes
  BY MinIn, CountFacts
<1>2. files[findex].link \in Pointers
  BY DEF ArraysTyped, FileType
<1>3. CASE e.mode = "DIRECTORY"
  BY <1>3, PointerIn DEF Link
<1>4. CASE e.mode # "DIRECTORY" /\ e.mode = "REGULAR" /\ ~HasInode(e) /\ same # {}
  <2>1. Link(e) = <<"inode", Min(same)>>
    BY <1>4 DEF Link
  <2> QED
    BY <1>1, <1>4, <2>1, PointerIn
<1>5. CASE e.mode # "DIRECTORY" /\ ~(e.mode = "REGULAR" /\ ~HasInode(e) /\ same # {})
  <2>1. Link(e) = files[findex].link
    BY <1>5 DEF Link
  <2> QED
    BY <1>2, <1>5, <2>1
<1> QED
  BY <1>3, <1>4, <1>5

LEMMA NamedIs ==
    ASSUME ArraysTyped, NEW e \in Entries
    PROVE  /\ Named(e).files \in [Files -> FileType]
           /\ Named(e).inodes \in [Inodes -> InodeType]
           /\ \A i \in Files \ {findex} : Named(e).files[i] = files[i]
           /\ Named(e).files[findex].name = Stored(e.base)
           /\ Named(e).files[findex].type = e.mode
           /\ Named(e).files[findex].next = NULL
           /\ Named(e).files[findex].link = Link(e)
           /\ Named(e).files[findex].parent = files[findex].parent
           /\ \A i \in Inodes : /\ Named(e).inodes[i].data = inodes[i].data
                                /\ Named(e).inodes[i].size = inodes[i].size
<1> DEFINE fs == [files EXCEPT ![findex].name = Stored(e.base), ![findex].type = e.mode,
                               ![findex].next = NULL, ![findex].link = Link(e)]
           ns == IF HasInode(e) THEN [inodes EXCEPT ![ino].number = e.number] ELSE inodes
<1>1. Named(e).files = fs /\ Named(e).inodes = ns
  BY DEF Named
<1>2. /\ Stored(e.base) \in Seq(Chars) /\ e.mode \in Types /\ NULL \in Pointers
      /\ Link(e) \in Pointers /\ e.number \in Number \cup {0}
  BY EntryFacts, PointerIn, LinkIs
<1>3. /\ fs \in [Files -> FileType]
      /\ \A i \in Files \ {findex} : fs[i] = files[i]
      /\ fs[findex].name = Stored(e.base) /\ fs[findex].type = e.mode
      /\ fs[findex].next = NULL /\ fs[findex].link = Link(e)
      /\ fs[findex].parent = files[findex].parent
  BY <1>2 DEF ArraysTyped, FileType
<1>4. /\ ns \in [Inodes -> InodeType]
      /\ \A i \in Inodes : ns[i].data = inodes[i].data /\ ns[i].size = inodes[i].size
  BY <1>2 DEF ArraysTyped, InodeType
<1> HIDE DEF fs, ns
<1> QED
  BY <1>1, <1>3, <1>4

\* What a new file is attached to.
Me == <<"file", findex>>
AsFirst(e) == HasParent(e) /\ FirstChild(e) = NULL
AsNext(e) == HasParent(e) /\ FirstChild(e) # NULL

LEMMA ParentIs ==
    ASSUME ArraysTyped, NEW e \in Entries, HasParent(e)
    PROVE  /\ Parent(e) \in Files /\ FirstChild(e) \in Pointers
           /\ strequal(Named(e).files[Parent(e)].name, Stored(e.dir))
           /\ \A i \in Files : strequal(Named(e).files[i].name, Stored(e.dir)) => Parent(e) <= i
<1> DEFINE S == Matches(Named(e).files, Stored(e.dir))
<1>1. S # {} /\ S \subseteq Files
  BY DEF HasParent, Matches
<1>2. Parent(e) = Min(S)
  BY DEF Parent, search_file
<1> HIDE DEF S
<1>3. Parent(e) \in S /\ \A i \in S : Parent(e) <= i
  BY <1>1, <1>2, MinIn, CountFacts
<1>4. FirstChild(e) \in Pointers
  BY <1>1, <1>3, NamedIs DEF FirstChild, FileType
<1> QED
  BY <1>1, <1>3, <1>4 DEF S, Matches

LEMMA LastChildIs ==
    ASSUME ArraysTyped, NEW e \in Entries, AsNext(e), ~Astray(e)
    PROVE  IsEnd(Named(e).files, Named(e).inodes, LastChild(e))
<1>1. WalkEnds(Named(e).files, Named(e).inodes, FirstChild(e))
  BY DEF AsNext, Astray
<1>2. FirstChild(e) \in Pointers \ {NULL}
  BY ParentIs DEF AsNext
<1> QED
  BY <1>1, <1>2, WalkEndsAt, NamedIs DEF LastChild

ParentPointer(e) ==
    IF HasParent(e) THEN <<"file", Parent(e)>>
    ELSE IF Stored(e.dir) # <<>> THEN NULL ELSE files[findex].parent

\* current_file gets its parent and is stored in one place at most.
IsAttached(e, fs, ns) ==
    /\ fs \in [Files -> FileType]
    /\ ns \in [Inodes -> InodeType]
    /\ \A i \in Files :
          /\ fs[i].name = Named(e).files[i].name
          /\ fs[i].type = Named(e).files[i].type
          /\ fs[i].parent = IF i = findex THEN ParentPointer(e) ELSE files[i].parent
          /\ fs[i].link = IF AsFirst(e) /\ i = Parent(e) THEN Me ELSE Named(e).files[i].link
          /\ fs[i].next = IF AsNext(e) /\ LastChild(e)[1] = "file" /\ i = LastChild(e)[2]
                          THEN Me ELSE Named(e).files[i].next
    /\ \A i \in Inodes :
          /\ ns[i].data = IF AsNext(e) /\ LastChild(e)[1] = "inode" /\ i = LastChild(e)[2] + 1
                          THEN Me ELSE inodes[i].data
          /\ ns[i].size = inodes[i].size

LEMMA AttachedIs ==
    ASSUME ArraysTyped, NEW e \in Entries, ~Astray(e)
    PROVE  IsAttached(e, Attached(e).files, Attached(e).inodes)
<1> DEFINE w == Named(e)
           last == LastChild(e)
           pf == [w.files EXCEPT ![findex].parent = ParentPointer(e)]
           parented == [w EXCEPT !.files[findex].parent =
                           IF HasParent(e) THEN <<"file", Parent(e)>>
                           ELSE IF Stored(e.dir) # <<>> THEN NULL ELSE @]
<1>1. /\ w.files \in [Files -> FileType] /\ w.inodes \in [Inodes -> InodeType]
      /\ \A i \in Files \ {findex} : w.files[i] = files[i]
      /\ w.files[findex].parent = files[findex].parent
      /\ \A i \in Inodes : w.inodes[i].data = inodes[i].data /\ w.inodes[i].size = inodes[i].size
  BY NamedIs
<1>2. findex \in Files /\ Me \in Pointers /\ Me # NULL
  BY PointerIn DEF ArraysTyped, Me
<1>3. ParentPointer(e) \in Pointers
  <2>1. files[findex].parent \in Pointers
    BY <1>2 DEF ArraysTyped, FileType
  <2> QED
    BY <2>1, ParentIs, PointerIn DEF ParentPointer
<1>4. w = [files |-> w.files, inodes |-> w.inodes]
  BY DEF Named
<1>5. parented = [files |-> pf, inodes |-> w.inodes]
  <2>1. w.files[findex].parent = files[findex].parent
    BY <1>1
  <2>2. parented = [w EXCEPT !.files = [w.files EXCEPT ![findex].parent =
                           IF HasParent(e) THEN <<"file", Parent(e)>>
                           ELSE IF Stored(e.dir) # <<>> THEN NULL ELSE w.files[findex].parent]]
    BY <1>1, <1>2, <1>4
  <2> QED
    BY <1>4, <2>1, <2>2 DEF ParentPointer
<1>6. /\ pf \in [Files -> FileType]
      /\ \A i \in Files :
            /\ pf[i].name = w.files[i].name /\ pf[i].type = w.files[i].type
            /\ pf[i].link = w.files[i].link /\ pf[i].next = w.files[i].next
            /\ pf[i].parent = IF i = findex THEN ParentPointer(e) ELSE files[i].parent
  BY <1>1, <1>2, <1>3 DEF FileType
<1>7. CASE ~HasParent(e)
  <2>1. Attached(e) = parented
    BY <1>7 DEF Attached
  <2> HIDE DEF parented, pf, w
  <2>2. Attached(e).files = pf /\ Attached(e).inodes = w.inodes
    BY <1>5, <2>1
  <2>3. ~AsFirst(e) /\ ~AsNext(e)
    BY <1>7 DEF AsFirst, AsNext
  <2> QED
    BY <1>1, <1>6, <2>2, <2>3 DEF IsAttached, w
<1>8. CASE AsFirst(e)
  <2>1. Attached(e) = [parented EXCEPT !.files[Parent(e)].link = Me]
    BY <1>8 DEF Attached, AsFirst, Me
  <2> HIDE DEF parented, pf, w
  <2>2. /\ Attached(e).files = [pf EXCEPT ![Parent(e)].link = Me]
        /\ Attached(e).inodes = w.inodes
    BY <1>5, <2>1
  <2>3. ~AsNext(e) /\ Parent(e) \in Files
    BY <1>8, ParentIs DEF AsFirst, AsNext
  <2>4. /\ Attached(e).files \in [Files -> FileType]
        /\ \A i \in Files :
            /\ Attached(e).files[i].name = pf[i].name
            /\ Attached(e).files[i].type = pf[i].type
            /\ Attached(e).files[i].next = pf[i].next
            /\ Attached(e).files[i].parent = pf[i].parent
            /\ Attached(e).files[i].link = IF i = Parent(e) THEN Me ELSE pf[i].link
    <3> DEFINE fs == Attached(e).files
               p == Parent(e)
    <3>1. fs = [pf EXCEPT ![p].link = Me] /\ p \in Files
      BY <2>2, <2>3
    <3> HIDE DEF fs, p
    <3>2. /\ fs \in [Files -> FileType]
          /\ \A i \in Files :
                /\ fs[i].name = pf[i].name /\ fs[i].type = pf[i].type
                /\ fs[i].next = pf[i].next /\ fs[i].parent = pf[i].parent
                /\ fs[i].link = IF i = p THEN Me ELSE pf[i].link
      BY <1>2, <1>6, <3>1 DEF FileType
    <3> QED
      BY <3>2 DEF fs, p
  <2> QED
    BY <1>1, <1>6, <1>8, <2>2, <2>3, <2>4 DEF IsAttached, w
<1>9. CASE AsNext(e)
  <2>1. HasParent(e) /\ FirstChild(e) # NULL /\ ~AsFirst(e)
    BY <1>9 DEF AsFirst, AsNext
  <2>2. IsEnd(w.files, w.inodes, last)
    BY <1>9, LastChildIs
  <2>3. CASE last[1] = "inode"
    <3>1. Attached(e) = [parented EXCEPT !.inodes[last[2] + 1].data = Me]
      BY <2>1, <2>3 DEF Attached, Me
    <3> HIDE DEF parented, pf, w, last
    <3>2. /\ Attached(e).files = pf
          /\ Attached(e).inodes = [w.inodes EXCEPT ![last[2] + 1].data = Me]
      BY <1>5, <3>1
    <3>3. last[2] + 1 \in Inodes
      BY <2>2, <2>3 DEF IsEnd
    <3>4. /\ Attached(e).inodes \in [Inodes -> InodeType]
          /\ \A i \in Inodes :
                /\ Attached(e).inodes[i].size = w.inodes[i].size
                /\ Attached(e).inodes[i].data =
                      IF i = last[2] + 1 THEN Me ELSE w.inodes[i].data
      BY <1>1, <1>2, <3>2, <3>3 DEF InodeType
    <3> QED
      BY <1>1, <1>6, <1>9, <2>1, <2>3, <3>2, <3>4 DEF IsAttached, w, last
  <2>4. CASE last[1] # "inode"
    <3>1. Attached(e) = [parented EXCEPT !.files[last[2]].next = Me]
      BY <2>1, <2>4 DEF Attached, Me
    <3> HIDE DEF parented, pf, w, last
    <3>2. /\ Attached(e).files = [pf EXCEPT ![last[2]].next = Me]
          /\ Attached(e).inodes = w.inodes
      BY <1>5, <3>1
    <3>3. last[1] = "file" /\ last[2] \in Files
      BY <2>2, <2>4 DEF IsEnd
    <3>4. /\ Attached(e).files \in [Files -> FileType]
          /\ \A i \in Files :
                /\ Attached(e).files[i].name = pf[i].name
                /\ Attached(e).files[i].type = pf[i].type
                /\ Attached(e).files[i].link = pf[i].link
                /\ Attached(e).files[i].parent = pf[i].parent
                /\ Attached(e).files[i].next = IF i = last[2] THEN Me ELSE pf[i].next
      BY <1>2, <1>6, <3>2, <3>3 DEF FileType
    <3> QED
      BY <1>1, <1>6, <1>9, <2>1, <3>2, <3>3, <3>4 DEF IsAttached, w, last
  <2> QED
    BY <2>3, <2>4
<1> QED
  BY <1>7, <1>8, <1>9 DEF AsFirst, AsNext

\* A file that is given an inode with data and size.
HasData(e) == e.mode = "REGULAR" /\ int_from_string(e.size) > 0
DataStart(e) == pos + Padded(HeaderSize + int_from_string(e.namesize))

\* A round of init_ramfs, array by array.
IsRound(e) ==
    /\ e.mode # "INVALID" /\ ~Astray(e)
    /\ Reading(e)
    /\ files' \in [Files -> FileType] /\ inodes' \in [Inodes -> InodeType]
    /\ \A i \in Files :
          /\ files'[i].name = Named(e).files[i].name
          /\ files'[i].type = Named(e).files[i].type
          /\ files'[i].parent = IF i = findex THEN ParentPointer(e) ELSE files[i].parent
          /\ files'[i].link = IF HasData(e) /\ i = findex THEN <<"inode", NextInode(e)>>
                              ELSE IF AsFirst(e) /\ i = Parent(e) THEN Me
                              ELSE Named(e).files[i].link
          /\ files'[i].next = IF AsNext(e) /\ LastChild(e)[1] = "file" /\ i = LastChild(e)[2]
                              THEN Me ELSE Named(e).files[i].next
    /\ \A i \in Inodes :
          /\ inodes'[i].data = IF HasData(e) /\ i = NextInode(e) THEN <<"archive", DataStart(e)>>
                               ELSE IF AsNext(e) /\ LastChild(e)[1] = "inode"
                                       /\ i = LastChild(e)[2] + 1
                               THEN Me ELSE inodes[i].data
          /\ inodes'[i].size = IF HasData(e) /\ i = NextInode(e) THEN Length(e)
                               ELSE inodes[i].size
    /\ findex' = NextFile(findex)
    /\ iindex' = IF HasData(e) THEN (NextInode(e) + 1) % ROOTFS_INODE_COUNT ELSE NextInode(e)
    /\ ino' \in Inodes
    /\ pos' = DataStart(e) + Padded(int_from_string(e.size))
    /\ stage' = stage

LEMMA NextInodeType ==
    ASSUME ArraysTyped, NEW e \in Entries
    PROVE  NextInode(e) \in Inodes /\ CurrentInode(e) \in Inodes
           /\ (NextInode(e) + 1) % ROOTFS_INODE_COUNT \in Inodes
<1>1. \A n \in Nat : n % ROOTFS_INODE_COUNT \in Inodes
  BY CountFacts DEF Inodes
<1>2. iindex \in Nat /\ iindex \in Inodes /\ ino \in Inodes
  BY CountFacts DEF ArraysTyped
<1>3. NextInode(e) \in Inodes
  BY <1>1, <1>2 DEF NextInode
<1>4. NextInode(e) + 1 \in Nat
  <2>1. NextInode(e) \in Nat
    BY <1>3, CountFacts
  <2> QED
    BY <2>1
<1>5. CurrentInode(e) \in Inodes
  BY <1>2, <1>3 DEF CurrentInode
<1> QED
  BY <1>1, <1>3, <1>4, <1>5

LEMMA DataStartType ==
    ASSUME NEW e \in Entries, pos \in Nat
    PROVE  DataStart(e) \in Nat
<1> DEFINE n == int_from_string(e.namesize)
<1>1. n = -1 \/ n \in Nat
  BY EntryFacts
<1> HIDE DEF n
<1>2. HeaderSize + n \in Nat
  BY <1>1 DEF HeaderSize
<1>3. Padded(HeaderSize + n) \in Nat
  BY <1>2, RoundUpIs
<1> QED
  BY <1>3 DEF DataStart, n

LEMMA RoundIs ==
    ASSUME ArraysTyped, pos \in Nat, NEW e \in Entries, init_ramfs(e)
    PROVE  IsRound(e)
<1> DEFINE a == Attached(e)
           size == int_from_string(e.size)
           j == NextInode(e)
<1>1. Reading(e) /\ e.mode # "INVALID" /\ ~Astray(e)
  BY DEF init_ramfs
<1>2. IsAttached(e, a.files, a.inodes)
  BY <1>1, AttachedIs
<1>3. j \in Inodes /\ CurrentInode(e) \in Inodes /\ SizeInode(e) = j
  BY NextInodeType DEF SizeInode
<1>4. size = -1 \/ size = Length(e)
  BY EntryFacts
<1>5. Length(e) \in Nat
  BY EntryFacts
<1>6. findex \in Files /\ iindex \in Inodes
  BY DEF ArraysTyped
<1>7. /\ findex' = NextFile(findex)
      /\ pos' = DataStart(e) + Padded(size)
      /\ stage' = stage
  BY DEF init_ramfs, DataStart
<1>8. HasData(e) <=> HasInode(e) /\ size > 0
  BY DEF HasData, HasInode
<1>9. DataStart(e) \in Nat
  BY DataStartType
<1>10. CASE HasData(e)
  <2>1. CurrentInode(e) = j
    BY <1>8, <1>10 DEF CurrentInode
  <2>2. size = Length(e)
    BY <1>4, <1>10 DEF HasData
  <2>3. /\ files' = [a.files EXCEPT ![findex].link = <<"inode", j>>]
        /\ inodes' = [a.inodes EXCEPT ![j].data = <<"archive", DataStart(e)>>, ![j].size = size]
        /\ ino' = j
        /\ iindex' = (j + 1) % ROOTFS_INODE_COUNT
    BY <1>3, <1>8, <1>10, <2>1 DEF init_ramfs, DataStart
  <2>4. <<"inode", j>> \in Pointers /\ <<"archive", DataStart(e)>> \in Pointers
    BY <1>3, <1>9, PointerIn
  <2>9. a.files \in [Files -> FileType] /\ a.inodes \in [Inodes -> InodeType]
    BY <1>2 DEF IsAttached
  <2> DEFINE fs == a.files
             ns == a.inodes
  <2> HIDE DEF a, j, size, fs, ns
  <2>10. fs \in [Files -> FileType] /\ ns \in [Inodes -> InodeType]
    BY <2>9 DEF fs, ns
  <2>11. /\ files' = [fs EXCEPT ![findex].link = <<"inode", j>>]
        /\ inodes' = [ns EXCEPT ![j].data = <<"archive", DataStart(e)>>, ![j].size = size]
    BY <2>3 DEF fs, ns
  <2>5. /\ files' \in [Files -> FileType]
        /\ \A i \in Files :
              /\ files'[i].name = fs[i].name /\ files'[i].type = fs[i].type
              /\ files'[i].parent = fs[i].parent /\ files'[i].next = fs[i].next
              /\ files'[i].link = IF i = findex THEN <<"inode", j>> ELSE fs[i].link
    BY <1>6, <2>4, <2>10, <2>11 DEF FileType
  <2>6. /\ inodes' \in [Inodes -> InodeType]
        /\ \A i \in Inodes :
              /\ inodes'[i].data = IF i = j THEN <<"archive", DataStart(e)>> ELSE ns[i].data
              /\ inodes'[i].size = IF i = j THEN size ELSE ns[i].size
    BY <1>3, <1>5, <2>2, <2>4, <2>10, <2>11 DEF InodeType
  <2>7. \A i \in Files :
          /\ files'[i].name = Named(e).files[i].name
          /\ files'[i].type = Named(e).files[i].type
          /\ files'[i].parent = IF i = findex THEN ParentPointer(e) ELSE files[i].parent
          /\ files'[i].link = IF HasData(e) /\ i = findex THEN <<"inode", j>>
                              ELSE IF AsFirst(e) /\ i = Parent(e) THEN Me
                              ELSE Named(e).files[i].link
          /\ files'[i].next = IF AsNext(e) /\ LastChild(e)[1] = "file" /\ i = LastChild(e)[2]
                              THEN Me ELSE Named(e).files[i].next
    BY <1>2, <1>10, <2>5 DEF IsAttached, fs
  <2>8. \A i \in Inodes :
          /\ inodes'[i].data = IF HasData(e) /\ i = j THEN <<"archive", DataStart(e)>>
                               ELSE IF AsNext(e) /\ LastChild(e)[1] = "inode"
                                       /\ i = LastChild(e)[2] + 1
                               THEN Me ELSE inodes[i].data
          /\ inodes'[i].size = IF HasData(e) /\ i = j THEN Length(e) ELSE inodes[i].size
    BY <1>2, <1>10, <2>2, <2>6 DEF IsAttached, ns
  <2> QED
    BY <1>1, <1>3, <1>7, <1>10, <2>3, <2>5, <2>6, <2>7, <2>8 DEF IsRound, j, size
<1>11. CASE ~HasData(e)
  <2>1. /\ files' = a.files /\ inodes' = a.inodes
        /\ ino' = CurrentInode(e) /\ iindex' = j
    BY <1>8, <1>11 DEF init_ramfs
  <2> HIDE DEF a, j, size
  <2>2. \A i \in Files :
          /\ files'[i].name = Named(e).files[i].name
          /\ files'[i].type = Named(e).files[i].type
          /\ files'[i].parent = IF i = findex THEN ParentPointer(e) ELSE files[i].parent
          /\ files'[i].link = IF HasData(e) /\ i = findex THEN <<"inode", j>>
                              ELSE IF AsFirst(e) /\ i = Parent(e) THEN Me
                              ELSE Named(e).files[i].link
          /\ files'[i].next = IF AsNext(e) /\ LastChild(e)[1] = "file" /\ i = LastChild(e)[2]
                              THEN Me ELSE Named(e).files[i].next
    BY <1>2, <1>11, <2>1 DEF IsAttached
  <2>3. \A i \in Inodes :
          /\ inodes'[i].data = IF HasData(e) /\ i = j THEN <<"archive", DataStart(e)>>
                               ELSE IF AsNext(e) /\ LastChild(e)[1] = "inode"
                                       /\ i = LastChild(e)[2] + 1
                               THEN Me ELSE inodes[i].data
          /\ inodes'[i].size = IF HasData(e) /\ i = j THEN Length(e) ELSE inodes[i].size
    BY <1>2, <1>11, <2>1 DEF IsAttached
  <2>4. files' \in [Files -> FileType] /\ inodes' \in [Inodes -> InodeType]
    BY <1>2, <2>1 DEF IsAttached
  <2> QED
    BY <1>1, <1>3, <1>7, <1>11, <2>1, <2>2, <2>3, <2>4 DEF IsRound, j, size
<1> QED
  BY <1>10, <1>11

-----------------------------------------------------------------------------
\* The parts of Next.
LEMMA ArraysAre == TypeOK => ArraysTyped /\ pos \in Nat /\ header \in Nat
  BY DEF TypeOK, ArraysTyped, FileType, InodeType

\* After an entry that is not read to its end.
LEMMA ReadingTypes ==
    ASSUME TypeOK, NEW e \in Entries, Reading(e)
    PROVE  /\ header' \in Nat /\ header' = RoundUp(DataAt(e, header) + Length(e))
           /\ archive' = Append(archive, [e |-> e, at |-> header])
           /\ archive' \in Seq([e : Entries, at : Nat])
           /\ Len(archive') = Len(archive) + 1 /\ Len(archive') <= MaxEntries
           /\ answer' = answer /\ stage = "read" /\ pos = header
<1>1. /\ archive \in Seq([e : Entries, at : Nat]) /\ header \in Nat
      /\ archive' = Append(archive, [e |-> e, at |-> header])
      /\ Len(archive) < MaxEntries
      /\ stage = "read" /\ answer' = answer /\ pos = header
      /\ header' = RoundUp(DataAt(e, header) + Length(e))
  BY DEF TypeOK, Reading, check_magic
<1>2. [e |-> e, at |-> header] \in [e : Entries, at : Nat]
  BY <1>1
<1>3. archive' \in Seq([e : Entries, at : Nat]) /\ Len(archive') = Len(archive) + 1
  BY <1>1, <1>2, AppendProperties
<1>4. Len(archive') <= MaxEntries
  BY <1>1, <1>3, LenProperties, RootfsAssumption
<1>5. header' \in Nat
  <2>1. NameSize(e) \in Nat /\ HeaderSize \in Nat /\ Length(e) \in Nat
    BY EntryFacts DEF HeaderSize
  <2>2. header + HeaderSize + NameSize(e) \in Nat
    BY <1>1, <2>1
  <2>3. DataAt(e, header) \in Nat
    BY <2>2, RoundUpIs DEF DataAt
  <2>4. DataAt(e, header) + Length(e) \in Nat
    BY <2>1, <2>3
  <2> QED
    BY <1>1, <2>4, RoundUpIs
<1> QED
  BY <1>1, <1>3, <1>4, <1>5

LEMMA InitTypeOK == Init => TypeOK
<1> SUFFICES ASSUME Init PROVE TypeOK
  OBVIOUS
<1>1. NULL \in Pointers /\ NULL[1] = "NULL" /\ "INVALID" \in Types
  BY PointerIn DEF NULL, Types
<1>2. /\ files \in [Files -> FileType]
      /\ \A i \in Files : Len(files[i].name) < ROOTFS_MAX_FILENAME_SIZE
                          /\ files[i].link = NULL
  BY <1>1, RootfsAssumption DEF Init, FileType
<1>3. inodes \in [Inodes -> InodeType]
  BY <1>1 DEF Init, InodeType
<1>4. archive \in Seq([e : Entries, at : Nat]) /\ Len(archive) <= MaxEntries
  BY RootfsAssumption DEF Init
<1> QED
  BY <1>1, <1>2, <1>3, <1>4, CountFacts DEF Init, TypeOK, FileType, InodeType, NoAnswer

LEMMA RoundTypeOK ==
    ASSUME TypeOK, NEW e \in Entries, init_ramfs(e)
    PROVE  TypeOK'
<1>1. ArraysTyped /\ pos \in Nat
  BY ArraysAre
<1>2. IsRound(e)
  BY <1>1, RoundIs
<1>3. ASSUME NEW i \in Files
      PROVE  /\ Len(files'[i].name) < ROOTFS_MAX_FILENAME_SIZE
             /\ files'[i].type = "DIRECTORY" => files'[i].link[1] \in {"NULL", "file"}
  <2>1. /\ Len(Named(e).files[i].name) < ROOTFS_MAX_FILENAME_SIZE
        /\ Named(e).files[i].type = "DIRECTORY" =>
              Named(e).files[i].link[1] \in {"NULL", "file"}
    <3>1. CASE i = findex
      <4>1. e.mode = "DIRECTORY" => Link(e) = NULL
        BY <1>1, LinkIs
      <4> QED
        BY <1>1, <3>1, <4>1, NamedIs, EntryFacts DEF NULL
    <3>2. CASE i # findex
      <4>1. Named(e).files[i] = files[i]
        BY <1>1, <3>2, NamedIs
      <4> QED
        BY <4>1 DEF TypeOK
    <3> QED
      BY <3>1, <3>2
  <2>2. HasData(e) => Named(e).files[findex].type # "DIRECTORY"
    BY <1>1, NamedIs DEF HasData
  <2>3. Me[1] = "file"
    BY DEF Me
  <2>4. /\ files'[i].name = Named(e).files[i].name
        /\ files'[i].type = Named(e).files[i].type
        /\ files'[i].link = IF HasData(e) /\ i = findex THEN <<"inode", NextInode(e)>>
                            ELSE IF AsFirst(e) /\ i = Parent(e) THEN Me
                            ELSE Named(e).files[i].link
    BY <1>2 DEF IsRound
  <2> QED
    BY <2>1, <2>2, <2>3, <2>4
<1>4. Reading(e)
  BY <1>2 DEF IsRound
<1>5. NextInode(e) \in Inodes /\ (NextInode(e) + 1) % ROOTFS_INODE_COUNT \in Inodes
  BY <1>1, NextInodeType
<1>6. iindex' \in Inodes /\ ino' \in Inodes /\ stage' = stage
  BY <1>2, <1>5 DEF IsRound
<1>7. findex' \in Files
  <2>1. findex + 1 \in Nat
    BY <1>1, CountFacts DEF ArraysTyped
  <2>2. (findex + 1) % ROOTFS_FILE_COUNT \in Files
    BY <2>1, CountFacts DEF Files
  <2> QED
    BY <1>2, <2>2 DEF IsRound, NextFile
<1>8. pos' \in Nat
  <2>2. DataStart(e) \in Nat
    BY <1>1, DataStartType
  <2>3. Padded(int_from_string(e.size)) \in Nat
    BY EntryFacts DEF Padded
  <2> QED
    BY <1>2, <2>2, <2>3 DEF IsRound
<1>9. files' \in [Files -> FileType] /\ inodes' \in [Inodes -> InodeType]
  BY <1>2 DEF IsRound
<1>10. /\ header' \in Nat /\ archive' \in Seq([e : Entries, at : Nat])
       /\ Len(archive') <= MaxEntries /\ answer' = answer
  BY <1>4, ReadingTypes
<1> QED
  BY <1>3, <1>6, <1>7, <1>8, <1>9, <1>10 DEF TypeOK, FileType, InodeType

LEMMA NextTypeOK == TypeOK /\ [Next]_vars => TypeOK'
<1> SUFFICES ASSUME TypeOK, [Next]_vars PROVE TypeOK'
  OBVIOUS
<1>0. ArraysTyped /\ pos \in Nat
  BY ArraysAre
<1>1. ASSUME NEW e \in Entries, init_ramfs(e) PROVE TypeOK'
  BY <1>1, RoundTypeOK
<1>2. ASSUME NEW e \in Entries, init_ramfs_astray(e) PROVE TypeOK'
  <2>1. Reading(e) /\ Astray(e) /\ HasParent(e)
    BY <1>2 DEF init_ramfs_astray, Astray
  <2>2. <<"file", Parent(e)>> \in Pointers
    BY <1>0, <2>1, ParentIs, PointerIn
  <2>3. Named(e).files \in [Files -> FileType] /\ findex \in Files
    BY <1>0, NamedIs DEF ArraysTyped
  <2>4. files' = [Named(e).files EXCEPT ![findex].parent = <<"file", Parent(e)>>]
    BY <1>2 DEF init_ramfs_astray
  <2>5. /\ files' \in [Files -> FileType]
        /\ \A i \in Files : /\ files'[i].name = Named(e).files[i].name
                            /\ files'[i].type = Named(e).files[i].type
                            /\ files'[i].link = Named(e).files[i].link
    BY <2>2, <2>3, <2>4 DEF FileType
  <2>6. ASSUME NEW i \in Files
        PROVE  /\ Len(files'[i].name) < ROOTFS_MAX_FILENAME_SIZE
               /\ files'[i].type = "DIRECTORY" => files'[i].link[1] \in {"NULL", "file"}
    <3>1. CASE i = findex
      <4>1. e.mode = "DIRECTORY" => Link(e) = NULL
        BY <1>0, LinkIs
      <4> QED
        BY <1>0, <2>5, <3>1, <4>1, NamedIs, EntryFacts DEF NULL
    <3>2. CASE i # findex
      <4>1. Named(e).files[i] = files[i]
        BY <1>0, <3>2, NamedIs
      <4> QED
        BY <2>5, <4>1 DEF TypeOK
    <3> QED
      BY <3>1, <3>2
  <2>7. inodes' \in [Inodes -> InodeType]
    BY <1>0, <1>2, NamedIs DEF init_ramfs_astray
  <2>8. iindex' \in Inodes /\ ino' \in Inodes
    BY <1>0, <1>2, NextInodeType DEF init_ramfs_astray
  <2>9. /\ header' \in Nat /\ archive' \in Seq([e : Entries, at : Nat])
        /\ Len(archive') <= MaxEntries /\ answer' = answer
    BY <2>1, ReadingTypes
  <2>10. stage' = "astray" /\ findex' = findex /\ pos' = pos
    BY <1>2 DEF init_ramfs_astray
  <2> QED
    BY <2>5, <2>6, <2>7, <2>8, <2>9, <2>10 DEF TypeOK, FileType, InodeType
<1>3. ASSUME NEW e \in Entries, init_ramfs_invalid(e) PROVE TypeOK'
  <2>1. Reading(e) /\ stage' = "-1" /\ UNCHANGED <<inodes, findex, iindex, ino, pos>>
        /\ files' = [files EXCEPT ![findex].type = "INVALID"]
    BY <1>3 DEF init_ramfs_invalid
  <2>2. /\ header' \in Nat /\ archive' \in Seq([e : Entries, at : Nat])
        /\ Len(archive') <= MaxEntries /\ answer' = answer
    BY <2>1, ReadingTypes
  <2>3. /\ files' \in [Files -> FileType]
        /\ \A i \in Files : /\ files'[i].name = files[i].name
                            /\ files'[i].type = "DIRECTORY" => files[i].type = "DIRECTORY"
                            /\ files'[i].link = files[i].link
    BY <1>0, <2>1 DEF ArraysTyped, FileType, Types
  <2> QED
    BY <2>1, <2>2, <2>3 DEF TypeOK, FileType
<1>4. CASE init_ramfs_magic \/ init_ramfs_end
  BY <1>4 DEF init_ramfs_magic, init_ramfs_end, TypeOK
<1>5. ASSUME NEW name \in Queries, NEW offset \in Offsets, read(name, offset) PROVE TypeOK'
  BY <1>5 DEF read, TypeOK, NoAnswer
<1>6. ASSUME NEW name \in Queries, ls(name) PROVE TypeOK'
  BY <1>6 DEF ls, TypeOK, NoAnswer
<1>7. CASE UNCHANGED vars
  BY <1>7 DEF vars, TypeOK
<1> QED
  BY <1>1, <1>2, <1>3, <1>4, <1>5, <1>6, <1>7 DEF Next, idle

\* Every pointer that init_ramfs stores leads to a slot of its array or into
\* the archive, names fit into their fields, and the children of a directory
\* are files, for every archive and any number of slots.
THEOREM RootfsTypeOK == Spec => []TypeOK
  BY InitTypeOK, NextTypeOK, PTL DEF Spec

-----------------------------------------------------------------------------
\* A size in lower case, which int_from_string refuses.
Refused == \E k \in DOMAIN archive : NameRefused(Entry(k)) \/ SizeRefused(Entry(k))

\* Inductive invariant: until such a size, the reader is where a header is.
HeaderInv ==
    /\ TypeOK
    /\ HeadersFound
    /\ header % 4 = 0
    /\ stage = "read" => pos = header \/ Refused

\* The archive with one entry more.
LEMMA ArchiveGrows ==
    ASSUME TypeOK, NEW e \in Entries, Reading(e)
    PROVE  /\ Len(archive) \in Nat /\ Len(archive') = Len(archive) + 1
           /\ DOMAIN archive = 1..Len(archive) /\ DOMAIN archive' = 1..(Len(archive) + 1)
           /\ \A k \in DOMAIN archive : archive'[k] = archive[k] /\ k \in DOMAIN archive'
           /\ Len(archive) + 1 \in DOMAIN archive'
           /\ archive'[Len(archive) + 1].e = e /\ archive'[Len(archive) + 1].at = header
<1>1. /\ archive' = Append(archive, [e |-> e, at |-> header])
      /\ archive' \in Seq([e : Entries, at : Nat])
      /\ archive \in Seq([e : Entries, at : Nat])
      /\ [e |-> e, at |-> header] \in [e : Entries, at : Nat]
  BY ReadingTypes DEF TypeOK
<1>2. Len(archive) \in Nat /\ DOMAIN archive = 1..Len(archive)
  BY <1>1, LenProperties
<1>3. /\ Len(archive') = Len(archive) + 1
      /\ \A k \in 1..Len(archive) : archive'[k] = archive[k]
      /\ archive'[Len(archive) + 1] = [e |-> e, at |-> header]
  BY <1>1, AppendProperties
<1>4. DOMAIN archive' = 1..Len(archive')
  BY <1>1, LenProperties
<1>5. archive'[Len(archive) + 1].e = e /\ archive'[Len(archive) + 1].at = header
  BY <1>3
<1>6. Len(archive) + 1 \in 1..(Len(archive) + 1)
      /\ \A k \in 1..Len(archive) : k \in 1..(Len(archive) + 1)
  BY <1>2
<1> QED
  BY <1>2, <1>3, <1>4, <1>5, <1>6

\* cpio's place of the data is the one that init_ramfs computes, if it reads
\* the size of the name.
LEMMA DataAtIs ==
    ASSUME TypeOK, header % 4 = 0, NEW e \in Entries, pos = header
    PROVE  /\ ~NameRefused(e) => DataAt(e, header) = DataStart(e)
           /\ DataAt(e, header) \in Nat /\ DataAt(e, header) % 4 = 0
<1> DEFINE m == HeaderSize + NameSize(e)
<1>1. HeaderSize \in Nat /\ NameSize(e) \in Nat /\ header \in Nat
  BY EntryFacts DEF TypeOK, HeaderSize
<1>2. m \in Nat /\ header + HeaderSize + NameSize(e) = header + m /\ header + m \in Nat
  BY <1>1
<1>3. DataAt(e, header) = Padded(header + m)
  <2>1. DataAt(e, header) = RoundUp(header + m)
    BY <1>2 DEF DataAt
  <2> HIDE DEF m
  <2> QED
    BY <1>2, <2>1, RoundUpIs
<1>4. ~NameRefused(e) => DataStart(e) = header + Padded(m)
  <2>1. ~NameRefused(e) => int_from_string(e.namesize) = NameSize(e)
    BY EntryFacts DEF NameRefused
  <2> QED
    BY <2>1 DEF DataStart
<1> HIDE DEF m
<1>5. Padded(header + m) = header + Padded(m)
  BY <1>1, <1>2, PaddedFrom
<1>6. Padded(header + m) \in Nat /\ Padded(header + m) % 4 = 0
  BY <1>2, RoundUpIs
<1> QED
  BY <1>3, <1>4, <1>5, <1>6

LEMMA HeaderRound ==
    ASSUME HeaderInv, NEW e \in Entries, Reading(e)
    PROVE  /\ header' % 4 = 0
           /\ Refused => Refused'
           /\ NameRefused(e) \/ SizeRefused(e) => Refused'
           /\ ~NameRefused(e) /\ ~SizeRefused(e) =>
                 header' = DataStart(e) + Padded(int_from_string(e.size))
<1> DEFINE d == DataAt(e, header)
<1>1. TypeOK /\ header % 4 = 0 /\ pos = header
  BY DEF HeaderInv, Reading, check_magic
<1>2. header' = RoundUp(d + Length(e))
  BY <1>1, ReadingTypes
<1>3. /\ ~NameRefused(e) => d = DataStart(e)
      /\ d \in Nat /\ d % 4 = 0
  BY <1>1, DataAtIs
<1>4. Length(e) \in Nat /\ (~SizeRefused(e) => int_from_string(e.size) = Length(e))
  BY EntryFacts DEF SizeRefused
<1> HIDE DEF d
<1>5. header' = d + Padded(Length(e)) /\ header' % 4 = 0
  <2>1. d + Length(e) \in Nat
    BY <1>3, <1>4
  <2>2. header' = Padded(d + Length(e)) /\ Padded(d + Length(e)) % 4 = 0
    BY <1>2, <2>1, RoundUpIs
  <2>3. Padded(d + Length(e)) = d + Padded(Length(e))
    BY <1>3, <1>4, PaddedFrom
  <2> QED
    BY <2>2, <2>3
<1>6. Refused => Refused'
  BY <1>1, ArchiveGrows DEF Refused, Entry
<1>7. NameRefused(e) \/ SizeRefused(e) => Refused'
  <2>1. /\ Len(archive) + 1 \in DOMAIN archive'
        /\ archive'[Len(archive) + 1].e = e
    BY <1>1, ArchiveGrows
  <2> QED
    BY <2>1 DEF Refused, Entry
<1> QED
  BY <1>3, <1>4, <1>5, <1>6, <1>7

LEMMA NextHeaderInv == HeaderInv /\ [Next]_vars => HeaderInv'
<1> SUFFICES ASSUME HeaderInv, [Next]_vars PROVE HeaderInv'
  OBVIOUS
<1>0. TypeOK /\ TypeOK' /\ ArraysTyped /\ pos \in Nat
  BY NextTypeOK, ArraysAre DEF HeaderInv
<1>1. ASSUME NEW e \in Entries, init_ramfs(e) PROVE HeaderInv'
  <2>1. IsRound(e)
    BY <1>0, <1>1, RoundIs
  <2>2. /\ Reading(e) /\ pos' = DataStart(e) + Padded(int_from_string(e.size))
        /\ stage' = stage
    BY <2>1 DEF IsRound
  <2>3. stage' = "read"
    BY <2>2 DEF Reading
  <2>4. header' % 4 = 0 /\ (pos' = header' \/ Refused')
    BY <2>2, HeaderRound
  <2> QED
    BY <1>0, <2>3, <2>4 DEF HeaderInv, HeadersFound
<1>2. ASSUME NEW e \in Entries, init_ramfs_astray(e) PROVE HeaderInv'
  <2>1. Reading(e) /\ stage' = "astray"
    BY <1>2 DEF init_ramfs_astray
  <2>2. header' % 4 = 0
    BY <2>1, HeaderRound
  <2> QED
    BY <1>0, <2>1, <2>2 DEF HeaderInv, HeadersFound
<1>3. ASSUME NEW e \in Entries, init_ramfs_invalid(e) PROVE HeaderInv'
  <2>1. Reading(e) /\ stage' = "-1" /\ e.mode = "INVALID"
    BY <1>3 DEF init_ramfs_invalid
  <2>2. header' % 4 = 0
    BY <2>1, HeaderRound
  <2>3. /\ Len(archive) + 1 \in DOMAIN archive'
        /\ archive'[Len(archive) + 1].e = e
    BY <1>0, <2>1, ArchiveGrows
  <2>4. HeadersFound'
    BY <2>1, <2>3 DEF HeadersFound, Entry
  <2> QED
    BY <1>0, <2>1, <2>2, <2>4 DEF HeaderInv
<1>4. CASE init_ramfs_magic
  <2>1. Refused
    BY <1>4 DEF init_ramfs_magic, check_magic, HeaderInv
  <2> QED
    BY <1>0, <1>4, <2>1 DEF init_ramfs_magic, HeaderInv, HeadersFound, Refused, Entry
<1>5. CASE init_ramfs_end
  BY <1>0, <1>5 DEF init_ramfs_end, HeaderInv, HeadersFound
<1>6. ASSUME NEW name \in Queries, NEW offset \in Offsets, read(name, offset)
      PROVE  HeaderInv'
  BY <1>0, <1>6 DEF read, Asks, HeaderInv, HeadersFound
<1>7. ASSUME NEW name \in Queries, ls(name) PROVE HeaderInv'
  BY <1>0, <1>7 DEF ls, Asks, HeaderInv, HeadersFound
<1>8. CASE UNCHANGED vars
  BY <1>0, <1>8 DEF vars, HeaderInv, HeadersFound, Refused, Entry
<1> QED
  BY <1>1, <1>2, <1>3, <1>4, <1>5, <1>6, <1>7, <1>8 DEF Next, idle

LEMMA HeaderInvariance == Spec => []HeaderInv
<1>1. Init => HeaderInv
  BY InitTypeOK DEF Init, HeaderInv, HeadersFound
<1> QED
  BY <1>1, NextHeaderInv, PTL DEF Spec

\* init_ramfs misses a header only behind a size, of a name or of data, in lower
\* case, whatever the names and sizes before: its padding, counted from the entry, is cpio's,
\* counted from the beginning of the archive.
THEOREM RootfsHeadersFound == Spec => []HeadersFound
<1>1. HeaderInv => HeadersFound
  BY DEF HeaderInv
<1> QED
  BY <1>1, HeaderInvariance, PTL

-----------------------------------------------------------------------------
\* Whatever may be followed as a file is a file that has been read, and the
\* next file has been read later.
PointsBelow ==
    /\ \A i \in Files :
          /\ files[i].next # NULL =>
                /\ files[i].next[1] = "file"
                /\ i < files[i].next[2] /\ files[i].next[2] < Len(archive)
          /\ files[i].link[1] = "file" => files[i].link[2] < Len(archive)
    /\ \A i \in Inodes : inodes[i].data[1] = "file" => inodes[i].data[2] < Len(archive)

\* Inductive invariant: as long as the files fit, the slot of the next file
\* is above all that pointers lead to.
AscendInv ==
    /\ TypeOK
    /\ FilesFit => PointsBelow
    /\ FilesFit /\ stage = "read" => findex = Len(archive) % ROOTFS_FILE_COUNT

LEMMA FilePointer ==
    ASSUME NEW p \in Pointers, p[1] = "file"
    PROVE  p[2] \in Files /\ p[2] \in Nat /\ p = <<"file", p[2]>>
<1>1. p[2] \in Files /\ p = <<"file", p[2]>>
  BY PointerIs DEF NULL
<1> QED
  BY <1>1, CountFacts

\* With room for one file more the index has not gone round.
LEMMA IndexIs ==
    ASSUME AscendInv, NEW e \in Entries, Reading(e), FilesFit'
    PROVE  FilesFit /\ PointsBelow /\ findex = Len(archive) /\ findex \in Files
           /\ Len(archive') = findex + 1
<1>1. TypeOK /\ stage = "read"
  BY DEF AscendInv, Reading
<1>2. Len(archive) \in Nat /\ Len(archive') = Len(archive) + 1
  BY <1>1, ArchiveGrows
<1>3. Len(archive) + 1 <= ROOTFS_FILE_COUNT
  BY <1>2 DEF FilesFit
<1>4. FilesFit
  BY <1>2, <1>3, CountFacts DEF FilesFit
<1>5. Len(archive) % ROOTFS_FILE_COUNT = Len(archive)
  BY <1>2, <1>3, CountFacts
<1> QED
  BY <1>1, <1>2, <1>4, <1>5 DEF AscendInv, TypeOK

\* The last sibling has been read before.
LEMMA LastBelow ==
    ASSUME ArraysTyped, PointsBelow, findex = Len(archive), NEW e \in Entries, AsNext(e)
    PROVE  LastChild(e)[1] = "file" => LastChild(e)[2] < findex
<1> DEFINE w == Named(e)
           P == {p \in Pointers \ {NULL} : p[1] = "file" => p[2] < findex}
<1>1. /\ w.files \in [Files -> FileType] /\ w.inodes \in [Inodes -> InodeType]
      /\ \A i \in Files \ {findex} : w.files[i] = files[i]
      /\ w.files[findex].link = Link(e)
      /\ \A i \in Inodes : w.inodes[i].data = inodes[i].data
  BY NamedIs
<1>2. findex \in Nat /\ findex \in Files
  BY CountFacts DEF ArraysTyped
<1>3. FirstChild(e) \in P
  <2>1. FirstChild(e) \in Pointers /\ FirstChild(e) # NULL /\ Parent(e) \in Files
        /\ FirstChild(e) = w.files[Parent(e)].link
    BY ParentIs DEF AsNext, FirstChild
  <2>2. CASE Parent(e) = findex
    <3>1. FirstChild(e) = Link(e)
      BY <1>1, <2>1, <2>2
    <3>2. CASE \E i \in Inodes : Link(e) = <<"inode", i>>
      BY <2>1, <3>1, <3>2
    <3>3. CASE Link(e) = files[findex].link
      BY <1>2, <2>1, <3>1, <3>3 DEF PointsBelow
    <3> QED
      BY <2>1, <3>1, <3>2, <3>3, LinkIs
  <2>3. CASE Parent(e) # findex
    <3>1. FirstChild(e) = files[Parent(e)].link
      BY <1>1, <2>1, <2>3
    <3> QED
      BY <2>1, <3>1 DEF PointsBelow
  <2> QED
    BY <2>2, <2>3
<1>4. ASSUME NEW p \in P PROVE next_file(w.files, w.inodes, p) \in P \cup {NULL}
  <2> DEFINE q == next_file(w.files, w.inodes, p)
  <2> SUFFICES q \in P \cup {NULL}
    OBVIOUS
  <2>1. q \in Pointers
    BY <1>1, NextFileType
  <2>2. CASE p[1] = "file"
    <3>1. p[2] \in Files /\ p[2] # findex
      BY <1>2, <2>2, PointerIs, CountFacts
    <3>2. q = files[p[2]].next
      BY <1>1, <2>2, <3>1, NextFileIs
    <3> HIDE DEF q
    <3> QED
      BY <2>1, <3>1, <3>2 DEF PointsBelow
  <2>3. CASE p[1] = "inode" /\ p[2] + 1 \in Inodes
    <3>1. q = inodes[p[2] + 1].data
      BY <1>1, <2>3, NextFileIs
    <3> HIDE DEF q
    <3> QED
      BY <2>1, <2>3, <3>1 DEF PointsBelow
  <2>4. CASE p[1] = "archive" \/ (p[1] = "inode" /\ p[2] + 1 \notin Inodes)
    <3>1. q = Elsewhere
      BY <2>4, NextFileIs
    <3> HIDE DEF q
    <3> QED
      BY <2>1, <3>1 DEF Elsewhere
  <2> QED
    BY <2>2, <2>3, <2>4, PointerIs
<1>5. LastChild(e) \in P
  <2> HIDE DEF P, w
  <2>1. Last(Siblings(w.files, w.inodes, FirstChild(e))) \in P
    BY <1>3, <1>4, LastWithin
  <2> QED
    BY <2>1 DEF LastChild, w
<1> QED
  BY <1>5

LEMMA NamedBelow ==
    ASSUME ArraysTyped, PointsBelow, findex = Len(archive), NEW e \in Entries
    PROVE  \A i \in Files :
              /\ Named(e).files[i].next # NULL =>
                    /\ Named(e).files[i].next[1] = "file"
                    /\ i < Named(e).files[i].next[2]
                    /\ Named(e).files[i].next[2] < findex
              /\ Named(e).files[i].link[1] = "file" => Named(e).files[i].link[2] < findex
<1> TAKE i \in Files
<1>0. findex \in Files
  BY DEF ArraysTyped
<1>1. CASE i # findex
  BY <1>1, NamedIs DEF PointsBelow
<1>2. CASE i = findex
  <2>1. Named(e).files[i].next = NULL /\ Named(e).files[i].link = Link(e)
    BY <1>2, NamedIs
  <2>2. Link(e)[1] = "file" => Link(e)[2] < findex
    <3>1. NULL[1] # "file" /\ \A j \in Inodes : <<"inode", j>>[1] # "file"
      BY DEF NULL
    <3>2. files[findex].link[1] = "file" => files[findex].link[2] < findex
      BY <1>0 DEF PointsBelow
    <3> QED
      BY <3>1, <3>2, LinkIs
  <2> QED
    BY <2>1, <2>2
<1> QED
  BY <1>1, <1>2

LEMMA AscendRound ==
    ASSUME AscendInv, NEW e \in Entries, init_ramfs(e), FilesFit'
    PROVE  PointsBelow' /\ findex' = Len(archive') % ROOTFS_FILE_COUNT
<1>1. TypeOK /\ ArraysTyped /\ pos \in Nat
  BY ArraysAre DEF AscendInv
<1>2. IsRound(e)
  BY <1>1, RoundIs
<1>3. Reading(e) /\ findex' = NextFile(findex)
  BY <1>2 DEF IsRound
<1>4. /\ FilesFit /\ PointsBelow /\ findex = Len(archive) /\ findex \in Files
      /\ Len(archive') = findex + 1
  BY <1>3, IndexIs
<1>5. findex \in Nat /\ Me[1] = "file" /\ Me[2] = findex /\ Me # NULL
  BY <1>4, PointerIn, CountFacts DEF Me
<1>6. AsNext(e) => (LastChild(e)[1] = "file" => LastChild(e)[2] < findex)
  BY <1>1, <1>4, LastBelow
<1>7. \A i \in Files :
         /\ Named(e).files[i].next # NULL =>
               /\ Named(e).files[i].next[1] = "file"
               /\ i < Named(e).files[i].next[2]
               /\ Named(e).files[i].next[2] < findex
         /\ Named(e).files[i].link[1] = "file" => Named(e).files[i].link[2] < findex
  BY <1>1, <1>4, NamedBelow
<1>8. ASSUME NEW i \in Files
      PROVE  /\ files'[i].next # NULL =>
                  /\ files'[i].next[1] = "file"
                  /\ i < files'[i].next[2] /\ files'[i].next[2] < findex + 1
             /\ files'[i].link[1] = "file" => files'[i].link[2] < findex + 1
  <2>1. /\ files'[i].link = IF HasData(e) /\ i = findex THEN <<"inode", NextInode(e)>>
                            ELSE IF AsFirst(e) /\ i = Parent(e) THEN Me
                            ELSE Named(e).files[i].link
        /\ files'[i].next = IF AsNext(e) /\ LastChild(e)[1] = "file" /\ i = LastChild(e)[2]
                            THEN Me ELSE Named(e).files[i].next
    BY <1>2 DEF IsRound
  <2>2. files'[i].link[1] = "file" => files'[i].link[2] < findex + 1
    <3>1. CASE files'[i].link = <<"inode", NextInode(e)>>
      BY <3>1
    <3>2. CASE files'[i].link = Me
      BY <1>5, <3>2
    <3>3. CASE files'[i].link = Named(e).files[i].link
      <4> DEFINE l == Named(e).files[i].link
      <4>1. /\ l[1] = "file" => l[2] < findex
            /\ l \in Pointers
        BY <1>1, <1>7, NamedIs DEF FileType
      <4>2. l[1] = "file" => l[2] \in Nat
        BY <4>1, FilePointer
      <4> QED
        BY <1>5, <3>3, <4>1, <4>2
    <3> QED
      BY <2>1, <3>1, <3>2, <3>3
  <2>3. files'[i].next # NULL => /\ files'[i].next[1] = "file"
                                 /\ i < files'[i].next[2] /\ files'[i].next[2] < findex + 1
    <3>1. CASE AsNext(e) /\ LastChild(e)[1] = "file" /\ i = LastChild(e)[2]
      BY <1>5, <1>6, <2>1, <3>1
    <3>2. CASE files'[i].next = Named(e).files[i].next
      <4> DEFINE l == Named(e).files[i].next
      <4>1. l # NULL => l[1] = "file" /\ i < l[2] /\ l[2] < findex
        BY <1>7
      <4>2. l \in Pointers
        BY <1>1, NamedIs DEF FileType
      <4>3. l[1] = "file" => l[2] \in Nat
        BY <4>2, FilePointer
      <4> QED
        BY <1>5, <3>2, <4>1, <4>3
    <3> QED
      BY <2>1, <3>1, <3>2
  <2> QED
    BY <2>2, <2>3
<1>9. ASSUME NEW i \in Inodes
      PROVE  inodes'[i].data[1] = "file" => inodes'[i].data[2] < findex + 1
  <2>1. \/ inodes'[i].data = <<"archive", DataStart(e)>>
        \/ inodes'[i].data = Me
        \/ inodes'[i].data = inodes[i].data
    BY <1>2 DEF IsRound
  <2>2. /\ inodes[i].data[1] = "file" => inodes[i].data[2] < findex
        /\ inodes[i].data \in Pointers
    BY <1>1, <1>4 DEF PointsBelow, ArraysTyped, InodeType
  <2>3. inodes[i].data[1] = "file" => inodes[i].data[2] \in Nat
    BY <2>2, FilePointer
  <2> QED
    BY <1>5, <2>1, <2>2, <2>3
<1>10. PointsBelow'
  BY <1>4, <1>8, <1>9 DEF PointsBelow
<1>11. findex' = Len(archive') % ROOTFS_FILE_COUNT
  BY <1>3, <1>4 DEF NextFile
<1> QED
  BY <1>10, <1>11

\* An entry that only ends the reading keeps pointers below it.
LEMMA AscendStop ==
    ASSUME AscendInv, NEW e \in Entries, Reading(e), FilesFit',
           \A i \in Files :
              /\ \/ files'[i].next = files[i].next
                 \/ files'[i].next = Named(e).files[i].next
              /\ \/ files'[i].link = files[i].link
                 \/ files'[i].link = Named(e).files[i].link,
           \A i \in Inodes : inodes'[i].data = inodes[i].data
    PROVE  PointsBelow'
<1>1. ArraysTyped
  BY ArraysAre DEF AscendInv
<1>2. /\ PointsBelow /\ findex = Len(archive) /\ findex \in Nat
      /\ Len(archive') = findex + 1
  BY IndexIs, CountFacts
<1>3. ASSUME NEW i \in Files, NEW fs \in {files, Named(e).files}
      PROVE  /\ fs[i].next # NULL =>
                   fs[i].next[1] = "file" /\ i < fs[i].next[2] /\ fs[i].next[2] < findex + 1
             /\ fs[i].link[1] = "file" => fs[i].link[2] < findex + 1
  <2> DEFINE p == fs[i].next
             q == fs[i].link
  <2>1. /\ p # NULL => p[1] = "file" /\ i < p[2] /\ p[2] < findex
        /\ q[1] = "file" => q[2] < findex
    <3>1. CASE fs = files
      BY <1>2, <3>1 DEF PointsBelow
    <3>2. CASE fs = Named(e).files
      BY <1>1, <1>2, <3>2, NamedBelow
    <3> QED
      BY <3>1, <3>2
  <2>2. p \in Pointers /\ q \in Pointers
    BY <1>1, NamedIs DEF ArraysTyped, FileType
  <2> HIDE DEF p, q
  <2>3. (p[1] = "file" => p[2] \in Nat) /\ (q[1] = "file" => q[2] \in Nat)
    BY <2>2, FilePointer
  <2>4. /\ p # NULL => p[1] = "file" /\ i < p[2] /\ p[2] < findex + 1
        /\ q[1] = "file" => q[2] < findex + 1
    BY <1>2, <2>1, <2>3
  <2> QED
    BY <2>4 DEF p, q
<1>4. ASSUME NEW i \in Inodes
      PROVE  inodes'[i].data[1] = "file" => inodes'[i].data[2] < findex + 1
  <2>1. /\ inodes[i].data[1] = "file" => inodes[i].data[2] < findex
        /\ inodes[i].data \in Pointers
    BY <1>1, <1>2 DEF PointsBelow, ArraysTyped, InodeType
  <2>2. inodes[i].data[1] = "file" => inodes[i].data[2] \in Nat
    BY <2>1, FilePointer
  <2> QED
    BY <1>2, <2>1, <2>2
<1> QED
  BY <1>2, <1>3, <1>4 DEF PointsBelow

LEMMA NextAscendInv == AscendInv /\ [Next]_vars => AscendInv'
<1> SUFFICES ASSUME AscendInv, [Next]_vars PROVE AscendInv'
  OBVIOUS
<1>0. TypeOK /\ TypeOK' /\ ArraysTyped
  BY NextTypeOK, ArraysAre DEF AscendInv
<1>1. ASSUME NEW e \in Entries, init_ramfs(e) PROVE AscendInv'
  BY <1>0, <1>1, AscendRound DEF AscendInv
<1>2. ASSUME NEW e \in Entries, init_ramfs_astray(e) PROVE AscendInv'
  <2>1. Reading(e) /\ stage' = "astray"
        /\ files' = [Named(e).files EXCEPT ![findex].parent = <<"file", Parent(e)>>]
        /\ inodes' = Named(e).inodes
    BY <1>2 DEF init_ramfs_astray
  <2>2. /\ \A i \in Files : /\ files'[i].next = Named(e).files[i].next
                            /\ files'[i].link = Named(e).files[i].link
        /\ \A i \in Inodes : inodes'[i].data = inodes[i].data
    BY <1>0, <2>1, NamedIs DEF FileType
  <2>3. FilesFit' => PointsBelow'
    BY <2>1, <2>2, AscendStop
  <2> QED
    BY <1>0, <2>1, <2>3 DEF AscendInv
<1>3. ASSUME NEW e \in Entries, init_ramfs_invalid(e) PROVE AscendInv'
  <2>1. Reading(e) /\ stage' = "-1" /\ inodes' = inodes
        /\ files' = [files EXCEPT ![findex].type = "INVALID"]
    BY <1>3 DEF init_ramfs_invalid
  <2>2. \A i \in Files : files'[i].next = files[i].next /\ files'[i].link = files[i].link
    BY <1>0, <2>1 DEF ArraysTyped, FileType
  <2>3. FilesFit' => PointsBelow'
    BY <2>1, <2>2, AscendStop
  <2> QED
    BY <1>0, <2>1, <2>3 DEF AscendInv
<1>4. ASSUME UNCHANGED <<files, inodes, findex, archive>>,
             stage' = "read" => stage = "read"
      PROVE  AscendInv'
  BY <1>0, <1>4 DEF AscendInv, FilesFit, PointsBelow
<1>5. CASE init_ramfs_magic \/ init_ramfs_end
  BY <1>4, <1>5 DEF init_ramfs_magic, init_ramfs_end
<1>6. ASSUME NEW name \in Queries, NEW offset \in Offsets, read(name, offset) PROVE AscendInv'
  BY <1>4, <1>6 DEF read
<1>7. ASSUME NEW name \in Queries, ls(name) PROVE AscendInv'
  BY <1>4, <1>7 DEF ls
<1>8. CASE UNCHANGED vars
  BY <1>4, <1>8 DEF vars
<1> QED
  BY <1>1, <1>2, <1>3, <1>5, <1>6, <1>7, <1>8 DEF Next, idle

LEMMA InitAscendInv == Init => AscendInv
<1> SUFFICES ASSUME Init PROVE AscendInv
  OBVIOUS
<1>1. NULL[1] # "file" /\ Len(<<>>) = 0 /\ 0 % ROOTFS_FILE_COUNT = 0
  BY CountFacts DEF NULL
<1>2. PointsBelow
  BY <1>1 DEF Init, PointsBelow
<1> QED
  BY <1>1, <1>2, InitTypeOK DEF Init, AscendInv

LEMMA AscendInvariance == Spec => []AscendInv
  BY InitAscendInv, NextAscendInv, PTL DEF Spec

\* Siblings lead from lower to higher slots as long as the files fit, although
\* files are taken for directories, and inodes for files, when the first
\* match of a name is another one.
THEOREM RootfsSiblingsAscend == Spec => []SiblingsAscend
<1>1. AscendInv => SiblingsAscend
  BY DEF AscendInv, SiblingsAscend, PointsBelow
<1> QED
  BY <1>1, AscendInvariance, PTL

-----------------------------------------------------------------------------
\* The entries that an inode has been spent on.
HasInodes == {k \in DOMAIN archive : HasInode(Entry(k))}

\* The file of entry k leads to the inode j, which has its size and, if the
\* size of its name is read, its data.
InPlace(k, j) ==
    /\ files[k - 1].link = <<"inode", j>>
    /\ inodes[j].data # NULL
    /\ \/ NameRefused(Entry(k))
       \/ inodes[j].data = <<"archive", DataAt(Entry(k), archive[k].at)>>
    /\ inodes[j].size = Length(Entry(k))

\* The files so far lead to inodes below x, where the next one is sought.
InPlaceBelow(x) ==
    /\ stage = "read" => iindex = x % ROOTFS_INODE_COUNT
    /\ \A k \in DataFiles : \E j \in Inodes : j < x /\ InPlace(k, j)

\* Inductive invariant: as long as files and inodes fit, inodes are spent in
\* ascending order, two for each file at most.
DataInv ==
    /\ HeaderInv
    /\ AscendInv
    /\ FilesFit /\ InodesFit =>
          \E x \in Nat : x <= 2 * Cardinality(HasInodes) /\ InPlaceBelow(x)

\* With room for one entry more, there was room before.
LEMMA FitBefore ==
    ASSUME AscendInv, NEW e \in Entries, Reading(e), InodesFit'
    PROVE  /\ InodesFit
           /\ Cardinality(HasInodes) \in Nat
           /\ Cardinality(HasInodes') =
                 IF HasInode(e) THEN Cardinality(HasInodes) + 1 ELSE Cardinality(HasInodes)
           /\ 2 * Cardinality(HasInodes') <= ROOTFS_INODE_COUNT
<1> DEFINE n == Len(archive)
<1>1. TypeOK
  BY DEF AscendInv
<1>2. /\ n \in Nat /\ DOMAIN archive = 1..n /\ DOMAIN archive' = 1..(n + 1)
      /\ \A k \in 1..n : archive'[k] = archive[k]
      /\ archive'[n + 1].e = e
  BY <1>1, ArchiveGrows
<1> HIDE DEF n
<1>3. HasInodes' = IF HasInode(e) THEN HasInodes \cup {n + 1} ELSE HasInodes
  <2>1. \A k \in 1..(n + 1) : k \in 1..n \/ k = n + 1
    BY <1>2
  <2>2. \A k \in 1..n : k \in HasInodes' <=> k \in HasInodes
    BY <1>2 DEF HasInodes, Entry
  <2>3. n + 1 \in HasInodes' <=> HasInode(e)
    BY <1>2 DEF HasInodes, Entry
  <2>4. HasInodes' \subseteq 1..(n + 1) /\ HasInodes \subseteq 1..n
    BY <1>2 DEF HasInodes
  <2>5. n + 1 \notin 1..n
    BY <1>2
  <2>6. \A k : k \in HasInodes' <=> k \in HasInodes \/ (k = n + 1 /\ HasInode(e))
    BY <2>1, <2>2, <2>3, <2>4, <2>5
  <2>7. CASE HasInode(e)
    BY <2>6, <2>7
  <2>8. CASE ~HasInode(e)
    BY <2>6, <2>8
  <2> QED
    BY <2>7, <2>8
<1>4. HasInodes \subseteq 1..n /\ n + 1 \notin HasInodes
  BY <1>2 DEF HasInodes
<1>5. IsFiniteSet(HasInodes)
  <2>1. IsFiniteSet(1..n)
    BY <1>2, FS_Interval
  <2> QED
    BY <1>4, <2>1, FS_Subset
<1>6. Cardinality(HasInodes) \in Nat
  BY <1>5, FS_CardinalityType
<1>7. Cardinality(HasInodes \cup {n + 1}) = Cardinality(HasInodes) + 1
  BY <1>4, <1>5, FS_AddElement
<1>8. 2 * Cardinality(HasInodes') <= ROOTFS_INODE_COUNT
  BY DEF InodesFit, HasInodes
<1>9. Cardinality(HasInodes') =
         IF HasInode(e) THEN Cardinality(HasInodes) + 1 ELSE Cardinality(HasInodes)
  BY <1>3, <1>7
<1>10. 2 * Cardinality(HasInodes) <= ROOTFS_INODE_COUNT
  <2> DEFINE a == Cardinality(HasInodes)
             b == Cardinality(HasInodes')
  <2>1. a \in Nat /\ (b = a \/ b = a + 1) /\ 2 * b <= ROOTFS_INODE_COUNT
    BY <1>6, <1>8, <1>9
  <2> HIDE DEF a, b
  <2>2. 2 * a <= ROOTFS_INODE_COUNT
    BY <2>1, CountFacts
  <2> QED
    BY <2>2 DEF a
<1> QED
  BY <1>6, <1>8, <1>9, <1>10 DEF InodesFit, HasInodes

\* The data of files read before stays where it is.
LEMMA DataKept ==
    ASSUME AscendInv, NEW e \in Entries, Reading(e), FilesFit',
           NEW k \in DOMAIN archive, NEW j \in Inodes, InPlace(k, j),
           files'[k - 1].link = files[k - 1].link,
           inodes'[j].data = inodes[j].data, inodes'[j].size = inodes[j].size
    PROVE  InPlace(k, j)'
<1>1. archive'[k] = archive[k]
  BY ArchiveGrows DEF AscendInv
<1> QED
  BY <1>1 DEF InPlace, Entry

LEMMA DataRound ==
    ASSUME AscendInv, NEW e \in Entries, init_ramfs(e), FilesFit',
           NEW k \in DOMAIN archive, NEW j \in Inodes, InPlace(k, j),
           HasData(e) => j # NextInode(e)
    PROVE  InPlace(k, j)'
<1>1. TypeOK /\ ArraysTyped /\ pos \in Nat
  BY ArraysAre DEF AscendInv
<1>2. IsRound(e)
  BY <1>1, RoundIs
<1>3. Reading(e) /\ ~Astray(e)
  BY <1>2 DEF IsRound
<1>4. findex = Len(archive) /\ findex \in Files
  BY <1>3, IndexIs
<1>5. k - 1 \in Files /\ k - 1 # findex
  <2>1. Len(archive) \in Nat /\ k \in 1..Len(archive)
    BY <1>1, <1>3, ArchiveGrows
  <2> QED
    BY <1>4, <2>1, CountFacts DEF Files
<1>6. Named(e).files[k - 1] = files[k - 1]
  BY <1>1, <1>5, NamedIs
<1>7. files[k - 1].link # NULL /\ inodes[j].data # NULL
  BY DEF InPlace, NULL
<1>8. files'[k - 1].link = files[k - 1].link
  <2>1. ~(AsFirst(e) /\ k - 1 = Parent(e))
    BY <1>6, <1>7 DEF AsFirst, FirstChild
  <2> QED
    BY <1>2, <1>5, <1>6, <2>1 DEF IsRound
<1>9. inodes'[j].data = inodes[j].data /\ inodes'[j].size = inodes[j].size
  <2>1. ~(AsNext(e) /\ LastChild(e)[1] = "inode" /\ j = LastChild(e)[2] + 1)
    <3> SUFFICES ASSUME AsNext(e), LastChild(e)[1] = "inode", j = LastChild(e)[2] + 1
                 PROVE  FALSE
      OBVIOUS
    <3>1. IsEnd(Named(e).files, Named(e).inodes, LastChild(e))
      BY <1>1, <1>3, LastChildIs
    <3>2. Named(e).inodes[j].data = NULL
      BY <3>1 DEF IsEnd
    <3> QED
      BY <1>1, <1>7, <3>2, NamedIs
  <2> QED
    BY <1>2, <2>1 DEF IsRound
<1> QED
  BY <1>3, <1>8, <1>9, DataKept

\* The files with data after one entry more.
LEMMA DataFilesGrow ==
    ASSUME TypeOK, NEW e \in Entries, Reading(e)
    PROVE  /\ HasData(e) /\ stage' = "read" => DataFiles' = DataFiles \cup {Len(archive) + 1}
           /\ ~HasData(e) \/ stage' = "astray" => DataFiles' = DataFiles
           /\ DataFiles \subseteq DOMAIN archive
<1> DEFINE n == Len(archive)
<1>1. /\ n \in Nat /\ DOMAIN archive = 1..n /\ DOMAIN archive' = 1..(n + 1)
      /\ \A k \in 1..n : archive'[k] = archive[k]
      /\ archive'[n + 1].e = e /\ Len(archive') = n + 1
  BY ArchiveGrows
<1>2. stage = "read"
  BY DEF Reading
<1> HIDE DEF n
<1>3. \A k \in 1..n : k \in DataFiles' <=> k \in DataFiles
  <2> TAKE k \in 1..n
  <2>1. k \in 1..(n + 1) /\ k # n + 1
    BY <1>1
  <2> QED
    BY <1>1, <1>2, <2>1 DEF DataFiles, Entry
<1>4. n + 1 \in DataFiles' <=> HasData(e) /\ stage' # "astray"
  BY <1>1 DEF DataFiles, Entry, HasData
<1>5. DataFiles' \subseteq 1..(n + 1) /\ DataFiles \subseteq 1..n
  BY <1>1 DEF DataFiles
<1>6. \A k \in 1..(n + 1) : k \in 1..n \/ k = n + 1
  BY <1>1
<1>7. "read" # "astray" /\ n + 1 \notin 1..n
  BY <1>1
<1>8. \A k : k \in DataFiles' <=> k \in DataFiles \/ (k = n + 1 /\ HasData(e) /\ stage' # "astray")
  BY <1>3, <1>4, <1>5, <1>6, <1>7
<1> QED
  BY <1>1, <1>5, <1>7, <1>8 DEF n

LEMMA NextDataInv == DataInv /\ [Next]_vars => DataInv'
<1> SUFFICES ASSUME DataInv, [Next]_vars PROVE DataInv'
  OBVIOUS
<1>0. /\ HeaderInv /\ HeaderInv' /\ AscendInv /\ AscendInv'
      /\ TypeOK /\ ArraysTyped /\ pos \in Nat
  BY NextHeaderInv, NextAscendInv, ArraysAre DEF DataInv, AscendInv
<1> SUFFICES ASSUME FilesFit', InodesFit'
             PROVE  \E x \in Nat : x <= 2 * Cardinality(HasInodes') /\ InPlaceBelow(x)'
  BY <1>0 DEF DataInv
<1>1. ASSUME NEW e \in Entries, Reading(e)
      PROVE  /\ FilesFit /\ findex = Len(archive) /\ findex \in Files
             /\ Cardinality(HasInodes) \in Nat
             /\ \E x \in Nat : x <= 2 * Cardinality(HasInodes) /\ InPlaceBelow(x)
             /\ \A x \in Nat : x <= 2 * Cardinality(HasInodes) =>
                   x <= 2 * Cardinality(HasInodes')
  <2>1. FilesFit /\ InodesFit /\ findex = Len(archive) /\ findex \in Files
    BY <1>0, <1>1, IndexIs, FitBefore
  <2> DEFINE a == Cardinality(HasInodes)
             b == Cardinality(HasInodes')
  <2>2. a \in Nat /\ (b = a \/ b = a + 1)
    BY <1>0, <1>1, FitBefore
  <2>3. \E x \in Nat : x <= 2 * a /\ InPlaceBelow(x)
    BY <2>1 DEF DataInv
  <2>4. \A x \in Nat : x <= 2 * a => x <= 2 * b
    <3> HIDE DEF a, b
    <3> QED
      BY <2>2
  <2> QED
    BY <2>1, <2>2, <2>3, <2>4
<1>2. ASSUME NEW e \in Entries, init_ramfs(e)
      PROVE  \E x \in Nat : x <= 2 * Cardinality(HasInodes') /\ InPlaceBelow(x)'
  <2>1. IsRound(e)
    BY <1>0, <1>2, RoundIs
  <2>2. Reading(e) /\ stage = "read" /\ stage' = "read"
    BY <2>1 DEF IsRound, Reading
  <2>3. PICK x \in Nat : x <= 2 * Cardinality(HasInodes) /\ InPlaceBelow(x)
    BY <1>1, <2>2
  <2>4. iindex = x % ROOTFS_INODE_COUNT
    BY <2>2, <2>3 DEF InPlaceBelow
  <2>5. /\ findex = Len(archive) /\ findex \in Files
        /\ Cardinality(HasInodes) \in Nat
        /\ x <= 2 * Cardinality(HasInodes')
    BY <1>1, <2>2, <2>3
  <2>6. /\ DataFiles \subseteq DOMAIN archive
        /\ HasData(e) => DataFiles' = DataFiles \cup {Len(archive) + 1}
        /\ ~HasData(e) => DataFiles' = DataFiles
    BY <1>0, <2>2, DataFilesGrow
  <2>7. ASSUME NEW y \in Nat, x <= y, HasData(e) => NextInode(e) = x + 1,
               NEW k \in DataFiles
        PROVE  \E j \in Inodes : j < y /\ InPlace(k, j)'
    <3>1. PICK j \in Inodes : j < x /\ InPlace(k, j)
      BY <2>3 DEF InPlaceBelow
    <3>2. j < y /\ (HasData(e) => j # NextInode(e))
      BY <2>7, <3>1, CountFacts
    <3>3. InPlace(k, j)'
      BY <1>0, <1>2, <2>6, <3>1, <3>2, DataRound
    <3> QED
      BY <3>2, <3>3
  <2>8. ASSUME HasInode(e)
        PROVE  /\ x + 2 <= 2 * Cardinality(HasInodes') /\ x + 2 <= ROOTFS_INODE_COUNT
               /\ NextInode(e) = x + 1 /\ x + 1 \in Inodes
    <3> DEFINE a == Cardinality(HasInodes)
               b == Cardinality(HasInodes')
    <3>1. b = a + 1 /\ 2 * b <= ROOTFS_INODE_COUNT
      BY <1>0, <2>2, <2>8, FitBefore
    <3>2. x + 2 <= 2 * b /\ x + 2 <= ROOTFS_INODE_COUNT
      <4>1. a \in Nat /\ x <= 2 * a
        BY <2>3, <2>5
      <4> HIDE DEF a, b
      <4> QED
        BY <3>1, <4>1, CountFacts
    <3>3. iindex = x /\ (x + 1) % ROOTFS_INODE_COUNT = x + 1
      BY <2>4, <3>2, CountFacts
    <3>4. NextInode(e) = x + 1
      BY <2>8, <3>3 DEF NextInode
    <3> QED
      BY <3>2, <3>4, CountFacts DEF Inodes
  <2>9. CASE HasData(e)
    <3>1. HasInode(e)
      BY <2>9 DEF HasData, HasInode
    <3>2. NextInode(e) = x + 1 /\ x + 1 \in Inodes /\ x + 2 <= 2 * Cardinality(HasInodes')
      BY <2>8, <3>1
    <3>3. iindex' = (x + 2) % ROOTFS_INODE_COUNT
      <4>1. iindex' = ((x + 1) + 1) % ROOTFS_INODE_COUNT
        BY <2>1, <2>9, <3>2 DEF IsRound
      <4>2. (x + 1) + 1 = x + 2
        OBVIOUS
      <4> QED
        BY <4>1, <4>2
    <3>4. PICK k : k = Len(archive) + 1
      OBVIOUS
    <3>5. InPlace(k, x + 1)'
      <4>1. archive'[k].e = e /\ archive'[k].at = header
        BY <1>0, <2>2, <3>4, ArchiveGrows
      <4>2. k - 1 = findex
        BY <2>5, <3>4, CountFacts
      <4>3. ~NameRefused(e) => DataAt(e, header) = DataStart(e)
        BY <1>0, <2>2, DataAtIs DEF HeaderInv, Reading, check_magic
      <4>4. /\ files'[findex].link = <<"inode", x + 1>>
            /\ inodes'[x + 1].data = <<"archive", DataStart(e)>>
            /\ inodes'[x + 1].size = Length(e)
        BY <2>1, <2>5, <2>9, <3>2 DEF IsRound
      <4> QED
        BY <4>1, <4>2, <4>3, <4>4 DEF InPlace, Entry, NULL
    <3>6. x + 2 \in Nat /\ x <= x + 2 /\ x + 1 < x + 2
      OBVIOUS
    <3>7. \A l \in DataFiles' : \E j \in Inodes : j < x + 2 /\ InPlace(l, j)'
      <4>1. \A l \in DataFiles : \E j \in Inodes : j < x + 2 /\ InPlace(l, j)'
        BY <2>7, <3>2, <3>6
      <4>2. DataFiles' = DataFiles \cup {k}
        BY <2>6, <2>9, <3>4
      <4> QED
        BY <3>2, <3>5, <3>6, <4>1, <4>2
    <3>8. InPlaceBelow(x + 2)'
      BY <3>3, <3>7 DEF InPlaceBelow
    <3> QED
      BY <3>2, <3>6, <3>8
  <2>10. CASE ~HasData(e) /\ HasInode(e)
    <3>1. iindex' = (x + 1) % ROOTFS_INODE_COUNT
      <4>1. iindex' = NextInode(e) /\ NextInode(e) = x + 1 /\ x + 2 <= ROOTFS_INODE_COUNT
        BY <2>1, <2>8, <2>10 DEF IsRound
      <4> QED
        BY <4>1, CountFacts
    <3>2. x + 1 \in Nat /\ x <= x + 1 /\ x + 1 <= x + 2 /\ x + 2 <= 2 * Cardinality(HasInodes')
      BY <2>8, <2>10
    <3>3. \A k \in DataFiles' : \E j \in Inodes : j < x + 1 /\ InPlace(k, j)'
      BY <2>6, <2>7, <2>10, <3>2
    <3>4. InPlaceBelow(x + 1)'
      BY <3>1, <3>3 DEF InPlaceBelow
    <3>5. x + 1 <= 2 * Cardinality(HasInodes')
      <4>1. Cardinality(HasInodes') \in Nat
        BY <1>0, <2>2, <2>5, <2>10, FitBefore
      <4> QED
        BY <3>2, <4>1
    <3> QED
      BY <3>2, <3>4, <3>5
  <2>11. CASE ~HasData(e) /\ ~HasInode(e)
    <3>1. iindex' = x % ROOTFS_INODE_COUNT
      BY <2>1, <2>4, <2>11 DEF IsRound, NextInode
    <3>2. \A k \in DataFiles' : \E j \in Inodes : j < x /\ InPlace(k, j)'
      BY <2>6, <2>7, <2>11
    <3>3. InPlaceBelow(x)'
      BY <3>1, <3>2 DEF InPlaceBelow
    <3> QED
      BY <2>5, <3>3
  <2> QED
    BY <2>9, <2>10, <2>11
<1>3. ASSUME NEW e \in Entries, Reading(e), ~HasData(e) \/ stage' = "astray",
             stage' # "read",
             \A i \in Files \ {findex} : files'[i].link = files[i].link,
             \A i \in Inodes : inodes'[i].data = inodes[i].data /\ inodes'[i].size = inodes[i].size
      PROVE  \E x \in Nat : x <= 2 * Cardinality(HasInodes') /\ InPlaceBelow(x)'
  <2>1. PICK x \in Nat : x <= 2 * Cardinality(HasInodes) /\ InPlaceBelow(x)
    BY <1>1, <1>3
  <2>2. x <= 2 * Cardinality(HasInodes')
    BY <1>1, <1>3, <2>1
  <2>3. DataFiles' = DataFiles /\ DataFiles \subseteq DOMAIN archive
    BY <1>0, <1>3, DataFilesGrow
  <2>4. ASSUME NEW k \in DataFiles PROVE \E j \in Inodes : j < x /\ InPlace(k, j)'
    <3>1. PICK j \in Inodes : j < x /\ InPlace(k, j)
      BY <2>1 DEF InPlaceBelow
    <3>2. k - 1 \in Files \ {findex}
      <4>1. Len(archive) \in Nat /\ k \in 1..Len(archive)
        BY <1>0, <1>3, <2>3, ArchiveGrows
      <4>2. findex = Len(archive) /\ findex \in Files
        BY <1>1, <1>3
      <4> QED
        BY <4>1, <4>2, CountFacts DEF Files
    <3>3. InPlace(k, j)'
      BY <1>0, <1>3, <2>3, <3>1, <3>2, DataKept
    <3> QED
      BY <3>1, <3>3
  <2>5. InPlaceBelow(x)'
    BY <1>3, <2>3, <2>4 DEF InPlaceBelow
  <2> QED
    BY <2>2, <2>5
<1>4. ASSUME NEW e \in Entries, init_ramfs_astray(e)
      PROVE  \E x \in Nat : x <= 2 * Cardinality(HasInodes') /\ InPlaceBelow(x)'
  <2>1. Reading(e) /\ stage' = "astray" /\ stage' # "read"
        /\ files' = [Named(e).files EXCEPT ![findex].parent = <<"file", Parent(e)>>]
        /\ inodes' = Named(e).inodes
    BY <1>4 DEF init_ramfs_astray
  <2>2. /\ \A i \in Files \ {findex} : files'[i].link = files[i].link
        /\ \A i \in Inodes : inodes'[i].data = inodes[i].data /\ inodes'[i].size = inodes[i].size
    BY <1>0, <2>1, NamedIs DEF FileType
  <2> QED
    BY <1>3, <2>1, <2>2
<1>5. ASSUME NEW e \in Entries, init_ramfs_invalid(e)
      PROVE  \E x \in Nat : x <= 2 * Cardinality(HasInodes') /\ InPlaceBelow(x)'
  <2>1. Reading(e) /\ stage' = "-1" /\ stage' # "read" /\ inodes' = inodes /\ ~HasData(e)
        /\ files' = [files EXCEPT ![findex].type = "INVALID"]
    BY <1>5 DEF init_ramfs_invalid, HasData
  <2>2. \A i \in Files \ {findex} : files'[i].link = files[i].link
    BY <1>0, <2>1 DEF ArraysTyped, FileType
  <2> QED
    BY <1>3, <2>1, <2>2
<1>6. ASSUME UNCHANGED <<files, inodes, iindex, archive>>,
             stage' = "read" => stage = "read", stage = "astray" => stage' = "astray"
      PROVE  \E x \in Nat : x <= 2 * Cardinality(HasInodes') /\ InPlaceBelow(x)'
  <2>1. HasInodes' = HasInodes /\ FilesFit /\ InodesFit
    BY <1>6 DEF HasInodes, Entry, FilesFit, InodesFit
  <2>2. PICK x \in Nat : x <= 2 * Cardinality(HasInodes) /\ InPlaceBelow(x)
    BY <2>1 DEF DataInv
  <2>3. DataFiles' \subseteq DataFiles
    BY <1>6 DEF DataFiles, Entry
  <2>4. InPlaceBelow(x)'
    BY <1>6, <2>2, <2>3 DEF InPlaceBelow, InPlace, Entry
  <2> QED
    BY <2>1, <2>2, <2>4
<1>7. CASE init_ramfs_magic \/ init_ramfs_end
  BY <1>6, <1>7 DEF init_ramfs_magic, init_ramfs_end
<1>8. ASSUME NEW name \in Queries, NEW offset \in Offsets, read(name, offset)
      PROVE  \E x \in Nat : x <= 2 * Cardinality(HasInodes') /\ InPlaceBelow(x)'
  BY <1>6, <1>8 DEF read
<1>9. ASSUME NEW name \in Queries, ls(name)
      PROVE  \E x \in Nat : x <= 2 * Cardinality(HasInodes') /\ InPlaceBelow(x)'
  BY <1>6, <1>9 DEF ls, Asks
<1>10. CASE UNCHANGED vars
  BY <1>6, <1>10 DEF vars
<1> QED
  BY <1>2, <1>4, <1>5, <1>7, <1>8, <1>9, <1>10 DEF Next, idle

LEMMA InitDataInv == Init => DataInv
<1> SUFFICES ASSUME Init PROVE DataInv
  OBVIOUS
<1>1. HeaderInv
  BY InitTypeOK DEF Init, HeaderInv, HeadersFound
<1>2. AscendInv
  BY InitAscendInv
<1>3. DOMAIN archive = {}
  BY DEF Init
<1>4. InPlaceBelow(0)
  BY <1>3, CountFacts DEF Init, InPlaceBelow, DataFiles
<1>5. HasInodes = {}
  BY <1>3 DEF HasInodes
<1>6. Cardinality(HasInodes) = 0
  BY <1>5, FS_EmptySet
<1>7. 0 <= 2 * Cardinality(HasInodes)
  BY <1>6
<1> QED
  BY <1>1, <1>2, <1>4, <1>7 DEF DataInv

LEMMA DataInvariance == Spec => []DataInv
  BY InitDataInv, NextDataInv, PTL DEF Spec

\* As long as files and inodes fit, a file leads to its size and, unless the
\* size of its name is in lower case, to its data where cpio has put it,
\* although two inodes are spent on it and lookups of parents may store files
\* in other inodes.
THEOREM RootfsDataInPlace == Spec => []DataInPlace
<1>1. ASSUME DataInv, FilesFit, InodesFit, NEW k \in DataFiles
      PROVE  \E j \in Inodes : InPlace(k, j)
  BY <1>1 DEF DataInv, InPlaceBelow
<1>2. ASSUME NEW k, NEW j, InPlace(k, j)
      PROVE  /\ files[k - 1].link[1] = "inode"
             /\ \/ NameRefused(Entry(k))
                \/ inodes[files[k - 1].link[2]].data =
                      <<"archive", DataAt(Entry(k), archive[k].at)>>
             /\ inodes[files[k - 1].link[2]].size = Length(Entry(k))
  BY <1>2 DEF InPlace
<1>3. DataInv => DataInPlace
  BY <1>1, <1>2 DEF DataInPlace
<1> QED
  BY <1>3, DataInvariance, PTL

-----------------------------------------------------------------------------
\* A pointer to the first slot of S behind slot i, or null if there is none.
PointsToNext(p, S, i) ==
    \/ p = NULL /\ \A j \in S : j <= i
    \/ \E j \in S : p = <<"file", j>> /\ i < j /\ \A l \in S : i < l => j <= l

\* The slots of S are siblings, in their order.
Chained(fs, S) == \A i \in S : PointsToNext(fs[i].next, S, i)

\* What a walk has put together so far.
Ascends(v) == \A i, j \in DOMAIN v : i < j => v[i][2] < v[j][2]
Covers(v, S) == \A l \in S : l <= Last(v)[2] => <<"file", l>> \in Range(v)

LEMMA OnwardAlong ==
    ASSUME NEW fs, NEW ns, NEW S \in SUBSET Nat, Chained(fs, S),
           NEW v \in Seq({"file"} \X S) \ {<<>>}, Ascends(v), Covers(v, S)
    PROVE  LET w == Onward(fs, ns, v)
           IN  /\ w \in Seq({"file"} \X S) \ {<<>>}
               /\ Ascends(w) /\ Covers(w, S)
               /\ \/ next_file(fs, ns, Last(v)) = NULL /\ w = v
                  \/ Last(w)[2] > Last(v)[2]
               /\ next_file(fs, ns, Last(v)) = NULL => \A l \in S : l <= Last(v)[2]
<1> DEFINE P == {"file"} \X S
           w == Onward(fs, ns, v)
           n == Len(v)
           i == Last(v)[2]
           q == next_file(fs, ns, Last(v))
<1>1. v \in Seq(P) /\ v # <<>>
  OBVIOUS
<1>2. n \in Nat /\ n > 0 /\ DOMAIN v = 1..n /\ \A a \in 1..n : v[a] \in P
  BY <1>1, EmptySeq, LenProperties
<1>3. Last(v) = v[n]
  BY DEF Last
<1>4. i \in S /\ Last(v)[1] = "file" /\ Last(v) = <<"file", i>>
  BY <1>2, <1>3
<1>5. q = fs[i].next
  BY <1>4, NextFileIs
<1>6. PointsToNext(q, S, i)
  BY <1>4, <1>5 DEF Chained
<1>7. CASE q = NULL
  <2>1. \A j \in S : <<"file", j>> # NULL
    BY DEF NULL
  <2>2. \A l \in S : l <= i
    BY <1>6, <1>7, <2>1 DEF PointsToNext
  <2>3. w = v
    BY <1>7 DEF Onward
  <2> QED
    BY <1>1, <1>7, <2>2, <2>3
<1>8. CASE q # NULL
  <2>1. PICK j \in S : q = <<"file", j>> /\ i < j /\ \A l \in S : i < l => j <= l
    BY <1>6, <1>8 DEF PointsToNext
  <2>2. w = Append(v, q)
    BY <1>8 DEF Onward
  <2>3. q \in P
    BY <2>1
  <2>4. /\ w \in Seq(P) /\ w # <<>> /\ Len(w) = n + 1 /\ DOMAIN w = 1..(n + 1)
        /\ \A a \in 1..n : w[a] = v[a]
        /\ w[n + 1] = q
    <3> HIDE DEF P, q, w
    <3> QED
      BY <1>1, <2>2, <2>3, AppendProperties, LenProperties
  <2>5. Last(w) = q /\ Last(w)[2] = j
    BY <2>1, <2>4 DEF Last
  <2>6. \A a \in 1..n : v[a][2] \in S /\ v[a][2] <= i
    <3> TAKE a \in 1..n
    <3>1. v[a][2] \in S /\ v[a][2] \in Nat /\ v[n][2] = i /\ i \in Nat
      BY <1>2, <1>3, <1>4
    <3>2. a = n \/ a < n
      <4> HIDE DEF n
      <4> QED
        BY <1>2
    <3>3. a < n => v[a][2] < v[n][2]
      BY <1>2 DEF Ascends
    <3> QED
      BY <3>1, <3>2, <3>3
  <2>7. Ascends(w)
    <3> SUFFICES ASSUME NEW a \in 1..(n + 1), NEW b \in 1..(n + 1), a < b
                 PROVE  w[a][2] < w[b][2]
      BY <2>4 DEF Ascends
    <3>1. a \in 1..n
      BY <1>2
    <3>2. CASE b \in 1..n
      BY <1>2, <2>4, <3>1, <3>2 DEF Ascends
    <3>3. CASE b = n + 1
      <4>1. w[a][2] = v[a][2] /\ w[b][2] = j
        BY <2>1, <2>4, <3>1, <3>3
      <4>2. v[a][2] \in Nat /\ v[a][2] <= i /\ i < j /\ i \in Nat /\ j \in Nat
        BY <1>4, <2>1, <2>6, <3>1
      <4> HIDE DEF i
      <4> QED
        BY <4>1, <4>2
    <3> QED
      BY <1>2, <3>2, <3>3
  <2>8. Range(v) \subseteq Range(w) /\ q \in Range(w)
    <3>1. \A a \in 1..n : a \in 1..(n + 1)
      BY <1>2
    <3>2. n + 1 \in 1..(n + 1)
      BY <1>2
    <3> HIDE DEF n, w, q
    <3>3. ASSUME NEW a \in 1..n PROVE v[a] \in Range(w)
      <4>1. a \in DOMAIN w /\ w[a] = v[a]
        BY <2>4, <3>1
      <4> QED
        BY <4>1, Zenon DEF Range
    <3>4. q \in Range(w)
      BY <2>4, <3>2, Zenon DEF Range
    <3> QED
      BY <1>2, <3>3, <3>4, Zenon DEF Range
  <2>9. Covers(w, S)
    <3> SUFFICES ASSUME NEW l \in S, l <= j PROVE <<"file", l>> \in Range(w)
      BY <2>5 DEF Covers
    <3>1. l <= i \/ l = j
      <4>1. i \in Nat /\ j \in Nat /\ l \in Nat
        BY <1>4
      <4> HIDE DEF i
      <4> QED
        BY <2>1, <4>1
    <3> QED
      BY <2>1, <2>8, <3>1 DEF Covers
  <2> QED
    BY <1>8, <2>1, <2>4, <2>5, <2>7, <2>9
<1> QED
  BY <1>7, <1>8

\* The walk over siblings from one of them on finds those behind it, in their
\* order, and ends at the last.
LEMMA WalkAlong ==
    ASSUME NEW fs, NEW ns, NEW S \in SUBSET Files, Chained(fs, S), NEW f \in S
    PROVE  LET w == Siblings(fs, ns, <<"file", f>>)
               T == {l \in S : f <= l}
           IN  /\ Range(w) = {<<"file", l>> : l \in T}
               /\ Ascends(w)
               /\ WalkEnds(fs, ns, <<"file", f>>)
               /\ Last(w)[1] = "file" /\ Last(w)[2] \in S
               /\ \A l \in S : l <= Last(w)[2]
<1> DEFINE T == {l \in S : f <= l}
           first == <<"file", f>>
           P == {"file"} \X T
           w == Siblings(fs, ns, first)
<1>1. S \subseteq Nat /\ T \subseteq Nat /\ f \in T /\ first \in P /\ f \in Nat
      /\ \A l \in S : l < ROOTFS_FILE_COUNT
  <2>1. S \subseteq Nat
    BY CountFacts
  <2>2. f \in Nat /\ f \in T
    BY <2>1
  <2>3. \A l \in Files : l < ROOTFS_FILE_COUNT
    BY CountFacts DEF Files
  <2> QED
    BY <2>1, <2>2, <2>3
<1>2. Chained(fs, T)
  <2> SUFFICES ASSUME NEW i \in T PROVE PointsToNext(fs[i].next, T, i)
    BY DEF Chained
  <2>1. PointsToNext(fs[i].next, S, i)
    BY DEF Chained
  <2>2. CASE fs[i].next = NULL /\ \A j \in S : j <= i
    BY <2>2 DEF PointsToNext
  <2>3. ASSUME NEW j \in S, fs[i].next = <<"file", j>>, i < j, \A l \in S : i < l => j <= l
        PROVE  PointsToNext(fs[i].next, T, i)
    <3>1. j \in T
      BY <1>1, <2>3
    <3> QED
      BY <2>3, <3>1 DEF PointsToNext
  <2> QED
    BY <2>1, <2>2, <2>3 DEF PointsToNext
<1>3. ASSUME NEW p \in P PROVE next_file(fs, ns, p) \in P \cup {NULL}
  <2>1. p[1] = "file" /\ p[2] \in T
    OBVIOUS
  <2>2. next_file(fs, ns, p) = fs[p[2]].next
    BY <2>1, NextFileIs
  <2>3. PointsToNext(fs[p[2]].next, T, p[2])
    BY <1>2, <2>1 DEF Chained
  <2> QED
    BY <2>2, <2>3 DEF PointsToNext
<1> HIDE DEF P
<1>4. PICK walk \in [0..Rounds -> Seq(P) \ {<<>>}] : IsWalk(walk, fs, ns, first)
  BY <1>1, <1>3, SiblingsWalk
<1> DEFINE Good(i) == /\ Ascends(walk[i]) /\ Covers(walk[i], T)
                      /\ \/ next_file(fs, ns, Last(walk[i])) = NULL
                         \/ i <= Last(walk[i])[2]
<1>5. Rounds \in Nat /\ Rounds = ROOTFS_FILE_COUNT + 1
  BY CountFacts DEF Rounds
<1> HIDE DEF first, T
<1>6. Good(0)
  <2>1. walk[0] = <<first>>
    BY <1>4 DEF IsWalk
  <2>2. /\ DOMAIN <<first>> = {1} /\ <<first>>[1] = first /\ Last(<<first>>) = first
        /\ first[2] = f
    BY DEF Last, first
  <2>3. Ascends(walk[0])
    BY <2>1, <2>2 DEF Ascends
  <2>4. first \in Range(<<first>>)
    BY <2>2 DEF Range
  <2>5. \A l \in T : l <= f => l = f
    BY <1>1 DEF T
  <2>6. Covers(walk[0], T)
    BY <2>1, <2>2, <2>4, <2>5 DEF Covers, first
  <2>7. 0 <= f
    BY <1>1
  <2> QED
    BY <2>1, <2>2, <2>3, <2>6, <2>7
<1>7. ASSUME NEW i \in 1..Rounds, Good(i - 1) PROVE Good(i)
  <2>1. walk[i] = Onward(fs, ns, walk[i - 1])
    BY <1>4 DEF IsWalk
  <2>2. i - 1 \in 0..Rounds
    BY <1>5
  <2>3. walk[i - 1] \in Seq(P) \ {<<>>} /\ walk[i] \in Seq(P) \ {<<>>}
    BY <1>4, <1>5, <2>2
  <2> DEFINE v == walk[i - 1]
  <2>4. /\ Ascends(walk[i]) /\ Covers(walk[i], T)
        /\ \/ next_file(fs, ns, Last(v)) = NULL /\ walk[i] = v
           \/ Last(walk[i])[2] > Last(v)[2]
    <3>1. v \in Seq({"file"} \X T) \ {<<>>} /\ Ascends(v) /\ Covers(v, T)
      BY <1>7, <2>3 DEF P
    <3>2. walk[i] = Onward(fs, ns, v)
      BY <2>1
    <3> HIDE DEF v
    <3> QED
      BY <1>1, <1>2, <3>1, <3>2, OnwardAlong
  <2>5. ASSUME NEW x \in Seq(P) \ {<<>>} PROVE Last(x)[2] \in Nat
    <3>1. Last(x) \in P
      BY <2>5 DEF Last
    <3> QED
      BY <1>1, <3>1 DEF P
  <2>6. CASE next_file(fs, ns, Last(v)) = NULL /\ walk[i] = v
    BY <2>4, <2>6
  <2>7. CASE Last(walk[i])[2] > Last(v)[2]
    <3>1. next_file(fs, ns, Last(v)) = NULL => walk[i] = v
      BY <2>1 DEF Onward
    <3>2. Last(v)[2] \in Nat /\ Last(walk[i])[2] \in Nat
      BY <2>3, <2>5
    <3>3. next_file(fs, ns, Last(v)) # NULL
      <4>1. walk[i] # v
        BY <2>7, <3>2
      <4> QED
        BY <3>1, <4>1
    <3>4. i - 1 <= Last(v)[2]
      BY <1>7, <3>3
    <3>5. i <= Last(walk[i])[2]
      BY <2>7, <3>2, <3>4
    <3> QED
      BY <2>4, <3>5
  <2> QED
    BY <2>4, <2>6, <2>7
<1> HIDE DEF Good
<1>8. Good(Rounds)
  <2> DEFINE U == {i \in 0..Rounds : Good(i)}
  <2>1. 0 \in U
    BY <1>5, <1>6
  <2>2. \A i \in 1..Rounds : i - 1 \in U => i \in U
    BY <1>5, <1>7
  <2> HIDE DEF U
  <2>3. \A i \in 0..Rounds : i \in U
    BY <1>5, <2>1, <2>2, Loop!RoundInduction
  <2> QED
    BY <1>5, <2>3 DEF U
<1>9. w = walk[Rounds] /\ w \in Seq(P) \ {<<>>}
  BY <1>4, <1>5 DEF IsWalk
<1>10. Last(w) \in P
  BY <1>9 DEF Last
<1>11. Last(w)[1] = "file" /\ Last(w)[2] \in T
  BY <1>10 DEF P
<1>12. Ascends(w) /\ Covers(w, T) /\ next_file(fs, ns, Last(w)) = NULL
  <2>1. Last(w)[2] \in Nat /\ Last(w)[2] < ROOTFS_FILE_COUNT
    BY <1>1, <1>11 DEF T
  <2>2. ~(Rounds <= Last(w)[2])
    BY <1>5, <2>1, CountFacts
  <2> QED
    BY <1>8, <1>9, <2>2 DEF Good
<1>13. \A l \in T : l <= Last(w)[2]
  BY <1>1, <1>2, <1>9, <1>12, OnwardAlong DEF P
<1>14. \A l \in S : l <= Last(w)[2]
  <2>1. Last(w)[2] \in Nat /\ f <= Last(w)[2] /\ f \in Nat
    BY <1>1, <1>11 DEF T
  <2>2. \A l \in S : l \in Nat /\ (l \in T \/ l < f)
    BY <1>1 DEF T
  <2> HIDE DEF w
  <2> QED
    BY <1>13, <2>1, <2>2
<1>15. Range(w) = {<<"file", l>> : l \in T}
  <2>1. \A l \in T : <<"file", l>> \in Range(w)
    BY <1>12, <1>13 DEF Covers
  <2>2. \A x \in Range(w) : x \in P
    BY <1>9 DEF Range
  <2>3. \A x \in P : x[2] \in T /\ x = <<"file", x[2]>>
    BY DEF P
  <2> HIDE DEF w
  <2> QED
    BY <2>1, <2>2, <2>3
<1>16. WalkEnds(fs, ns, first)
  BY <1>12 DEF WalkEnds
<1> QED
  BY <1>11, <1>12, <1>14, <1>15, <1>16 DEF first, T

-----------------------------------------------------------------------------
\* The slots in use for an archive, the entry of a slot, and the slots of the
\* entries in a directory.
Filled(a) == 0..(Len(a) - 1)
Slot(a, i) == a[i + 1].e
Slots(a, dir) == {i \in Filled(a) : Slot(a, i).dir = dir}

\* What WellNamed says of the slots.
SlotsNamed(a) ==
    /\ Filled(a) \subseteq Files
    /\ \A i \in Filled(a) :
          /\ Slot(a, i).mode # "INVALID" /\ Slot(a, i).base \in Seq(Chars)
          /\ Slot(a, i).base # <<>> /\ Stored(Slot(a, i).base) = Slot(a, i).base
          /\ \A j \in Filled(a) : IsPrefix(Slot(a, j).base, Slot(a, i).base) => j = i
          /\ \/ Slot(a, i).dir = <<>>
             \/ \E j \in Filled(a) : j < i /\ Slot(a, j).base = Slot(a, i).dir
                                     /\ Slot(a, j).mode = "DIRECTORY"

\* The tree, slot by slot: each leads to the next one of its directory and
\* back to it, and a directory to the first one in it.
Tree(a, fs) ==
    \A i \in Filled(a) :
        /\ fs[i].name = Slot(a, i).base
        /\ IF Slot(a, i).dir = <<>> THEN fs[i].next = NULL
           ELSE PointsToNext(fs[i].next, Slots(a, Slot(a, i).dir), i)
        /\ \A d \in Filled(a) :
              Slot(a, d).base = Slot(a, i).dir => fs[i].parent = <<"file", d>>
        /\ Slot(a, i).mode = "DIRECTORY" =>
              PointsToNext(fs[i].link, Slots(a, Slot(a, i).base), -1)

\* Inductive invariant: for an archive that is well named so far.
TreeInv ==
    /\ AscendInv
    /\ WellNamed => Tree(archive, files)

LEMMA SlotsNamedIs ==
    ASSUME NEW a \in Seq([e : Entries, at : Nat]), Len(a) <= ROOTFS_FILE_COUNT,
           \A k \in DOMAIN a :
              /\ a[k].e.mode # "INVALID"
              /\ a[k].e.base # <<>> /\ Stored(a[k].e.base) = a[k].e.base
              /\ \A j \in DOMAIN a : IsPrefix(a[j].e.base, a[k].e.base) => j = k
              /\ \/ a[k].e.dir = <<>>
                 \/ \E j \in 1..(k - 1) :
                       a[j].e.mode = "DIRECTORY" /\ a[j].e.base = a[k].e.dir
    PROVE  SlotsNamed(a)
<1> DEFINE n == Len(a)
<1>1. n \in Nat /\ DOMAIN a = 1..n
  OBVIOUS
<1>2. n <= ROOTFS_FILE_COUNT
  OBVIOUS
<1> HIDE DEF n
<1>3. 0..(n - 1) \subseteq Files /\ \A i \in 0..(n - 1) : i + 1 \in 1..n
  BY <1>1, <1>2, CountFacts DEF Files
<1>4. Filled(a) = 0..(n - 1)
  BY DEF Filled, n
<1>5. ASSUME NEW i \in 0..(n - 1)
      PROVE  /\ Slot(a, i).mode # "INVALID" /\ Slot(a, i).base \in Seq(Chars)
             /\ Slot(a, i).base # <<>> /\ Stored(Slot(a, i).base) = Slot(a, i).base
             /\ \A j \in 0..(n - 1) : IsPrefix(Slot(a, j).base, Slot(a, i).base) => j = i
             /\ \/ Slot(a, i).dir = <<>>
                \/ \E j \in 0..(n - 1) : j < i /\ Slot(a, j).base = Slot(a, i).dir
                                         /\ Slot(a, j).mode = "DIRECTORY"
  <2>1. i + 1 \in DOMAIN a
    BY <1>1, <1>3
  <2>2. \A j \in 0..(n - 1) : IsPrefix(Slot(a, j).base, Slot(a, i).base) => j = i
    <3> TAKE j \in 0..(n - 1)
    <3>1. j + 1 \in DOMAIN a
      BY <1>1, <1>3
    <3>2. IsPrefix(Slot(a, j).base, Slot(a, i).base) => j + 1 = i + 1
      BY <2>1, <3>1 DEF Slot
    <3>3. j + 1 = i + 1 => j = i
      BY <1>1
    <3> QED
      BY <3>2, <3>3
  <2>3. ASSUME NEW k \in 1..((i + 1) - 1),
               a[k].e.mode = "DIRECTORY", a[k].e.base = a[i + 1].e.dir
        PROVE  \E j \in 0..(n - 1) : j < i /\ Slot(a, j).base = Slot(a, i).dir
                                     /\ Slot(a, j).mode = "DIRECTORY"
    <3>1. k - 1 \in 0..(n - 1) /\ k - 1 < i /\ (k - 1) + 1 = k
      BY <1>1
    <3>2. Slot(a, k - 1) = a[k].e /\ Slot(a, i) = a[i + 1].e
      BY <3>1 DEF Slot
    <3> QED
      BY <2>3, <3>1, <3>2
  <2>4. \/ a[i + 1].e.dir = <<>>
        \/ \E j \in 1..((i + 1) - 1) :
              a[j].e.mode = "DIRECTORY" /\ a[j].e.base = a[i + 1].e.dir
    BY <2>1, Zenon
  <2>5. \/ Slot(a, i).dir = <<>>
        \/ \E j \in 0..(n - 1) : j < i /\ Slot(a, j).base = Slot(a, i).dir
                                 /\ Slot(a, j).mode = "DIRECTORY"
    BY <2>3, <2>4 DEF Slot
  <2>6. Slot(a, i).base \in Seq(Chars)
    <3>1. Slot(a, i) \in Entries
      <4>1. a[i + 1] \in [e : Entries, at : Nat]
        BY <1>3, ElementOfSeq DEF n
      <4> QED
        BY <4>1 DEF Slot
    <3> QED
      BY <3>1, RootfsAssumption
  <2> QED
    BY <2>1, <2>2, <2>5, <2>6 DEF Slot
<1> QED
  BY <1>3, <1>4, <1>5 DEF SlotsNamed

LEMMA ArchiveNamed ==
    /\ TypeOK /\ WellNamed => SlotsNamed(archive)
    /\ TypeOK' /\ WellNamed' => SlotsNamed(archive')
<1>1. ASSUME TypeOK, WellNamed PROVE SlotsNamed(archive)
  BY <1>1, SlotsNamedIs DEF TypeOK, WellNamed, FilesFit, Entry
<1>2. ASSUME TypeOK', WellNamed' PROVE SlotsNamed(archive')
  BY <1>2, SlotsNamedIs DEF TypeOK, WellNamed, FilesFit, Entry
<1> QED
  BY <1>1, <1>2

\* An archive with one entry more.
Grown(a, b, e) ==
    /\ Len(a) \in Nat
    /\ Filled(b) = Filled(a) \cup {Len(a)}
    /\ Slot(b, Len(a)) = e
    /\ \A i \in Filled(a) : Slot(b, i) = Slot(a, i) /\ i < Len(a) /\ i \in Nat
    /\ Slots(b, e.dir) = Slots(a, e.dir) \cup {Len(a)}
    /\ \A dir : dir # e.dir => Slots(b, dir) = Slots(a, dir)

LEMMA ArchiveGrown ==
    ASSUME TypeOK, NEW e \in Entries, Reading(e)
    PROVE  Grown(archive, archive', e)
<1> DEFINE n == Len(archive)
<1>1. /\ n \in Nat /\ Len(archive') = n + 1
      /\ \A k \in 1..n : archive'[k] = archive[k]
      /\ archive'[n + 1].e = e
  BY ArchiveGrows
<1> HIDE DEF n
<1>2. Filled(archive) = 0..(n - 1) /\ Filled(archive') = 0..((n + 1) - 1)
  BY <1>1 DEF Filled, n
<1>3. /\ 0..((n + 1) - 1) = 0..(n - 1) \cup {n}
      /\ \A i \in 0..(n - 1) : i < n /\ i \in Nat /\ i + 1 \in 1..n
  BY <1>1
<1>4. Slot(archive', n) = e
  BY <1>1 DEF Slot
<1>5. \A i \in Filled(archive) : Slot(archive', i) = Slot(archive, i)
  BY <1>1, <1>2, <1>3 DEF Slot
<1>6. \A dir : Slots(archive', dir) =
                  IF e.dir = dir THEN Slots(archive, dir) \cup {n} ELSE Slots(archive, dir)
  <2> TAKE dir
  <2>1. Filled(archive') = Filled(archive) \cup {n}
    BY <1>2, <1>3
  <2> QED
    BY <1>4, <1>5, <2>1 DEF Slots
<1>7. /\ Slots(archive', e.dir) = Slots(archive, e.dir) \cup {n}
      /\ \A dir : dir # e.dir => Slots(archive', dir) = Slots(archive, dir)
  BY <1>6
<1>8. Filled(archive') = Filled(archive) \cup {n}
  BY <1>2, <1>3
<1>9. \A i \in Filled(archive) : i < n /\ i \in Nat
  BY <1>2, <1>3
<1> QED
  BY <1>1, <1>4, <1>5, <1>7, <1>8, <1>9 DEF Grown, n

LEMMA WellNamedBefore ==
    ASSUME TypeOK, NEW e \in Entries, Reading(e), WellNamed'
    PROVE  WellNamed
<1> DEFINE n == Len(archive)
<1>1. /\ n \in Nat /\ Len(archive') = n + 1
      /\ DOMAIN archive = 1..n /\ DOMAIN archive' = 1..(n + 1)
      /\ \A k \in 1..n : archive'[k] = archive[k]
  BY ArchiveGrows
<1> HIDE DEF n
<1>2. FilesFit
  <2>1. n + 1 <= ROOTFS_FILE_COUNT
    BY <1>1 DEF WellNamed, FilesFit
  <2>2. n <= ROOTFS_FILE_COUNT
    BY <1>1, <2>1, CountFacts
  <2> QED
    BY <2>2 DEF FilesFit, n
<1>3. 1..n \subseteq 1..(n + 1) /\ \A k \in 1..n : 1..(k - 1) \subseteq 1..n
  BY <1>1
<1>4. ASSUME NEW k \in DOMAIN archive
      PROVE  /\ Entry(k).mode # "INVALID"
             /\ Entry(k).base # <<>> /\ Stored(Entry(k).base) = Entry(k).base
             /\ \A j \in DOMAIN archive : IsPrefix(Entry(j).base, Entry(k).base) => j = k
             /\ \/ Entry(k).dir = <<>>
                \/ \E j \in 1..(k - 1) : Entry(j).mode = "DIRECTORY" /\ Entry(j).base = Entry(k).dir
  <2>1. k \in DOMAIN archive' /\ \A j \in 1..n : Entry(j)' = Entry(j)
    BY <1>1, <1>3 DEF Entry
  <2> QED
    BY <1>1, <1>3, <2>1 DEF WellNamed
<1> QED
  BY <1>2, <1>4 DEF WellNamed

\* Where an entry in directory d is stored: behind the last one in d.
Joins(e, d) ==
    /\ d \in Filled(archive) /\ Slot(archive, d).base = e.dir
    /\ HasParent(e) /\ Parent(e) = d
    /\ Slots(archive, e.dir) = {} => AsFirst(e)
    /\ Slots(archive, e.dir) # {} =>
          /\ AsNext(e) /\ LastChild(e)[1] = "file"
          /\ LastChild(e)[2] \in Slots(archive, e.dir)
          /\ \A l \in Slots(archive, e.dir) : l <= LastChild(e)[2]

LEMMA JoinsDirectory ==
    ASSUME ArraysTyped, findex = Len(archive), NEW e \in Entries, NEW b,
           Grown(archive, b, e), SlotsNamed(b), Tree(archive, files), e.dir # <<>>
    PROVE  ~Astray(e) /\ \E d \in Filled(archive) : Joins(e, d)
<1> DEFINE n == Len(archive)
           S == Slots(archive, e.dir)
           fs == Named(e).files
           ns == Named(e).inodes
<1>1. /\ n \in Nat /\ Filled(b) = Filled(archive) \cup {n} /\ Slot(b, n) = e
      /\ \A i \in Filled(archive) : Slot(b, i) = Slot(archive, i) /\ i < n /\ i \in Nat
  BY DEF Grown
<1>2. PICK d \in Filled(b) : /\ d < n /\ Slot(b, d).base = e.dir
                             /\ Slot(b, d).mode = "DIRECTORY"
  BY <1>1 DEF SlotsNamed
<1>3. /\ d \in Filled(archive) /\ Slot(archive, d).base = e.dir
      /\ Slot(archive, d).mode = "DIRECTORY" /\ d \in Nat
  BY <1>1, <1>2
<1>4. Stored(e.dir) = e.dir
  BY <1>2 DEF SlotsNamed
<1>5. Filled(archive) \subseteq Files
  BY <1>1 DEF SlotsNamed
<1>6. \A i \in Filled(archive) : fs[i] = files[i]
  BY <1>1, <1>5, NamedIs
<1>7. \A i \in Filled(archive) : fs[i].name = Slot(archive, i).base
  BY <1>6 DEF Tree
<1>8. IsPrefix(e.dir, e.dir)
  <2>1. e.dir \in Seq(Chars)
    BY RootfsAssumption
  <2>2. Len(e.dir) \in Nat
    BY <2>1
  <2> QED
    BY <2>2 DEF IsPrefix
<1>9. strequal(fs[d].name, Stored(e.dir))
  BY <1>3, <1>4, <1>7, <1>8 DEF strequal
<1>10. HasParent(e)
  BY <1>3, <1>4, <1>5, <1>9 DEF HasParent, Matches
<1>11. Parent(e) = d
  <2>1. Parent(e) \in Files /\ strequal(fs[Parent(e)].name, Stored(e.dir)) /\ Parent(e) <= d
    BY <1>3, <1>5, <1>9, <1>10, ParentIs
  <2>2. Parent(e) \in Filled(archive)
    <3>1. Parent(e) \in Nat
      BY <2>1, CountFacts
    <3>2. d \in 0..(n - 1)
      BY <1>3 DEF Filled
    <3> HIDE DEF n
    <3>3. Parent(e) \in 0..(n - 1)
      BY <1>1, <2>1, <3>1, <3>2
    <3> QED
      BY <3>3 DEF Filled, n
  <2>3. IsPrefix(Slot(b, Parent(e)).base, Slot(b, d).base)
    <3>1. Slot(b, Parent(e)).base = fs[Parent(e)].name
      BY <1>1, <1>7, <2>2
    <3> QED
      BY <1>2, <1>4, <2>1, <3>1 DEF strequal
  <2> QED
    BY <1>1, <1>2, <2>2, <2>3 DEF SlotsNamed
<1>12. FirstChild(e) = files[d].link
  BY <1>3, <1>6, <1>11 DEF FirstChild
<1>13. PointsToNext(FirstChild(e), S, -1)
  <2>1. PointsToNext(files[d].link, Slots(archive, Slot(archive, d).base), -1)
    BY <1>3 DEF Tree
  <2> QED
    BY <1>3, <1>12, <2>1
<1>14. S \subseteq Filled(archive) /\ S \subseteq Files /\ S \subseteq Nat
  BY <1>1, <1>5 DEF Slots
<1>15. Chained(fs, S)
  <2> SUFFICES ASSUME NEW i \in S PROVE PointsToNext(fs[i].next, S, i)
    BY DEF Chained
  <2>1. i \in Filled(archive) /\ Slot(archive, i).dir = e.dir
    BY DEF Slots
  <2>2. IF Slot(archive, i).dir = <<>> THEN files[i].next = NULL
        ELSE PointsToNext(files[i].next, Slots(archive, Slot(archive, i).dir), i)
    BY <2>1 DEF Tree
  <2>3. PointsToNext(files[i].next, S, i)
    BY <2>1, <2>2
  <2> QED
    BY <1>6, <2>1, <2>3
<1>16. CASE S = {}
  <2>1. FirstChild(e) = NULL
    BY <1>13, <1>16 DEF PointsToNext
  <2>2. AsFirst(e) /\ ~Astray(e)
    BY <1>10, <2>1 DEF AsFirst, Astray
  <2>3. Joins(e, d)
    BY <1>3, <1>10, <1>11, <1>16, <2>2 DEF Joins
  <2> QED
    BY <1>3, <2>2, <2>3
<1>17. CASE S # {}
  <2>1. FirstChild(e) # NULL
    <3> SUFFICES ASSUME FirstChild(e) = NULL PROVE FALSE
      OBVIOUS
    <3>1. \A j \in S : <<"file", j>> # NULL
      BY DEF NULL
    <3>2. \A j \in S : j <= -1
      BY <1>13, <3>1 DEF PointsToNext
    <3>3. PICK j \in S : TRUE
      BY <1>17
    <3>4. j \in Nat /\ j <= -1
      BY <1>14, <3>2, <3>3
    <3> QED
      BY <3>4
  <2>2. PICK f \in S : FirstChild(e) = <<"file", f>>
    BY <1>13, <2>1 DEF PointsToNext
  <2> DEFINE w == Siblings(fs, ns, <<"file", f>>)
  <2> HIDE DEF S, fs, ns
  <2>3. /\ WalkEnds(fs, ns, <<"file", f>>)
        /\ Last(w)[1] = "file" /\ Last(w)[2] \in S
        /\ \A l \in S : l <= Last(w)[2]
    BY <1>14, <1>15, <2>2, WalkAlong
  <2>4. LastChild(e) = Last(w)
    BY <2>2 DEF LastChild, fs, ns
  <2>5. ~Astray(e)
    BY <2>2, <2>3 DEF Astray, fs, ns
  <2>6. AsNext(e)
    BY <1>10, <2>1 DEF AsNext
  <2> HIDE DEF w
  <2>7. Joins(e, d)
    BY <1>3, <1>10, <1>11, <1>17, <2>3, <2>4, <2>6 DEF Joins, S
  <2> QED
    BY <1>3, <2>5, <2>7
<1> QED
  BY <1>16, <1>17

\* An entry of no directory joins none.
LEMMA JoinsNone ==
    ASSUME NEW e \in Entries, e.dir = <<>>
    PROVE  ~HasParent(e) /\ ~Astray(e)
<1>1. Stored(<<>>) = <<>>
  <2> DEFINE M == ROOTFS_MAX_FILENAME_SIZE
  <2>1. Len(<<>>) = 0 /\ (0 \div M) * M = 0
    BY RootfsAssumption
  <2>2. SubSeq(<<>>, 0 + 1, 0) = <<>>
    OBVIOUS
  <2> QED
    BY <2>1, <2>2 DEF Stored
<1> QED
  BY <1>1 DEF HasParent, Astray

\* One slot more behind all others of S.
LEMMA PointsToNextGrows ==
    ASSUME NEW S \in SUBSET Nat, NEW n \in Nat, \A l \in S : l < n, NEW p, NEW i \in Int,
           PointsToNext(p, S, i), p # NULL
    PROVE  PointsToNext(p, S \cup {n}, i)
<1>1. PICK j \in S : p = <<"file", j>> /\ i < j /\ \A l \in S : i < l => j <= l
  BY DEF PointsToNext
<1>2. j <= n
  BY <1>1
<1> QED
  BY <1>1, <1>2 DEF PointsToNext

LEMMA TreeRound ==
    ASSUME ArraysTyped, findex = Len(archive), NEW e \in Entries, IsRound(e),
           Grown(archive, archive', e), SlotsNamed(archive'), Tree(archive, files)
    PROVE  Tree(archive', files')
<1> DEFINE n == Len(archive)
           S == Slots(archive, e.dir)
<1>1. /\ n \in Nat /\ Filled(archive') = Filled(archive) \cup {n} /\ Slot(archive', n) = e
      /\ \A i \in Filled(archive) : /\ Slot(archive', i) = Slot(archive, i)
                                    /\ i < n /\ i \in Nat /\ i # n
      /\ Slots(archive', e.dir) = S \cup {n}
      /\ \A dir : dir # e.dir => Slots(archive', dir) = Slots(archive, dir)
  BY DEF Grown
<1>2. \A i \in Filled(archive) : i \in Files \ {findex}
  BY <1>1 DEF SlotsNamed
<1>3. n \in Files /\ n = findex /\ Me = <<"file", n>> /\ Me # NULL
  BY PointerIn DEF ArraysTyped, Me
<1>4. S \subseteq Filled(archive) /\ S \subseteq Nat /\ \A l \in S : l < n
  BY <1>1 DEF Slots
<1>5. e.base # <<>> /\ Stored(e.base) = e.base
  BY <1>1 DEF SlotsNamed
<1>6. /\ e.dir # <<>> => \E d \in Filled(archive) : Joins(e, d)
      /\ e.dir = <<>> => ~AsFirst(e) /\ ~AsNext(e)
  BY JoinsDirectory, JoinsNone DEF AsFirst, AsNext
<1>7. \A i, j \in Filled(archive') : Slot(archive', i).base = Slot(archive', j).base => i = j
  <2> TAKE i, j \in Filled(archive')
  <2>1. Len(Slot(archive', j).base) \in Nat
    <3>1. Slot(archive', j).base \in Seq(Chars)
      BY DEF SlotsNamed
    <3> QED
      BY <3>1
  <2>2. IsPrefix(Slot(archive', j).base, Slot(archive', j).base)
    BY <2>1 DEF IsPrefix
  <2> QED
    BY <2>2 DEF SlotsNamed
\* Nothing is in the directory that the new entry may be.
<1>8. \A i \in Filled(archive') : Slot(archive', i).dir # e.base
  <2> TAKE i \in Filled(archive')
  <2> SUFFICES ASSUME Slot(archive', i).dir = e.base PROVE FALSE
    OBVIOUS
  <2>1. PICK j \in Filled(archive') : j < i /\ Slot(archive', j).base = e.base
    BY <1>5 DEF SlotsNamed
  <2>2. j = n
    BY <1>1, <1>7, <2>1
  <2>3. i = n \/ i < n
    BY <1>1
  <2> QED
    BY <1>1, <2>1, <2>2, <2>3
<1>9. ASSUME NEW i \in Filled(archive)
      PROVE  /\ files'[i].name = files[i].name
             /\ files'[i].parent = files[i].parent
             /\ files'[i].link = IF AsFirst(e) /\ i = Parent(e) THEN Me ELSE files[i].link
             /\ files'[i].next = IF AsNext(e) /\ LastChild(e)[1] = "file" /\ i = LastChild(e)[2]
                                 THEN Me ELSE files[i].next
  <2>1. i \in Files /\ i # findex /\ Named(e).files[i] = files[i]
    BY <1>2, NamedIs
  <2> QED
    BY <2>1 DEF IsRound
<1>10. ASSUME NEW i \in Filled(archive)
       PROVE  /\ files[i].name = Slot(archive, i).base
              /\ IF Slot(archive, i).dir = <<>> THEN files[i].next = NULL
                 ELSE PointsToNext(files[i].next, Slots(archive, Slot(archive, i).dir), i)
              /\ \A d \in Filled(archive) : Slot(archive, d).base = Slot(archive, i).dir =>
                    files[i].parent = <<"file", d>>
              /\ Slot(archive, i).mode = "DIRECTORY" =>
                    PointsToNext(files[i].link, Slots(archive, Slot(archive, i).base), -1)
  BY DEF Tree
<1>11. ASSUME NEW i \in Filled(archive), Slot(archive, i).dir = <<>>
       PROVE  files'[i].next = NULL
  <2>1. ~(AsNext(e) /\ i = LastChild(e)[2])
    <3> SUFFICES ASSUME AsNext(e), i = LastChild(e)[2] PROVE FALSE
      OBVIOUS
    <3>1. e.dir # <<>>
      BY <1>6
    <3>2. i \in S
      <4>1. PICK d \in Filled(archive) : Joins(e, d)
        BY <1>6, <3>1
      <4>2. ~AsFirst(e)
        BY DEF AsFirst, AsNext
      <4> QED
        BY <4>1, <4>2 DEF Joins
    <3> QED
      BY <1>11, <3>1, <3>2 DEF Slots
  <2> QED
    BY <1>9, <1>10, <1>11, <2>1
<1>12. ASSUME NEW i \in Filled(archive), Slot(archive, i).dir # <<>>
       PROVE  PointsToNext(files'[i].next, Slots(archive', Slot(archive, i).dir), i)
  <2>1. PointsToNext(files[i].next, Slots(archive, Slot(archive, i).dir), i)
    BY <1>10, <1>12
  <2>2. CASE Slot(archive, i).dir = e.dir
    <3>1. i \in S
      BY <2>2 DEF Slots
    <3>2. PICK d \in Filled(archive) : Joins(e, d)
      BY <1>6, <1>12, <2>2
    <3>3. /\ AsNext(e) /\ LastChild(e)[1] = "file" /\ LastChild(e)[2] \in S
          /\ \A l \in S : l <= LastChild(e)[2]
      BY <3>1, <3>2 DEF Joins
    <3>4. CASE i = LastChild(e)[2]
      <4>1. files'[i].next = <<"file", n>>
        BY <1>3, <1>9, <3>3, <3>4
      <4>2. i < n /\ \A l \in S \cup {n} : i < l => n <= l
        <5>1. i \in Nat /\ i < n /\ n \in Nat /\ \A l \in S : l \in Nat /\ l <= i
          BY <1>1, <1>4, <3>3, <3>4
        <5> HIDE DEF n, S
        <5> QED
          BY <5>1
      <4>3. PointsToNext(<<"file", n>>, S \cup {n}, i)
        BY <4>2 DEF PointsToNext
      <4> QED
        BY <1>1, <2>2, <4>1, <4>3
    <3>5. CASE i # LastChild(e)[2]
      <4>1. files'[i].next = files[i].next
        BY <1>9, <3>5
      <4>2. files[i].next # NULL
        <5> SUFFICES ASSUME files[i].next = NULL PROVE FALSE
          OBVIOUS
        <5>1. \A j \in S : <<"file", j>> # NULL
          BY DEF NULL
        <5>2. \A j \in S : j <= i
          BY <2>1, <2>2, <5>1 DEF PointsToNext
        <5>3. LastChild(e)[2] <= i /\ i <= LastChild(e)[2]
              /\ LastChild(e)[2] \in Nat /\ i \in Nat
          BY <1>4, <3>1, <3>3, <5>2
        <5>4. i = LastChild(e)[2]
          BY <5>3
        <5> QED
          BY <3>5, <5>4
      <4>3. PointsToNext(files[i].next, S \cup {n}, i)
        <5>1. i \in Int
          BY <1>1
        <5>2. PointsToNext(files[i].next, S, i)
          BY <2>1, <2>2
        <5> HIDE DEF n, S
        <5> QED
          BY <1>1, <1>4, <4>2, <5>1, <5>2, PointsToNextGrows
      <4> QED
        BY <1>1, <2>2, <4>1, <4>3
    <3> QED
      BY <3>4, <3>5
  <2>3. CASE Slot(archive, i).dir # e.dir
    <3>1. ~(AsNext(e) /\ i = LastChild(e)[2])
      <4> SUFFICES ASSUME AsNext(e), i = LastChild(e)[2] PROVE FALSE
        OBVIOUS
      <4>1. PICK d \in Filled(archive) : Joins(e, d)
        BY <1>6
      <4>2. i \in S
        BY <4>1 DEF Joins, AsFirst, AsNext
      <4> QED
        BY <2>3, <4>2 DEF Slots
    <3>2. files'[i].next = files[i].next
      BY <1>9, <3>1
    <3> QED
      BY <1>1, <2>1, <2>3, <3>2
  <2> QED
    BY <2>2, <2>3
<1>13. ASSUME NEW i \in Filled(archive), Slot(archive, i).mode = "DIRECTORY"
       PROVE  PointsToNext(files'[i].link, Slots(archive', Slot(archive, i).base), -1)
  <2>1. PointsToNext(files[i].link, Slots(archive, Slot(archive, i).base), -1)
    BY <1>10, <1>13
  <2>2. CASE Slot(archive, i).base = e.dir
    <3>1. e.dir # <<>>
      BY <1>1, <2>2 DEF SlotsNamed
    <3>2. PICK d \in Filled(archive) : Joins(e, d)
      BY <1>6, <3>1
    <3>3. d = i /\ HasParent(e) /\ Parent(e) = i
      BY <1>1, <1>7, <2>2, <3>2 DEF Joins
    <3>4. CASE S = {}
      <4>1. files'[i].link = <<"file", n>>
        BY <1>3, <1>9, <3>2, <3>3, <3>4 DEF Joins
      <4>2. -1 < n /\ n <= n
        <5> HIDE DEF n
        <5> QED
          BY <1>1
      <4>3. PointsToNext(<<"file", n>>, S \cup {n}, -1)
        BY <3>4, <4>2 DEF PointsToNext
      <4> QED
        BY <1>1, <2>2, <4>1, <4>3
    <3>5. CASE S # {}
      <4>1. AsNext(e)
        BY <3>2, <3>5 DEF Joins
      <4>2. FirstChild(e) = files[i].link
        BY <1>2, <3>3, NamedIs DEF FirstChild
      <4>3. files'[i].link = files[i].link /\ files[i].link # NULL
        BY <1>9, <4>1, <4>2 DEF AsNext, AsFirst
      <4>4. PointsToNext(files[i].link, S, -1) /\ -1 \in Int
        BY <2>1, <2>2
      <4>5. PointsToNext(files[i].link, S \cup {n}, -1)
        <5> HIDE DEF n, S
        <5> QED
          BY <1>1, <1>4, <4>3, <4>4, PointsToNextGrows
      <4> QED
        BY <1>1, <2>2, <4>3, <4>5
    <3> QED
      BY <3>4, <3>5
  <2>3. CASE Slot(archive, i).base # e.dir
    <3>1. ~(AsFirst(e) /\ i = Parent(e))
      <4> SUFFICES ASSUME AsFirst(e), i = Parent(e) PROVE FALSE
        OBVIOUS
      <4>1. PICK d \in Filled(archive) : Joins(e, d)
        BY <1>6
      <4> QED
        BY <2>3, <4>1 DEF Joins
    <3>2. files'[i].link = files[i].link
      BY <1>9, <3>1
    <3> QED
      BY <1>1, <2>1, <2>3, <3>2
  <2> QED
    BY <2>2, <2>3
<1>14. ASSUME NEW i \in Filled(archive)
       PROVE  /\ files'[i].name = Slot(archive', i).base
              /\ IF Slot(archive', i).dir = <<>> THEN files'[i].next = NULL
                 ELSE PointsToNext(files'[i].next, Slots(archive', Slot(archive', i).dir), i)
              /\ \A d \in Filled(archive') : Slot(archive', d).base = Slot(archive', i).dir =>
                    files'[i].parent = <<"file", d>>
              /\ Slot(archive', i).mode = "DIRECTORY" =>
                    PointsToNext(files'[i].link, Slots(archive', Slot(archive', i).base), -1)
  <2>1. Slot(archive', i) = Slot(archive, i)
    BY <1>1
  <2>2. \A d \in Filled(archive') : Slot(archive', d).base = Slot(archive', i).dir =>
                    files'[i].parent = <<"file", d>>
    <3> SUFFICES ASSUME NEW d \in Filled(archive'),
                        Slot(archive', d).base = Slot(archive', i).dir
                 PROVE  files'[i].parent = <<"file", d>>
      OBVIOUS
    <3>1. d # n
      BY <1>1, <1>8
    <3>2. d \in Filled(archive) /\ Slot(archive', d) = Slot(archive, d)
      BY <1>1, <3>1
    <3> QED
      BY <1>9, <1>10, <2>1, <3>2
  <2> QED
    BY <1>9, <1>10, <1>11, <1>12, <1>13, <2>1, <2>2
<1>15. /\ files'[n].name = e.base /\ files'[n].next = NULL
       /\ files'[n].parent = ParentPointer(e)
       /\ e.mode = "DIRECTORY" => files'[n].link = NULL
  <2>1. ~(AsFirst(e) /\ n = Parent(e)) /\ ~(AsNext(e) /\ n = LastChild(e)[2])
    <3> SUFFICES ASSUME AsFirst(e) \/ AsNext(e)
                 PROVE  ~(AsFirst(e) /\ n = Parent(e)) /\ ~(AsNext(e) /\ n = LastChild(e)[2])
      OBVIOUS
    <3>1. PICK d \in Filled(archive) : Joins(e, d)
      BY <1>6
    <3>2. Parent(e) # n
      BY <1>1, <3>1 DEF Joins
    <3>3. AsNext(e) => LastChild(e)[2] \in S
      BY <3>1 DEF Joins, AsFirst, AsNext
    <3> QED
      BY <1>1, <1>4, <3>2, <3>3
  <2>2. /\ Named(e).files[n].name = e.base /\ Named(e).files[n].next = NULL
        /\ Named(e).files[n].link = Link(e)
    BY <1>3, <1>5, NamedIs
  <2>3. e.mode = "DIRECTORY" => Link(e) = NULL /\ ~HasData(e)
    BY LinkIs DEF HasData
  <2> QED
    BY <1>3, <2>1, <2>2, <2>3 DEF IsRound
<1>16. /\ files'[n].name = Slot(archive', n).base
       /\ IF Slot(archive', n).dir = <<>> THEN files'[n].next = NULL
          ELSE PointsToNext(files'[n].next, Slots(archive', Slot(archive', n).dir), n)
       /\ \A d \in Filled(archive') : Slot(archive', d).base = Slot(archive', n).dir =>
             files'[n].parent = <<"file", d>>
       /\ Slot(archive', n).mode = "DIRECTORY" =>
             PointsToNext(files'[n].link, Slots(archive', Slot(archive', n).base), -1)
  <2>1. PointsToNext(NULL, Slots(archive', e.dir), n)
    <3>1. \A l \in S \cup {n} : l <= n
      <4>1. n \in Nat /\ S \subseteq Nat /\ \A l \in S : l < n
        BY <1>1, <1>4
      <4> HIDE DEF n, S
      <4> QED
        BY <4>1
    <3> QED
      BY <1>1, <3>1 DEF PointsToNext
  <2>2. ASSUME NEW d \in Filled(archive'), Slot(archive', d).base = e.dir
        PROVE  files'[n].parent = <<"file", d>>
    <3>1. e.dir # <<>>
      BY <2>2 DEF SlotsNamed
    <3>2. PICK c \in Filled(archive) : Joins(e, c)
      BY <1>6, <3>1
    <3>3. c = d
      BY <1>1, <1>7, <2>2, <3>2 DEF Joins
    <3> QED
      BY <1>15, <3>2, <3>3 DEF Joins, ParentPointer
  <2>3. Slots(archive', e.base) = {}
    BY <1>8 DEF Slots
  <2>4. PointsToNext(NULL, Slots(archive', e.base), -1)
    BY <2>3 DEF PointsToNext
  <2> QED
    BY <1>1, <1>15, <2>1, <2>2, <2>4
<1>17. \A i \in Filled(archive') : i \in Filled(archive) \/ i = n
  BY <1>1
<1> QED
  BY <1>14, <1>16, <1>17 DEF Tree

\* Slots count from zero, entries from one.
LEMMA SlotOfEntry ==
    ASSUME NEW k \in 1..Len(archive), Len(archive) \in Nat
    PROVE  k - 1 \in Filled(archive) /\ Slot(archive, k - 1) = Entry(k)
<1> DEFINE n == Len(archive)
<1>1. n \in Nat /\ k \in 1..n
  OBVIOUS
<1>2. k - 1 \in 0..(n - 1) /\ (k - 1) + 1 = k
  <2> HIDE DEF n
  <2> QED
    BY <1>1
<1> QED
  BY <1>2 DEF Filled, Slot, Entry

LEMMA InDirSlots ==
    ASSUME NEW k \in 1..Len(archive), Len(archive) \in Nat, NEW dir
    PROVE  {l \in Slots(archive, dir) : k - 1 <= l} = {j - 1 : j \in InDir(dir, k)}
<1> DEFINE n == Len(archive)
           A == {l \in Slots(archive, dir) : k - 1 <= l}
           B == {j - 1 : j \in InDir(dir, k)}
<1>1. n \in Nat /\ k \in 1..n
  OBVIOUS
<1>2. ASSUME NEW l \in A PROVE l \in B
  <2>1. l \in 0..(n - 1) /\ Slot(archive, l).dir = dir /\ k - 1 <= l
    BY DEF Slots, Filled
  <2>2. l + 1 \in k..n /\ (l + 1) - 1 = l
    <3> HIDE DEF n
    <3> QED
      BY <1>1, <2>1
  <2>3. l + 1 \in InDir(dir, k)
    BY <2>1, <2>2 DEF InDir, Slot, Entry
  <2> QED
    BY <2>2, <2>3
<1>3. ASSUME NEW j \in InDir(dir, k) PROVE j - 1 \in A
  <2>1. j \in k..n /\ Entry(j).dir = dir
    BY DEF InDir
  <2>2. j \in 1..n /\ k - 1 <= j - 1
    <3> HIDE DEF n
    <3> QED
      BY <1>1, <2>1
  <2>3. j - 1 \in Filled(archive) /\ Slot(archive, j - 1) = Entry(j)
    BY <1>1, <2>2, SlotOfEntry
  <2> QED
    BY <2>1, <2>2, <2>3 DEF Slots
<1> HIDE DEF A
<1>4. A = B
  BY <1>2, <1>3
<1> QED
  BY <1>4 DEF A

LEMMA InDirAllSlots ==
    ASSUME NEW k \in 1..Len(archive), Len(archive) \in Nat, NEW dir
    PROVE  Slots(archive, dir) = {j - 1 : j \in InDir(dir, 1)}
<1> DEFINE n == Len(archive)
<1>1. n \in Nat /\ k \in 1..n
  OBVIOUS
<1>2. 1 \in 1..n /\ \A l \in 0..(n - 1) : 1 - 1 <= l
  <2> HIDE DEF n
  <2> QED
    BY <1>1
<1>3. {l \in Slots(archive, dir) : 1 - 1 <= l} = {j - 1 : j \in InDir(dir, 1)}
  BY <1>1, <1>2, InDirSlots
<1>4. \A l \in Slots(archive, dir) : 1 - 1 <= l
  BY <1>2 DEF Slots, Filled
<1> QED
  BY <1>3, <1>4

LEMMA SlotsListed ==
    ASSUME NEW w, NEW T, NEW ks, T = {k - 1 : k \in ks},
           Range(w) = {<<"file", l>> : l \in T}, Ascends(w)
    PROVE  Lists(w, ks)
<1>1. {<<"file", l>> : l \in T} = {<<"file", k - 1>> : k \in ks}
  OBVIOUS
<1> QED
  BY <1>1 DEF Lists, Ascends

\* Reading on in an archive that stays well named does not go astray.
LEMMA WellNamedReading ==
    ASSUME TreeInv, TypeOK', WellNamed', NEW e \in Entries, Reading(e)
    PROVE  /\ Grown(archive, archive', e) /\ Tree(archive, files)
           /\ findex = Len(archive) /\ e.mode # "INVALID" /\ ~Astray(e)
<1>1. AscendInv /\ TypeOK /\ ArraysTyped /\ SlotsNamed(archive')
  BY ArraysAre, ArchiveNamed DEF TreeInv, AscendInv
<1>2. Grown(archive, archive', e)
  BY <1>1, ArchiveGrown
<1>3. WellNamed /\ Tree(archive, files)
  BY <1>1, WellNamedBefore DEF TreeInv
<1>4. findex = Len(archive)
  BY <1>1, IndexIs DEF WellNamed
<1>5. e.mode # "INVALID"
  BY <1>1, <1>2 DEF Grown, SlotsNamed
<1>6. ~Astray(e)
  BY <1>1, <1>2, <1>3, <1>4, JoinsDirectory, JoinsNone
<1> QED
  BY <1>2, <1>3, <1>4, <1>5, <1>6

LEMMA NextTreeInv == TreeInv /\ [Next]_vars => TreeInv'
<1> SUFFICES ASSUME TreeInv, [Next]_vars PROVE TreeInv'
  OBVIOUS
<1>0. AscendInv /\ AscendInv' /\ TypeOK /\ TypeOK' /\ ArraysTyped /\ pos \in Nat
  BY NextAscendInv, ArraysAre DEF TreeInv, AscendInv
<1> SUFFICES ASSUME WellNamed' PROVE Tree(archive', files')
  BY <1>0 DEF TreeInv
<1>1. SlotsNamed(archive')
  BY <1>0, ArchiveNamed
<1>2. ASSUME NEW e \in Entries, Reading(e)
      PROVE  /\ Grown(archive, archive', e) /\ Tree(archive, files)
             /\ findex = Len(archive) /\ e.mode # "INVALID" /\ ~Astray(e)
  BY <1>0, <1>2, WellNamedReading
<1>3. ASSUME NEW e \in Entries, init_ramfs(e) PROVE Tree(archive', files')
  <2>1. IsRound(e) /\ Reading(e)
    BY <1>0, <1>3, RoundIs DEF IsRound
  <2> QED
    BY <1>0, <1>1, <1>2, <2>1, TreeRound
<1>4. ASSUME NEW e \in Entries, init_ramfs_astray(e) \/ init_ramfs_invalid(e) PROVE FALSE
  BY <1>2, <1>4 DEF init_ramfs_astray, init_ramfs_invalid
<1>5. ASSUME UNCHANGED <<files, archive>> PROVE Tree(archive', files')
  BY <1>5 DEF TreeInv, WellNamed, FilesFit, Entry
<1>6. CASE init_ramfs_magic \/ init_ramfs_end
  BY <1>5, <1>6 DEF init_ramfs_magic, init_ramfs_end
<1>7. ASSUME NEW name \in Queries, NEW offset \in Offsets, read(name, offset)
      PROVE  Tree(archive', files')
  BY <1>5, <1>7 DEF read
<1>8. ASSUME NEW name \in Queries, ls(name) PROVE Tree(archive', files')
  BY <1>5, <1>8 DEF ls
<1>9. CASE UNCHANGED vars
  BY <1>5, <1>9 DEF vars
<1> QED
  BY <1>3, <1>4, <1>6, <1>7, <1>8, <1>9 DEF Next, idle

LEMMA InitTreeInv == Init => TreeInv
<1> SUFFICES ASSUME Init PROVE TreeInv
  OBVIOUS
<1>1. Len(archive) = 0
  BY DEF Init
<1>2. Filled(archive) = {}
  BY <1>1 DEF Filled
<1> QED
  BY <1>2, InitAscendInv DEF TreeInv, Tree

LEMMA TreeInvariance == Spec => []TreeInv
  BY InitTreeInv, NextTreeInv, PTL DEF Spec

\* The walk from a slot of a directory on lists the entries from there on.
LEMMA WalkLists ==
    ASSUME TypeOK, WellNamed, Tree(archive, files), NEW k \in DOMAIN archive
    PROVE  /\ WalkEnds(files, inodes, <<"file", k - 1>>)
           /\ Lists(Siblings(files, inodes, <<"file", k - 1>>),
                    IF Entry(k).dir = <<>> THEN {k} ELSE InDir(Entry(k).dir, k))
<1> DEFINE n == Len(archive)
           f == k - 1
           S == IF Entry(k).dir = <<>> THEN {f} ELSE Slots(archive, Entry(k).dir)
           T == {l \in S : f <= l}
           ks == IF Entry(k).dir = <<>> THEN {k} ELSE InDir(Entry(k).dir, k)
           w == Siblings(files, inodes, <<"file", f>>)
<1>1. n \in Nat /\ k \in 1..n /\ Filled(archive) = 0..(n - 1)
  BY DEF TypeOK, Filled
<1>2. f \in Filled(archive) /\ Slot(archive, f) = Entry(k)
  <2>1. f \in 0..(n - 1) /\ f + 1 = k
    <3> HIDE DEF n
    <3> QED
      BY <1>1
  <2> QED
    BY <1>1, <2>1 DEF Slot, Entry
<1>3. Filled(archive) \subseteq Files
  BY ArchiveNamed DEF SlotsNamed
<1>4. S \subseteq Filled(archive) /\ f \in S
  BY <1>2 DEF Slots
<1>5. Chained(files, S)
  <2>1. CASE Entry(k).dir = <<>>
    <3>1. files[f].next = NULL
      BY <1>2, <2>1 DEF Tree
    <3>2. f <= f
      BY <1>1
    <3> QED
      BY <2>1, <3>1, <3>2 DEF Chained, PointsToNext
  <2>2. CASE Entry(k).dir # <<>>
    <3> SUFFICES ASSUME NEW i \in Slots(archive, Entry(k).dir)
                 PROVE  PointsToNext(files[i].next, Slots(archive, Entry(k).dir), i)
      BY <2>2 DEF Chained
    <3>1. i \in Filled(archive) /\ Slot(archive, i).dir = Entry(k).dir
      BY DEF Slots
    <3>2. PointsToNext(files[i].next, Slots(archive, Slot(archive, i).dir), i)
      BY <2>2, <3>1 DEF Tree
    <3> QED
      BY <3>1, <3>2
  <2> QED
    BY <2>1, <2>2
<1>6. T = {l - 1 : l \in ks}
  <2>1. CASE Entry(k).dir = <<>>
    <3>1. f <= f
      BY <1>1
    <3> QED
      BY <2>1, <3>1
  <2>2. CASE Entry(k).dir # <<>>
    BY <1>1, <2>2, InDirSlots
  <2> QED
    BY <2>1, <2>2
<1> HIDE DEF S
<1>7. /\ Range(w) = {<<"file", l>> : l \in T} /\ Ascends(w)
      /\ WalkEnds(files, inodes, <<"file", f>>)
  BY <1>3, <1>4, <1>5, WalkAlong
<1> HIDE DEF T, w, ks, f
<1>8. Lists(w, ks)
  BY <1>6, <1>7, SlotsListed
<1> QED
  BY <1>7, <1>8 DEF w, ks, f

\* For a well named archive of any length, the walk over the children of a
\* directory ends and finds its entries, in their order, and each points back
\* to it: no lookup of a parent goes wrong.
THEOREM RootfsTreeOfArchive == Spec => []TreeOfArchive
<1>1. ASSUME TreeInv, WellNamed, NEW d \in DOMAIN archive, Entry(d).mode = "DIRECTORY"
      PROVE  LET first == files[d - 1].link
                 children == IF first = NULL THEN <<>> ELSE Siblings(files, inodes, first)
                 in == InDir(Entry(d).base, 1)
             IN  /\ Lists(children, in)
                 /\ \A k \in in : files[k - 1].parent = <<"file", d - 1>>
  <2> DEFINE n == Len(archive)
             first == files[d - 1].link
             base == Entry(d).base
             S == Slots(archive, base)
             in == InDir(base, 1)
  <2>1. TypeOK /\ Tree(archive, files) /\ SlotsNamed(archive)
    BY <1>1, ArchiveNamed DEF TreeInv, AscendInv
  <2>2. n \in Nat /\ d \in 1..n /\ Filled(archive) = 0..(n - 1)
    BY <2>1 DEF TypeOK, Filled
  <2>3. d - 1 \in Filled(archive) /\ Slot(archive, d - 1) = Entry(d)
    BY <2>2, SlotOfEntry
  <2>4. base # <<>>
    BY <2>1, <2>3 DEF SlotsNamed
  <2>5. PointsToNext(first, S, -1)
    BY <1>1, <2>1, <2>3 DEF Tree
  <2>6. S = {k - 1 : k \in in}
    BY <2>2, InDirAllSlots
  <2>7. \A k \in in : files[k - 1].parent = <<"file", d - 1>>
    <3> TAKE k \in in
    <3>1. k \in 1..n /\ Entry(k).dir = base
      BY DEF InDir
    <3>2. k - 1 \in Filled(archive) /\ Slot(archive, k - 1) = Entry(k)
      BY <2>2, <3>1, SlotOfEntry
    <3> QED
      BY <2>1, <2>3, <3>1, <3>2 DEF Tree
  <2>8. CASE first = NULL
    <3>1. \A j \in S : <<"file", j>> # NULL
      BY DEF NULL
    <3>2. \A j \in S : j <= -1 /\ j \in Nat
      BY <2>2, <2>5, <2>8, <3>1 DEF PointsToNext, Slots
    <3>3. S = {}
      BY <3>2
    <3>4. in = {}
      BY <2>6, <3>3
    <3>5. Range(<<>>) = {} /\ DOMAIN <<>> = {}
      BY DEF Range
    <3>6. Lists(<<>>, in)
      BY <3>4, <3>5 DEF Lists
    <3> QED
      BY <2>7, <2>8, <3>6
  <2>9. CASE first # NULL
    <3>1. PICK f \in S : first = <<"file", f>> /\ \A l \in S : -1 < l => f <= l
      BY <2>5, <2>9 DEF PointsToNext
    <3>2. PICK k \in in : f = k - 1
      BY <2>6, <3>1
    <3>3. k \in 1..n /\ k \in DOMAIN archive /\ Entry(k).dir = base
      BY <2>1, <2>2, <3>2 DEF InDir, TypeOK
    <3>4. Lists(Siblings(files, inodes, <<"file", k - 1>>), InDir(base, k))
      BY <1>1, <2>1, <2>4, <3>3, WalkLists
    <3>5. InDir(base, k) = in
      <4>1. ASSUME NEW l \in in PROVE k <= l
        <5>1. l - 1 \in S /\ l \in 1..n
          BY <2>6, <4>1 DEF InDir
        <5>2. f <= l - 1
          <6>1. -1 < l - 1
            BY <2>2, <5>1
          <6> QED
            BY <3>1, <5>1, <6>1
        <5> HIDE DEF n
        <5> QED
          BY <2>2, <3>2, <3>3, <5>1, <5>2
      <4>2. k..n \subseteq 1..n
        <5> HIDE DEF n
        <5> QED
          BY <2>2, <3>3
      <4>3. \A l \in 1..n : k <= l => l \in k..n
        <5> HIDE DEF n
        <5> QED
          BY <2>2, <3>3
      <4> QED
        BY <4>1, <4>2, <4>3 DEF InDir
    <3> QED
      BY <2>7, <2>9, <3>1, <3>2, <3>4, <3>5
  <2> QED
    BY <2>8, <2>9
<1>2. TreeInv => TreeOfArchive
  BY <1>1 DEF TreeOfArchive
<1> QED
  BY <1>2, TreeInvariance, PTL

-----------------------------------------------------------------------------
\* Inductive invariant: there is no answer before the archive has been read.
AnswerInv ==
    /\ DataInv
    /\ TreeInv
    /\ stage = "read" => answer = NoAnswer
    /\ AnswersMatchArchive

\* The first match of the name of an entry is its own slot.
LEMMA SearchFinds ==
    ASSUME TypeOK, WellNamed, Tree(archive, files), NEW k \in DOMAIN archive
    PROVE  Matches(files, Entry(k).base) # {} /\ search_file(files, Entry(k).base) = k - 1
<1> DEFINE n == Len(archive)
           base == Entry(k).base
           M == Matches(files, base)
<1>1. n \in Nat /\ k \in 1..n /\ SlotsNamed(archive)
  BY ArchiveNamed DEF TypeOK
<1>2. k - 1 \in Filled(archive) /\ Slot(archive, k - 1) = Entry(k)
  BY <1>1, SlotOfEntry
<1>3. k - 1 \in Files /\ k - 1 \in Nat
  BY <1>1, <1>2, CountFacts DEF SlotsNamed
<1>4. IsPrefix(base, base)
  <2>1. base \in Seq(Chars)
    BY <1>1, <1>2 DEF SlotsNamed
  <2>2. Len(base) \in Nat
    BY <2>1
  <2> HIDE DEF base
  <2> QED
    BY <2>2 DEF IsPrefix
<1>5. k - 1 \in M
  <2>1. files[k - 1].name = base
    BY <1>2 DEF Tree
  <2> QED
    BY <1>3, <1>4, <2>1 DEF Matches, strequal
<1>6. ASSUME NEW i \in M PROVE k - 1 <= i
  <2>1. i \in Files /\ IsPrefix(files[i].name, base) /\ i \in Nat
    BY CountFacts DEF Matches, strequal
  <2>2. CASE i \in Filled(archive)
    <3>1. files[i].name = Slot(archive, i).base
      BY <2>2 DEF Tree
    <3>2. i = k - 1
      BY <1>1, <1>2, <2>1, <2>2, <3>1 DEF SlotsNamed
    <3> QED
      BY <1>3, <3>2
  <2>3. CASE i \notin Filled(archive)
    <3>1. i \notin 0..(n - 1)
      BY <2>3 DEF Filled
    <3> HIDE DEF n
    <3> QED
      BY <1>1, <2>1, <3>1
  <2> QED
    BY <2>2, <2>3
<1>7. M \subseteq Int
  <2>1. M \subseteq Files /\ Files \subseteq Int
    BY CountFacts DEF Matches
  <2> QED
    BY <2>1
<1> HIDE DEF M
<1>8. Min(M) = k - 1
  BY <1>5, <1>6, <1>7, MinIs
<1> QED
  BY <1>5, <1>8 DEF M, search_file

LEMMA ReadMatches ==
    ASSUME AnswerInv, NEW name \in Queries, NEW offset \in Offsets, read(name, offset),
           WellNamed, InodesFit, NEW k \in DataFiles, name = Entry(k).base
    PROVE  answer'.offset = offset
           /\ answer'.ret = IF offset <= Length(Entry(k)) THEN 0 ELSE -1
<1>1. TypeOK /\ Tree(archive, files) /\ FilesFit
  BY DEF AnswerInv, TreeInv, AscendInv, WellNamed
<1>2. k \in DOMAIN archive
  BY DEF DataFiles
<1>3. Matches(files, name) # {} /\ search_file(files, name) = k - 1
  BY <1>1, <1>2, SearchFinds
<1>4. PICK j \in Inodes : InPlace(k, j)
  BY <1>1 DEF AnswerInv, DataInv, InPlaceBelow
<1>5. data_size(files[k - 1].link) = {Length(Entry(k))}
  <2>1. files[k - 1].link = <<"inode", j>> /\ inodes[j].size = Length(Entry(k))
    BY <1>4 DEF InPlace
  <2>2. <<"inode", j>>[1] = "inode" /\ <<"inode", j>>[2] = j
    OBVIOUS
  <2> QED
    BY <2>1, <2>2 DEF data_size
<1>6. answer' = [NoAnswer EXCEPT !.op = "read", !.name = name, !.offset = offset,
                    !.ret = IF PastEnd(offset, Length(Entry(k))) THEN -1 ELSE 0]
  BY <1>3, <1>5 DEF read
<1>7. /\ answer'.offset = offset
      /\ answer'.ret = IF PastEnd(offset, Length(Entry(k))) THEN -1 ELSE 0
  BY <1>6 DEF NoAnswer
<1>8. PastEnd(offset, Length(Entry(k))) <=> ~(offset <= Length(Entry(k)))
  <2>1. offset \in Nat
    BY RootfsAssumption
  <2>2. Entry(k) \in Entries
    <3>1. archive \in Seq([e : Entries, at : Nat])
      BY <1>1 DEF TypeOK
    <3>2. archive[k] \in [e : Entries, at : Nat]
      BY <1>2, <3>1, ElementOfSeq, LenProperties
    <3> QED
      BY <3>2 DEF Entry
  <2>3. Length(Entry(k)) \in Nat
    BY <2>2, EntryFacts
  <2>4. \A a, b \in Nat : PastEnd(a, b) <=> ~(a <= b)
    BY DEF PastEnd
  <2> QED
    BY <2>1, <2>3, <2>4
<1> QED
  BY <1>7, <1>8

LEMMA LsMatches ==
    ASSUME AnswerInv, NEW name \in Queries, ls(name),
           WellNamed, NEW k \in DOMAIN archive, name = Entry(k).base
    PROVE  answer'.op = "ls" =>
              Lists(answer'.out, IF Entry(k).dir = <<>> THEN {k} ELSE InDir(Entry(k).dir, k))
<1>1. TypeOK /\ Tree(archive, files)
  BY DEF AnswerInv, TreeInv, AscendInv
<1>2. Matches(files, name) # {} /\ search_file(files, name) = k - 1
  BY <1>1, SearchFinds
<1>3. /\ WalkEnds(files, inodes, <<"file", k - 1>>)
      /\ Lists(Siblings(files, inodes, <<"file", k - 1>>),
               IF Entry(k).dir = <<>> THEN {k} ELSE InDir(Entry(k).dir, k))
  BY <1>1, WalkLists
<1>4. answer' = [NoAnswer EXCEPT !.op = "ls", !.name = name,
                    !.out = Siblings(files, inodes, <<"file", k - 1>>)]
  BY <1>2, <1>3 DEF ls
<1>5. answer'.out = Siblings(files, inodes, <<"file", k - 1>>)
  BY <1>4 DEF NoAnswer
<1> QED
  BY <1>3, <1>5

LEMMA NextAnswerInv == AnswerInv /\ [Next]_vars => AnswerInv'
<1> SUFFICES ASSUME AnswerInv, [Next]_vars PROVE AnswerInv'
  OBVIOUS
<1>0. DataInv' /\ TreeInv'
  BY NextDataInv, NextTreeInv DEF AnswerInv
<1>1. ASSUME stage = "read", UNCHANGED answer PROVE AnswerInv'
  <2>1. answer' = NoAnswer
    BY <1>1 DEF AnswerInv
  <2>2. answer'.op = "none"
    BY <2>1 DEF NoAnswer
  <2>3. AnswersMatchArchive'
    BY <2>2 DEF AnswersMatchArchive
  <2> QED
    BY <1>0, <2>1, <2>3 DEF AnswerInv
<1>2. ASSUME NEW e \in Entries,
             init_ramfs(e) \/ init_ramfs_astray(e) \/ init_ramfs_invalid(e)
      PROVE  AnswerInv'
  BY <1>1, <1>2 DEF init_ramfs, init_ramfs_astray, init_ramfs_invalid, Reading
<1>3. CASE init_ramfs_magic \/ init_ramfs_end
  BY <1>1, <1>3 DEF init_ramfs_magic, init_ramfs_end
<1>4. ASSUME UNCHANGED <<files, inodes, archive>>
      PROVE  /\ WellNamed' /\ InodesFit' => WellNamed /\ InodesFit
             /\ \A k \in DOMAIN archive : Entry(k)' = Entry(k)
             /\ \A k \in DOMAIN archive :
                   (IF Entry(k).dir = <<>> THEN {k} ELSE InDir(Entry(k).dir, k))'
                      = IF Entry(k).dir = <<>> THEN {k} ELSE InDir(Entry(k).dir, k)
  BY <1>4 DEF WellNamed, FilesFit, InodesFit, Entry, InDir
<1>5. ASSUME NEW name \in Queries, NEW offset \in Offsets, read(name, offset) PROVE AnswerInv'
  <2>1. /\ stage = "0" /\ UNCHANGED <<stage, files, inodes, archive>>
        /\ answer'.op = "read" /\ answer'.name = name
    BY <1>5 DEF read, Asks, NoAnswer
  <2>2. DataFiles' = DataFiles /\ DOMAIN archive' = DOMAIN archive
    BY <2>1 DEF DataFiles, Entry
  <2>3. ASSUME WellNamed', InodesFit', NEW k \in DOMAIN archive, name = Entry(k).base,
               k \in DataFiles
        PROVE  answer'.ret = IF answer'.offset <= Length(Entry(k)) THEN 0 ELSE -1
    BY <1>4, <1>5, <2>1, <2>3, ReadMatches
  <2>4. AnswersMatchArchive'
    BY <1>4, <2>1, <2>2, <2>3 DEF AnswersMatchArchive
  <2> QED
    BY <1>0, <2>1, <2>4 DEF AnswerInv
<1>6. ASSUME NEW name \in Queries, ls(name) PROVE AnswerInv'
  <2>1. /\ stage = "0" /\ stage' # "read" /\ answer = NoAnswer
        /\ UNCHANGED <<files, inodes, archive>>
        /\ (answer'.op = "ls" /\ answer'.name = name) \/ answer' = NoAnswer
    BY <1>6 DEF ls, Asks, NoAnswer
  <2>2. DOMAIN archive' = DOMAIN archive /\ NoAnswer.op = "none"
    BY <2>1 DEF NoAnswer
  <2>3. ASSUME WellNamed', InodesFit', NEW k \in DOMAIN archive, name = Entry(k).base,
               answer'.op = "ls"
        PROVE  Lists(answer'.out, IF Entry(k).dir = <<>> THEN {k} ELSE InDir(Entry(k).dir, k))
    BY <1>4, <1>6, <2>1, <2>3, LsMatches
  <2>4. AnswersMatchArchive'
    BY <1>4, <2>1, <2>2, <2>3 DEF AnswersMatchArchive, Lists
  <2> QED
    BY <1>0, <2>1, <2>4 DEF AnswerInv
<1>7. CASE UNCHANGED vars
  <2>1. UNCHANGED <<stage, answer>> /\ AnswersMatchArchive'
    BY <1>7 DEF vars, AnswerInv, AnswersMatchArchive, WellNamed, FilesFit, InodesFit, Entry,
                InDir, DataFiles
  <2> QED
    BY <1>0, <2>1 DEF AnswerInv
<1> QED
  BY <1>2, <1>3, <1>5, <1>6, <1>7 DEF Next, idle

\* For a well named archive of any length, read refuses just the offsets behind
\* the end of the file it is asked for, and ls puts out the file and those
\* after it in its directory: searches by prefix find the right slot.
THEOREM RootfsAnswersMatchArchive == Spec => []AnswersMatchArchive
<1>1. Init => AnswerInv
  <2> SUFFICES ASSUME Init PROVE AnswerInv
    OBVIOUS
  <2>1. answer = NoAnswer /\ answer.op = "none"
    BY DEF Init, NoAnswer
  <2>2. AnswersMatchArchive
    BY <2>1 DEF AnswersMatchArchive
  <2> QED
    BY <2>1, <2>2, InitDataInv, InitTreeInv DEF AnswerInv
<1>2. AnswerInv => AnswersMatchArchive
  BY DEF AnswerInv
<1> QED
  BY <1>1, <1>2, NextAnswerInv, PTL DEF Spec

-----------------------------------------------------------------------------
\* For a well named archive neither init_ramfs, on its way to the last
\* sibling, nor ls, for whatever name, goes in circles or follows what is no
\* file.
NeverAstray == WellNamed => stage # "astray"

\* Inductive invariant: as there are no slots above the last, a walk that
\* only leads to higher ones ends.
AstrayInv ==
    /\ TreeInv
    /\ NeverAstray

LEMMA AscentEnds ==
    ASSUME NEW fs, NEW ns, NEW f \in Files,
           \A i \in Files : fs[i].next # NULL =>
              \E j \in Files : fs[i].next = <<"file", j>> /\ i < j
    PROVE  WalkEnds(fs, ns, <<"file", f>>)
<1> DEFINE first == <<"file", f>>
           P == {"file"} \X Files
           Up(p) == next_file(fs, ns, p)
<1>1. ASSUME NEW p \in P
      PROVE  /\ p[2] \in Nat /\ p[2] < ROOTFS_FILE_COUNT
             /\ Up(p) # NULL => Up(p) \in P /\ p[2] < Up(p)[2]
  <2>1. p[1] = "file" /\ p[2] \in Files
    OBVIOUS
  <2>2. \A i \in Files : i \in Nat /\ i < ROOTFS_FILE_COUNT
    BY CountFacts DEF Files
  <2>3. Up(p) = fs[p[2]].next
    BY <2>1, NextFileIs
  <2>4. Up(p) # NULL => \E j \in Files : Up(p) = <<"file", j>> /\ p[2] < j
    BY <2>1, <2>3
  <2> HIDE DEF Up
  <2> QED
    BY <2>1, <2>2, <2>4
<1>2. first \in P /\ \A p \in P : Up(p) \in P \cup {NULL}
  BY <1>1
<1> HIDE DEF P, first
<1>3. PICK walk \in [0..Rounds -> Seq(P) \ {<<>>}] : IsWalk(walk, fs, ns, first)
  BY <1>2, SiblingsWalk
<1>4. Rounds \in Nat /\ Rounds = ROOTFS_FILE_COUNT + 1
  BY CountFacts DEF Rounds
<1>5. ASSUME NEW v \in Seq(P) \ {<<>>} PROVE Last(v) \in P
  BY <1>5 DEF Last
<1> DEFINE Good(i) == Up(Last(walk[i])) = NULL \/ i <= Last(walk[i])[2]
<1>6. Good(0)
  <2>1. 0 \in 0..Rounds
    BY <1>4
  <2>2. Last(walk[0]) \in P
    BY <1>3, <1>5, <2>1
  <2>3. Last(walk[0])[2] \in Nat
    BY <1>1, <2>2
  <2> QED
    BY <2>3
<1>7. ASSUME NEW i \in 1..Rounds, Good(i - 1) PROVE Good(i)
  <2> DEFINE v == walk[i - 1]
  <2>1. walk[i] = Onward(fs, ns, v)
    BY <1>3 DEF IsWalk
  <2>2. i - 1 \in 0..Rounds
    BY <1>4
  <2>3. v \in Seq(P) \ {<<>>} /\ Last(v) \in P
    BY <1>3, <1>5, <2>2
  <2>4. CASE Up(Last(v)) = NULL
    <3>1. walk[i] = v
      BY <2>1, <2>4 DEF Onward
    <3> QED
      BY <2>4, <3>1
  <2>5. CASE Up(Last(v)) # NULL
    <3> DEFINE q == Up(Last(v))
    <3>1. q \in P /\ Last(v)[2] < q[2] /\ i - 1 <= Last(v)[2]
      BY <1>1, <1>7, <2>3, <2>5
    <3>2. walk[i] = Append(v, q)
      BY <2>1, <2>5 DEF Onward
    <3>3. Last(walk[i]) = q
      <4> HIDE DEF v, q
      <4>1. Len(Append(v, q)) = Len(v) + 1 /\ Append(v, q)[Len(v) + 1] = q
        BY <2>3, <3>1, AppendProperties
      <4> QED
        BY <3>2, <4>1 DEF Last
    <3>4. Last(v)[2] \in Nat /\ q[2] \in Nat
      BY <1>1, <2>3, <3>1
    <3>5. i <= q[2]
      <4> HIDE DEF v, q
      <4> QED
        BY <3>1, <3>4
    <3> QED
      BY <3>3, <3>5
  <2> QED
    BY <2>4, <2>5
<1> HIDE DEF Good
<1>8. Good(Rounds)
  <2> DEFINE U == {i \in 0..Rounds : Good(i)}
  <2>1. 0 \in U
    BY <1>4, <1>6
  <2>2. \A i \in 1..Rounds : i - 1 \in U => i \in U
    BY <1>4, <1>7
  <2> HIDE DEF U
  <2>3. \A i \in 0..Rounds : i \in U
    BY <1>4, <2>1, <2>2, Loop!RoundInduction
  <2> QED
    BY <1>4, <2>3 DEF U
<1>9. Siblings(fs, ns, first) = walk[Rounds] /\ Last(walk[Rounds]) \in P
  BY <1>3, <1>4, <1>5 DEF IsWalk
<1>10. Up(Last(walk[Rounds])) = NULL
  <2> DEFINE l == Last(walk[Rounds])[2]
  <2>1. l \in Nat /\ l < ROOTFS_FILE_COUNT
    BY <1>1, <1>9
  <2>2. ~(Rounds <= l)
    <3> HIDE DEF l
    <3> QED
      BY <1>4, <2>1, CountFacts
  <2> QED
    BY <1>8, <2>2 DEF Good
<1> QED
  BY <1>9, <1>10 DEF WalkEnds, first

LEMMA NextAstrayInv == AstrayInv /\ [Next]_vars => AstrayInv'
<1> SUFFICES ASSUME AstrayInv, [Next]_vars, WellNamed' PROVE stage' # "astray"
  BY NextTreeInv DEF AstrayInv, NeverAstray
<1>0. TreeInv /\ AscendInv /\ TypeOK /\ TypeOK' /\ ArraysTyped
  BY ArraysAre, NextTypeOK DEF AstrayInv, TreeInv, AscendInv
<1>1. ASSUME NEW e \in Entries, init_ramfs(e) \/ init_ramfs_invalid(e) PROVE stage' # "astray"
  BY <1>1 DEF init_ramfs, init_ramfs_invalid, Reading
<1>2. ASSUME NEW e \in Entries, init_ramfs_astray(e) PROVE FALSE
  <2>1. Reading(e) /\ Astray(e)
    BY <1>2 DEF init_ramfs_astray
  <2> QED
    BY <1>0, <2>1, WellNamedReading
<1>3. CASE init_ramfs_magic \/ init_ramfs_end
  BY <1>3 DEF init_ramfs_magic, init_ramfs_end
<1>4. ASSUME NEW name \in Queries, NEW offset \in Offsets, read(name, offset)
      PROVE  stage' # "astray"
  BY <1>4 DEF read, Asks
<1>5. ASSUME NEW name \in Queries, ls(name) PROVE stage' # "astray"
  <2>1. PointsBelow
    <3>1. FilesFit
      BY <1>5 DEF ls, WellNamed, FilesFit
    <3> QED
      BY <1>0, <3>1 DEF AscendInv
  <2>2. ASSUME NEW i \in Files, files[i].next # NULL
        PROVE  \E j \in Files : files[i].next = <<"file", j>> /\ i < j
    <3> DEFINE p == files[i].next
    <3>1. p[1] = "file" /\ i < p[2]
      BY <2>1, <2>2 DEF PointsBelow
    <3>2. p \in Pointers
      BY <1>0 DEF ArraysTyped, FileType
    <3>3. p[2] \in Files /\ p = <<"file", p[2]>>
      BY <3>1, <3>2, FilePointer
    <3> QED
      BY <3>1, <3>3
  <2>3. \A f \in Files : WalkEnds(files, inodes, <<"file", f>>)
    BY <2>2, AscentEnds
  <2>4. Matches(files, name) # {} => search_file(files, name) \in Files
    <3> DEFINE M == Matches(files, name)
    <3>1. M \subseteq Files
      BY DEF Matches
    <3> HIDE DEF M
    <3>2. M # {} => Min(M) \in M
      BY <3>1, MinIn, CountFacts
    <3> QED
      BY <3>1, <3>2 DEF M, search_file
  <2> QED
    BY <1>5, <2>3, <2>4 DEF ls, Asks
<1>6. CASE UNCHANGED vars
  <2>1. WellNamed /\ stage' = stage
    BY <1>6 DEF vars, WellNamed, FilesFit, Entry
  <2> QED
    BY <2>1 DEF AstrayInv, NeverAstray
<1> QED
  BY <1>1, <1>2, <1>3, <1>4, <1>5, <1>6 DEF Next, idle

\* For a well named archive of any length, the walks of init_ramfs and ls over
\* siblings end, so that init_ramfs comes to its answer and ls to its.
THEOREM RootfsNeverAstray == Spec => []NeverAstray
<1>1. Init => AstrayInv
  BY InitTreeInv DEF Init, AstrayInv, NeverAstray
<1>2. AstrayInv => NeverAstray
  BY DEF AstrayInv
<1> QED
  BY <1>1, <1>2, NextAstrayInv, PTL DEF Spec

=============================================================================
