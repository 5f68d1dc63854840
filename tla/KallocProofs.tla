---------------------------- MODULE KallocProofs ----------------------------
(***************************************************************************)
(* The free list is exact for every range of frames, and the allocator     *)
(* implements FramePool.                                                   *)
(***************************************************************************)
EXTENDS Kalloc, TLAPS

\* Inductive invariant: types, the list, and no frame is held before
\* kalloc_init has run.
IInv ==
    /\ TypeOK
    /\ FreeListExact
    /\ stage = "boot" => held = {} /\ list.head = NULL

\* Frames are positive numbers, so NULL is none of them.
LEMMA FramesPositive == Frames \subseteq Nat \ {0}
  BY KallocAssumption DEF Frames

LEMMA InitIInv == Init => IInv
  BY FramesPositive DEF Init, IInv, TypeOK, FreeListExact, Pool, Lists, NULL

\* What kalloc does to a non-empty list of a well-formed state.
LEMMA PopList ==
    ASSUME NEW l \in Lists(Frames), l.head \in Frames
    PROVE  /\ Pop(l) \in Lists(Frames)
           /\ Pop(l).head = l.next[l.head]
           /\ Pop(l).next[l.head] = NULL
           /\ \A f \in Frames : f # l.head => Pop(l).next[f] = l.next[f]
  BY DEF Pop, Lists

\* What kfree does to the list.
LEMMA PushList ==
    ASSUME NEW l \in Lists(Frames), NEW f \in Frames
    PROVE  /\ Push(l, f) \in Lists(Frames)
           /\ Push(l, f).head = f
           /\ Push(l, f).next[f] = l.head
           /\ \A g \in Frames : g # f => Push(l, f).next[g] = l.next[g]
  BY DEF Push, Lists

\* The list kalloc_init builds.
LEMMA ChainList ==
    ASSUME Frames # {}
    PROVE  LET l == Chain(Frames, kalloc_start, kalloc_end)
           IN  /\ l \in Lists(Frames)
               /\ l.head = kalloc_start /\ kalloc_start \in Frames
               /\ \A f \in Frames : f < kalloc_end => l.next[f] = f + 1
               /\ kalloc_end \in Frames /\ l.next[kalloc_end] = NULL
               /\ \A f \in Frames : kalloc_start <= f /\ f <= kalloc_end
               /\ \A f \in Frames : f < kalloc_end => f + 1 \in Frames
  BY KallocAssumption DEF Chain, Lists, Frames, NULL

LEMMA BootStep == IInv /\ kalloc_init => IInv'
<1> SUFFICES ASSUME IInv, kalloc_init PROVE IInv'
  OBVIOUS
<1> USE FramesPositive, KallocAssumption DEF NULL
<1>1. /\ held = {} /\ held' = {} /\ stage' = "run" /\ Pool' = Frames
      /\ depth' = [f \in Frames |-> kalloc_end + 1 - f]
  BY DEF kalloc_init, IInv, Pool
<1>2. CASE Frames = {}
  BY <1>1, <1>2 DEF kalloc_init, IInv, TypeOK, FreeListExact, Lists, Pool
<1>3. CASE Frames # {}
  <2> DEFINE l == Chain(Frames, kalloc_start, kalloc_end)
  <2>1. list' = l
    BY <1>3 DEF kalloc_init
  <2>2. /\ l \in Lists(Frames)
        /\ l.head = kalloc_start /\ kalloc_start \in Frames
        /\ \A f \in Frames : f < kalloc_end => l.next[f] = f + 1
        /\ kalloc_end \in Frames /\ l.next[kalloc_end] = NULL
        /\ \A f \in Frames : kalloc_start <= f /\ f <= kalloc_end
        /\ \A f \in Frames : f < kalloc_end => f + 1 \in Frames
    BY <1>3, ChainList
  <2> HIDE DEF l
  <2>3. TypeOK'
    BY <1>1, <2>1, <2>2 DEF kalloc_init, IInv, TypeOK
  <2>4. \A f \in Frames : /\ f \in Nat
                           /\ depth'[f] = kalloc_end + 1 - f
                           /\ kalloc_start <= f /\ f <= kalloc_end
    BY <1>1, <2>2
  <2>5. /\ list'.head = kalloc_start /\ kalloc_start \in Frames
        /\ \A f \in Frames : f < kalloc_end => list'.next[f] = f + 1
        /\ kalloc_end \in Frames /\ list'.next[kalloc_end] = NULL
        /\ \A f \in Frames : f < kalloc_end => f + 1 \in Frames
    BY <2>1, <2>2
  <2>6. (\A f \in Pool :
            \/ depth[f] = 1 /\ list.next[f] = NULL
            \/ list.next[f] \in Pool /\ depth[list.next[f]] = depth[f] - 1)'
    BY <1>1, <2>4, <2>5
  <2>7. FreeListExact'
    BY <1>1, <2>4, <2>5, <2>6 DEF FreeListExact
  <2> QED
    BY <1>1, <2>3, <2>7 DEF IInv
<1> QED
  BY <1>2, <1>3

LEMMA AllocStep == IInv /\ kalloc => IInv'
<1> SUFFICES ASSUME IInv, kalloc PROVE IInv'
  OBVIOUS
<1> USE FramesPositive DEF NULL
<1> DEFINE h == list.head
<1>1. /\ stage = "run" /\ stage' = "run" /\ h \in Pool /\ h \in Frames
      /\ held' = held \cup {h} /\ list' = Pop(list)
      /\ depth' = [depth EXCEPT ![h] = 0] /\ Pool' = Pool \ {h}
      /\ Pool \subseteq Frames
  BY DEF kalloc, IInv, FreeListExact, Pool
<1>2. /\ list' \in Lists(Frames)
      /\ list'.head = list.next[h]
      /\ \A f \in Frames : f # h => list'.next[f] = list.next[f]
  BY <1>1, PopList DEF IInv, TypeOK
<1>3. TypeOK'
  <2>1. dirty' \subseteq Frames /\ held' \subseteq Frames
    BY <1>1 DEF IInv, TypeOK, kalloc, clear_page
  <2>2. depth' \in [Frames -> Nat]
    BY <1>1 DEF IInv, TypeOK
  <2>3. got' \in Frames \cup {NULL} /\ turn' \in {0, 1}
    BY <1>1 DEF kalloc, IInv, TypeOK
  <2> QED
    BY <1>1, <1>2, <2>1, <2>2, <2>3 DEF TypeOK
<1> HIDE DEF h
<1>4. /\ depth \in [Frames -> Nat] /\ depth[h] > 0
      /\ \A f \in Pool : depth[f] <= depth[h]
      /\ \A f, g \in Pool : depth[f] = depth[g] => f = g
      /\ \A f \in Frames : f \in Pool <=> depth[f] > 0
      /\ \A f \in Pool :
            \/ depth[f] = 1 /\ list.next[f] = NULL
            \/ list.next[f] \in Pool /\ depth[list.next[f]] = depth[f] - 1
  BY <1>1 DEF IInv, TypeOK, FreeListExact, h
<1>5. /\ \A f \in Pool' : depth'[f] = depth[f]
      /\ \A f \in Pool' : f \in Pool /\ f # h /\ f \in Frames
      /\ depth'[h] = 0
  BY <1>1, <1>4
<1>6. \A f \in Pool' : depth[f] < depth[h]
  BY <1>1, <1>4, <1>5
\* The successors of the remaining frames remain: only the head is above
\* all others, so no frame points to it.
<1>7. \A f \in Pool : list.next[f] # NULL => list.next[f] \in Pool'
  <2> SUFFICES ASSUME NEW f \in Pool, list.next[f] # NULL
               PROVE  list.next[f] \in Pool /\ list.next[f] # h
    BY <1>1
  <2>1. depth[f] \in Nat /\ depth[h] \in Nat /\ depth[f] <= depth[h]
    BY <1>1, <1>4
  <2>2. list.next[f] \in Pool /\ depth[list.next[f]] = depth[f] - 1
    BY <1>4
  <2> QED
    BY <2>1, <2>2
<1>8. FreeListExact'
  <2>1. (\A f \in Frames : f \in Pool <=> depth[f] > 0)'
    BY <1>1, <1>4, <1>5
  <2>2. (\A f, g \in Pool : depth[f] = depth[g] => f = g)'
    BY <1>4, <1>5
  <2>3. CASE depth[h] = 1
    <3>1. Pool' = {}
      BY <1>1, <1>4, <1>5, <1>6, <2>3
    <3>2. list.next[h] = NULL
      <4>1. \A f \in Pool : depth[f] \in Nat /\ depth[f] # 0
        BY <1>1, <1>4
      <4>2. \/ list.next[h] = NULL
            \/ list.next[h] \in Pool /\ depth[list.next[h]] = depth[h] - 1
        BY <1>1, <1>4
      <4>3. list.next[h] \in Pool => depth[list.next[h]] # depth[h] - 1
        BY <4>1, <2>3
      <4> QED
        BY <4>2, <4>3
    <3>3. list'.head = NULL
      BY <1>2, <3>2
    <3> QED
      BY <2>1, <3>1, <3>3 DEF FreeListExact
  <2>4. CASE depth[h] # 1
    <3> DEFINE n == list.next[h]
    <3>1. n \in Pool /\ depth[n] = depth[h] - 1 /\ n \in Pool' /\ n # NULL
      BY <1>1, <1>4, <1>7, <2>4
    <3>2. \A f \in Pool' : depth'[f] <= depth'[n]
      <4>1. depth'[n] = depth[h] - 1 /\ depth[h] \in Nat
        BY <1>1, <1>4, <1>5, <3>1
      <4>2. ASSUME NEW f \in Pool'
            PROVE  depth'[f] \in Nat /\ depth'[f] < depth[h]
        BY <1>4, <1>5, <1>6
      <4> QED
        BY <4>1, <4>2
    <3>3. (/\ list.head = NULL <=> Pool = {}
           /\ list.head # NULL => /\ list.head \in Pool
                                  /\ \A f \in Pool : depth[f] <= depth[list.head])'
      BY <1>2, <3>1, <3>2
    <3>4. (\A f \in Pool :
              \/ depth[f] = 1 /\ list.next[f] = NULL
              \/ list.next[f] \in Pool /\ depth[list.next[f]] = depth[f] - 1)'
      BY <1>1, <1>2, <1>4, <1>5, <1>7
    <3> QED
      BY <2>1, <2>2, <3>3, <3>4 DEF FreeListExact
  <2> QED
    BY <2>3, <2>4
<1> QED
  BY <1>1, <1>3, <1>8 DEF IInv

LEMMA FreeStep == ASSUME IInv, NEW p \in Frames, kfree(p) PROVE IInv'
<1> USE FramesPositive DEF NULL
<1> DEFINE h == list.head
           d == IF h = NULL THEN 0 ELSE depth[h]
<1>1. /\ stage = "run" /\ stage' = "run" /\ p \in held /\ p \notin Pool
      /\ held' = held \ {p} /\ list' = Push(list, p)
      /\ depth' = [depth EXCEPT ![p] = 1 + d] /\ Pool' = Pool \cup {p}
      /\ Pool \subseteq Frames
  <2>1. p \in held /\ stage = "run"
    BY DEF kfree, IInv, TypeOK
  <2> QED
    BY <2>1 DEF kfree, IInv, TypeOK, Pool
<1>2. /\ list' \in Lists(Frames)
      /\ list'.head = p /\ list'.next[p] = h
      /\ \A f \in Frames : f # p => list'.next[f] = list.next[f]
  <2>1. list \in Lists(Frames)
    BY DEF IInv, TypeOK
  <2> QED
    BY <1>1, <2>1, PushList
<1>3. /\ depth \in [Frames -> Nat] /\ d \in Nat
      /\ h # NULL => h \in Pool /\ d = depth[h]
      /\ h = NULL <=> Pool = {}
      /\ \A f \in Pool : depth[f] <= d
      /\ \A f, g \in Pool : depth[f] = depth[g] => f = g
      /\ \A f \in Frames : f \in Pool <=> depth[f] > 0
      /\ \A f \in Pool :
            \/ depth[f] = 1 /\ list.next[f] = NULL
            \/ list.next[f] \in Pool /\ depth[list.next[f]] = depth[f] - 1
  BY <1>1 DEF IInv, TypeOK, FreeListExact
<1>4. h = NULL => d = 0
  OBVIOUS
<1> HIDE DEF h, d
<1>5. TypeOK'
  <2>1. dirty' \subseteq Frames /\ held' \subseteq Frames
    BY <1>1 DEF IInv, TypeOK, kfree, clear_page
  <2>2. depth' \in [Frames -> Nat]
    BY <1>1, <1>3
  <2>3. got' \in Frames \cup {NULL} /\ turn' \in {0, 1}
    BY DEF IInv, TypeOK, kfree
  <2> QED
    BY <1>1, <1>2, <2>1, <2>2, <2>3 DEF TypeOK
<1>6. /\ depth'[p] = 1 + d
      /\ \A f \in Pool : f # p /\ f \in Frames /\ depth'[f] = depth[f]
      /\ \A f \in Frames : f # p => depth'[f] = depth[f]
  BY <1>1, <1>3
<1>7. FreeListExact'
  <2>1. (\A f \in Frames : f \in Pool <=> depth[f] > 0)'
    BY <1>1, <1>3, <1>6
  <2>2. (\A f, g \in Pool : depth[f] = depth[g] => f = g)'
    BY <1>1, <1>3, <1>6
  <2>3. (/\ list.head = NULL <=> Pool = {}
         /\ list.head # NULL => /\ list.head \in Pool
                                /\ \A f \in Pool : depth[f] <= depth[list.head])'
    BY <1>1, <1>2, <1>3, <1>6
  <2>4. (\A f \in Pool :
            \/ depth[f] = 1 /\ list.next[f] = NULL
            \/ list.next[f] \in Pool /\ depth[list.next[f]] = depth[f] - 1)'
    <3>1. ASSUME NEW f \in Pool
          PROVE  \/ depth'[f] = 1 /\ list'.next[f] = NULL
                 \/ list'.next[f] \in Pool' /\ depth'[list'.next[f]] = depth'[f] - 1
      BY <1>1, <1>2, <1>3, <1>6
    <3>2. \/ depth'[p] = 1 /\ list'.next[p] = NULL
          \/ list'.next[p] \in Pool' /\ depth'[list'.next[p]] = depth'[p] - 1
      BY <1>1, <1>2, <1>3, <1>4, <1>6
    <3> QED
      BY <1>1, <3>1, <3>2
  <2> QED
    BY <2>1, <2>2, <2>3, <2>4 DEF FreeListExact
<1> QED
  BY <1>1, <1>5, <1>7 DEF IInv

\* A holder that overwrites the first word of its frame disturbs no link of
\* the list.
LEMMA WriteStep ==
    ASSUME IInv, NEW p \in Frames, NEW w \in Frames \cup {NULL}, write(p, w)
    PROVE  IInv'
<1>1. /\ p \in held /\ Pool' = Pool /\ stage' = stage /\ held' = held
      /\ depth' = depth /\ list' = [list EXCEPT !.next[p] = w]
  BY DEF write, Pool
<1>2. /\ list' \in Lists(Frames) /\ list'.head = list.head
      /\ \A f \in Pool : list'.next[f] = list.next[f]
  BY <1>1 DEF IInv, TypeOK, Lists, Pool
<1>3. TypeOK'
  BY <1>1, <1>2 DEF IInv, TypeOK, write
<1>4. FreeListExact'
  BY <1>1, <1>2 DEF IInv, FreeListExact
<1> QED
  BY <1>1, <1>2, <1>3, <1>4 DEF IInv

LEMMA NextIInv == IInv /\ [Next]_vars => IInv'
<1> SUFFICES ASSUME IInv, [Next]_vars PROVE IInv'
  OBVIOUS
<1>1. CASE kalloc_empty
  BY <1>1 DEF kalloc_empty, IInv, TypeOK, FreeListExact, Pool, NULL
<1>2. CASE UNCHANGED vars
  BY <1>2 DEF vars, IInv, TypeOK, FreeListExact, Pool
<1> QED
  BY <1>1, <1>2, BootStep, AllocStep, FreeStep, WriteStep DEF Next

\* No link of the list and no answer of kalloc is outside the frames that
\* kalloc_init was given, whatever holders write into their frames.
THEOREM KallocTypeOK == Spec => []TypeOK
<1>1. IInv => TypeOK
  BY DEF IInv
<1> QED
  BY InitIInv, NextIInv, <1>1, PTL DEF Spec

\* The free list is exact at all times.
THEOREM KallocFreeListExact == Spec => [](TypeOK /\ FreeListExact)
<1>1. IInv => TypeOK /\ FreeListExact
  BY DEF IInv
<1> QED
  BY InitIInv, NextIInv, <1>1, PTL DEF Spec

-----------------------------------------------------------------------------
\* Every step of the allocator is a step of the pool of frames, or none.
LEMMA StepRefines == IInv /\ IInv' /\ [Next]_vars => [Abstract!Next]_(Abstract!vars)
<1> SUFFICES ASSUME IInv, IInv', [Next]_vars
             PROVE  [Abstract!Next]_(Abstract!vars)
  OBVIOUS
<1> USE FramesPositive DEF Abstract!Next, Abstract!vars
<1>1. CASE kalloc_init
  <2>1. /\ Pool = {} /\ held = {} /\ Pool' = Frames /\ held' = held /\ got' = got
        /\ turn' = turn
    BY <1>1 DEF kalloc_init, Pool, IInv
  <2> QED
    BY <2>1 DEF Abstract!Fill
<1>2. CASE kalloc
  <2>1. /\ list.head \in Pool /\ list.head \in Frames
        /\ Pool' = Pool \ {list.head}
        /\ held' = held \cup {list.head} /\ got' = list.head /\ turn' = 1 - turn
    BY <1>2 DEF kalloc, Pool, IInv, FreeListExact
  <2> QED
    BY <2>1 DEF Abstract!Take
<1>3. CASE kalloc_empty
  <2>1. /\ Pool = {} /\ Pool' = Pool /\ held' = held /\ got' = NULL
        /\ turn' = 1 - turn
    BY <1>3 DEF kalloc_empty, Pool, IInv, FreeListExact
  <2> QED
    BY <2>1 DEF Abstract!Refuse
<1>4. ASSUME NEW f \in Frames, kfree(f)
      PROVE  [Abstract!Next]_(Abstract!vars)
  <2>1. f \in held /\ stage = "run" /\ stage' = "run"
    BY <1>4 DEF kfree, IInv, TypeOK
  <2>2. /\ Pool' = Pool \cup {f} /\ held' = held \ {f} /\ got' = got
        /\ turn' = turn
    BY <1>4, <2>1 DEF kfree, Pool, IInv, TypeOK
  <2> QED
    BY <2>1, <2>2 DEF Abstract!Give
<1>5. ASSUME NEW f \in Frames, NEW w \in Frames \cup {NULL}, write(f, w)
      PROVE  [Abstract!Next]_(Abstract!vars)
  BY <1>5 DEF write, Pool
<1>6. CASE UNCHANGED vars
  BY <1>6 DEF vars, Pool
<1> QED
  BY <1>1, <1>2, <1>3, <1>4, <1>5, <1>6 DEF Next

\* kalloc hands out only frames nobody holds and answers -1 only when every
\* frame is held; kfree gives back its frame and no other.
THEOREM KallocImplementsFramePool == Spec => ImplementsFramePool
<1>1. Init => Abstract!Init
  BY DEF Init, Pool, Abstract!Init
<1> QED
  BY <1>1, InitIInv, NextIInv, StepRefines, PTL
  DEF Spec, ImplementsFramePool, Abstract!Spec

\* kalloc clears the frame it hands out, the word of the list included.
THEOREM KallocFreshFrameIsZero == Spec => FreshFrameIsZero
<1> DEFINE Zeroed == \A f \in held' \ held : f \notin dirty' /\ list'.next[f] = NULL
<1>1. IInv /\ [Next]_vars => [Zeroed]_vars
  <2> SUFFICES ASSUME IInv, Next PROVE Zeroed
    OBVIOUS
  <2>1. CASE kalloc
    <3>1. list.head \in Frames /\ list' = Pop(list)
      BY <2>1 DEF kalloc, IInv, FreeListExact, Pool
    <3>2. list'.next[list.head] = NULL
      BY <3>1, PopList DEF IInv, TypeOK
    <3> QED
      BY <2>1, <3>2 DEF kalloc, clear_page
  <2>2. CASE ~kalloc
    <3>1. held' \subseteq held
      BY <2>2 DEF Next, kalloc_init, kalloc_empty, kfree, write
    <3> QED
      BY <3>1
  <2> QED
    BY <2>1, <2>2
<1> QED
  BY <1>1, InitIInv, NextIInv, PTL DEF Spec, FreshFrameIsZero
=============================================================================
