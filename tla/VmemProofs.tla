----------------------------- MODULE VmemProofs -----------------------------
(***************************************************************************)
(* The page tables for tables of any size, any memory and any regions: the *)
(* tables form a tree, and mapping a page changes that page only.          *)
(***************************************************************************)
EXTENDS Vmem, Iteration

-----------------------------------------------------------------------------
(* Addresses. *)

LEMMA Division ==
    ASSUME NEW n \in Nat, NEW d \in Nat \ {0}
    PROVE  /\ n \div d \in Nat
           /\ n % d \in 0..(d - 1)
           /\ n = d * (n \div d) + (n % d)
  OBVIOUS

LEMMA DivisionBelow ==
    ASSUME NEW n \in Nat, NEW d \in Nat \ {0}, NEW m \in Nat, n < d * m
    PROVE  n \div d < m
<1> DEFINE q == n \div d
<1>1. q \in Nat /\ d * q <= n
  BY Division
<1> HIDE DEF q
<1>2. ASSUME m <= q PROVE FALSE
  <2>1. d * m <= d * q
    BY <1>1, <1>2
  <2> QED
    BY <1>1, <2>1
<1> QED
  BY <1>1, <1>2 DEF q

LEMMA DivisionUnique ==
    ASSUME NEW a \in Nat, NEW b \in Nat, NEW d \in Nat \ {0},
           a \div d = b \div d, a % d = b % d
    PROVE  a = b
  BY Division

LEMMA ShiftedType ==
    ASSUME NEW va \in Nat
    PROVE  /\ \A n \in 0..3 : Shifted(va, n) \in Nat
           /\ Shifted(va, 0) = va
           /\ \A n \in 0..2 : Shifted(va, n + 1) = Shifted(va, n) \div PENTRY_CNT
<1> DEFINE d == PENTRY_CNT
<1>0. d \in Nat \ {0}
  BY VmemAssumption
<1>1. va \div d \in Nat
  BY <1>0, Division
<1>2. (va \div d) \div d \in Nat
  BY <1>0, <1>1, Division
<1>3. ((va \div d) \div d) \div d \in Nat
  BY <1>0, <1>2, Division
<1>4. /\ Shifted(va, 0) = va
      /\ Shifted(va, 1) = va \div d
      /\ Shifted(va, 2) = (va \div d) \div d
      /\ Shifted(va, 3) = ((va \div d) \div d) \div d
  BY DEF Shifted
<1>5. \A n \in 0..3 : n = 0 \/ n = 1 \/ n = 2 \/ n = 3
  OBVIOUS
<1> HIDE DEF d
<1>6. \A n \in 0..3 : Shifted(va, n) \in Nat
  BY <1>1, <1>2, <1>3, <1>4, <1>5
<1>7. \A n \in 0..2 : n = 0 \/ n = 1 \/ n = 2
  OBVIOUS
<1>8. \A n \in 0..2 : Shifted(va, n + 1) = Shifted(va, n) \div d
  <2>1. 0 + 1 = 1 /\ 1 + 1 = 2 /\ 2 + 1 = 3
    OBVIOUS
  <2> QED
    BY <1>4, <1>7, <2>1, Zenon
<1> QED
  BY <1>4, <1>6, <1>8 DEF d

\* The parts of an address are indices into a table.
LEMMA IndexType ==
    ASSUME NEW va \in Pages, NEW i \in 0..3
    PROVE  LVL_ADDR(va, i) \in Index
<1>1. va \in Nat /\ 3 - i \in 0..3 /\ PENTRY_CNT \in Nat \ {0}
  BY VmemAssumption DEF Pages
<1>2. Shifted(va, 3 - i) \in Nat
  BY <1>1, ShiftedType
<1> QED
  BY <1>1, <1>2, Division DEF LVL_ADDR, Index

\* The four indices determine the page.
LEMMA IndicesUnique ==
    ASSUME NEW a \in Pages, NEW b \in Pages,
           \A i \in 0..3 : LVL_ADDR(a, i) = LVL_ADDR(b, i)
    PROVE  a = b
<1> DEFINE d == PENTRY_CNT
<1>0. d \in Nat \ {0} /\ a \in Nat /\ b \in Nat
  BY VmemAssumption DEF Pages
<1>1. \A n \in 0..3 : Shifted(a, n) % d = Shifted(b, n) % d
  <2>1. \A n \in 0..3 : 3 - n \in 0..3 /\ 3 - (3 - n) = n
    OBVIOUS
  <2> QED
    BY <2>1 DEF LVL_ADDR
<1>2. ASSUME NEW n \in 0..2, Shifted(a, n + 1) = Shifted(b, n + 1)
      PROVE  Shifted(a, n) = Shifted(b, n)
  <2>1. Shifted(a, n) \in Nat /\ Shifted(b, n) \in Nat
    BY <1>0, ShiftedType
  <2>2. Shifted(a, n) \div d = Shifted(b, n) \div d
    <3>1. /\ Shifted(a, n + 1) = Shifted(a, n) \div d
          /\ Shifted(b, n + 1) = Shifted(b, n) \div d
      BY <1>0, ShiftedType
    <3> QED
      BY <1>2, <3>1, Zenon
  <2>3. Shifted(a, n) % d = Shifted(b, n) % d
    BY <1>1
  <2> HIDE DEF d
  <2> QED
    BY <1>0, <2>1, <2>2, <2>3, DivisionUnique, Zenon
<1>3. ASSUME NEW v \in Pages PROVE Shifted(v, 3) \in Nat /\ Shifted(v, 3) < d
  <2>1. v \in Nat /\ v < d * (d * (d * d))
    BY <1>0 DEF Pages, PageCount
  <2>2. /\ d * d \in Nat /\ d * (d * d) \in Nat
        /\ \A n \in 0..3 : Shifted(v, n) \in Nat
        /\ Shifted(v, 0) = v
        /\ Shifted(v, 1) = Shifted(v, 0) \div d
        /\ Shifted(v, 2) = Shifted(v, 1) \div d
        /\ Shifted(v, 3) = Shifted(v, 2) \div d
    BY <1>0, <2>1, ShiftedType
  <2> HIDE DEF d
  <2>3. 0 \in 0..3 /\ 1 \in 0..3 /\ 2 \in 0..3 /\ 3 \in 0..3
    OBVIOUS
  <2>4. Shifted(v, 1) < d * (d * d)
    BY <1>0, <2>1, <2>2, <2>3, DivisionBelow, Zenon
  <2>5. Shifted(v, 2) < d * d
    BY <1>0, <2>2, <2>3, <2>4, DivisionBelow, Zenon
  <2>6. Shifted(v, 3) < d
    BY <1>0, <2>2, <2>3, <2>5, DivisionBelow, Zenon
  <2> QED
    BY <2>2, <2>3, <2>6
<1>4. \A n \in Nat : n < d => n % d = n
  BY <1>0
<1>5. Shifted(a, 3) = Shifted(b, 3)
  BY <1>1, <1>3, <1>4
<1>6. Shifted(a, 2) = Shifted(b, 2)
  BY <1>2, <1>5
<1>7. Shifted(a, 1) = Shifted(b, 1)
  BY <1>2, <1>6
<1> QED
  BY <1>0, <1>2, <1>7, ShiftedType

-----------------------------------------------------------------------------
(* The walk from the root. *)

LEMMA PathSteps ==
    ASSUME NEW t, NEW rt, NEW va
    PROVE  /\ Path(t, rt, va)[0] = rt
           /\ Path(t, rt, va)[1] = Hop(t, Path(t, rt, va)[0], LVL_ADDR(va, 0))
           /\ Path(t, rt, va)[2] = Hop(t, Path(t, rt, va)[1], LVL_ADDR(va, 1))
           /\ Path(t, rt, va)[3] = Hop(t, Path(t, rt, va)[2], LVL_ADDR(va, 2))
           /\ Path(t, rt, va)[4] = Hop(t, Path(t, rt, va)[3], LVL_ADDR(va, 3))
<1> DEFINE f1 == Hop(t, rt, LVL_ADDR(va, 0))
           f2 == Hop(t, f1, LVL_ADDR(va, 1))
           f3 == Hop(t, f2, LVL_ADDR(va, 2))
           f4 == Hop(t, f3, LVL_ADDR(va, 3))
<1>1. Path(t, rt, va) =
         [i \in 0..4 |-> CASE i = 0 -> rt [] i = 1 -> f1 [] i = 2 -> f2
                           [] i = 3 -> f3 [] i = 4 -> f4]
  BY DEF Path
<1> HIDE DEF f1, f2, f3, f4
<1>2. /\ Path(t, rt, va)[0] = rt /\ Path(t, rt, va)[1] = f1
      /\ Path(t, rt, va)[2] = f2 /\ Path(t, rt, va)[3] = f3
      /\ Path(t, rt, va)[4] = f4
  BY <1>1
<1> QED
  BY <1>2, Zenon DEF f1, f2, f3, f4

\* The head of a list that has not been cut, and the frames from it on.
Top(l) == IF l.head = NULL THEN LastFrame + 1 ELSE l.head

RestListed(l) ==
    \A f \in Top(l)..LastFrame :
        l.next[f] = IF f < LastFrame THEN f + 1 ELSE NULL

TableSet == [Frames -> [Index -> Entries]]

\* Levels of the frames: 0 to 3 for tables, 4 for pages that are mapped, 5
\* for the others.
Levelling == [Frames -> 0..5]

\* The tables form a tree of four levels in frames that are not on the list.
\* Tables that have been emptied keep their level.
TreeOfTables(t, rt, top, lev) ==
    /\ rt \in Frames /\ lev[rt] = 0
    /\ \A f \in Frames : lev[f] < 4 => f < top
    /\ \A f \in Frames, x \in Index : lev[f] < 4 => (t[f][x].set <=> t[f][x].pa # NULL)
    /\ \A f \in Frames, x \in Index :
          lev[f] < 3 /\ t[f][x].pa # NULL =>
              t[f][x].pa \in Frames /\ lev[t[f][x].pa] = lev[f] + 1
    /\ \A f, g \in Frames, x, y \in Index :
          /\ lev[f] < 3 /\ lev[g] < 3
          /\ t[f][x].pa = t[g][y].pa /\ t[f][x].pa # NULL
          => f = g /\ x = y

\* The frames that are mapped are no tables, not on the list, and mapped once.
LeavesApart(t, top, lev) ==
    /\ \A f \in Frames, x \in Index :
          lev[f] = 3 /\ t[f][x].pa \in Own =>
              lev[t[f][x].pa] = 4 /\ t[f][x].pa < top
    /\ \A f, g \in Frames, x, y \in Index :
          /\ lev[f] = 3 /\ lev[g] = 3
          /\ t[f][x].pa = t[g][y].pa /\ t[f][x].pa \in Own
          => f = g /\ x = y

Tree(t, rt, top, lev) == TreeOfTables(t, rt, top, lev) /\ LeavesApart(t, top, lev)

\* The physical pages of a region are given.
Apart(va, end, pa) == \A p \in Span(va, end, pa) : p \notin Own

LEMMA RegionsApart ==
    /\ Apart(KernelPages[1], KernelPages[2], KernelPages[1])
    /\ Apart(MmioPages[1], MmioPages[2], MmioPages[1])
    /\ \A r \in Requests : Apart(r.va, r.end, r.pa)
<1>1. /\ Span(KernelPages[1], KernelPages[2], KernelPages[1]) \subseteq Given
      /\ Span(MmioPages[1], MmioPages[2], MmioPages[1]) \subseteq Given
      /\ \A r \in Requests : Span(r.va, r.end, r.pa) \subseteq Given
  BY DEF Given
<1> QED
  BY <1>1 DEF Apart, Own

\* A path leads down the levels.
Descends(t, rt, va, lev) ==
    \A i \in 0..3 : /\ Path(t, rt, va)[i] \in Frames \cup {NULL}
                    /\ Path(t, rt, va)[i] # NULL => lev[Path(t, rt, va)[i]] = i

LEMMA PathLevels ==
    ASSUME NEW t \in TableSet, NEW rt, NEW top \in Nat, NEW lev \in Levelling,
           TreeOfTables(t, rt, top, lev), NEW va \in Pages
    PROVE  Descends(t, rt, va, lev) /\ Path(t, rt, va)[4] \in Pages
<1> DEFINE p(i) == Path(t, rt, va)[i]
           x(i) == LVL_ADDR(va, i)
<1>0. /\ x(0) \in Index /\ x(1) \in Index /\ x(2) \in Index /\ x(3) \in Index
      /\ NULL \in Pages
  BY IndexType, VmemAssumption DEF Pages, NULL, PageCount
<1>1. /\ p(0) = rt
      /\ p(1) = Hop(t, p(0), x(0)) /\ p(2) = Hop(t, p(1), x(1))
      /\ p(3) = Hop(t, p(2), x(2)) /\ p(4) = Hop(t, p(3), x(3))
  BY PathSteps
<1> HIDE DEF p, x
<1>2. ASSUME NEW f \in Frames \cup {NULL}, NEW y \in Index, NEW i \in 0..2,
             f # NULL => lev[f] = i
      PROVE  /\ Hop(t, f, y) \in Frames \cup {NULL}
             /\ Hop(t, f, y) # NULL => lev[Hop(t, f, y)] = i + 1
  BY <1>2 DEF Hop, TreeOfTables, Levelling
<1>3. p(0) \in Frames \cup {NULL} /\ (p(0) # NULL => lev[p(0)] = 0)
  BY <1>1 DEF TreeOfTables
<1>4. p(1) \in Frames \cup {NULL} /\ (p(1) # NULL => lev[p(1)] = 1)
  BY <1>0, <1>1, <1>2, <1>3
<1>5. p(2) \in Frames \cup {NULL} /\ (p(2) # NULL => lev[p(2)] = 2)
  BY <1>0, <1>1, <1>2, <1>4
<1>6. p(3) \in Frames \cup {NULL} /\ (p(3) # NULL => lev[p(3)] = 3)
  BY <1>0, <1>1, <1>2, <1>5
<1>7. p(4) \in Pages
  BY <1>0, <1>1, <1>6 DEF Hop, TableSet, Entries
<1>8. \A i \in 0..3 : i = 0 \/ i = 1 \/ i = 2 \/ i = 3
  OBVIOUS
<1>9. \A i \in 0..3 : p(i) \in Frames \cup {NULL} /\ (p(i) # NULL => lev[p(i)] = i)
  BY <1>3, <1>4, <1>5, <1>6, <1>8, Zenon
<1> QED
  BY <1>7, <1>9, Zenon DEF Descends, p

\* Two paths to one table of level 3 are the same path.
LEMMA PathUnique ==
    ASSUME NEW t \in TableSet, NEW rt, NEW top \in Nat, NEW lev \in Levelling,
           TreeOfTables(t, rt, top, lev), NEW va \in Pages, NEW vb \in Pages,
           Path(t, rt, va)[3] = Path(t, rt, vb)[3], Path(t, rt, va)[3] # NULL
    PROVE  \A i \in 0..2 : LVL_ADDR(va, i) = LVL_ADDR(vb, i)
<1> DEFINE p(i) == Path(t, rt, va)[i]
           q(i) == Path(t, rt, vb)[i]
           x(i) == LVL_ADDR(va, i)
           y(i) == LVL_ADDR(vb, i)
<1>1. /\ p(1) = Hop(t, p(0), x(0)) /\ p(2) = Hop(t, p(1), x(1))
      /\ p(3) = Hop(t, p(2), x(2))
  BY PathSteps
<1>2. /\ q(1) = Hop(t, q(0), y(0)) /\ q(2) = Hop(t, q(1), y(1))
      /\ q(3) = Hop(t, q(2), y(2))
  BY PathSteps
<1>3. /\ \A i \in 0..3 : p(i) \in Frames \cup {NULL} /\ (p(i) # NULL => lev[p(i)] = i)
      /\ \A i \in 0..3 : q(i) \in Frames \cup {NULL} /\ (q(i) # NULL => lev[q(i)] = i)
  <2>1. Descends(t, rt, va, lev) /\ Descends(t, rt, vb, lev)
    BY PathLevels
  <2> QED
    BY <2>1, Zenon DEF Descends
<1>4. \A i \in 0..3 : x(i) \in Index /\ y(i) \in Index
  BY IndexType
<1>5. p(3) = q(3) /\ p(3) # NULL
  OBVIOUS
<1> HIDE DEF p, q, x, y
<1>6. ASSUME NEW i \in 0..2, Hop(t, p(i), x(i)) = Hop(t, q(i), y(i)),
             Hop(t, p(i), x(i)) # NULL
      PROVE  p(i) = q(i) /\ p(i) # NULL /\ x(i) = y(i)
  <2>1. p(i) # NULL /\ q(i) # NULL
    BY <1>6 DEF Hop
  <2>2. /\ p(i) \in Frames /\ q(i) \in Frames /\ x(i) \in Index /\ y(i) \in Index
        /\ lev[p(i)] < 3 /\ lev[q(i)] < 3
    BY <1>3, <1>4, <2>1
  <2>3. t[p(i)][x(i)].pa = t[q(i)][y(i)].pa /\ t[p(i)][x(i)].pa # NULL
    BY <1>6, <2>1 DEF Hop
  <2> QED
    BY <2>1, <2>2, <2>3 DEF TreeOfTables
<1>7. p(2) = q(2) /\ p(2) # NULL /\ x(2) = y(2)
  BY <1>1, <1>2, <1>5, <1>6
<1>8. p(1) = q(1) /\ p(1) # NULL /\ x(1) = y(1)
  BY <1>1, <1>2, <1>6, <1>7
<1>9. x(0) = y(0)
  BY <1>1, <1>2, <1>6, <1>8
<1>10. \A i \in 0..2 : i = 0 \/ i = 1 \/ i = 2
  OBVIOUS
<1> QED
  BY <1>7, <1>8, <1>9, <1>10, Zenon DEF x, y

\* A frame is cleared and entered into a table above level 3: the tree grows,
\* and no page is mapped otherwise than before.
Entered(t, f, at, x, e) == [[t EXCEPT ![f] = EmptyTable] EXCEPT ![at][x] = e]

\* What is in the tables u afterwards.
IsEntered(u, t, f, at, x, e) ==
    /\ u \in TableSet /\ u[at][x] = e
    /\ \A y \in Index : u[f][y] = Unset
    /\ \A g \in Frames \ {f}, y \in Index : g # at \/ y # x => u[g][y] = t[g][y]

LEMMA EnteredEntries ==
    ASSUME NEW t \in TableSet, NEW f \in Frames, NEW at \in Frames, NEW x \in Index,
           NEW e \in Entries, at # f
    PROVE  IsEntered(Entered(t, f, at, x, e), t, f, at, x, e)
<1>1. Unset \in Entries /\ EmptyTable \in [Index -> Entries]
  BY VmemAssumption DEF Unset, EmptyTable, Entries, Pages, PageCount
<1> QED
  BY <1>1 DEF Entered, IsEntered, TableSet, EmptyTable

LEMMA AddTable ==
    ASSUME NEW t \in TableSet, NEW rt, NEW lev \in Levelling, NEW f \in Frames,
           Tree(t, rt, f, lev),
           NEW at \in Frames, NEW x \in Index, NEW e \in Entries, NEW i \in 0..2,
           lev[at] = i, t[at][x].pa = NULL, e.set = TRUE, e.pa = f
    PROVE  /\ [lev EXCEPT ![f] = i + 1] \in Levelling
           /\ Tree(Entered(t, f, at, x, e), rt, f + 1, [lev EXCEPT ![f] = i + 1])
<1> DEFINE u == Entered(t, f, at, x, e)
           l2 == [lev EXCEPT ![f] = i + 1]
<1>0. f \in Nat \ {0} /\ Frames \subseteq Nat \ {0} /\ Own \subseteq Frames
      /\ Unset.pa \notin Frames
  BY VmemAssumption DEF Frames, Unset, Own
<1>1. at # f /\ rt # f /\ lev[f] >= 4 /\ lev[f] \in 0..5
  BY <1>0 DEF Tree, TreeOfTables, Levelling
<1>2. /\ u \in TableSet /\ u[at][x] = e
      /\ \A y \in Index : u[f][y] = Unset
      /\ \A g \in Frames \ {f}, y \in Index : g # at \/ y # x => u[g][y] = t[g][y]
  <2>1. IsEntered(u, t, f, at, x, e)
    BY <1>1, EnteredEntries, Zenon
  <2> QED
    BY <2>1 DEF IsEntered
<1>3. l2 \in Levelling /\ l2[f] = i + 1 /\ \A g \in Frames \ {f} : l2[g] = lev[g]
  BY DEF Levelling
<1> HIDE DEF u, l2
<1>4. TreeOfTables(u, rt, f + 1, l2)
  <2>1. rt \in Frames /\ l2[rt] = 0
    BY <1>1, <1>3 DEF Tree, TreeOfTables
  <2>2. \A g \in Frames : l2[g] < 4 => g < f + 1
    BY <1>0, <1>3 DEF Tree, TreeOfTables
  <2>3. ASSUME NEW g \in Frames, NEW y \in Index, l2[g] < 4
        PROVE  u[g][y].set <=> u[g][y].pa # NULL
    <3>1. CASE g = f
      BY <1>2, <3>1 DEF Unset, NULL
    <3>2. CASE g = at /\ y = x
      BY <1>0, <1>2, <3>2 DEF NULL
    <3>3. CASE g # f /\ (g # at \/ y # x)
      BY <1>2, <1>3, <2>3, <3>3 DEF Tree, TreeOfTables
    <3> QED
      BY <3>1, <3>2, <3>3
  <2>4. ASSUME NEW g \in Frames, NEW y \in Index, l2[g] < 3, u[g][y].pa # NULL
        PROVE  \/ g = at /\ y = x /\ u[g][y].pa = f
               \/ /\ g # f /\ u[g][y].pa = t[g][y].pa /\ lev[g] < 3
                  /\ t[g][y].pa \in Frames \ {f} /\ lev[t[g][y].pa] = lev[g] + 1
    <3>1. CASE g = f
      BY <1>2, <2>4, <3>1 DEF Unset, NULL
    <3>2. CASE g = at /\ y = x
      BY <1>2, <3>2
    <3>3. CASE g # f /\ (g # at \/ y # x)
      <4>1. u[g][y] = t[g][y] /\ lev[g] < 3
        BY <1>2, <1>3, <2>4, <3>3
      <4>2. t[g][y].pa \in Frames /\ lev[t[g][y].pa] = lev[g] + 1
        BY <2>4, <4>1 DEF Tree, TreeOfTables
      <4>3. lev[g] \in 0..5
        BY DEF Levelling
      <4> QED
        BY <1>1, <3>3, <4>1, <4>2, <4>3
    <3> QED
      BY <3>1, <3>2, <3>3
  <2>5. ASSUME NEW g \in Frames, NEW y \in Index, l2[g] < 3, u[g][y].pa # NULL
        PROVE  u[g][y].pa \in Frames /\ l2[u[g][y].pa] = l2[g] + 1
    BY <1>1, <1>3, <2>4, <2>5
  <2>6. ASSUME NEW g \in Frames, NEW h \in Frames, NEW y \in Index, NEW z \in Index,
               l2[g] < 3, l2[h] < 3, u[g][y].pa = u[h][z].pa, u[g][y].pa # NULL
        PROVE  g = h /\ y = z
    BY <2>4, <2>6 DEF Tree, TreeOfTables
  <2> QED
    BY <2>1, <2>2, <2>3, <2>5, <2>6 DEF TreeOfTables
<1>5. LeavesApart(u, f + 1, l2)
  <2>0. LeavesApart(t, f, lev)
    BY DEF Tree
  <2>1. ASSUME NEW g \in Frames, NEW y \in Index, l2[g] = 3, u[g][y].pa \in Own
        PROVE  lev[g] = 3 /\ u[g][y] = t[g][y] /\ u[g][y].pa # f
    <3>1. g # f
      <4>1. SUFFICES ASSUME g = f PROVE FALSE
        OBVIOUS
      <4>2. u[g][y] = Unset
        BY <1>2, <4>1
      <4> QED
        BY <1>0, <2>1, <4>2
    <3>2. g # at
      BY <1>3, <2>1, <3>1
    <3>3. lev[g] = 3 /\ u[g][y] = t[g][y]
      BY <1>2, <1>3, <2>1, <3>1, <3>2
    <3> QED
      BY <1>0, <2>0, <2>1, <3>3 DEF LeavesApart
  <2>2. ASSUME NEW g \in Frames, NEW y \in Index, l2[g] = 3, u[g][y].pa \in Own
        PROVE  l2[u[g][y].pa] = 4 /\ u[g][y].pa < f + 1
    <3>1. lev[g] = 3 /\ u[g][y].pa = t[g][y].pa /\ u[g][y].pa # f
      BY <2>1, <2>2
    <3>2. lev[t[g][y].pa] = 4 /\ t[g][y].pa < f
      BY <2>0, <2>2, <3>1 DEF LeavesApart
    <3>3. t[g][y].pa \in Nat /\ l2[t[g][y].pa] = lev[t[g][y].pa]
      BY <1>0, <1>3, <2>2, <3>1
    <3> QED
      BY <1>0, <3>1, <3>2, <3>3
  <2>3. ASSUME NEW g \in Frames, NEW h \in Frames, NEW y \in Index, NEW z \in Index,
               l2[g] = 3, l2[h] = 3, u[g][y].pa = u[h][z].pa, u[g][y].pa \in Own
        PROVE  g = h /\ y = z
    BY <2>0, <2>1, <2>3 DEF LeavesApart
  <2> QED
    BY <2>2, <2>3 DEF LeavesApart
<1> QED
  BY <1>3, <1>4, <1>5 DEF Tree, u, l2

\* Page v is mapped in table u as it is in t, by the same entry.
Same(t, u, rt, v) ==
    /\ Path(u, rt, v)[4] = Path(t, rt, v)[4]
    /\ Path(t, rt, v)[4] # NULL =>
          /\ Path(u, rt, v)[3] = Path(t, rt, v)[3]
          /\ u[Path(t, rt, v)[3]][LVL_ADDR(v, 3)] = t[Path(t, rt, v)[3]][LVL_ADDR(v, 3)]

\* The tables on the way to v down to level i are the same.
SameDownTo(t, u, rt, v, i) ==
    \A j \in 0..3 : j <= i => Path(u, rt, v)[j] = Path(t, rt, v)[j]

LEMMA AddTablePaths ==
    ASSUME NEW t \in TableSet, NEW rt, NEW lev \in Levelling, NEW f \in Frames,
           TreeOfTables(t, rt, f, lev),
           NEW at \in Frames, NEW x \in Index, NEW e \in Entries, NEW i \in 0..2,
           lev[at] = i, t[at][x].pa = NULL, e.pa = f, NEW v \in Pages
    PROVE  /\ SameDownTo(t, Entered(t, f, at, x, e), rt, v, i)
           /\ Same(t, Entered(t, f, at, x, e), rt, v)
<1> DEFINE u == Entered(t, f, at, x, e)
           p(j) == Path(t, rt, v)[j]
           q(j) == Path(u, rt, v)[j]
           y(j) == LVL_ADDR(v, j)
           Near(j) == q(j) = p(j) \/ (p(j) = NULL /\ q(j) = f /\ j = i + 1)
<1>0. f \in Nat \ {0} /\ Frames \subseteq Nat \ {0} /\ Unset.pa = NULL /\ NULL = 0
  BY VmemAssumption DEF Frames, Unset, NULL, Own
<1>1. at # f /\ lev[f] >= 4
  BY <1>0 DEF TreeOfTables, Levelling
<1>2. /\ u \in TableSet /\ u[at][x] = e
      /\ \A z \in Index : u[f][z] = Unset
      /\ \A g \in Frames \ {f}, z \in Index : g # at \/ z # x => u[g][z] = t[g][z]
  <2>1. IsEntered(u, t, f, at, x, e)
    BY <1>1, EnteredEntries, Zenon
  <2> QED
    BY <2>1 DEF IsEntered
<1>3. /\ p(0) = rt
      /\ p(1) = Hop(t, p(0), y(0)) /\ p(2) = Hop(t, p(1), y(1))
      /\ p(3) = Hop(t, p(2), y(2)) /\ p(4) = Hop(t, p(3), y(3))
  BY PathSteps
<1> HIDE DEF u
<1>4. /\ q(0) = rt
      /\ q(1) = Hop(u, q(0), y(0)) /\ q(2) = Hop(u, q(1), y(1))
      /\ q(3) = Hop(u, q(2), y(2)) /\ q(4) = Hop(u, q(3), y(3))
  BY PathSteps
<1>5. \A j \in 0..3 : /\ y(j) \in Index /\ p(j) \in Frames \cup {NULL}
                      /\ p(j) # NULL => lev[p(j)] = j
  <2>1. \A j \in 0..3 : y(j) \in Index
    BY IndexType
  <2>2. f \in Nat
    BY <1>0
  <2>3. \A j \in 0..3 : p(j) \in Frames \cup {NULL} /\ (p(j) # NULL => lev[p(j)] = j)
    <3>1. Descends(t, rt, v, lev)
      BY <2>2, PathLevels
    <3> QED
      BY <3>1, Zenon DEF Descends
  <2> QED
    BY <2>1, <2>3
<1> HIDE DEF p, q, y
<1>6. ASSUME NEW j \in 0..3, Near(j),
             p(j + 1) = Hop(t, p(j), y(j)), q(j + 1) = Hop(u, q(j), y(j))
      PROVE  Near(j + 1)
  <2>1. CASE q(j) = p(j) /\ p(j) = NULL
    BY <1>6, <2>1 DEF Hop
  <2>2. CASE q(j) = p(j) /\ p(j) # NULL
    <3>1. p(j) \in Frames /\ lev[p(j)] = j /\ p(j) # f /\ y(j) \in Index
      BY <1>1, <1>5, <2>2
    <3>2. p(j + 1) = t[p(j)][y(j)].pa /\ q(j + 1) = u[p(j)][y(j)].pa
      BY <1>6, <2>2 DEF Hop
    <3>3. CASE p(j) = at /\ y(j) = x
      BY <1>2, <3>1, <3>2, <3>3
    <3>4. CASE ~(p(j) = at /\ y(j) = x)
      BY <1>2, <3>1, <3>2, <3>4
    <3> QED
      BY <3>3, <3>4
  <2>3. CASE p(j) = NULL /\ q(j) = f /\ j = i + 1
    <3>1. p(j + 1) = NULL
      BY <1>6, <2>3 DEF Hop
    <3>2. q(j + 1) = NULL
      BY <1>0, <1>2, <1>5, <1>6, <2>3 DEF Hop
    <3> QED
      BY <3>1, <3>2
  <2> QED
    BY <1>6, <2>1, <2>2, <2>3
<1>7. Near(0)
  BY <1>3, <1>4
<1>8. Near(1)
  BY <1>3, <1>4, <1>6, <1>7
<1>9. Near(2)
  BY <1>3, <1>4, <1>6, <1>8
<1>10. Near(3)
  BY <1>3, <1>4, <1>6, <1>9
<1>11. Near(4)
  BY <1>3, <1>4, <1>6, <1>10
<1>12. \A j \in 0..3 : j <= i => q(j) = p(j)
  <2>1. \A j \in 0..3 : j = 0 \/ j = 1 \/ j = 2 \/ j = 3
    OBVIOUS
  <2>2. \A j \in 0..3 : Near(j)
    BY <1>7, <1>8, <1>9, <1>10, <2>1, Zenon
  <2> QED
    BY <2>2
<1>13. q(4) = p(4)
  BY <1>11
<1>14. ASSUME p(4) # NULL
       PROVE  q(3) = p(3) /\ u[p(3)][y(3)] = t[p(3)][y(3)]
  <2>1. p(3) # NULL
    BY <1>3, <1>14 DEF Hop
  <2>2. p(3) \in Frames /\ lev[p(3)] = 3 /\ y(3) \in Index
    BY <1>5, <2>1
  <2>3. p(3) # f /\ p(3) # at
    BY <1>1, <2>2
  <2> QED
    BY <1>2, <1>10, <2>1, <2>2, <2>3
<1> QED
  BY <1>12, <1>13, <1>14, Zenon DEF u, p, q, y, Same, SameDownTo

\* An entry of a table of level 3 is set.
LEMMA AddLeafTables ==
    ASSUME NEW t \in TableSet, NEW u \in TableSet, NEW rt,
           NEW top \in Nat, NEW top2 \in Nat, top <= top2,
           NEW lev \in Levelling, NEW lev2 \in Levelling,
           \A g \in Frames : (lev[g] < 4 \/ lev2[g] < 4) => lev2[g] = lev[g],
           TreeOfTables(t, rt, top, lev),
           NEW at \in Frames, NEW x \in Index, lev[at] = 3,
           u[at][x].set, u[at][x].pa # NULL,
           \A g \in Frames, y \in Index :
              lev[g] < 4 /\ (g # at \/ y # x) => u[g][y] = t[g][y]
    PROVE  TreeOfTables(u, rt, top2, lev2)
<1>0. /\ Frames \subseteq Nat
      /\ \A g \in Frames : lev[g] \in 0..5 /\ lev2[g] \in 0..5
      /\ \A g \in Frames : lev2[g] < 4 <=> lev[g] < 4
  BY VmemAssumption DEF Frames, Levelling
<1>1. rt \in Frames /\ lev2[rt] = 0
  BY DEF TreeOfTables
<1>2. \A g \in Frames : lev2[g] < 4 => g < top2
  BY <1>0 DEF TreeOfTables
<1>3. \A g \in Frames, y \in Index :
         lev2[g] < 4 => (u[g][y].set <=> u[g][y].pa # NULL)
  <2> SUFFICES ASSUME NEW g \in Frames, NEW y \in Index, lev2[g] < 4
               PROVE  u[g][y].set <=> u[g][y].pa # NULL
    OBVIOUS
  <2>1. CASE g = at /\ y = x
    BY <2>1
  <2>2. CASE g # at \/ y # x
    BY <1>0, <2>2 DEF TreeOfTables
  <2> QED
    BY <2>1, <2>2
<1>4. ASSUME NEW g \in Frames, NEW y \in Index, lev2[g] < 3
      PROVE  lev[g] < 3 /\ lev2[g] = lev[g] /\ u[g][y] = t[g][y]
  BY <1>0, <1>4
<1>5. ASSUME NEW g \in Frames, NEW y \in Index, lev2[g] < 3, u[g][y].pa # NULL
      PROVE  u[g][y].pa \in Frames /\ lev2[u[g][y].pa] = lev2[g] + 1
  <2>1. lev[g] < 3 /\ lev2[g] = lev[g] /\ u[g][y] = t[g][y]
    BY <1>4, <1>5
  <2>2. t[g][y].pa \in Frames /\ lev[t[g][y].pa] = lev[g] + 1
    BY <1>5, <2>1 DEF TreeOfTables
  <2>3. lev[g] \in 0..2
    BY <1>0, <2>1
  <2>4. lev[t[g][y].pa] < 4
    BY <2>2, <2>3
  <2>5. lev2[t[g][y].pa] = lev[t[g][y].pa]
    BY <2>2, <2>4
  <2> QED
    BY <2>1, <2>2, <2>5
<1>6. ASSUME NEW g \in Frames, NEW h \in Frames, NEW y \in Index, NEW z \in Index,
             lev2[g] < 3, lev2[h] < 3, u[g][y].pa = u[h][z].pa, u[g][y].pa # NULL
      PROVE  g = h /\ y = z
  <2>1. /\ lev[g] < 3 /\ u[g][y] = t[g][y]
        /\ lev[h] < 3 /\ u[h][z] = t[h][z]
    BY <1>4, <1>6
  <2> QED
    BY <1>6, <2>1 DEF TreeOfTables
<1> QED
  BY <1>1, <1>2, <1>3, <1>5, <1>6 DEF TreeOfTables

\* Among the tables, only this entry changes.
ChangesOnly(t, u, lev, at, x) ==
    \A g \in Frames, y \in Index :
        lev[g] < 4 /\ (g # at \/ y # x) => u[g][y] = t[g][y]

\* Page va is mapped now, and the others are as before.
LeafAdded(t, u, rt, at, va, v) ==
    /\ v # va => Path(u, rt, v)[4] = Path(t, rt, v)[4]
    /\ v = va => Path(u, rt, v)[4] = u[at][LVL_ADDR(va, 3)].pa /\ Path(t, rt, v)[4] = NULL
    /\ Path(t, rt, v)[4] # NULL =>
          /\ Path(u, rt, v)[3] = Path(t, rt, v)[3]
          /\ u[Path(t, rt, v)[3]][LVL_ADDR(v, 3)] = t[Path(t, rt, v)[3]][LVL_ADDR(v, 3)]

LEMMA AddLeafPaths ==
    ASSUME NEW t \in TableSet, NEW u \in TableSet, NEW rt,
           NEW top \in Nat, NEW lev \in Levelling,
           TreeOfTables(t, rt, top, lev),
           NEW at \in Frames, NEW va \in Pages, lev[at] = 3,
           Path(t, rt, va)[3] = at, t[at][LVL_ADDR(va, 3)].pa = NULL,
           ChangesOnly(t, u, lev, at, LVL_ADDR(va, 3)),
           NEW v \in Pages
    PROVE  LeafAdded(t, u, rt, at, va, v)
<1> DEFINE p(j) == Path(t, rt, v)[j]
           q(j) == Path(u, rt, v)[j]
           y(j) == LVL_ADDR(v, j)
           x == LVL_ADDR(va, 3)
<1>0. Frames \subseteq Nat \ {0} /\ NULL = 0
  BY VmemAssumption DEF Frames, NULL
<1>1. /\ p(0) = rt
      /\ p(1) = Hop(t, p(0), y(0)) /\ p(2) = Hop(t, p(1), y(1))
      /\ p(3) = Hop(t, p(2), y(2)) /\ p(4) = Hop(t, p(3), y(3))
  BY PathSteps
<1>2. /\ q(0) = rt
      /\ q(1) = Hop(u, q(0), y(0)) /\ q(2) = Hop(u, q(1), y(1))
      /\ q(3) = Hop(u, q(2), y(2)) /\ q(4) = Hop(u, q(3), y(3))
  BY PathSteps
<1>3. x \in Index /\ \A j \in 0..3 : y(j) \in Index
  BY IndexType
<1>4. \A j \in 0..3 : p(j) \in Frames \cup {NULL} /\ (p(j) # NULL => lev[p(j)] = j)
  <2>1. Descends(t, rt, v, lev)
    BY PathLevels
  <2> QED
    BY <2>1, Zenon DEF Descends
<1>5. v # va /\ p(3) = at => y(3) # x
  <2> SUFFICES ASSUME p(3) = at, y(3) = x PROVE v = va
    OBVIOUS
  <2>1. Path(t, rt, v)[3] = Path(t, rt, va)[3] /\ Path(t, rt, v)[3] # NULL
    BY <1>0
  <2>2. \A i \in 0..2 : LVL_ADDR(v, i) = LVL_ADDR(va, i)
    BY <2>1, PathUnique
  <2>3. \A i \in 0..3 : i \in 0..2 \/ i = 3
    OBVIOUS
  <2>4. \A i \in 0..3 : LVL_ADDR(v, i) = LVL_ADDR(va, i)
    BY <2>2, <2>3
  <2> QED
    BY <2>4, IndicesUnique
<1>6. v = va => p(3) = at /\ y(3) = x
  OBVIOUS
<1> HIDE DEF p, q, y, x
<1>7. ASSUME NEW j \in 0..2, q(j) = p(j) PROVE Hop(u, q(j), y(j)) = Hop(t, p(j), y(j))
  <2>1. CASE p(j) = NULL
    BY <1>7, <2>1 DEF Hop
  <2>2. CASE p(j) # NULL
    <3>1. p(j) \in Frames /\ lev[p(j)] = j /\ y(j) \in Index /\ j < 4 /\ j # 3
      BY <1>3, <1>4, <2>2
    <3>2. u[p(j)][y(j)] = t[p(j)][y(j)]
      BY <3>1 DEF ChangesOnly
    <3> QED
      BY <1>7, <3>2 DEF Hop
  <2> QED
    BY <2>1, <2>2
<1>8. q(1) = p(1)
  BY <1>1, <1>2, <1>7
<1>9. q(2) = p(2)
  BY <1>1, <1>2, <1>7, <1>8
<1>10. q(3) = p(3)
  BY <1>1, <1>2, <1>7, <1>9
<1>11. ASSUME p(3) # NULL, p(3) # at \/ y(3) # x
       PROVE  u[p(3)][y(3)] = t[p(3)][y(3)] /\ q(4) = p(4)
  <2>1. p(3) \in Frames /\ lev[p(3)] = 3 /\ y(3) \in Index
    BY <1>3, <1>4, <1>11
  <2>2. u[p(3)][y(3)] = t[p(3)][y(3)]
    BY <1>11, <2>1 DEF ChangesOnly, x
  <2> QED
    BY <1>1, <1>2, <1>10, <2>2 DEF Hop
<1>12. p(3) = NULL => q(4) = NULL /\ p(4) = NULL
  BY <1>1, <1>2, <1>10 DEF Hop
<1>13. p(3) = at /\ y(3) = x => q(4) = u[at][x].pa /\ p(4) = NULL
  BY <1>0, <1>1, <1>2, <1>10 DEF Hop, x
<1>14. v # va => q(4) = p(4)
  BY <1>5, <1>11, <1>12
<1>15. v = va => q(4) = u[at][x].pa /\ p(4) = NULL
  BY <1>6, <1>13
<1>16. p(4) # NULL => q(3) = p(3) /\ u[p(3)][y(3)] = t[p(3)][y(3)]
  BY <1>10, <1>11, <1>12, <1>13
<1> QED
  BY <1>14, <1>15, <1>16, Zenon DEF LeafAdded, p, q, x, y

\* The entry is given a page that is no frame.
LEMMA GivenLeaf ==
    ASSUME NEW t \in TableSet, NEW rt, NEW top \in Nat, NEW lev \in Levelling,
           Tree(t, rt, top, lev),
           NEW at \in Frames, NEW x \in Index, NEW e \in Entries, lev[at] = 3,
           e.set = TRUE, e.pa # NULL, e.pa \notin Own
    PROVE  LET u == [t EXCEPT ![at][x] = e]
           IN  /\ u \in TableSet /\ u[at][x] = e
               /\ \A g \in Frames, y \in Index : g # at \/ y # x => u[g][y] = t[g][y]
               /\ Tree(u, rt, top, lev)
<1> DEFINE u == [t EXCEPT ![at][x] = e]
<1>1. /\ u \in TableSet /\ u[at][x] = e
      /\ \A g \in Frames, y \in Index : g # at \/ y # x => u[g][y] = t[g][y]
  BY DEF TableSet
<1> HIDE DEF u
<1>2. TreeOfTables(u, rt, top, lev)
  <2>1. /\ TreeOfTables(t, rt, top, lev) /\ top <= top
        /\ \A g \in Frames : (lev[g] < 4 \/ lev[g] < 4) => lev[g] = lev[g]
        /\ \A g \in Frames, y \in Index :
              lev[g] < 4 /\ (g # at \/ y # x) => u[g][y] = t[g][y]
        /\ u[at][x].set /\ u[at][x].pa # NULL
    BY <1>1 DEF Tree
  <2> QED
    BY <1>1, <2>1, AddLeafTables
<1>3. LeavesApart(u, top, lev)
  BY <1>1 DEF Tree, LeavesApart
<1> QED
  BY <1>1, <1>2, <1>3 DEF Tree, u

\* The entry is given a frame from the list.
LEMMA FrameLeaf ==
    ASSUME NEW t \in TableSet, NEW rt, NEW lev \in Levelling, NEW f \in Frames,
           Tree(t, rt, f, lev),
           NEW at \in Frames, NEW x \in Index, NEW e \in Entries,
           lev[at] = 3, e.set = TRUE, e.pa = f
    PROVE  /\ at # f
           /\ \A g \in Frames : lev[g] < 4 => g # f
           /\ [lev EXCEPT ![f] = 4] \in Levelling
           /\ Tree(Entered(t, f, at, x, e), rt, f + 1, [lev EXCEPT ![f] = 4])
<1> DEFINE u == Entered(t, f, at, x, e)
           l2 == [lev EXCEPT ![f] = 4]
<1>0. f \in Nat \ {0} /\ Frames \subseteq Nat \ {0} /\ Own \subseteq Frames
      /\ Unset.pa \notin Frames /\ NULL = 0
  BY VmemAssumption DEF Frames, Unset, NULL, Own
<1>1. /\ TreeOfTables(t, rt, f, lev) /\ at # f /\ lev[f] >= 4 /\ lev[f] \in 0..5
      /\ \A g \in Frames : lev[g] < 4 => g # f
  BY <1>0 DEF Tree, TreeOfTables, Levelling
<1>2. /\ u \in TableSet /\ u[at][x] = e
      /\ \A y \in Index : u[f][y] = Unset
      /\ \A g \in Frames \ {f}, y \in Index : g # at \/ y # x => u[g][y] = t[g][y]
  <2>1. IsEntered(u, t, f, at, x, e)
    BY <1>1, EnteredEntries, Zenon
  <2> QED
    BY <2>1 DEF IsEntered
<1>3. l2 \in Levelling /\ l2[f] = 4 /\ \A g \in Frames \ {f} : l2[g] = lev[g]
  BY DEF Levelling
<1> HIDE DEF u, l2
<1>4. TreeOfTables(u, rt, f + 1, l2)
  <2>1. /\ f + 1 \in Nat /\ f \in Nat /\ f <= f + 1
        /\ \A g \in Frames : (lev[g] < 4 \/ l2[g] < 4) => l2[g] = lev[g]
        /\ \A g \in Frames, y \in Index :
              lev[g] < 4 /\ (g # at \/ y # x) => u[g][y] = t[g][y]
        /\ u[at][x].set /\ u[at][x].pa # NULL
    <3>1. f + 1 \in Nat /\ f \in Nat /\ f <= f + 1
      BY <1>0
    <3>2. \A g \in Frames : (lev[g] < 4 \/ l2[g] < 4) => l2[g] = lev[g]
      BY <1>1, <1>3
    <3>3. \A g \in Frames, y \in Index :
             lev[g] < 4 /\ (g # at \/ y # x) => u[g][y] = t[g][y]
      BY <1>1, <1>2
    <3>4. u[at][x].set /\ u[at][x].pa # NULL
      BY <1>0, <1>2
    <3> QED
      BY <3>1, <3>2, <3>3, <3>4
  <2> QED
    BY <1>1, <1>2, <1>3, <2>1, AddLeafTables
<1>5. LeavesApart(u, f + 1, l2)
  <2>0. LeavesApart(t, f, lev)
    BY DEF Tree
  <2>1. ASSUME NEW g \in Frames, NEW y \in Index, l2[g] = 3, u[g][y].pa \in Own
        PROVE  \/ g = at /\ y = x /\ u[g][y].pa = f
               \/ /\ lev[g] = 3 /\ u[g][y] = t[g][y]
                  /\ lev[t[g][y].pa] = 4 /\ t[g][y].pa < f
    <3>1. g # f
      BY <1>3, <2>1
    <3>2. lev[g] = 3
      BY <1>3, <2>1, <3>1
    <3>3. CASE g = at /\ y = x
      BY <1>2, <3>3
    <3>4. CASE g # at \/ y # x
      <4>1. u[g][y] = t[g][y]
        BY <1>2, <3>1, <3>4
      <4> QED
        BY <2>0, <2>1, <3>2, <4>1 DEF LeavesApart
    <3> QED
      BY <3>3, <3>4
  <2>2. ASSUME NEW g \in Frames, NEW y \in Index, l2[g] = 3, u[g][y].pa \in Own
        PROVE  l2[u[g][y].pa] = 4 /\ u[g][y].pa < f + 1
    <3>1. CASE u[g][y].pa = f
      BY <1>0, <1>3, <3>1
    <3>2. CASE u[g][y].pa # f
      <4>1. u[g][y] = t[g][y] /\ lev[t[g][y].pa] = 4 /\ t[g][y].pa < f
        BY <2>1, <2>2, <3>2
      <4>2. t[g][y].pa \in Nat /\ l2[t[g][y].pa] = lev[t[g][y].pa]
        BY <1>0, <1>3, <2>2, <3>2, <4>1
      <4> QED
        BY <1>0, <4>1, <4>2
    <3> QED
      BY <3>1, <3>2
  <2>3. ASSUME NEW g \in Frames, NEW h \in Frames, NEW y \in Index, NEW z \in Index,
               l2[g] = 3, l2[h] = 3, u[g][y].pa = u[h][z].pa, u[g][y].pa \in Own
        PROVE  g = h /\ y = z
    <3>1. \/ g = at /\ y = x /\ u[g][y].pa = f
          \/ lev[g] = 3 /\ u[g][y] = t[g][y] /\ t[g][y].pa < f
      BY <2>1, <2>3
    <3>2. \/ h = at /\ z = x /\ u[h][z].pa = f
          \/ lev[h] = 3 /\ u[h][z] = t[h][z] /\ t[h][z].pa < f
      BY <2>1, <2>3
    <3>3. ~(f < f)
      BY <1>0
    <3> QED
      BY <2>0, <2>3, <3>1, <3>2, <3>3 DEF LeavesApart
  <2> QED
    BY <2>2, <2>3 DEF LeavesApart
<1> QED
  BY <1>1, <1>3, <1>4, <1>5 DEF Tree, u, l2

-----------------------------------------------------------------------------
(* get_physical_page. *)

LEMMA PopRest ==
    ASSUME NEW l \in Lists(Frames), RestListed(l), l.head # NULL
    PROVE  /\ l.head \in Frames /\ Top(l) = l.head
           /\ Pop(l) \in Lists(Frames) /\ RestListed(Pop(l))
           /\ Top(Pop(l)) = l.head + 1
<1>0. /\ Frames = FirstFrame..LastFrame /\ FirstFrame \in Nat \ {0} /\ LastFrame \in Nat
      /\ NULL = 0
  BY VmemAssumption DEF Frames, NULL
<1>1. /\ l.head \in Frames /\ Top(l) = l.head
      /\ l.next \in [Frames \cup {NULL} -> Frames \cup {NULL}]
  BY DEF Top, Lists
<1>2. l.next[l.head] = IF l.head < LastFrame THEN l.head + 1 ELSE NULL
  BY <1>0, <1>1 DEF RestListed
<1>3. /\ Pop(l).head = l.next[l.head]
      /\ Pop(l).next = [l.next EXCEPT ![l.head] = NULL]
      /\ Pop(l) \in Lists(Frames)
  BY <1>1 DEF Pop, Lists
<1>4. Top(Pop(l)) = l.head + 1
  BY <1>0, <1>1, <1>2, <1>3 DEF Top
<1>5. ASSUME NEW f \in (l.head + 1)..LastFrame
      PROVE  Pop(l).next[f] = IF f < LastFrame THEN f + 1 ELSE NULL
  <2>1. f \in Frames /\ f # l.head /\ f \in Top(l)..LastFrame
    BY <1>0, <1>1
  <2> QED
    BY <1>1, <1>3, <2>1 DEF RestListed
<1> QED
  BY <1>1, <1>3, <1>4, <1>5 DEF RestListed

Walks == [list : Lists(Frames), table : TableSet, at : Pages, returned : BOOLEAN]

LEMMA NewEntryType ==
    ASSUME NEW p \in Pages, NEW i \in 0..3, NEW pa, NEW kind,
           i < 3 \/ kind \in 0..2
    PROVE  NewEntry(p, i, pa, kind) \in Entries
<1>1. MacroOf(i, pa, kind) \in {"NONE", "PGDPUD", "PMD", "KERNEL", "DEVICE", "USER"}
  <2>1. CASE i < 2
    BY <2>1 DEF MacroOf
  <2>2. CASE i = 2
    BY <2>2 DEF MacroOf
  <2>3. CASE i = 3
    <3>1. kind \in 0..2 /\ KindName(kind) \in {"KERNEL", "DEVICE", "USER"}
      BY <2>3 DEF KindName
    <3> QED
      BY <2>3, <3>1 DEF MacroOf
  <2> QED
    BY <2>1, <2>2, <2>3
<1> QED
  BY <1>1 DEF NewEntry, Entries

\* The outcomes of a round.
LEMMA LevelOutcomes ==
    ASSUME NEW w \in Walks, NEW i \in 0..3, NEW va, NEW pa, NEW kind
    PROVE  LET r == Level(w, i, va, pa, kind)
               x == LVL_ADDR(va, i)
               e == w.table[w.at][x]
               f == w.list.head
           IN  /\ r = [list |-> r.list, table |-> r.table, at |-> r.at,
                       returned |-> r.returned]
               /\ r.returned \in BOOLEAN
               /\ w.returned => r = w
               /\ ~w.returned /\ e.set =>
                     /\ r.list = w.list /\ r.table = w.table /\ r.at = e.pa
                     /\ ~r.returned
               /\ ~w.returned /\ ~e.set =>
                     \/ /\ r.list = w.list /\ r.table = w.table /\ r.at = NULL
                        /\ r.returned
                     \/ /\ i = 3 /\ kind \in 0..2 /\ pa # 0
                        /\ r.list = w.list
                        /\ r.table = [w.table EXCEPT ![w.at][x] = NewEntry(pa, i, pa, kind)]
                        /\ r.at = pa /\ r.returned
                     \/ /\ i < 3 \/ kind \in 0..2
                        /\ ~(i = 3 /\ pa # 0)
                        /\ f # NULL
                        /\ r.list = Pop(w.list)
                        /\ r.table = Entered(w.table, f, w.at, x, NewEntry(f, i, pa, kind))
                        /\ r.at = f /\ ~r.returned
<1> DEFINE x == LVL_ADDR(va, i)
           e == w.table[w.at][x]
           f == w.list.head
           known == i < 3 \/ kind \in 0..2
           given == i = 3 /\ pa # 0
           e1 == NewEntry(pa, i, pa, kind)
           e2 == NewEntry(f, i, pa, kind)
           r == Level(w, i, va, pa, kind)
<1>1. r = IF w.returned THEN w
          ELSE IF e.set THEN GoTo(w, e.pa)
          ELSE IF known /\ given THEN Return(SetEntry(w, x, e1), pa)
          ELSE IF known /\ ~given /\ f # NULL THEN GoTo(SetEntry(Allocate(w), x, e2), f)
          ELSE Return(w, NULL)
  BY DEF Level, GET_PAGE_SET
<1> HIDE DEF r, x, e, f, known, given, e1, e2
<1>a. /\ r = [list |-> r.list, table |-> r.table, at |-> r.at, returned |-> r.returned]
      /\ r.returned \in BOOLEAN
  <2>1. \/ r = w \/ r = GoTo(w, e.pa) \/ r = Return(SetEntry(w, x, e1), pa)
        \/ r = GoTo(SetEntry(Allocate(w), x, e2), f) \/ r = Return(w, NULL)
    BY <1>1
  <2> QED
    BY <2>1 DEF Walks, GoTo, Return, SetEntry, Allocate
<1>2. CASE w.returned
  BY <1>a, <1>1, <1>2 DEF r
<1>3. CASE ~w.returned /\ e.set
  <2>1. r = GoTo(w, e.pa)
    BY <1>1, <1>3
  <2> QED
    BY <1>a, <1>3, <2>1 DEF Walks, GoTo, r, x, e
<1>4. CASE ~w.returned /\ ~e.set
  <2>1. CASE known /\ given
    <3>1. r = Return(SetEntry(w, x, e1), pa)
      BY <1>1, <1>4, <2>1
    <3>2. /\ r.list = w.list /\ r.table = [w.table EXCEPT ![w.at][x] = e1]
          /\ r.at = pa /\ r.returned
      BY <3>1 DEF Walks, Return, SetEntry
    <3> QED
      BY <1>a, <1>4, <2>1, <3>2 DEF r, x, e, known, given, e1
  <2>2. CASE known /\ ~given /\ f # NULL
    <3>1. r = GoTo(SetEntry(Allocate(w), x, e2), f)
      BY <1>1, <1>4, <2>2
    <3>2. /\ r.list = Pop(w.list) /\ r.table = Entered(w.table, f, w.at, x, e2)
          /\ r.at = f /\ r.returned = w.returned
      BY <3>1 DEF Walks, GoTo, SetEntry, Allocate, Cleared, Entered, f
    <3> QED
      BY <1>a, <1>4, <2>2, <3>2 DEF r, x, e, known, given, e2, f
  <2>3. CASE ~(known /\ given) /\ ~(known /\ ~given /\ f # NULL)
    <3>1. r = Return(w, NULL)
      BY <1>1, <1>4, <2>3
    <3>2. r.list = w.list /\ r.table = w.table /\ r.at = NULL /\ r.returned
      BY <3>1 DEF Walks, Return
    <3> QED
      BY <1>a, <1>4, <3>2 DEF r, x, e
  <2> QED
    BY <2>1, <2>2, <2>3
<1> QED
  BY <1>2, <1>3, <1>4

LEMMA SameTransitive ==
    ASSUME NEW t, NEW u, NEW z, NEW rt, NEW v, Same(t, u, rt, v), Same(u, z, rt, v)
    PROVE  Same(t, z, rt, v)
  BY Zenon DEF Same

\* Behind an entry that is not set there is nothing.
LEMMA PathEnds ==
    ASSUME NEW t, NEW rt, NEW va, NEW i \in 0..3,
           Hop(t, Path(t, rt, va)[i], LVL_ADDR(va, i)) = NULL
    PROVE  Path(t, rt, va)[4] = NULL
<1>1. i = 0 \/ i = 1 \/ i = 2 \/ i = 3
  OBVIOUS
<1>2. \A x : Hop(t, NULL, x) = NULL
  BY DEF Hop
<1> DEFINE p(j) == Path(t, rt, va)[j]
           x(j) == LVL_ADDR(va, j)
<1>3. /\ p(1) = Hop(t, p(0), x(0)) /\ p(2) = Hop(t, p(1), x(1))
      /\ p(3) = Hop(t, p(2), x(2)) /\ p(4) = Hop(t, p(3), x(3))
      /\ Hop(t, p(i), x(i)) = NULL
  BY PathSteps
<1> HIDE DEF p, x
<1>4. p(4) = NULL
  <2>1. CASE i = 0
    BY <1>2, <1>3, <2>1
  <2>2. CASE i = 1
    BY <1>2, <1>3, <2>2
  <2>3. CASE i = 2
    BY <1>2, <1>3, <2>3
  <2>4. CASE i = 3
    BY <1>3, <2>4
  <2> QED
    BY <1>1, <2>1, <2>2, <2>3, <2>4
<1> QED
  BY <1>4 DEF p

LEMMA PathNext ==
    ASSUME NEW t, NEW rt, NEW va, NEW i \in 0..3
    PROVE  Path(t, rt, va)[i + 1] = Hop(t, Path(t, rt, va)[i], LVL_ADDR(va, i))
<1>1. i = 0 \/ i = 1 \/ i = 2 \/ i = 3
  OBVIOUS
<1> DEFINE p(j) == Path(t, rt, va)[j]
           x(j) == LVL_ADDR(va, j)
<1>2. /\ p(1) = Hop(t, p(0), x(0)) /\ p(2) = Hop(t, p(1), x(1))
      /\ p(3) = Hop(t, p(2), x(2)) /\ p(4) = Hop(t, p(3), x(3))
  BY PathSteps
<1> HIDE DEF p, x
<1>3. p(i + 1) = Hop(t, p(i), x(i))
  <2>1. CASE i = 0
    BY <1>2, <2>1
  <2>2. CASE i = 1
    BY <1>2, <2>2
  <2>3. CASE i = 2
    BY <1>2, <2>3
  <2>4. CASE i = 3
    BY <1>2, <2>4
  <2> QED
    BY <1>1, <2>1, <2>2, <2>3, <2>4
<1> QED
  BY <1>3 DEF p, x

\* After i rounds of get_physical_page that have not come to the page itself:
\* the tables are a tree, every page is mapped as before.
Walked(w, i, va) ==
    /\ w \in Walks
    /\ RestListed(w.list)
    /\ \E lev \in Levelling :
          /\ Tree(w.table, root, Top(w.list), lev)
          /\ ~w.returned => w.at \in Frames /\ lev[w.at] = i
    /\ ~w.returned => Path(w.table, root, va)[i] = w.at
    /\ w.returned => w.at = NULL /\ Path(w.table, root, va)[4] = NULL
    /\ \A v \in Pages : Same(table, w.table, root, v)

LEMMA TopType ==
    ASSUME NEW l \in Lists(Frames) PROVE Top(l) \in Nat
  BY VmemAssumption DEF Top, Lists, Frames, NULL

LEMMA TableRound ==
    ASSUME NEW i \in 0..2, NEW va \in Pages, NEW pa, NEW kind, NEW w,
           Walked(w, i, va)
    PROVE  Walked(Level(w, i, va, pa, kind), i + 1, va)
<1> DEFINE r == Level(w, i, va, pa, kind)
           x == LVL_ADDR(va, i)
           e == w.table[w.at][x]
           f == w.list.head
           n == NewEntry(f, i, pa, kind)
           u == Entered(w.table, f, w.at, x, n)
<1>0. /\ w \in Walks /\ w.list \in Lists(Frames) /\ w.table \in TableSet
      /\ w.returned \in BOOLEAN /\ RestListed(w.list)
      /\ \A v \in Pages : Same(table, w.table, root, v)
      /\ i \in 0..3 /\ x \in Index /\ Frames \subseteq Pages /\ NULL \in Pages
      /\ Top(w.list) \in Nat
  BY IndexType, TopType, VmemAssumption DEF Walked, Walks, Pages, PageCount, NULL
<1>1. /\ r = [list |-> r.list, table |-> r.table, at |-> r.at, returned |-> r.returned]
      /\ r.returned \in BOOLEAN
      /\ w.returned => r = w
      /\ ~w.returned /\ e.set =>
            r.list = w.list /\ r.table = w.table /\ r.at = e.pa /\ ~r.returned
      /\ ~w.returned /\ ~e.set =>
            \/ r.list = w.list /\ r.table = w.table /\ r.at = NULL /\ r.returned
            \/ f # NULL /\ r.list = Pop(w.list) /\ r.table = u /\ r.at = f /\ ~r.returned
  BY <1>0, LevelOutcomes
<1>2. PICK lev \in Levelling :
         /\ Tree(w.table, root, Top(w.list), lev)
         /\ ~w.returned => w.at \in Frames /\ lev[w.at] = i
  BY DEF Walked
<1> HIDE DEF r, x, e, f, n, u
<1>3. CASE w.returned
  <2>1. r = w /\ w.at = NULL /\ Path(w.table, root, va)[4] = NULL
    BY <1>1, <1>3 DEF Walked
  <2> QED
    BY <1>0, <1>2, <1>3, <2>1 DEF Walked, r
<1>4. CASE ~w.returned
  <2>0. /\ w.at \in Frames /\ lev[w.at] = i /\ w.at # NULL
        /\ Path(w.table, root, va)[i] = w.at
        /\ e \in Entries /\ (e.set <=> e.pa # NULL)
        /\ Hop(w.table, w.at, x) = e.pa
        /\ Path(w.table, root, va)[i + 1] = e.pa
    <3>1. w.at \in Frames /\ lev[w.at] = i /\ Path(w.table, root, va)[i] = w.at
      BY <1>2, <1>4 DEF Walked
    <3>2. w.at # NULL
      BY <3>1, VmemAssumption DEF Frames, NULL
    <3>3. e \in Entries /\ (e.set <=> e.pa # NULL)
      BY <1>0, <1>2, <3>1 DEF Tree, TreeOfTables, TableSet, e
    <3>4. Hop(w.table, w.at, x) = e.pa
      BY <3>2 DEF Hop, e
    <3>5. Path(w.table, root, va)[i + 1] = Hop(w.table, w.at, x)
      BY <1>0, <3>1, PathNext DEF x
    <3> QED
      BY <3>1, <3>2, <3>3, <3>4, <3>5
  <2>1. CASE e.set
    <3>1. r.list = w.list /\ r.table = w.table /\ r.at = e.pa /\ ~r.returned
      BY <1>1, <1>4, <2>1
    <3>2. e.pa \in Frames /\ lev[e.pa] = i + 1
      BY <1>0, <1>2, <2>0, <2>1 DEF Tree, TreeOfTables, e
    <3>3. r \in Walks
      BY <1>0, <1>1, <3>1, <3>2 DEF Walks
    <3> QED
      BY <1>0, <1>2, <2>0, <3>1, <3>2, <3>3 DEF Walked, r
  <2>2. CASE ~e.set /\ r.list = w.list /\ r.table = w.table /\ r.at = NULL /\ r.returned
    <3>1. r \in Walks
      BY <1>0, <1>1, <2>2 DEF Walks
    <3>2. Path(w.table, root, va)[4] = NULL
      BY <1>0, <2>0, <2>2, PathEnds DEF x
    <3> QED
      BY <1>0, <1>2, <2>2, <3>1, <3>2 DEF Walked, r
  <2>3. CASE /\ ~e.set /\ f # NULL /\ r.list = Pop(w.list) /\ r.table = u /\ r.at = f
             /\ ~r.returned
    <3>1. /\ f \in Frames /\ Top(w.list) = f
          /\ Pop(w.list) \in Lists(Frames) /\ RestListed(Pop(w.list))
          /\ Top(Pop(w.list)) = f + 1
      BY <1>0, <2>3, PopRest DEF f
    <3>2. n \in Entries /\ n.set = TRUE /\ n.pa = f
      <4>1. f \in Pages /\ i \in 0..3 /\ i < 3
        BY <1>0, <3>1
      <4>2. NewEntry(f, i, pa, kind) \in Entries
        BY <4>1, NewEntryType
      <4>3. n.set = TRUE /\ n.pa = f
        BY DEF n, NewEntry
      <4> QED
        BY <4>2, <4>3 DEF n
    <3>3. Tree(w.table, root, f, lev) /\ w.table[w.at][x].pa = NULL
      BY <1>2, <2>0, <2>3, <3>1 DEF e
    <3> DEFINE lev2 == [lev EXCEPT ![f] = i + 1]
    <3>4. lev2 \in Levelling /\ Tree(u, root, f + 1, lev2)
      BY <1>0, <2>0, <3>1, <3>2, <3>3, AddTable DEF u
    <3>5. w.at # f /\ lev2[f] = i + 1
      <4>1. f \in Nat
        BY <3>1, VmemAssumption DEF Frames
      <4> QED
        BY <2>0, <3>1, <3>3, <4>1 DEF Tree, TreeOfTables, Levelling
    <3>6. u \in TableSet /\ u[w.at][x] = n
      <4>1. w.table \in TableSet /\ w.at \in Frames /\ x \in Index
        BY <1>0, <2>0
      <4>2. IsEntered(u, w.table, f, w.at, x, n)
        BY <3>1, <3>2, <3>5, <4>1, EnteredEntries, Zenon DEF u
      <4> QED
        BY <4>2 DEF IsEntered
    <3>7. ASSUME NEW v \in Pages
          PROVE  /\ \A j \in 0..3 : j <= i => Path(u, root, v)[j] = Path(w.table, root, v)[j]
                 /\ Same(w.table, u, root, v)
      <4>1. TreeOfTables(w.table, root, f, lev)
        BY <3>3 DEF Tree
      <4>2. /\ w.table \in TableSet /\ w.at \in Frames /\ x \in Index /\ lev[w.at] = i
            /\ lev \in Levelling /\ i \in 0..2
        BY <1>0, <2>0
      <4>3. SameDownTo(w.table, u, root, v, i) /\ Same(w.table, u, root, v)
        <5>1. n \in Entries /\ n.pa = f /\ f \in Frames /\ w.table[w.at][x].pa = NULL
          BY <3>1, <3>2, <3>3
        <5> QED
          BY <4>1, <4>2, <5>1, AddTablePaths, Zenon DEF u
      <4> QED
        BY <4>3 DEF SameDownTo
    <3>8. \A v \in Pages : Same(table, u, root, v)
      BY <1>0, <3>7, SameTransitive
    <3>9. Path(u, root, va)[i + 1] = f
      <4>1. Path(u, root, va)[i] = w.at
        BY <1>0, <2>0, <3>7
      <4>2. Path(u, root, va)[i + 1] = Hop(u, w.at, x)
        BY <1>0, <4>1, PathNext DEF x
      <4> QED
        BY <2>0, <3>2, <3>6, <4>2 DEF Hop
    <3>10. r \in Walks
      BY <1>0, <1>1, <2>3, <3>1, <3>6 DEF Walks
    <3> QED
      BY <2>3, <3>1, <3>4, <3>5, <3>8, <3>9, <3>10 DEF Walked, r
  <2> QED
    BY <1>1, <1>4, <2>1, <2>2, <2>3
<1> QED
  BY <1>0, <1>3, <1>4

\* What get_physical_page leaves: a tree in which all pages but va are mapped
\* as before, va too if it was mapped, and its answer is the page of va.
Mapped(w, va, pa) ==
    /\ w.list \in Lists(Frames) /\ w.table \in TableSet /\ w.at \in Pages
    /\ RestListed(w.list)
    /\ \E lev \in Levelling : Tree(w.table, root, Top(w.list), lev)
    /\ \A v \in Pages : v # va \/ Lookup(v) # NULL => Same(table, w.table, root, v)
    /\ w.at = Path(w.table, root, va)[4]
    /\ Lookup(va) = NULL /\ pa # 0 /\ w.at # NULL => w.at = pa

LEMMA LeafRound ==
    ASSUME NEW va \in Pages, NEW pa \in Pages, NEW kind, NEW w,
           Walked(w, 3, va), pa \notin Own
    PROVE  Mapped(Level(w, 3, va, pa, kind), va, pa)
<1> DEFINE r == Level(w, 3, va, pa, kind)
           x == LVL_ADDR(va, 3)
           e == w.table[w.at][x]
           f == w.list.head
           n1 == NewEntry(pa, 3, pa, kind)
           u1 == [w.table EXCEPT ![w.at][x] = n1]
           n2 == NewEntry(f, 3, pa, kind)
           u2 == Entered(w.table, f, w.at, x, n2)
<1> SUFFICES Mapped(r, va, pa)
  OBVIOUS
<1>0. /\ w \in Walks /\ w.list \in Lists(Frames) /\ w.table \in TableSet
      /\ w.returned \in BOOLEAN /\ RestListed(w.list)
      /\ \A v \in Pages : Same(table, w.table, root, v)
      /\ 3 \in 0..3 /\ x \in Index /\ Frames \subseteq Pages
      /\ NULL \in Pages /\ NULL = 0
      /\ Top(w.list) \in Nat
  BY IndexType, TopType, VmemAssumption DEF Walked, Walks, Pages, PageCount, NULL
<1>1. /\ w.returned => r = w
      /\ ~w.returned /\ e.set =>
            r.list = w.list /\ r.table = w.table /\ r.at = e.pa
      /\ ~w.returned /\ ~e.set =>
            \/ r.list = w.list /\ r.table = w.table /\ r.at = NULL
            \/ kind \in 0..2 /\ pa # 0 /\ r.list = w.list /\ r.table = u1 /\ r.at = pa
            \/ /\ kind \in 0..2 /\ pa = 0 /\ f # NULL
               /\ r.list = Pop(w.list) /\ r.table = u2 /\ r.at = f
  <2>1. ~(3 < 3)
    OBVIOUS
  <2> QED
    BY <1>0, <2>1, LevelOutcomes
<1>2. PICK lev \in Levelling :
         /\ Tree(w.table, root, Top(w.list), lev)
         /\ ~w.returned => w.at \in Frames /\ lev[w.at] = 3
  BY DEF Walked
<1>3. TreeOfTables(w.table, root, Top(w.list), lev)
  BY <1>2 DEF Tree
<1>4. Lookup(va) = Path(w.table, root, va)[4]
  BY <1>0 DEF Same, Lookup, Levels
<1> HIDE DEF r, x, e, f, n1, n2, u1, u2
<1>5. ASSUME r.list = w.list, r.table = w.table, r.at = Path(w.table, root, va)[4],
             r.at \in Pages
      PROVE  Mapped(r, va, pa)
  BY <1>0, <1>2, <1>4, <1>5 DEF Mapped
<1>6. CASE w.returned
  <2>1. r = w /\ w.at = NULL /\ Path(w.table, root, va)[4] = NULL
    BY <1>1, <1>6 DEF Walked
  <2> QED
    BY <1>0, <1>5, <2>1
<1>7. CASE ~w.returned
  <2>0. /\ w.at \in Frames /\ lev[w.at] = 3 /\ w.at # NULL
        /\ Path(w.table, root, va)[3] = w.at
        /\ e \in Entries /\ (e.set <=> e.pa # NULL)
        /\ Path(w.table, root, va)[4] = e.pa
    <3>1. w.at \in Frames /\ lev[w.at] = 3 /\ Path(w.table, root, va)[3] = w.at
      BY <1>2, <1>7 DEF Walked
    <3>2. w.at # NULL
      BY <3>1, VmemAssumption DEF Frames, NULL
    <3>3. e \in Entries /\ (e.set <=> e.pa # NULL)
      <4>1. lev[w.at] < 4
        BY <3>1
      <4> QED
        BY <1>0, <1>3, <3>1, <4>1 DEF TreeOfTables, TableSet, e
    <3>4. Hop(w.table, w.at, x) = e.pa
      BY <3>2 DEF Hop, e
    <3>5. Path(w.table, root, va)[4] = Hop(w.table, w.at, x)
      BY <3>1, PathSteps DEF x
    <3> QED
      BY <3>1, <3>2, <3>3, <3>4, <3>5
  <2>1. ASSUME e.set \/ r.at = NULL, r.list = w.list, r.table = w.table,
               IF e.set THEN r.at = e.pa ELSE r.at = NULL
        PROVE  Mapped(r, va, pa)
    <3>1. r.at = e.pa /\ r.at \in Pages
      BY <1>0, <2>0, <2>1 DEF Entries
    <3> QED
      BY <1>5, <2>0, <2>1, <3>1
  \* The table of level 3 gets an entry.
  <2>2. ASSUME ~e.set, NEW u \in TableSet, NEW top2 \in Nat, NEW lev2 \in Levelling,
               Tree(u, root, top2, lev2), r.table = u, Top(r.list) = top2,
               r.list \in Lists(Frames), RestListed(r.list),
               ChangesOnly(w.table, u, lev, w.at, x), u[w.at][x].pa = r.at,
               r.at \in Pages, pa # 0 => r.at = pa
        PROVE  Mapped(r, va, pa)
    <3>0. u[w.at][LVL_ADDR(va, 3)].pa = r.at
      BY <2>2 DEF x
    <3>1. ASSUME NEW v \in Pages PROVE LeafAdded(w.table, u, root, w.at, va, v)
      <4>1. w.table[w.at][LVL_ADDR(va, 3)].pa = NULL
        BY <2>0, <2>2 DEF e, x
      <4>2. ChangesOnly(w.table, u, lev, w.at, LVL_ADDR(va, 3))
        BY <2>2 DEF x
      <4> QED
        BY <1>0, <1>3, <2>0, <4>1, <4>2, AddLeafPaths
    <3>2. ASSUME NEW v \in Pages, v # va \/ Lookup(v) # NULL
          PROVE  Same(table, u, root, v)
      <4>1. Same(table, w.table, root, v)
        BY <1>0
      <4>2. v # va
        BY <1>4, <3>1, <3>2 DEF LeafAdded
      <4>3. Same(w.table, u, root, v)
        BY <3>1, <4>2, Zenon DEF LeafAdded, Same
      <4> QED
        BY <4>1, <4>3, SameTransitive
    <3>3. Path(u, root, va)[4] = r.at
      BY <3>0, <3>1, Zenon DEF LeafAdded
    <3> QED
      BY <2>2, <3>2, <3>3 DEF Mapped
  <2>3. CASE /\ ~e.set /\ kind \in 0..2 /\ pa # 0
             /\ r.list = w.list /\ r.table = u1 /\ r.at = pa
    <3>1. n1 \in Entries
      BY <2>3, NewEntryType DEF n1
    <3>2. n1.set = TRUE /\ n1.pa = pa /\ n1.pa # NULL
      BY <1>0, <2>3 DEF n1, NewEntry
    <3>3. /\ u1 \in TableSet /\ u1[w.at][x] = n1
          /\ \A g \in Frames, y \in Index :
                g # w.at \/ y # x => u1[g][y] = w.table[g][y]
          /\ Tree(u1, root, Top(w.list), lev)
      BY <1>0, <1>2, <2>0, <3>1, <3>2, GivenLeaf DEF u1
    <3>4. ChangesOnly(w.table, u1, lev, w.at, x)
      BY <3>3 DEF ChangesOnly
    <3> QED
      BY <1>0, <2>2, <2>3, <3>2, <3>3, <3>4
  <2>4. CASE /\ ~e.set /\ kind \in 0..2 /\ pa = 0 /\ f # NULL
             /\ r.list = Pop(w.list) /\ r.table = u2 /\ r.at = f
    <3>1. /\ f \in Frames /\ Top(w.list) = f
          /\ Pop(w.list) \in Lists(Frames) /\ RestListed(Pop(w.list))
          /\ Top(Pop(w.list)) = f + 1
      BY <1>0, <2>4, PopRest DEF f
    <3>2. f \in Pages /\ f + 1 \in Nat
      BY <1>0, <3>1 DEF Pages
    <3>3. NewEntry(f, 3, pa, kind) \in Entries
      BY <2>4, <3>2, NewEntryType
    <3>4. n2 \in Entries /\ n2.set = TRUE /\ n2.pa = f
      BY <3>3 DEF n2, NewEntry
    <3>5. Tree(w.table, root, f, lev)
      BY <1>2, <3>1
    <3> DEFINE lev2 == [lev EXCEPT ![f] = 4]
    <3>6. /\ w.at # f /\ \A g \in Frames : lev[g] < 4 => g # f
          /\ lev2 \in Levelling /\ Tree(u2, root, f + 1, lev2)
      <4>1. /\ w.table \in TableSet /\ w.at \in Frames /\ x \in Index /\ lev[w.at] = 3
            /\ lev \in Levelling
        BY <1>0, <2>0
      <4> QED
        BY <3>1, <3>4, <3>5, <4>1, FrameLeaf, Zenon DEF u2
    <3>7. /\ u2 \in TableSet /\ u2[w.at][x] = n2
          /\ \A g \in Frames \ {f}, y \in Index :
                g # w.at \/ y # x => u2[g][y] = w.table[g][y]
      <4>1. w.table \in TableSet /\ w.at \in Frames /\ x \in Index
        BY <1>0, <2>0
      <4>2. IsEntered(u2, w.table, f, w.at, x, n2)
        BY <3>1, <3>4, <3>6, <4>1, EnteredEntries, Zenon DEF u2
      <4> QED
        BY <4>2 DEF IsEntered
    <3>8. ChangesOnly(w.table, u2, lev, w.at, x)
      BY <3>6, <3>7 DEF ChangesOnly
    <3> HIDE DEF lev2
    <3> QED
      BY <2>2, <2>4, <3>1, <3>2, <3>4, <3>6, <3>7, <3>8
  <2> QED
    BY <1>1, <1>7, <2>1, <2>3, <2>4
<1> QED
  BY <1>0, <1>6, <1>7

\* The tables are a tree.
Treed == \E lev \in Levelling : Tree(table, root, Top(list), lev)

LEMMA GetPage ==
    ASSUME list \in Lists(Frames), table \in TableSet, root \in Frames,
           RestListed(list), Treed,
           NEW va \in Pages, NEW pa \in Pages, NEW kind,
           pa \notin Own
    PROVE  Mapped(get_physical_page(va, pa, kind), va, pa)
<1> DEFINE w0 == [list |-> list, table |-> table, at |-> root, returned |-> FALSE]
           w1 == Level(w0, 0, va, pa, kind)
           w2 == Level(w1, 1, va, pa, kind)
           w3 == Level(w2, 2, va, pa, kind)
<1>1. Walked(w0, 0, va)
  <2>1. w0 \in Walks
    BY VmemAssumption DEF Walks
  <2>2. w0.list = list /\ w0.table = table /\ w0.at = root /\ ~w0.returned
    OBVIOUS
  <2>3. PICK lev \in Levelling : Tree(table, root, Top(list), lev)
    BY DEF Treed
  <2>4. lev[root] = 0
    BY <2>3 DEF Tree, TreeOfTables
  <2>5. Path(table, root, va)[0] = root
    BY PathSteps
  <2>6. \A v \in Pages : Same(table, table, root, v)
    BY DEF Same
  <2> HIDE DEF w0
  <2> QED
    BY <2>1, <2>2, <2>3, <2>4, <2>5, <2>6 DEF Walked
<1> HIDE DEF w0
<1>2. Walked(w1, 1, va)
  BY <1>1, TableRound
<1> HIDE DEF w1
<1>3. Walked(w2, 2, va)
  BY <1>2, TableRound
<1> HIDE DEF w2
<1>4. Walked(w3, 3, va)
  BY <1>3, TableRound
<1> HIDE DEF w3
<1>5. Mapped(Level(w3, 3, va, pa, kind), va, pa)
  BY <1>4, LeafRound
<1> QED
  BY <1>5, Zenon DEF get_physical_page, w0, w1, w2, w3

-----------------------------------------------------------------------------
(* The inductive invariant. *)

JobInv ==
    job.op = "map" =>
        /\ job.start <= job.va /\ job.va <= job.end /\ job.end <= PageCount
        /\ job.pa + (job.end - job.va) <= PageCount
        /\ Apart(job.va, job.end, job.pa)

\* List and tables fit together; a region that is being mapped stays within
\* the address space.
TreeInv ==
    /\ TypeOK
    /\ RestListed(list)
    /\ root = NULL => boot \in {"start", "failed"} /\ job.op = "idle"
    /\ root # NULL => boot # "start" /\ Treed
    /\ JobInv

VmemInv == TreeInv /\ RegionInPlace /\ RegionOnly

LEMMA PageNumbers ==
    /\ PageCount \in Nat \ {0} /\ Pages = 0..(PageCount - 1)
    /\ Frames \subseteq Pages /\ Frames \subseteq Nat \ {0} /\ NULL \notin Frames
    /\ Own \subseteq Frames /\ NULL = 0 /\ NULL \in Pages
<1>1. \A m, n \in Nat \ {0} : m * n \in Nat \ {0}
  OBVIOUS
<1>2. PageCount \in Nat \ {0}
  BY <1>1, VmemAssumption, Zenon DEF PageCount
<1> QED
  BY <1>2, VmemAssumption DEF Pages, Frames, NULL, Own

LEMMA LookupType ==
    ASSUME table \in TableSet, root \in Frames \cup {NULL}, list \in Lists(Frames),
           root # NULL => Treed, NEW va \in Pages
    PROVE  Lookup(va) \in Pages /\ (root = NULL => Lookup(va) = NULL)
<1>1. CASE root = NULL
  <2>1. Hop(table, Path(table, root, va)[0], LVL_ADDR(va, 0)) = NULL
    BY <1>1, PathSteps DEF Hop
  <2>2. Path(table, root, va)[4] = NULL
    BY <2>1, PathEnds
  <2> QED
    BY <1>1, <2>2, PageNumbers DEF Lookup, Levels
<1>2. CASE root # NULL
  <2>1. PICK lev \in Levelling : TreeOfTables(table, root, Top(list), lev)
    BY <1>2 DEF Treed, Tree
  <2>2. Top(list) \in Nat
    BY TopType
  <2> QED
    BY <1>2, <2>1, <2>2, PathLevels DEF Lookup, Levels
<1> QED
  BY <1>1, <1>2

LEMMA InitVmemInv == Init => VmemInv
<1> SUFFICES ASSUME Init PROVE VmemInv
  OBVIOUS
<1>0. Idle \in [op : Ops, start : Nat, end : Nat, va : Nat, pa : Nat, kind : 0..3]
  BY DEF Idle, Ops
<1>1. list \in Lists(Frames) /\ RestListed(list)
  <2>0. /\ FirstFrame \in Nat \ {0} /\ LastFrame \in Nat /\ NULL = 0
        /\ Frames = FirstFrame..LastFrame
    BY VmemAssumption DEF NULL, Frames
  <2>1. CASE list = [head |-> NULL, next |-> [f \in Frames \cup {NULL} |-> NULL]]
    BY <2>0, <2>1 DEF Lists, RestListed, Top
  <2>2. ASSUME NEW first \in Frames, list = Chain(Frames, first, LastFrame)
        PROVE  list \in Lists(Frames) /\ RestListed(list)
    <3>1. /\ list.head = first
          /\ list = [head |-> list.head, next |-> list.next]
          /\ list.next = [f \in Frames \cup {NULL} |->
                             IF f # NULL /\ f < LastFrame THEN f + 1 ELSE NULL]
      BY <2>2 DEF Chain
    <3>2. list.next \in [Frames \cup {NULL} -> Frames \cup {NULL}]
      BY <2>0, <3>1
    <3>3. Top(list) = first
      BY <2>0, <3>1 DEF Top
    <3>4. RestListed(list)
      BY <2>0, <3>1, <3>3 DEF RestListed
    <3> QED
      BY <3>1, <3>2, <3>4 DEF Lists
  <2> QED
    BY <2>1, <2>2 DEF Init
<1>2. table \in TableSet
  BY VmemAssumption DEF Init, TableSet, Entries
<1>3. was \in [Pages -> Pages]
  BY PageNumbers DEF Init
<1>4. TypeOK
  BY <1>0, <1>1, <1>2, <1>3 DEF Init, TypeOK, TableSet
<1> QED
  BY <1>1, <1>4 DEF Init, VmemInv, TreeInv, JobInv, RegionInPlace, RegionOnly, Idle

\* A step with a call of get_physical_page.
LEMMA PageStep ==
    ASSUME TreeInv, root # NULL, NEW va \in Pages, NEW pa \in Pages, NEW kind,
           pa \notin Own,
           list' = get_physical_page(va, pa, kind).list,
           table' = get_physical_page(va, pa, kind).table, root' = root
    PROVE  /\ list' \in Lists(Frames) /\ table' \in TableSet
           /\ RestListed(list)' /\ Treed'
           /\ get_physical_page(va, pa, kind).at \in Pages
           /\ get_physical_page(va, pa, kind).at = Lookup(va)'
           /\ \A v \in Pages : v # va \/ Lookup(v) # NULL =>
                 /\ Lookup(v)' = Lookup(v)
                 /\ Lookup(v) # NULL => Leaf(v)' = Leaf(v)
           /\ Lookup(va) = NULL /\ pa # 0 /\ Lookup(va)' # NULL => Lookup(va)' = pa
<1> DEFINE w == get_physical_page(va, pa, kind)
<1>1. Mapped(w, va, pa)
  <2>1. /\ list \in Lists(Frames) /\ table \in TableSet /\ root \in Frames
        /\ RestListed(list) /\ Treed
    BY DEF TreeInv, TypeOK, TableSet
  <2> QED
    BY <2>1, GetPage
<1> HIDE DEF w
<1>2. /\ list' \in Lists(Frames) /\ table' \in TableSet /\ w.at \in Pages
      /\ RestListed(list') /\ w.at = Path(table', root', va)[4]
      /\ \A v \in Pages : v # va \/ Lookup(v) # NULL => Same(table, table', root, v)
      /\ Lookup(va) = NULL /\ pa # 0 /\ w.at # NULL => w.at = pa
  BY <1>1 DEF Mapped, w
<1>3. Treed'
  <2>1. \E lev \in Levelling : Tree(table', root', Top(list'), lev)
    BY <1>1 DEF Mapped, w
  <2> QED
    BY <2>1 DEF Treed
<1>4. w.at = Lookup(va)'
  BY <1>2 DEF Lookup, Levels
<1>5. ASSUME NEW v \in Pages, v # va \/ Lookup(v) # NULL
      PROVE  Lookup(v)' = Lookup(v) /\ (Lookup(v) # NULL => Leaf(v)' = Leaf(v))
  <2>1. Same(table, table', root, v)
    BY <1>2, <1>5
  <2>2. /\ Path(table', root', v)[4] = Path(table, root, v)[4]
        /\ Path(table, root, v)[4] # NULL =>
              /\ Path(table', root', v)[3] = Path(table, root, v)[3]
              /\ table'[Path(table, root, v)[3]][LVL_ADDR(v, 3)] =
                    table[Path(table, root, v)[3]][LVL_ADDR(v, 3)]
    BY <2>1, Zenon DEF Same
  <2> QED
    BY <2>2, Zenon DEF Lookup, Levels, Leaf
<1> QED
  BY <1>2, <1>3, <1>4, <1>5 DEF w

\* free_page only resets entries and puts page 0 on the list.
LEMMA Reset ==
    ASSUME NEW t \in TableSet, NEW u \in TableSet, NEW rt, NEW top \in Nat,
           NEW top2 \in Nat, top <= top2, NEW lev \in Levelling,
           Tree(t, rt, top, lev),
           \A f \in Frames, x \in Index : u[f][x] = Unset \/ u[f][x] = t[f][x]
    PROVE  Tree(u, rt, top2, lev)
<1>0. Unset.set = FALSE /\ Unset.pa = NULL /\ NULL \notin Frames /\ Frames \subseteq Nat
      /\ Own \subseteq Frames
  BY PageNumbers DEF Unset, NULL
<1>1. TreeOfTables(u, rt, top2, lev)
  <2>1. /\ rt \in Frames /\ lev[rt] = 0
        /\ \A f \in Frames : lev[f] < 4 => f < top2
    BY <1>0 DEF Tree, TreeOfTables
  <2>2. \A f \in Frames, x \in Index : lev[f] < 4 => (u[f][x].set <=> u[f][x].pa # NULL)
    BY <1>0 DEF Tree, TreeOfTables
  <2>3. ASSUME NEW f \in Frames, NEW x \in Index, lev[f] < 3, u[f][x].pa # NULL
        PROVE  u[f][x] = t[f][x]
    BY <1>0, <2>3
  <2>4. \A f \in Frames, x \in Index :
           lev[f] < 3 /\ u[f][x].pa # NULL =>
              u[f][x].pa \in Frames /\ lev[u[f][x].pa] = lev[f] + 1
    BY <2>3 DEF Tree, TreeOfTables
  <2>5. ASSUME NEW f \in Frames, NEW g \in Frames, NEW x \in Index, NEW y \in Index,
               lev[f] < 3, lev[g] < 3, u[f][x].pa = u[g][y].pa, u[f][x].pa # NULL
        PROVE  f = g /\ x = y
    <3>1. u[f][x] = t[f][x] /\ u[g][y] = t[g][y]
      BY <2>3, <2>5
    <3> QED
      BY <2>5, <3>1 DEF Tree, TreeOfTables
  <2> QED
    BY <2>1, <2>2, <2>4, <2>5 DEF TreeOfTables
<1>2. LeavesApart(u, top2, lev)
  <2>0. LeavesApart(t, top, lev)
    BY DEF Tree
  <2>1. ASSUME NEW f \in Frames, NEW x \in Index, u[f][x].pa \in Own
        PROVE  u[f][x] = t[f][x]
    BY <1>0, <2>1
  <2>2. ASSUME NEW f \in Frames, NEW x \in Index, lev[f] = 3, u[f][x].pa \in Own
        PROVE  lev[u[f][x].pa] = 4 /\ u[f][x].pa < top2
    <3>1. u[f][x] = t[f][x]
      BY <2>1, <2>2
    <3>2. lev[t[f][x].pa] = 4 /\ t[f][x].pa < top /\ t[f][x].pa \in Nat
      BY <1>0, <2>0, <2>2, <3>1 DEF LeavesApart
    <3> QED
      BY <3>1, <3>2
  <2>3. ASSUME NEW f \in Frames, NEW g \in Frames, NEW x \in Index, NEW y \in Index,
               lev[f] = 3, lev[g] = 3, u[f][x].pa = u[g][y].pa, u[f][x].pa \in Own
        PROVE  f = g /\ x = y
    <3>1. u[f][x] = t[f][x] /\ u[g][y] = t[g][y]
      BY <2>1, <2>3
    <3> QED
      BY <2>0, <2>3, <3>1 DEF LeavesApart
  <2> QED
    BY <2>2, <2>3 DEF LeavesApart
<1> QED
  BY <1>1, <1>2 DEF Tree

\* Page 0 in front of the list cuts it off.
LEMMA PushNull ==
    ASSUME NEW l \in Lists(Frames)
    PROVE  /\ Push(l, NULL) \in Lists(Frames) /\ RestListed(Push(l, NULL))
           /\ Top(Push(l, NULL)) = LastFrame + 1
           /\ Top(l) <= LastFrame + 1
<1>0. LastFrame \in Nat /\ Frames = FirstFrame..LastFrame /\ FirstFrame \in Nat \ {0}
  BY VmemAssumption DEF Frames
<1>1. Push(l, NULL) \in Lists(Frames) /\ Push(l, NULL).head = NULL
  BY DEF Push, Lists
<1> QED
  BY <1>0, <1>1 DEF RestListed, Top, Lists

JobSet == [op : Ops, start : Nat, end : Nat, va : Nat, pa : Nat, kind : 0..3]

BootSet == {"start", "kernel", "mmio", "ready", "failed", "stuck"}

\* A loop of map_region starts.
LEMMA BeginStep ==
    ASSUME VmemInv, NEW start, NEW end, NEW pa, NEW kind \in 0..3,
           IsRegion(start, end, pa), Apart(start, end, pa),
           UNCHANGED <<list, table, root>>, root # NULL,
           Begin(start, end, pa, kind), boot' \in BootSet \ {"start"}
    PROVE  VmemInv'
<1>1. /\ list' \in Lists(Frames) /\ table' \in TableSet /\ root' \in Frames \cup {NULL}
      /\ RestListed(list)' /\ Treed'
  BY DEF VmemInv, TreeInv, TypeOK, TableSet, Treed
<1>2. job' = [op |-> "map", start |-> start, end |-> end, va |-> start, pa |-> pa,
              kind |-> kind]
  BY DEF Begin, Job
<1>3. job' \in JobSet /\ JobInv'
  BY <1>2 DEF JobSet, Ops, JobInv, IsRegion
<1>4. was' = [v \in Pages |-> Lookup(v)] /\ was' \in [Pages -> Pages]
  <2>1. /\ table \in TableSet /\ root \in Frames \cup {NULL} /\ list \in Lists(Frames)
        /\ Treed
    BY DEF VmemInv, TreeInv, TypeOK, TableSet
  <2>2. \A v \in Pages : Lookup(v) \in Pages
    BY <2>1, LookupType
  <2>3. was' = [v \in Pages |-> Lookup(v)]
    BY DEF Begin
  <2> QED
    BY <2>2, <2>3
<1>5. \A v \in Pages : Lookup(v)' = Lookup(v)
  BY DEF Lookup, Levels
<1>6. RegionOnly'
  BY <1>4, <1>5 DEF RegionOnly
<1>7. RegionInPlace'
  BY <1>2 DEF RegionInPlace, IsRegion
<1>8. TypeOK'
  BY <1>1, <1>3, <1>4 DEF TypeOK, TableSet, JobSet, BootSet
<1> QED
  BY <1>1, <1>3, <1>6, <1>7, <1>8 DEF VmemInv, TreeInv, BootSet

\* No region is being mapped after the step.
LEMMA OtherStep ==
    ASSUME VmemInv, list' \in Lists(Frames), table' \in TableSet, RestListed(list)',
           root' = root, was' = was, root # NULL => Treed',
           job' \in JobSet, job'.op # "map", boot' \in BootSet,
           root = NULL => boot' \in {"start", "failed"} /\ job'.op = "idle",
           root # NULL => boot' # "start"
    PROVE  VmemInv'
<1>1. TypeOK'
  BY DEF VmemInv, TreeInv, TypeOK, TableSet, JobSet, BootSet
<1> QED
  BY <1>1 DEF VmemInv, TreeInv, JobInv, RegionInPlace, RegionOnly

\* The first table.
LEMMA RootStep == VmemInv /\ make_kpagetable => VmemInv'
<1> SUFFICES ASSUME VmemInv, make_kpagetable PROVE VmemInv'
  OBVIOUS
<1> DEFINE f == list.head
           lev == [g \in Frames |-> IF g = f THEN 0 ELSE 5]
<1>1. /\ boot = "start" /\ f # NULL /\ root' = f /\ list' = Pop(list)
      /\ table' = Cleared(table, f) /\ boot' = "kernel"
      /\ Begin(KernelPages[1], KernelPages[2], KernelPages[1], 0)
      /\ root = NULL
  BY DEF make_kpagetable, VmemInv, TreeInv
<1>2. list \in Lists(Frames) /\ table \in TableSet /\ RestListed(list)
  BY DEF VmemInv, TreeInv, TypeOK, TableSet
<1>3. /\ f \in Frames /\ list' \in Lists(Frames) /\ RestListed(list') /\ Top(list') = f + 1
  BY <1>1, <1>2, PopRest
<1>4. Unset \in Entries /\ Unset.set = FALSE /\ Unset.pa = NULL
  BY PageNumbers DEF Unset, Entries, NULL
<1>5. table' \in TableSet /\ \A x \in Index : table'[f][x] = Unset
  BY <1>1, <1>2, <1>3, <1>4 DEF Cleared, EmptyTable, TableSet
<1>6. Treed'
  <2>1. lev \in Levelling /\ \A g \in Frames : lev[g] < 4 => g = f
    BY DEF Levelling
  <2>2. f \in Nat
    BY <1>3, PageNumbers
  <2>3. lev[f] = 0 /\ \A g \in Frames : lev[g] # 3
    BY <1>3
  <2> HIDE DEF lev, f
  <2>4. TreeOfTables(table', root', f + 1, lev)
    <3>1. \A g \in Frames : lev[g] < 3 => g = f
      BY <2>1 DEF Levelling
    <3> QED
      BY <1>1, <1>3, <1>4, <1>5, <2>1, <2>2, <2>3, <3>1 DEF TreeOfTables
  <2>5. LeavesApart(table', f + 1, lev)
    BY <2>3 DEF LeavesApart
  <2>6. Tree(table', root', Top(list'), lev)
    BY <1>3, <2>4, <2>5 DEF Tree
  <2> QED
    BY <2>1, <2>6 DEF Treed
<1>7. ASSUME NEW v \in Pages PROVE Lookup(v) = NULL /\ Lookup(v)' = NULL
  <2>1. Lookup(v) = NULL
    BY <1>1, <1>2, LookupType
  <2>2. Path(table', root', v)[0] = f /\ LVL_ADDR(v, 0) \in Index
    BY <1>1, PathSteps, IndexType
  <2>3. Hop(table', Path(table', root', v)[0], LVL_ADDR(v, 0)) = NULL
    BY <1>4, <1>5, <2>2 DEF Hop
  <2>4. Path(table', root', v)[4] = NULL
    BY <2>3, PathEnds
  <2> QED
    BY <2>1, <2>4 DEF Lookup, Levels
<1> DEFINE start == KernelPages[1]
           end == KernelPages[2]
<1>8. IsRegion(start, end, start) /\ Apart(start, end, start)
  BY VmemAssumption, RegionsApart
<1>9. job' = [op |-> "map", start |-> start, end |-> end, va |-> start, pa |-> start,
              kind |-> 0]
  BY <1>1 DEF Begin, Job
<1> HIDE DEF start, end
<1>10. job' \in JobSet /\ JobInv'
  BY <1>8, <1>9 DEF JobSet, Ops, JobInv, IsRegion
<1>11. was' = [v \in Pages |-> NULL] /\ was' \in [Pages -> Pages]
  BY <1>1, <1>7, PageNumbers DEF Begin
<1>12. RegionOnly'
  BY <1>7, <1>11 DEF RegionOnly
<1>13. RegionInPlace'
  BY <1>8, <1>9 DEF RegionInPlace, IsRegion
<1>14. TypeOK'
  BY <1>1, <1>3, <1>5, <1>10, <1>11 DEF TypeOK, TableSet, JobSet
<1>15. root' # NULL
  BY <1>1
<1> QED
  BY <1>1, <1>3, <1>6, <1>10, <1>12, <1>13, <1>14, <1>15 DEF VmemInv, TreeInv

\* The page that the loop of map_region is at.
LEMMA MapPlace ==
    ASSUME TreeInv, job \in JobSet, job.op = "map", job.va < job.end
    PROVE  /\ job.va \in Pages /\ job.pa \in Pages
           /\ job.pa \notin Own
<1>1. /\ job.end \in Nat /\ job.va \in Nat /\ job.pa \in Nat
      /\ job.va <= job.end /\ job.end <= PageCount
      /\ job.pa + (job.end - job.va) <= PageCount
      /\ Apart(job.va, job.end, job.pa)
      /\ PageCount \in Nat
  BY PageNumbers DEF TreeInv, JobInv, JobSet
<1>2. job.va \in Pages /\ job.pa \in Pages
  <2>1. job.va < PageCount /\ job.pa < PageCount
    BY <1>1
  <2>2. \A n \in Nat : n < PageCount => n \in Pages
    BY PageNumbers
  <2> QED
    BY <1>1, <2>1, <2>2
<1>3. job.pa \in job.pa..(job.pa + (job.end - job.va) - 1)
  BY <1>1
<1> QED
  BY <1>1, <1>2, <1>3 DEF Apart, Span

\* A page of a region.
LEMMA MapStep == VmemInv /\ map_page => VmemInv'
<1> SUFFICES ASSUME VmemInv, map_page PROVE VmemInv'
  OBVIOUS
<1>0. /\ TreeInv /\ root # NULL /\ root \in Frames \cup {NULL} /\ Treed /\ boot # "start"
      /\ job.op = "map" /\ boot \in BootSet /\ was \in [Pages -> Pages]
      /\ job \in JobSet /\ job.va < job.end
  BY DEF map_page, VmemInv, TreeInv, TypeOK, BootSet, JobSet
<1>2. /\ job.start \in Nat /\ job.end \in Nat /\ job.va \in Nat /\ job.pa \in Nat
      /\ job.start <= job.va /\ job.va <= job.end /\ job.end <= PageCount
      /\ job.pa + (job.end - job.va) <= PageCount
      /\ Apart(job.va, job.end, job.pa)
      /\ PageCount \in Nat
  BY <1>0, PageNumbers DEF TreeInv, JobInv, JobSet
<1>3. /\ job.va \in Pages /\ job.pa \in Pages
      /\ job.pa \notin Own
  BY <1>0, MapPlace
<1>a. PICK va \in Pages, pa \in Pages, kind \in 0..3, start \in Nat, end \in Nat :
         /\ job = [op |-> "map", start |-> start, end |-> end, va |-> va, pa |-> pa,
                   kind |-> kind]
         /\ va = job.va /\ pa = job.pa /\ kind = job.kind
         /\ start = job.start /\ end = job.end
  BY <1>0, <1>3 DEF JobSet
<1> DEFINE w == get_physical_page(va, pa, kind)
<1>1. /\ list' = w.list /\ table' = w.table /\ UNCHANGED <<root, boot, was>>
      /\ w.at # NULL => job' = NextPage(job)
      /\ w.at = NULL => job' = [job EXCEPT !.op = "unmap", !.va = job.start, !.end = job.va]
  BY <1>a DEF map_page
<1>b. /\ va \in Nat /\ pa \in Nat /\ start <= va /\ va < end /\ end <= PageCount
      /\ pa + (end - va) <= PageCount
      /\ Apart(va, end, pa) /\ pa \notin Own
  BY <1>a, <1>0, <1>2, <1>3
<1>4. /\ list' \in Lists(Frames) /\ table' \in TableSet
      /\ RestListed(list)' /\ Treed'
      /\ w.at = Lookup(va)'
      /\ \A v \in Pages : v # va \/ Lookup(v) # NULL =>
            /\ Lookup(v)' = Lookup(v)
            /\ Lookup(v) # NULL => Leaf(v)' = Leaf(v)
      /\ Lookup(va) = NULL /\ pa # 0 /\ Lookup(va)' # NULL => Lookup(va)' = pa
  <2>1. /\ root' = root /\ list' = w.list /\ table' = w.table
        /\ pa \notin Own
    BY <1>1, <1>b
  <2> QED
    BY <1>0, <2>1, PageStep
<1> HIDE DEF w
<1>5. CASE w.at = NULL
  <2>1. job' = [job EXCEPT !.op = "unmap", !.va = job.start, !.end = job.va]
    BY <1>1, <1>5
  <2>2. job' \in JobSet /\ job'.op = "unmap"
    BY <1>0, <2>1 DEF JobSet, Ops
  <2> QED
    BY <1>0, <1>1, <1>4, <2>2, OtherStep
<1>6. CASE w.at # NULL
  <2>1. job' = [op |-> "map", start |-> start, end |-> end, va |-> va + 1, pa |-> pa + 1,
                kind |-> kind]
    BY <1>1, <1>6, <1>a DEF NextPage
  <2>2. job' \in JobSet
    BY <1>b, <2>1 DEF JobSet, Ops
  <2>3. JobInv'
    <3>1. Apart(va + 1, end, pa + 1)
      BY <1>b, <1>2 DEF Apart, Span
    <3> QED
      BY <1>2, <1>b, <2>1, <3>1 DEF JobInv
  <2>4. ASSUME NEW v \in Pages, v \notin start..(va - 1)
        PROVE  Lookup(v) = was[v]
    BY <1>0, <1>a, <2>4 DEF VmemInv, RegionOnly
  <2>5. RegionOnly'
    <3>1. ASSUME NEW v \in Pages, v \notin start..va PROVE Lookup(v)' = was[v]
      <4>1. v # va /\ v \notin start..(va - 1)
        BY <1>b, <3>1
      <4> QED
        BY <1>4, <2>4, <4>1
    <3>2. (va + 1) - 1 = va
      BY <1>b
    <3>3. \A v \in Pages \ (job'.start..(job'.va - 1)) : Lookup(v)' = was'[v]
      BY <1>1, <2>1, <3>1, <3>2
    <3> QED
      BY <3>3 DEF RegionOnly
  <2>6. RegionInPlace'
    <3> DEFINE In(v, p, look) ==
                  look = IF was[v] # NULL THEN was[v] ELSE IF p # 0 THEN p ELSE look
    <3>1. ASSUME NEW v \in start..(va - 1)
          PROVE  In(v, pa - (va - v), Lookup(v)')
      <4>1. v \in Pages /\ v # va
        BY <1>b, <3>1, PageNumbers
      <4>2. Lookup(v)' = Lookup(v)
        BY <1>4, <4>1
      <4>3. In(v, pa - (va - v), Lookup(v))
        BY <1>0, <1>a, <3>1, Zenon DEF VmemInv, RegionInPlace
      <4> QED
        BY <4>2, <4>3
    <3>2. In(va, pa, Lookup(va)')
      <4>1. Lookup(va) = was[va]
        BY <1>b, <2>4
      <4>2. CASE Lookup(va) # NULL
        BY <1>4, <4>1, <4>2
      <4>3. CASE Lookup(va) = NULL
        BY <1>4, <1>6, <4>1, <4>3
      <4> QED
        BY <4>2, <4>3
    <3> HIDE DEF In
    <3>3. ASSUME NEW v \in start..va
          PROVE  In(v, (pa + 1) - ((va + 1) - v), Lookup(v)')
      <4>1. (pa + 1) - ((va + 1) - v) = pa - (va - v)
        BY <1>b, <3>3
      <4>2. CASE v = va
        <5>1. pa - (va - v) = pa
          BY <1>b, <4>2
        <5> QED
          BY <3>2, <4>1, <4>2, <5>1, Zenon
      <4>3. CASE v # va
        <5>1. v \in start..(va - 1)
          BY <1>b, <3>3, <4>3
        <5> QED
          BY <3>1, <4>1, <5>1
      <4> QED
        BY <4>2, <4>3
    <3>4. (va + 1) - 1 = va
      BY <1>b
    <3>5. \A v \in job'.start..(job'.va - 1) :
             In(v, job'.pa - (job'.va - v), Lookup(v)')
      BY <2>1, <3>3, <3>4
    <3>6. was' = was
      BY <1>1
    <3> QED
      BY <3>5, <3>6, Zenon DEF RegionInPlace, In
  <2>7. TypeOK'
    BY <1>0, <1>1, <1>4, <2>2 DEF TypeOK, TableSet, JobSet, BootSet
  <2> QED
    BY <1>0, <1>1, <1>4, <2>3, <2>5, <2>6, <2>7 DEF VmemInv, TreeInv
<1> QED
  BY <1>5, <1>6

\* unmap_region.
LEMMA FreeStep == VmemInv /\ free_page => VmemInv'
<1> SUFFICES ASSUME VmemInv, free_page PROVE VmemInv'
  OBVIOUS
<1>0. /\ TreeInv /\ root # NULL /\ root \in Frames \cup {NULL} /\ Treed
      /\ list \in Lists(Frames) /\ table \in TableSet /\ RestListed(list)
      /\ job.op = "unmap" /\ job \in JobSet /\ boot \in BootSet /\ boot # "start"
      /\ UNCHANGED <<root, was>>
  BY DEF free_page, VmemInv, TreeInv, TypeOK, TableSet, JobSet, BootSet
<1>1. [job EXCEPT !.va = @ + 1] \in JobSet /\ [job EXCEPT !.va = @ + 1].op = "unmap"
  BY <1>0 DEF JobSet
<1>2. CASE UNCHANGED <<list, table>> /\ boot' \in {boot, "stuck"} /\
           job' \in {job, [job EXCEPT !.va = @ + 1]}
  <2>1. list' \in Lists(Frames) /\ table' \in TableSet /\ RestListed(list)' /\ Treed'
    BY <1>0, <1>2 DEF Treed
  <2>2. job' \in JobSet /\ job'.op = "unmap" /\ boot' \in BootSet /\ boot' # "start"
    BY <1>0, <1>1, <1>2 DEF BootSet
  <2> QED
    BY <1>0, <2>1, <2>2, OtherStep
<1>3. CASE /\ job' = [job EXCEPT !.va = @ + 1] /\ boot' = boot
           /\ table' = [f \in Frames |-> [x \in Index |->
                 IF \E i \in Resets(job.va) : /\ f = Levels(job.va)[i]
                                              /\ x = LVL_ADDR(job.va, i)
                 THEN Unset ELSE table[f][x]]]
           /\ list' = Push(list, NULL) \/ list' = Push(Push(list, NULL), NULL)
  <2>1. \A f \in Frames, x \in Index : table'[f][x] = Unset \/ table'[f][x] = table[f][x]
    BY <1>3
  <2>2. table' \in TableSet
    <3>1. Unset \in Entries
      BY PageNumbers DEF Unset, Entries
    <3> QED
      BY <1>0, <1>3, <3>1 DEF TableSet
  <2>3. /\ list' \in Lists(Frames) /\ RestListed(list') /\ Top(list') = LastFrame + 1
        /\ Top(list) <= LastFrame + 1
    BY <1>0, <1>3, PushNull
  <2>4. Top(list) \in Nat /\ Top(list') \in Nat
    BY <1>0, <2>3, TopType
  <2>5. Treed'
    <3>1. PICK lev \in Levelling : Tree(table, root, Top(list), lev)
      BY <1>0 DEF Treed
    <3>2. Tree(table', root', Top(list'), lev)
      BY <1>0, <2>1, <2>2, <2>3, <2>4, <3>1, Reset
    <3> QED
      BY <3>2 DEF Treed
  <2> QED
    BY <1>0, <1>1, <1>3, <2>2, <2>3, <2>5, OtherStep
<1> QED
  BY <1>2, <1>3 DEF free_page

\* copy_to_user and its rounds: user pages get frames as they are met.
LEMMA CopyStep ==
    ASSUME VmemInv, boot = "ready", NEW va \in Pages,
           list' = get_physical_page(va, 0, 2).list,
           table' = get_physical_page(va, 0, 2).table,
           UNCHANGED <<root, was>>, boot' \in {"ready", "stuck"},
           job' \in JobSet, job'.op # "map"
    PROVE  VmemInv'
<1>1. TreeInv /\ root # NULL /\ 0 \in Pages /\ 0 \notin Own
  BY PageNumbers DEF VmemInv, TreeInv
<1>2. list' \in Lists(Frames) /\ table' \in TableSet /\ RestListed(list)' /\ Treed'
  BY <1>1, PageStep
<1>3. boot' \in BootSet /\ boot' # "start"
  BY DEF BootSet
<1> QED
  BY <1>1, <1>2, <1>3, OtherStep

LEMMA CopyJobs ==
    ASSUME NEW va \in Pages, NEW at \in Pages, NEW n \in 0..1, NEW part \in 0..1
    PROVE  /\ Idle \in JobSet /\ Idle.op = "idle"
           /\ Job("copy", va, 0, (at + n - 1) % SizePages, part) \in JobSet
           /\ Job("copy", va, 0, (at + n - 1) % SizePages, part).op = "copy"
<1>1. va \in Nat /\ (at + n - 1) % SizePages \in Nat
  BY PageNumbers DEF SizePages
<1> QED
  BY <1>1 DEF Idle, Job, JobSet, Ops

LEMMA NextVmemInv == VmemInv /\ [Next]_vars => VmemInv'
<1> SUFFICES ASSUME VmemInv, [Next]_vars PROVE VmemInv'
  OBVIOUS
<1>0. /\ list \in Lists(Frames) /\ table \in TableSet /\ RestListed(list)
      /\ root \in Frames \cup {NULL} /\ boot \in BootSet /\ job \in JobSet
      /\ root = NULL => boot \in {"start", "failed"} /\ job.op = "idle"
      /\ root # NULL => Treed /\ boot # "start"
  BY DEF VmemInv, TreeInv, TypeOK, TableSet, BootSet, JobSet
<1>a. Idle \in JobSet /\ Idle.op = "idle"
  BY DEF Idle, JobSet, Ops
<1>b. ASSUME UNCHANGED <<list, table, root, was>>, job' \in JobSet, job'.op # "map",
             boot' \in BootSet,
             root = NULL => boot' \in {"start", "failed"} /\ job'.op = "idle",
             root # NULL => boot' # "start"
      PROVE  VmemInv'
  <2>1. /\ list' \in Lists(Frames) /\ table' \in TableSet /\ RestListed(list)'
        /\ root # NULL => Treed'
    BY <1>0, <1>b DEF Treed
  <2> QED
    BY <1>b, <2>1, OtherStep
<1>1. CASE make_kpagetable
  BY <1>1, RootStep
<1>2. CASE make_kpagetable_failed
  <2>1. root = NULL /\ job.op = "idle"
    BY <1>0, <1>2 DEF make_kpagetable_failed
  <2> QED
    BY <1>0, <1>2, <1>b, <2>1 DEF make_kpagetable_failed, BootSet
<1>3. ASSUME NEW r \in Requests, map_region(r) PROVE VmemInv'
  <2>1. /\ IsRegion(r.va, r.end, r.pa) /\ r.kind \in 0..3
        /\ Apart(r.va, r.end, r.pa)
    BY VmemAssumption, RegionsApart
  <2>2. /\ root # NULL /\ UNCHANGED <<list, table, root>>
        /\ Begin(r.va, r.end, r.pa, r.kind) /\ boot' \in BootSet \ {"start"}
    BY <1>0, <1>3 DEF map_region, BootSet
  <2> QED
    BY <2>1, <2>2, BeginStep
<1>4. CASE map_page
  BY <1>4, MapStep
<1>5. CASE map_region_done
  <2>0. root # NULL /\ boot # "start" /\ UNCHANGED <<list, table, root>>
    BY <1>0, <1>5 DEF map_region_done
  <2>1. CASE boot' = "mmio" /\ Begin(MmioPages[1], MmioPages[2], MmioPages[1], 1)
    <3>1. /\ IsRegion(MmioPages[1], MmioPages[2], MmioPages[1])
          /\ Apart(MmioPages[1], MmioPages[2], MmioPages[1])
          /\ 1 \in 0..3 /\ boot' \in BootSet \ {"start"}
      BY <2>1, VmemAssumption, RegionsApart DEF BootSet
    <3> QED
      BY <2>0, <2>1, <3>1, BeginStep
  <2>2. CASE boot' = "ready" /\ job' = Idle /\ was' = was
    BY <1>0, <1>a, <1>b, <2>0, <2>2 DEF BootSet
  <2> QED
    BY <1>5, <2>1, <2>2 DEF map_region_done
<1>6. CASE free_page
  BY <1>6, FreeStep
<1>7. CASE unmap_region_done
  <2>1. root # NULL /\ boot' \in {"ready", "failed"}
    BY <1>0, <1>7 DEF unmap_region_done
  <2> QED
    BY <1>0, <1>7, <1>a, <1>b, <2>1 DEF unmap_region_done, BootSet
<1>8. ASSUME NEW va \in UserPages, NEW n \in 0..1, NEW part \in 0..1,
             copy_to_user(va, n, part)
      PROVE  VmemInv'
  <2> DEFINE w == get_physical_page(va, 0, 2)
  <2>0. va \in Pages /\ TreeInv /\ root # NULL /\ 0 \in Pages /\ 0 \notin Own
    BY <1>0, <1>8, VmemAssumption, PageNumbers DEF VmemInv, copy_to_user
  <2>1. /\ boot = "ready" /\ job.op = "idle" /\ list' = w.list /\ table' = w.table
        /\ UNCHANGED <<root, was>> /\ boot' \in {"ready", "stuck"}
        /\ \/ job' = Idle \/ job' = job
           \/ job' = Job("copy", va, 0, (w.at + n - 1) % SizePages, part)
    BY <1>8 DEF copy_to_user
  <2>2. w.at \in Pages
    BY <2>0, <2>1, PageStep
  <2> HIDE DEF w
  <2>3. job' \in JobSet /\ job'.op # "map"
    <3>1. PICK at \in Pages : at = w.at
      BY <2>2
    <3> DEFINE copy == Job("copy", va, 0, (at + n - 1) % SizePages, part)
    <3>2. copy \in JobSet /\ copy.op = "copy"
      BY <2>0, CopyJobs
    <3>3. job' = Idle \/ job' = job \/ job' = copy
      BY <2>1, <3>1
    <3> HIDE DEF copy
    <3> QED
      BY <1>0, <1>a, <2>1, <3>2, <3>3
  <2> QED
    BY <2>0, <2>1, <2>3, CopyStep DEF w
<1>9. CASE copy_round
  <2>1. PICK va \in Pages : va = (job.va + 8) % PageCount
    BY <1>0, PageNumbers DEF JobSet
  <2>2. /\ boot = "ready" /\ list' = get_physical_page(va, 0, 2).list
        /\ table' = get_physical_page(va, 0, 2).table
        /\ UNCHANGED <<root, was>> /\ boot' \in {"ready", "stuck"} /\ job.op = "copy"
        /\ job' = job \/ job' = [job EXCEPT !.va = va, !.pa = (job.pa - 1) % SizePages]
    BY <1>9, <2>1 DEF copy_round
  <2>3. job' \in JobSet /\ job'.op # "map"
    <3>1. va \in Nat /\ (job.pa - 1) % SizePages \in Nat
      BY <1>0, PageNumbers DEF JobSet, SizePages
    <3> QED
      BY <1>0, <2>2, <3>1 DEF JobSet
  <2> QED
    BY <2>2, <2>3, CopyStep
<1>10. CASE copy_to_user_done
  <2>1. root # NULL
    BY <1>0, <1>10 DEF copy_to_user_done
  <2> QED
    BY <1>0, <1>10, <1>a, <1>b, <2>1 DEF copy_to_user_done
<1>11. CASE UNCHANGED vars
  BY <1>11 DEF vars, VmemInv, TreeInv, TypeOK, Treed, JobInv, RegionInPlace, RegionOnly,
               Lookup, Levels
<1> QED
  BY <1>1, <1>2, <1>3, <1>4, <1>5, <1>6, <1>7, <1>8, <1>9, <1>10, <1>11
  DEF Next, halted

LEMMA VmemInvariant == Spec => []VmemInv
  BY InitVmemInv, NextVmemInv, PTL DEF Spec

-----------------------------------------------------------------------------
(* The theorems. *)

\* Every address that map_region and get_physical_page compute is a page of
\* the address space and every entry they write holds one: no walk leaves
\* the tables, however many frames there are and whatever is mapped, unmapped
\* or copied.
THEOREM VmemTypeOK == Spec => []TypeOK
<1>1. VmemInv => TypeOK
  BY DEF VmemInv, TreeInv
<1> QED
  BY <1>1, VmemInvariant, PTL

\* The loop of map_region puts the pages of its region one after the other at
\* the physical pages from pa on; a page that was mapped keeps its own.
THEOREM VmemRegionInPlace == Spec => []RegionInPlace
<1>1. VmemInv => RegionInPlace
  BY DEF VmemInv
<1> QED
  BY <1>1, VmemInvariant, PTL

\* The loop of map_region changes the translation of no page outside the
\* region, nor of one that it has not come to, though it shares tables with
\* them and adds tables on the way.
THEOREM VmemRegionOnly == Spec => []RegionOnly
<1>1. VmemInv => RegionOnly
  BY DEF VmemInv
<1> QED
  BY <1>1, VmemInvariant, PTL

\* No step but one of free_page changes what a mapped page is mapped to or
\* its entry: get_physical_page writes only to entries that are not set, in
\* tables that no other address shares at that index.
THEOREM VmemMappingsStable == Spec => MappingsStable
<1> DEFINE Stable ==
             job.op # "unmap" =>
                \A va \in Pages : Lookup(va) # NULL =>
                    Lookup(va)' = Lookup(va) /\ Leaf(va)' = Leaf(va)
<1>1. ASSUME VmemInv, Next PROVE Stable
  <2>0. /\ TreeInv /\ list \in Lists(Frames) /\ table \in TableSet
        /\ root \in Frames \cup {NULL} /\ boot \in BootSet /\ job \in JobSet
        /\ root = NULL => boot \in {"start", "failed"} /\ job.op = "idle"
        /\ root # NULL => Treed /\ boot # "start"
    BY <1>1 DEF VmemInv, TreeInv, TypeOK, TableSet, BootSet, JobSet
  <2>1. CASE UNCHANGED <<table, root>>
    BY <2>1 DEF Lookup, Levels, Leaf
  <2>2. CASE make_kpagetable
    <3>1. root = NULL
      BY <2>0, <2>2 DEF make_kpagetable
    <3>2. \A v \in Pages : Lookup(v) = NULL
      BY <2>0, <3>1, LookupType
    <3> QED
      BY <3>2
  <2>3. ASSUME NEW va \in Pages, NEW pa \in Pages, NEW kind,
               pa \notin Own, root # NULL,
               list' = get_physical_page(va, pa, kind).list,
               table' = get_physical_page(va, pa, kind).table, root' = root
        PROVE  Stable
    <3>1. \A v \in Pages : v # va \/ Lookup(v) # NULL =>
                 /\ Lookup(v)' = Lookup(v)
                 /\ Lookup(v) # NULL => Leaf(v)' = Leaf(v)
      BY <2>0, <2>3, PageStep
    <3> QED
      BY <3>1
  <2>4. CASE map_page
    <3>1. /\ root # NULL /\ root' = root /\ job.va < job.end /\ job.op = "map"
          /\ list' = get_physical_page(job.va, job.pa, job.kind).list
          /\ table' = get_physical_page(job.va, job.pa, job.kind).table
      BY <2>0, <2>4 DEF map_page
    <3>2. job.va \in Pages /\ job.pa \in Pages /\ job.pa \notin Own
      BY <2>0, <3>1, MapPlace
    <3>3. PICK va \in Pages, pa \in Pages, kind \in {job.kind} :
             va = job.va /\ pa = job.pa /\ kind = job.kind
      BY <3>2
    <3> QED
      BY <2>3, <3>1, <3>2, <3>3
  <2>5. ASSUME NEW va \in UserPages, NEW n \in 0..1, NEW part \in 0..1,
               copy_to_user(va, n, part)
        PROVE  Stable
    <3>1. va \in Pages /\ root # NULL /\ 0 \in Pages /\ 0 \notin Own /\ root' = root
      BY <2>0, <2>5, VmemAssumption, PageNumbers DEF copy_to_user
    <3>2. /\ list' = get_physical_page(va, 0, 2).list
          /\ table' = get_physical_page(va, 0, 2).table
      BY <2>5 DEF copy_to_user
    <3> QED
      BY <2>3, <3>1, <3>2
  <2>6. CASE copy_round
    <3>1. PICK va \in Pages : va = (job.va + 8) % PageCount
      BY <2>0, PageNumbers DEF JobSet
    <3>2. /\ list' = get_physical_page(va, 0, 2).list
          /\ table' = get_physical_page(va, 0, 2).table
          /\ root # NULL /\ root' = root /\ 0 \in Pages /\ 0 \notin Own
      BY <2>0, <2>6, <3>1, PageNumbers DEF copy_round
    <3> QED
      BY <2>3, <3>2
  <2>7. CASE free_page
    BY <2>7 DEF free_page
  <2>8. ASSUME NEW r \in Requests, map_region(r) PROVE Stable
    BY <2>1, <2>8 DEF map_region
  <2>9. CASE make_kpagetable_failed
    BY <2>1, <2>9 DEF make_kpagetable_failed
  <2>10. CASE map_region_done
    BY <2>1, <2>10 DEF map_region_done
  <2>11. CASE unmap_region_done
    BY <2>1, <2>11 DEF unmap_region_done
  <2>12. CASE copy_to_user_done
    BY <2>1, <2>12 DEF copy_to_user_done
  <2>13. CASE halted
    BY <2>1, <2>13 DEF halted, vars
  <2> QED
    BY <1>1, <2>2, <2>4, <2>5, <2>6, <2>7, <2>8, <2>9, <2>10, <2>11, <2>12, <2>13 DEF Next
<1>2. VmemInv /\ [Next]_vars => [Stable]_vars
  BY <1>1
<1>3. Spec => [][Stable]_vars
  BY <1>2, VmemInvariant, PTL DEF Spec
<1> QED
  BY <1>3 DEF MappingsStable

\* What the tables in S point to.
Children(t, S) == {t[f][x].pa : f \in S, x \in Index} \ {NULL}

LEMMA ReachedSteps ==
    /\ Reached[0] = {root} \ {NULL}
    /\ Reached[1] = Children(table, Reached[0])
    /\ Reached[2] = Children(table, Reached[1])
    /\ Reached[3] = Children(table, Reached[2])
    /\ Reached[4] = Children(table, Reached[3])
<1> DEFINE r0 == {root} \ {NULL}
           r1 == Children(table, r0)
           r2 == Children(table, r1)
           r3 == Children(table, r2)
           r4 == Children(table, r3)
<1>1. Reached = [i \in 0..4 |-> CASE i = 0 -> r0 [] i = 1 -> r1 [] i = 2 -> r2
                                  [] i = 3 -> r3 [] i = 4 -> r4]
  BY DEF Reached, Children
<1> HIDE DEF r0, r1, r2, r3, r4
<1>2. /\ Reached[0] = r0 /\ Reached[1] = r1 /\ Reached[2] = r2
      /\ Reached[3] = r3 /\ Reached[4] = r4
  BY <1>1
<1> QED
  BY <1>2, Zenon DEF r0, r1, r2, r3, r4

\* What is reached at a level has that level.
AtLevel(S, i, lev) == \A f \in S : f \in Frames /\ lev[f] = i

LEMMA ReachedLevels ==
    ASSUME table \in TableSet, NEW top \in Nat, NEW lev \in Levelling,
           TreeOfTables(table, root, top, lev)
    PROVE  \A i \in 0..3 : AtLevel(Reached[i], i, lev)
<1>1. AtLevel(Reached[0], 0, lev)
  BY ReachedSteps DEF AtLevel, TreeOfTables
<1>2. ASSUME NEW i \in 0..2, NEW S, AtLevel(S, i, lev)
      PROVE  AtLevel(Children(table, S), i + 1, lev)
  <2>1. SUFFICES ASSUME NEW f \in S, NEW x \in Index, table[f][x].pa # NULL
                 PROVE  table[f][x].pa \in Frames /\ lev[table[f][x].pa] = i + 1
    BY DEF AtLevel, Children
  <2>2. f \in Frames /\ lev[f] = i /\ lev[f] < 3
    BY <1>2 DEF AtLevel
  <2> QED
    BY <2>1, <2>2 DEF TreeOfTables
<1>3. AtLevel(Reached[1], 1, lev)
  <2>1. AtLevel(Children(table, Reached[0]), 0 + 1, lev)
    BY <1>1, <1>2
  <2> QED
    BY <2>1, ReachedSteps
<1>4. AtLevel(Reached[2], 2, lev)
  <2>1. AtLevel(Children(table, Reached[1]), 1 + 1, lev)
    BY <1>2, <1>3
  <2> QED
    BY <2>1, ReachedSteps
<1>5. AtLevel(Reached[3], 3, lev)
  <2>1. AtLevel(Children(table, Reached[2]), 2 + 1, lev)
    BY <1>2, <1>4
  <2> QED
    BY <2>1, ReachedSteps
<1>6. \A i \in 0..3 : i = 0 \/ i = 1 \/ i = 2 \/ i = 3
  OBVIOUS
<1> QED
  BY <1>1, <1>3, <1>4, <1>5, <1>6, Zenon

\* The free list holds nothing below its head.
LEMMA FreeFromTop ==
    ASSUME list \in Lists(Frames), RestListed(list)
    PROVE  FreeFrames \subseteq Frames \cap (Top(list)..LastFrame)
<1> DEFINE S == Top(list)..LastFrame
<1>0. /\ FirstFrame \in Nat \ {0} /\ LastFrame \in Nat /\ NULL = 0
      /\ Frames = FirstFrame..LastFrame /\ list.head \in Frames \cup {NULL}
  BY VmemAssumption DEF NULL, Frames, Lists
<1>1. /\ Top(list) \in FirstFrame..(LastFrame + 1) \/ Top(list) = LastFrame + 1
      /\ list.head # NULL => Top(list) = list.head
      /\ Top(list) \in Nat
  BY <1>0 DEF Top
<1>2. S \in SUBSET Frames
  BY <1>0, <1>1
<1>3. list.head \in S \cup {NULL}
  BY <1>0, <1>1
<1>4. \A f \in S : list.next[f] \in S \cup {NULL}
  BY <1>0, <1>1 DEF RestListed
<1> HIDE DEF S
<1>5. Listed(list, LastFrame) \subseteq S
  BY <1>0, <1>2, <1>3, <1>4, ListedWithin
<1> QED
  BY <1>2, <1>5 DEF FreeFrames, S

\* The tables of the page table form a tree: no frame is reached twice, as a
\* table and as a page or by two addresses, and kalloc hands out none of them
\* again, after unmap_region has emptied tables and cut the list off too.
\* Pages that callers of map_region name are left out: the page table cannot
\* know whether one is a frame, and the first page of the peripherals is.
THEOREM VmemTablesExclusive == Spec => []TablesExclusive
<1>1. ASSUME VmemInv PROVE TablesExclusive
  <2>0. /\ list \in Lists(Frames) /\ table \in TableSet /\ RestListed(list)
        /\ root \in Frames \cup {NULL} /\ (root # NULL => Treed)
    BY <1>1 DEF VmemInv, TreeInv, TypeOK, TableSet
  <2>a. Owned(4) = Reached[4] \cap Own /\ \A i \in 0..3 : Owned(i) = Reached[i]
    BY DEF Owned
  <2>1. CASE root = NULL
    <3>1. /\ Reached[0] = {} /\ Reached[1] = {} /\ Reached[2] = {}
          /\ Reached[3] = {} /\ Reached[4] = {}
      <4>1. Children(table, {}) = {}
        BY DEF Children
      <4>2. Reached[0] = {}
        BY <2>1, ReachedSteps
      <4> QED
        BY <4>1, <4>2, ReachedSteps, Zenon
    <3>2. \A i \in 0..4 : Owned(i) = {}
      BY <3>1 DEF Owned
    <3> QED
      BY <3>2 DEF TablesExclusive
  <2>2. CASE root # NULL
    <3>1. PICK lev \in Levelling : /\ TreeOfTables(table, root, Top(list), lev)
                                   /\ LeavesApart(table, Top(list), lev)
      BY <2>0, <2>2 DEF Treed, Tree
    <3>2. Top(list) \in Nat
      BY <2>0, TopType
    <3>3. \A i \in 0..3 : AtLevel(Reached[i], i, lev)
      BY <2>0, <3>1, <3>2, ReachedLevels
    <3>4. \A i \in 0..3 : \A f \in Owned(i) : f \in Frames /\ lev[f] = i /\ f < Top(list)
      BY <2>a, <3>1, <3>3 DEF AtLevel, TreeOfTables
    <3>5. \A f \in Owned(4) : f \in Own /\ lev[f] = 4 /\ f < Top(list)
      <4>1. SUFFICES ASSUME NEW f \in Reached[3], NEW x \in Index, table[f][x].pa \in Own
                     PROVE  /\ lev[table[f][x].pa] = 4
                            /\ table[f][x].pa < Top(list)
        BY <2>a, ReachedSteps DEF Children
      <4>2. f \in Frames /\ lev[f] = 3
        BY <2>a, <3>4
      <4> QED
        BY <3>1, <4>1, <4>2 DEF LeavesApart
    <3>6. \A i \in 0..4 : \A f \in Owned(i) : f \in Frames /\ lev[f] = i /\ f < Top(list)
      <4>1. \A i \in 0..4 : i \in 0..3 \/ i = 4
        OBVIOUS
      <4> QED
        BY <3>4, <3>5, <4>1, PageNumbers
    <3>7. \A i, j \in 0..4 : i # j => Owned(i) \cap Owned(j) = {}
      BY <3>6
    <3>8. ASSUME NEW i \in 0..3, NEW f \in Owned(i), NEW g \in Owned(i),
                 NEW x \in Index, NEW y \in Index,
                 table[f][x].pa = table[g][y].pa, table[f][x].pa \in Owned(i + 1)
          PROVE  f = g /\ x = y
      <4>1. f \in Frames /\ g \in Frames /\ lev[f] = i /\ lev[g] = i
        BY <3>4
      <4>2. i + 1 \in 0..4
        OBVIOUS
      <4>3. table[f][x].pa # NULL
        BY <3>6, <3>8, <4>2, PageNumbers
      <4>4. CASE i = 3
        <5>1. table[f][x].pa \in Own
          BY <3>5, <3>8, <4>4
        <5> QED
          BY <3>1, <3>8, <4>1, <4>4, <5>1 DEF LeavesApart
      <4>5. CASE i < 3
        BY <3>1, <3>8, <4>1, <4>3, <4>5 DEF TreeOfTables
      <4> QED
        BY <4>4, <4>5
    <3>9. \A i \in 0..4 : Owned(i) \cap FreeFrames = {}
      <4>1. FreeFrames \subseteq Frames \cap (Top(list)..LastFrame)
        BY <2>0, FreeFromTop
      <4>2. ASSUME NEW i \in 0..4, NEW f \in Owned(i), f \in FreeFrames PROVE FALSE
        <5>1. f \in Frames /\ f \in Top(list)..LastFrame /\ f < Top(list)
          BY <3>6, <4>1, <4>2
        <5>2. f \in Nat
          BY <5>1, PageNumbers
        <5> QED
          BY <3>2, <5>1, <5>2
      <4> QED
        BY <4>2
    <3> QED
      BY <3>7, <3>8, <3>9 DEF TablesExclusive
  <2> QED
    BY <2>1, <2>2
<1> QED
  BY <1>1, VmemInvariant, PTL
=============================================================================
