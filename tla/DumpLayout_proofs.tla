-------------------------- MODULE DumpLayout_proofs --------------------------
(***************************************************************************)
(* Proofs about DumpLayout: for every set of streams, list of ranges, cap  *)
(* and cursor width, what was charged is what is laid out, and every       *)
(* stream lands where it is described.                                     *)
(***************************************************************************)
EXTENDS DumpLayout, PrefixSums_proofs, FiniteSetTheorems

-----------------------------------------------------------------------------
(***************************************************************************)
(* The helpers.                                                            *)
(***************************************************************************)

LEMMA PhysicalOrder ==
  /\ DOMAIN Physical = 1 .. 13 /\ Len(Physical) = 13
  /\ \A i \in 1 .. 13 : Physical[i] \in Streams
  /\ \A i \in 1 .. 13 : Physical[i] = "MemoryList" => i = 11
<1>1. Len(Physical) = 13 /\ DOMAIN Physical = 1 .. 13
  BY DEF Physical
<1>2. \A i \in 1 .. 13 : Physical[i] = "MemoryList" => i = 11
  BY DEF Physical
<1> QED BY <1>1, <1>2 DEF Streams

LEMMA StreamNames ==
  Streams = {"SystemInfo", "MiscInfo", "CommentA", "CommentW", "ModuleList", "UnloadedModules",
             "ThreadList", "ThreadNames", "ThreadInfo", "MemoryInfo", "MemoryList", "Exception",
             "ThreadContexts"}
<1> DEFINE p == Physical
<1>1. /\ p[1] = "SystemInfo" /\ p[2] = "MiscInfo" /\ p[3] = "CommentA" /\ p[4] = "CommentW"
      /\ p[5] = "ModuleList" /\ p[6] = "UnloadedModules" /\ p[7] = "ThreadList"
      /\ p[8] = "ThreadNames" /\ p[9] = "ThreadInfo" /\ p[10] = "MemoryInfo"
      /\ p[11] = "MemoryList" /\ p[12] = "Exception" /\ p[13] = "ThreadContexts"
  BY DEF Physical
<1>2. Streams = {p[i] : i \in 1 .. 13}
  BY PhysicalOrder DEF Streams
<1> HIDE DEF p
<1>3. \A i \in 1 .. 13 : i \in {1, 2, 3, 4, 5, 6, 7, 8, 9, 10, 11, 12, 13}
  OBVIOUS
<1> QED BY <1>1, <1>2, <1>3

\* A size is padded to a size.
LEMMA UpType == \A size \in Nat : Up(size) \in Nat
<1> SUFFICES ASSUME NEW size \in Nat PROVE Up(size) \in Nat
  OBVIOUS
<1> DEFINE q == (size + Alignment - 1) \div Alignment
<1>1. Alignment \in Nat \ {0}
  BY LayoutAssumption
<1>2. q \in Nat
  BY <1>1
<1> HIDE DEF q
<1>3. q * Alignment \in Nat
  BY <1>1, <1>2
<1> QED BY <1>3 DEF Up, q

\* The first n of a list.
LEMMA FirstDef ==
  ASSUME NEW S, NEW s \in Seq(S), NEW n \in Nat
  PROVE  /\ First(s, n) \in Seq(S)
         /\ Len(First(s, n)) = Smaller(n, Len(s))
         /\ First(s, 0) = <<>>
         /\ First(s, Len(s)) = s
<1>1. Len(s) \in Nat
  OBVIOUS
<1>2. Smaller(n, Len(s)) \in 0 .. Len(s) /\ Smaller(0, Len(s)) = 0 /\ Smaller(Len(s), Len(s)) = Len(s)
  BY <1>1 DEF Smaller
<1>3. First(s, n) \in Seq(S) /\ Len(First(s, n)) = Smaller(n, Len(s))
  <2> DEFINE m == Smaller(n, Len(s))
  <2>1. m \in Nat /\ m <= Len(s)
    BY <1>1, <1>2
  <2> HIDE DEF m
  <2>2. SubSeq(s, 1, m) \in Seq(S) /\ Len(SubSeq(s, 1, m)) = m
    BY <1>1, <2>1, SubSeqProperties
  <2> QED BY <2>2 DEF First, m
<1>4. First(s, 0) = <<>>
  BY <1>2, SubSeqEmpty DEF First
<1>5. First(s, Len(s)) = s
  BY <1>2, SubSeqFull DEF First
<1> QED BY <1>3, <1>4, <1>5

\* What is left of the caller's array.
LEMMA SnapshotDef ==
  ASSUME NEW array \in Seq(Nat)
  PROVE  /\ SnapshotUserStreams(array) \in Seq(Nat \ {0})
         /\ Len(SnapshotUserStreams(array)) <= kMaxUserStreams
<1> DEFINE N == Len(array)
           V == {q \in Seq(Nat \ {0}) : Len(q) <= kMaxUserStreams}
           next(i, q) == IF array[i] # 0 /\ Len(q) < kMaxUserStreams THEN Append(q, array[i]) ELSE q
           step == [p \in (1 .. N) \X V |-> next(p[1], p[2])]
           Rec(f) == f = [i \in 0 .. N |-> IF i = 0 THEN <<>> ELSE next(i, f[i - 1])]
<1>1. N \in Nat /\ \A i \in 1 .. N : array[i] \in Nat
  OBVIOUS
<1>2. ASSUME NEW i \in 1 .. N, NEW q \in V PROVE next(i, q) \in V
  <2>1. CASE array[i] # 0 /\ Len(q) < kMaxUserStreams
    <3>1. array[i] \in Nat \ {0}
      BY <1>1, <2>1
    <3>2. Append(q, array[i]) \in Seq(Nat \ {0}) /\ Len(Append(q, array[i])) = Len(q) + 1
      BY <3>1
    <3> QED BY <2>1, <3>2, LayoutAssumption
  <2>2. CASE ~ (array[i] # 0 /\ Len(q) < kMaxUserStreams)
    BY <2>2
  <2> QED BY <2>1, <2>2
<1>3. <<>> \in V
  BY LayoutAssumption
<1> HIDE DEF next, V
<1>4. step \in StepFunctions(N, V)
  BY <1>2 DEF StepFunctions
<1>5. \A i \in 1 .. N, q \in V : step[<<i, q>>] = next(i, q)
  OBVIOUS
<1> HIDE DEF N, step
<1>6. PICK f \in [0 .. N -> V] : IsRecursive(f, N, <<>>, step)
  BY <1>1, <1>3, <1>4, Recursion
<1>7. Rec(f)
  <2>1. \A i \in 0 .. N : i # 0 => i \in 1 .. N /\ f[i - 1] \in V
    BY <1>1
  <2>2. \A i \in 0 .. N : i # 0 => step[<<i, f[i - 1]>>] = next(i, f[i - 1])
    BY <2>1, <1>5
  <2> QED BY Zenon, <1>6, <2>2 DEF IsRecursive
<1> DEFINE g == CHOOSE h : Rec(h)
<1>8. Rec(g)
  <2> HIDE DEF Rec
  <2> QED BY <1>7
<1>9. SnapshotUserStreams(array) = g[N]
  BY DEF SnapshotUserStreams, next, N
<1> HIDE DEF g
<1> DEFINE T == {n \in Nat : n <= N => g[n] \in V}
<1>10. 0 \in T
  BY <1>1, <1>3, <1>8
<1>11. ASSUME NEW n \in Nat, n \in T PROVE n + 1 \in T
  <2> SUFFICES ASSUME n + 1 <= N PROVE g[n + 1] \in V
    OBVIOUS
  <2>1. n + 1 \in 0 .. N /\ n + 1 \in 1 .. N /\ n + 1 # 0 /\ (n + 1) - 1 = n /\ n <= N
    BY <1>1
  <2>2. g[n + 1] = next(n + 1, g[n])
    BY <1>8, <2>1
  <2> QED BY <1>2, <1>11, <2>1, <2>2
<1>12. N \in T
  <2> HIDE DEF T
  <2>1. \A n \in Nat : n \in T
    BY Zenon, <1>10, <1>11, NatInduct
  <2> QED BY <1>1, <2>1
<1> QED BY <1>1, <1>9, <1>12 DEF V

-----------------------------------------------------------------------------
(***************************************************************************)
(* Lists of ranges, and those of the stacks.                               *)
(***************************************************************************)

\* What a list of ranges holds: whose it is, and its size.
Kinds == {"stack", "aux", "proc", "data", "indirect", "region"}
MemRange(S) == [of : S \X Nat, size : Nat]

LEMMA SizesDef ==
  ASSUME NEW S, NEW r \in Seq(MemRange(S))
  PROVE  /\ SizesOf(r) \in Seq(Nat) /\ Len(SizesOf(r)) = Len(r)
         /\ \A i \in 1 .. Len(r) : SizesOf(r)[i] = r[i].size /\ r[i].size \in Nat
<1>1. Len(r) \in Nat /\ \A i \in 1 .. Len(r) : r[i].size \in Nat
  <2>1. Len(r) \in Nat /\ \A i \in 1 .. Len(r) : r[i] \in MemRange(S)
    OBVIOUS
  <2> QED BY <2>1 DEF MemRange
<1> DEFINE n == Len(r)
           s == [i \in 1 .. n |-> r[i].size]
<1> HIDE DEF n
<1>2. s \in [1 .. n -> Nat] /\ n \in Nat
  BY <1>1 DEF n
<1>3. s \in Seq(Nat) /\ Len(s) = n
  <2> HIDE DEF s
  <2> QED BY <1>2
<1> QED BY <1>1, <1>3 DEF SizesOf, n

LEMMA SizesConcat ==
  ASSUME NEW S, NEW r \in Seq(MemRange(S)), NEW q \in Seq(MemRange(S))
  PROVE  /\ r \o q \in Seq(MemRange(S)) /\ Len(r \o q) = Len(r) + Len(q)
         /\ SizesOf(r \o q) = SizesOf(r) \o SizesOf(q)
<1> DEFINE u == r \o q
           s == SizesOf(r)
           t == SizesOf(q)
<1>1. /\ u \in Seq(MemRange(S)) /\ Len(u) = Len(r) + Len(q)
      /\ \A i \in 1 .. Len(u) : u[i] = IF i <= Len(r) THEN r[i] ELSE q[i - Len(r)]
  BY ConcatProperties
<1>2. /\ s \in Seq(Nat) /\ Len(s) = Len(r) /\ \A i \in 1 .. Len(r) : s[i] = r[i].size
      /\ t \in Seq(Nat) /\ Len(t) = Len(q) /\ \A i \in 1 .. Len(q) : t[i] = q[i].size
      /\ Len(r) \in Nat /\ Len(q) \in Nat
  BY SizesDef
<1> HIDE DEF u, s, t
<1>3. /\ s \o t \in Seq(Nat) /\ Len(s \o t) = Len(u)
      /\ \A i \in 1 .. Len(u) : (s \o t)[i] = IF i <= Len(r) THEN s[i] ELSE t[i - Len(r)]
  <2>1. /\ s \o t \in Seq(Nat) /\ Len(s \o t) = Len(s) + Len(t)
        /\ \A i \in 1 .. Len(s \o t) : (s \o t)[i] = IF i <= Len(s) THEN s[i] ELSE t[i - Len(s)]
    <3>1. s \in Seq(Nat) /\ t \in Seq(Nat)
      BY <1>2
    <3> QED BY ONLY <3>1, ConcatProperties
  <2> QED BY <1>1, <1>2, <2>1
<1>4. /\ SizesOf(u) \in Seq(Nat) /\ Len(SizesOf(u)) = Len(u)
      /\ \A i \in 1 .. Len(u) : SizesOf(u)[i] = u[i].size
  BY Zenon, <1>1, SizesDef
<1>5. \A i \in 1 .. Len(u) : SizesOf(u)[i] = (s \o t)[i]
  <2> TAKE i \in 1 .. Len(u)
  <2>1. CASE i <= Len(r)
    <3>1. i \in 1 .. Len(r)
      BY <2>1, <1>1, <1>2
    <3> QED BY Zenon, <2>1, <3>1, <1>1, <1>2, <1>3, <1>4
  <2>2. CASE ~ (i <= Len(r))
    <3>1. i - Len(r) \in 1 .. Len(q)
      BY <2>2, <1>1, <1>2
    <3> QED BY Zenon, <2>2, <3>1, <1>1, <1>2, <1>3, <1>4
  <2> QED BY Zenon, <2>1, <2>2
<1>6. SizesOf(u) = s \o t
  BY Zenon, <1>3, <1>4, <1>5, SeqEqual
<1> QED BY <1>1, <1>6 DEF u, s, t

LEMMA RangesCostType ==
  ASSUME NEW s \in Seq(Nat)
  PROVE  RangesCost(s) \in Nat
<1>1. Total(s) \in Nat /\ Len(s) \in Nat /\ Descriptor \in Nat
  BY TotalDef, LayoutAssumption
<1>2. Len(s) * Descriptor \in Nat
  BY <1>1
<1> QED BY <1>1, <1>2 DEF RangesCost

\* The cost of two lists.
LEMMA RangesCostConcat ==
  ASSUME NEW s \in Seq(Nat), NEW t \in Seq(Nat)
  PROVE  RangesCost(s \o t) = RangesCost(s) + RangesCost(t)
<1> DEFINE a == Len(s)
           b == Len(t)
           x == Total(s)
           y == Total(t)
<1>1. a \in Nat /\ b \in Nat /\ x \in Nat /\ y \in Nat /\ Descriptor \in Nat
  BY TotalDef, LayoutAssumption
<1>2. Len(s \o t) = a + b /\ Total(s \o t) = x + y
  BY PrefixConcat
<1>3. RangesCost(s \o t) = (x + y) + (a + b) * Descriptor
  BY <1>2 DEF RangesCost
<1>4. RangesCost(s) = x + a * Descriptor /\ RangesCost(t) = y + b * Descriptor
  BY DEF RangesCost
<1> HIDE DEF a, b, x, y
<1>5. (a + b) * Descriptor = a * Descriptor + b * Descriptor
  BY <1>1
<1>6. a * Descriptor \in Nat /\ b * Descriptor \in Nat
  BY <1>1
<1> QED BY <1>1, <1>3, <1>4, <1>5, <1>6

\* One window more, if it is not empty.
WindowAdded(r, q, what, t, size) ==
  /\ q \in Seq(MemRange(Kinds))
  /\ Total(SizesOf(q)) = Total(SizesOf(r)) + size
  /\ RangesCost(SizesOf(q)) = RangesCost(SizesOf(r)) + WindowCost(size)
  /\ \A i \in 1 .. Len(q) :
       \/ /\ i \in 1 .. Len(r)
          /\ q[i] = r[i]
          /\ PrefixSums(SizesOf(q))[i - 1] = PrefixSums(SizesOf(r))[i - 1]
       \/ /\ q[i].of = <<what, t>>
          /\ PrefixSums(SizesOf(q))[i - 1] = Total(SizesOf(r))

LEMMA AddWindow ==
  ASSUME NEW r \in Seq(MemRange(Kinds)), NEW what \in Kinds, NEW t \in Nat, NEW size \in Nat,
         NEW q, q = r \o Window(what, t, size)
  PROVE  WindowAdded(r, q, what, t, size)
<1> USE DEF WindowAdded
<1>1. Len(r) \in Nat /\ Total(SizesOf(r)) \in Nat /\ RangesCost(SizesOf(r)) \in Nat
  BY SizesDef, TotalDef, RangesCostType
<1>2. CASE size = 0
  <2>1. q = r
    BY <1>2, ConcatEmptySeq DEF Window
  <2>2. Total(SizesOf(r)) + 0 = Total(SizesOf(r)) /\ RangesCost(SizesOf(r)) + 0 = RangesCost(SizesOf(r))
    BY <1>1
  <2>3. WindowCost(size) = 0
    BY <1>2 DEF WindowCost
  <2> QED BY Zenon, <1>2, <2>1, <2>2, <2>3
<1>3. CASE size # 0
  <2> DEFINE w == [of |-> <<what, t>>, size |-> size]
             s == SizesOf(r)
  <2>1. q = r \o <<w>>
    BY <1>3 DEF Window
  <2>2. w \in MemRange(Kinds) /\ w.size = size /\ w.of = <<what, t>>
    BY DEF MemRange
  <2> HIDE DEF w
  <2>3. <<w>> \in Seq(MemRange(Kinds)) /\ Len(<<w>>) = 1 /\ <<w>>[1] = w
    BY <2>2
  <2>4. SizesOf(<<w>>) = <<size>>
    BY <2>2, <2>3 DEF SizesOf
  <2>5. q \in Seq(MemRange(Kinds)) /\ Len(q) = Len(r) + 1 /\ SizesOf(q) = s \o <<size>>
    <3>1. /\ r \o <<w>> \in Seq(MemRange(Kinds)) /\ Len(r \o <<w>>) = Len(r) + Len(<<w>>)
          /\ SizesOf(r \o <<w>>) = s \o SizesOf(<<w>>)
      BY Zenon, <2>3, SizesConcat
    <3> QED BY Zenon, <2>1, <2>3, <2>4, <3>1
  <2>6. s \in Seq(Nat) /\ Len(s) = Len(r) /\ <<size>> \in Seq(Nat) /\ Len(<<size>>) = 1
    BY SizesDef
  <2> HIDE DEF s
  <2>7. /\ Total(s \o <<size>>) = Total(s) + size
        /\ \A i \in 0 .. Len(s) : PrefixSums(s \o <<size>>)[i] = PrefixSums(s)[i]
    <3>1. Total(<<size>>) = size
      BY TotalOne
    <3>2. /\ Total(s \o <<size>>) = Total(s) + Total(<<size>>)
          /\ \A i \in 0 .. Len(s) : PrefixSums(s \o <<size>>)[i] = PrefixSums(s)[i]
      BY ONLY Zenon, <2>6, PrefixConcat
    <3> QED BY Zenon, <3>1, <3>2
  <2>8. RangesCost(<<size>>) = size + Descriptor
    <3>1. RangesCost(<<size>>) = size + 1 * Descriptor
      BY <2>6, TotalOne DEF RangesCost
    <3> QED BY <3>1, LayoutAssumption
  <2>9. RangesCost(s \o <<size>>) = RangesCost(s) + WindowCost(size)
    BY Zenon, <1>3, <2>6, <2>8, RangesCostConcat DEF WindowCost
  <2>10. /\ \A i \in 1 .. Len(r) : q[i] = r[i]
         /\ q[Len(r) + 1] = w
    BY <1>1, <2>1, <2>3
  <2>11. PrefixSums(s)[Len(r)] = Total(s)
    BY <2>6 DEF Total
  <2>12. ASSUME NEW i \in 1 .. Len(q)
         PROVE  \/ /\ i \in 1 .. Len(r)
                   /\ q[i] = r[i]
                   /\ PrefixSums(SizesOf(q))[i - 1] = PrefixSums(s)[i - 1]
                \/ /\ q[i].of = <<what, t>>
                   /\ PrefixSums(SizesOf(q))[i - 1] = Total(s)
    <3>1. CASE i = Len(r) + 1
      <4>1. i - 1 = Len(r) /\ i - 1 \in 0 .. Len(s)
        BY <1>1, <2>6, <3>1
      <4> QED BY Zenon, <2>2, <2>5, <2>7, <2>10, <2>11, <3>1, <4>1
    <3>2. CASE i # Len(r) + 1
      <4>1. i \in 1 .. Len(r) /\ i - 1 \in 0 .. Len(s)
        BY <1>1, <2>5, <2>6, <3>2
      <4> QED BY Zenon, <2>5, <2>7, <2>10, <4>1
    <3> QED BY <3>1, <3>2
  <2>13. Total(SizesOf(q)) = Total(s) + size
    BY <2>5, <2>7
  <2>14. RangesCost(SizesOf(q)) = RangesCost(s) + WindowCost(size)
    BY <2>5, <2>9
  <2> QED BY Zenon, <2>5, <2>12, <2>13, <2>14 DEF s
<1> QED BY Zenon, <1>2, <1>3

\* What WriteThreadList adds up, and what CountStackMemoryRanges does.
PerThread(shape) == [t \in Threads |-> shape[t].primary + shape[t].aux]
PerThreadCost(shape) == [t \in Threads |-> WindowCost(shape[t].primary) + WindowCost(shape[t].aux)]

LEMMA PerThreadDef ==
  ASSUME NEW shape \in [Threads -> Windows]
  PROVE  /\ PerThread(shape) \in Seq(Nat) /\ Len(PerThread(shape)) = ThreadCount
         /\ PerThreadCost(shape) \in Seq(Nat) /\ Len(PerThreadCost(shape)) = ThreadCount
         /\ StackCost(shape) = Total(PerThreadCost(shape))
         /\ StackCost(shape) \in Nat
<1>1. ThreadCount \in Nat /\ Descriptor \in Nat
  BY LayoutAssumption
<1>2. \A t \in Threads : shape[t].primary \in Nat /\ shape[t].aux \in Nat
  <2>1. \A t \in Threads : shape[t] \in Windows
    OBVIOUS
  <2> QED BY <2>1 DEF Windows
<1>3. \A size \in Nat : WindowCost(size) \in Nat
  BY <1>1 DEF WindowCost
<1>4. PerThread(shape) \in [1 .. ThreadCount -> Nat]
  BY <1>2 DEF PerThread, Threads
<1>5. PerThreadCost(shape) \in [1 .. ThreadCount -> Nat]
  <2>1. \A t \in Threads : WindowCost(shape[t].primary) \in Nat /\ WindowCost(shape[t].aux) \in Nat
    BY <1>2, <1>3
  <2>2. \A t \in Threads : WindowCost(shape[t].primary) + WindowCost(shape[t].aux) \in Nat
    BY <2>1
  <2> QED BY <2>2 DEF PerThreadCost, Threads
<1>6. PerThread(shape) \in Seq(Nat) /\ Len(PerThread(shape)) = ThreadCount
  BY <1>1, <1>4
<1>7. PerThreadCost(shape) \in Seq(Nat) /\ Len(PerThreadCost(shape)) = ThreadCount
  BY <1>1, <1>5
<1>8. StackCost(shape) = Total(PerThreadCost(shape))
  BY DEF StackCost, PerThreadCost
<1> QED BY <1>6, <1>7, <1>8, TotalDef

\* What a list of the ranges of the first n threads is: it holds what those
\* stacks take, and the live stack of a thread begins where the ThreadList says.
StacksUpTo(r, n) ==
  /\ r \in Seq(MemRange(Kinds))
  /\ Total(SizesOf(r)) = PrefixSums(PerThread(stacks))[n]
  /\ RangesCost(SizesOf(r)) = PrefixSums(PerThreadCost(stacks))[n]
  /\ \A i \in 1 .. Len(r), t \in Threads :
       r[i].of = <<"stack", t>> =>
         PrefixSums(SizesOf(r))[i - 1] = PrefixSums(PerThread(stacks))[t - 1]

LEMMA StacksUpToNext ==
  ASSUME stacks \in [Threads -> Windows], NEW n \in Nat, n + 1 \in Threads,
         NEW r, StacksUpTo(r, n)
  PROVE  StacksUpTo(r \o Window("stack", n + 1, stacks[n + 1].primary)
                      \o Window("aux", n + 1, stacks[n + 1].aux), n + 1)
<1> DEFINE m == n + 1
           p == stacks[m].primary
           a == stacks[m].aux
           q == r \o Window("stack", m, p)
           u == q \o Window("aux", m, a)
           each == PerThread(stacks)
           cost == PerThreadCost(stacks)
<1>1. p \in Nat /\ a \in Nat
  <2>1. stacks[m] \in Windows
    OBVIOUS
  <2> QED BY <2>1 DEF Windows
<1>2. /\ each \in Seq(Nat) /\ Len(each) = ThreadCount /\ each[m] = p + a
      /\ cost \in Seq(Nat) /\ Len(cost) = ThreadCount /\ cost[m] = WindowCost(p) + WindowCost(a)
  BY PerThreadDef DEF PerThread, PerThreadCost
<1>3. m \in 1 .. ThreadCount /\ m - 1 = n /\ m \in Nat /\ n \in 0 .. ThreadCount
  BY LayoutAssumption DEF Threads
<1>4. /\ PrefixSums(each)[m] = PrefixSums(each)[n] + each[m]
      /\ PrefixSums(cost)[m] = PrefixSums(cost)[n] + cost[m]
      /\ PrefixSums(each)[n] \in Nat /\ PrefixSums(cost)[n] \in Nat
  BY Zenon, <1>2, <1>3, PrefixSumsDef
<1>5. "stack" \in Kinds /\ "aux" \in Kinds /\ WindowCost(p) \in Nat /\ WindowCost(a) \in Nat
  <2>1. \A size \in Nat : WindowCost(size) \in Nat
    BY LayoutAssumption DEF WindowCost
  <2>2. WindowCost(p) \in Nat /\ WindowCost(a) \in Nat
    BY <1>1, <2>1
  <2> QED BY <2>2 DEF Kinds
<1> HIDE DEF p, a, q, u, each, cost, m
<1>6. WindowAdded(r, q, "stack", m, p)
  <2>1. q = r \o Window("stack", m, p)
    BY DEF q
  <2>2. r \in Seq(MemRange(Kinds)) /\ "stack" \in Kinds /\ m \in Nat /\ p \in Nat
    BY <1>1, <1>3, <1>5 DEF StacksUpTo
  <2> QED BY Zenon, <2>1, <2>2, AddWindow
<1>7. WindowAdded(q, u, "aux", m, a)
  <2>1. u = q \o Window("aux", m, a)
    BY DEF u
  <2>2. q \in Seq(MemRange(Kinds)) /\ "aux" \in Kinds /\ m \in Nat /\ a \in Nat
    BY <1>1, <1>3, <1>5, <1>6 DEF WindowAdded
  <2> QED BY Zenon, <2>1, <2>2, AddWindow
<1> USE DEF WindowAdded
<1>8. Total(SizesOf(u)) = PrefixSums(each)[m]
  BY <1>1, <1>2, <1>4, <1>6, <1>7 DEF StacksUpTo, each
<1>9. RangesCost(SizesOf(u)) = PrefixSums(cost)[m]
  BY <1>2, <1>4, <1>5, <1>6, <1>7 DEF StacksUpTo, cost
<1>10. ASSUME NEW i \in 1 .. Len(u), NEW t \in Threads, u[i].of = <<"stack", t>>
       PROVE  PrefixSums(SizesOf(u))[i - 1] = PrefixSums(each)[t - 1]
  <2>1. i \in 1 .. Len(q) /\ q[i].of = <<"stack", t>>
        /\ PrefixSums(SizesOf(u))[i - 1] = PrefixSums(SizesOf(q))[i - 1]
    BY <1>7, <1>10
  <2>2. CASE i \in 1 .. Len(r) /\ q[i] = r[i]
             /\ PrefixSums(SizesOf(q))[i - 1] = PrefixSums(SizesOf(r))[i - 1]
    BY <2>1, <2>2 DEF StacksUpTo, each
  <2>3. CASE q[i].of = <<"stack", m>> /\ PrefixSums(SizesOf(q))[i - 1] = Total(SizesOf(r))
    <3>1. t = m
      BY <2>1, <2>3
    <3> QED BY <1>3, <2>1, <2>3, <3>1 DEF StacksUpTo, each
  <2> QED BY Zenon, <1>6, <2>1, <2>2, <2>3
<1>11. StacksUpTo(u, m)
  BY Zenon, <1>7, <1>8, <1>9, <1>10 DEF StacksUpTo, each, cost
<1> QED BY <1>11 DEF u, q, p, a, m

\* The stack ranges of a plan.
LEMMA StackRangesDef ==
  ASSUME stacks \in [Threads -> Windows]
  PROVE  StacksUpTo(StackRanges, ThreadCount)
<1> DEFINE N == ThreadCount
           V == Seq(MemRange(Kinds))
           next(t, r) == r \o Window("stack", t, stacks[t].primary) \o Window("aux", t, stacks[t].aux)
           step == [p \in (1 .. N) \X V |-> next(p[1], p[2])]
           Rec(f) == f = [t \in 0 .. N |-> IF t = 0 THEN <<>> ELSE next(t, f[t - 1])]
<1>1. N \in Nat
  BY LayoutAssumption
<1>2. ASSUME NEW t \in 1 .. N, NEW r \in V PROVE next(t, r) \in V
  <2>1. stacks[t] \in Windows
    BY DEF Threads
  <2>2. stacks[t].primary \in Nat /\ stacks[t].aux \in Nat /\ t \in Nat
    BY <1>1, <2>1 DEF Windows
  <2> DEFINE q == r \o Window("stack", t, stacks[t].primary)
             u == q \o Window("aux", t, stacks[t].aux)
  <2>3. q \in V
    <3> HIDE DEF q
    <3>1. q = r \o Window("stack", t, stacks[t].primary) /\ "stack" \in Kinds
      BY DEF q, Kinds
    <3> QED BY Zenon, <2>2, <3>1, AddWindow DEF WindowAdded
  <2>4. u \in V
    <3> HIDE DEF q, u
    <3>1. u = q \o Window("aux", t, stacks[t].aux) /\ "aux" \in Kinds
      BY DEF u, Kinds
    <3> QED BY Zenon, <2>2, <2>3, <3>1, AddWindow DEF WindowAdded
  <2> QED BY <2>4
<1>3. <<>> \in V
  OBVIOUS
<1> HIDE DEF next, V
<1>4. step \in StepFunctions(N, V)
  BY <1>2 DEF StepFunctions
<1>5. \A t \in 1 .. N, r \in V : step[<<t, r>>] = next(t, r)
  OBVIOUS
<1> HIDE DEF N, step
<1>6. PICK f \in [0 .. N -> V] : IsRecursive(f, N, <<>>, step)
  BY <1>1, <1>3, <1>4, Recursion
<1>7. Rec(f)
  <2>1. \A t \in 0 .. N : t # 0 => t \in 1 .. N /\ f[t - 1] \in V
    BY <1>1
  <2>2. \A t \in 0 .. N : t # 0 => step[<<t, f[t - 1]>>] = next(t, f[t - 1])
    BY <2>1, <1>5
  <2> QED BY Zenon, <1>6, <2>2 DEF IsRecursive
<1> DEFINE g == CHOOSE h : Rec(h)
<1>8. Rec(g)
  <2> HIDE DEF Rec
  <2> QED BY <1>7
<1>9. StackRanges = g[N]
  BY DEF StackRanges, next, N
<1> HIDE DEF g
<1> DEFINE T == {n \in Nat : n <= N => StacksUpTo(g[n], n)}
<1>10. 0 \in T
  <2>1. g[0] = <<>>
    BY <1>1, <1>8
  <2>2. <<>> \in Seq(MemRange(Kinds)) /\ Len(<<>>) = 0
    OBVIOUS
  <2>3. SizesOf(<<>>) = <<>> /\ <<>> \in Seq(Nat)
    BY DEF SizesOf
  <2>4. Total(<<>>) = 0
    BY Zenon, <2>3, TotalDef
  <2>5. RangesCost(<<>>) = 0
    BY <2>4, LayoutAssumption DEF RangesCost
  <2>6. PrefixSums(PerThread(stacks))[0] = 0 /\ PrefixSums(PerThreadCost(stacks))[0] = 0
    BY PerThreadDef, PrefixSumsDef
  <2>7. StacksUpTo(<<>>, 0)
    BY <2>2, <2>3, <2>4, <2>5, <2>6 DEF StacksUpTo
  <2> QED BY <2>1, <2>7
<1>11. ASSUME NEW n \in Nat, n \in T PROVE n + 1 \in T
  <2> SUFFICES ASSUME n + 1 <= N PROVE StacksUpTo(g[n + 1], n + 1)
    OBVIOUS
  <2>1. n + 1 \in 0 .. N /\ n + 1 \in 1 .. N /\ n + 1 # 0 /\ (n + 1) - 1 = n /\ n <= N
    BY <1>1
  <2>2. g[n + 1] = next(n + 1, g[n])
    BY <1>8, <2>1
  <2>3. StacksUpTo(g[n], n) /\ n + 1 \in Threads
    BY <1>11, <2>1 DEF Threads, N
  <2>4. StacksUpTo(next(n + 1, g[n]), n + 1)
    BY <2>3, StacksUpToNext DEF next
  <2> QED BY <2>2, <2>4
<1>12. N \in T
  <2> HIDE DEF T
  <2>1. \A n \in Nat : n \in T
    BY <1>10, <1>11, NatInduct
  <2> QED BY <1>1, <2>1
<1>13. StacksUpTo(g[N], N)
  BY <1>1, <1>12
<1> QED BY <1>9, <1>13 DEF N

\* Ranges that are numbered, and the indirect pages.
LEMMA NamedDef ==
  ASSUME NEW what \in Kinds, NEW s \in Seq(Nat)
  PROVE  /\ Named(what, s) \in Seq(MemRange(Kinds)) /\ Len(Named(what, s)) = Len(s)
         /\ SizesOf(Named(what, s)) = s
         /\ \A i \in 1 .. Len(s) : Named(what, s)[i].of = <<what, i>>
<1> DEFINE n == Len(s)
           q == [i \in 1 .. n |-> [of |-> <<what, i>>, size |-> s[i]]]
<1>1. n \in Nat /\ \A i \in 1 .. n : s[i] \in Nat
  OBVIOUS
<1>2. s = [i \in 1 .. n |-> s[i]]
  OBVIOUS
<1> HIDE DEF n
<1>3. q \in [1 .. n -> MemRange(Kinds)]
  BY <1>1 DEF MemRange
<1>4. \A i \in 1 .. n : q[i].of = <<what, i>> /\ q[i].size = s[i]
  OBVIOUS
<1>5. q \in Seq(MemRange(Kinds)) /\ Len(q) = n
  <2> HIDE DEF q
  <2> QED BY <1>1, <1>3
<1>6. SizesOf(q) = s
  <2> HIDE DEF q
  <2>1. [i \in 1 .. n |-> q[i].size] = [i \in 1 .. n |-> s[i]]
    BY <1>4
  <2> QED BY <1>2, <1>5, <2>1 DEF SizesOf
<1>7. Named(what, s) = q
  BY DEF Named, n
<1> HIDE DEF q
<1> QED BY <1>4, <1>5, <1>6, <1>7 DEF n

LEMMA PagesDef ==
  ASSUME indirect \in Nat
  PROVE  /\ Pages \in Seq(MemRange(Kinds)) /\ Len(Pages) = indirect
         /\ RangesCost(SizesOf(Pages)) = indirect * (Descriptor + Page)
         /\ \A i \in 1 .. indirect : Pages[i].of = <<"indirect", i>>
<1> DEFINE n == indirect
           s == [i \in 1 .. n |-> Page]
<1>1. Page \in Nat /\ Descriptor \in Nat /\ "indirect" \in Kinds
  BY LayoutAssumption DEF Kinds
<1>2. s \in Seq(Nat) /\ Len(s) = n /\ \A i \in 1 .. n : s[i] = Page
  BY <1>1
<1>3. Pages = Named("indirect", s)
  BY <1>2 DEF Pages, Named
<1>4. Total(s) = n * Page
  BY Zenon, <1>1, TotalConstant
<1> HIDE DEF s
<1>5. RangesCost(s) = n * Page + n * Descriptor
  BY <1>2, <1>4 DEF RangesCost
<1>6. n * Page + n * Descriptor = n * (Descriptor + Page)
  BY <1>1
<1> QED BY <1>1, <1>2, <1>3, <1>5, <1>6, NamedDef

-----------------------------------------------------------------------------
(***************************************************************************)
(* What is laid out, in a state of the right type.                         *)
(***************************************************************************)

FixedSizes == [i \in DOMAIN Physical |-> FixedStorage(Physical[i])]
PlacedSizes == [i \in DOMAIN Physical |->
                  IF Present(Physical[i]) THEN Storage(Physical[i]) ELSE 0]
Padded == [k \in DOMAIN user |-> Up(user[k])]

\* The ranges a selected-memory dump describes behind its stacks.
Others == Named("proc", First(proc, procCount)) \o Named("data", First(data, dataCount)) \o Pages

LEMMA OthersDef ==
  ASSUME TypeOK
  PROVE  /\ Others \in Seq(MemRange(Kinds))
         /\ RangesCost(SizesOf(Others)) =
              RangesCost(First(proc, procCount)) + RangesCost(First(data, dataCount))
                + indirect * (Descriptor + Page)
         /\ \A i \in 1 .. Len(Others), t \in Threads : Others[i].of # <<"stack", t>>
<1> DEFINE a == Named("proc", First(proc, procCount))
           b == Named("data", First(data, dataCount))
           c == Pages
<1>1. /\ First(proc, procCount) \in Seq(Nat) /\ First(data, dataCount) \in Seq(Nat)
      /\ indirect \in Nat /\ "proc" \in Kinds /\ "data" \in Kinds
  <2>1. proc \in Seq(Nat) /\ data \in Seq(Nat) /\ procCount \in Nat /\ dataCount \in Nat
        /\ indirect \in Nat
    BY DEF TypeOK
  <2> QED BY Zenon, <2>1, FirstDef DEF Kinds
<1>2. /\ a \in Seq(MemRange(Kinds)) /\ SizesOf(a) = First(proc, procCount)
      /\ \A i \in 1 .. Len(a) : a[i].of[1] = "proc"
  BY <1>1, NamedDef
<1>3. /\ b \in Seq(MemRange(Kinds)) /\ SizesOf(b) = First(data, dataCount)
      /\ \A i \in 1 .. Len(b) : b[i].of[1] = "data"
  BY <1>1, NamedDef
<1>4. /\ c \in Seq(MemRange(Kinds)) /\ RangesCost(SizesOf(c)) = indirect * (Descriptor + Page)
      /\ SizesOf(c) \in Seq(Nat)
      /\ \A i \in 1 .. Len(c) : c[i].of[1] = "indirect"
  BY <1>1, PagesDef, SizesDef
<1>5. Others = (a \o b) \o c
  BY DEF Others
<1> HIDE DEF a, b, c
<1>6. /\ a \o b \in Seq(MemRange(Kinds)) /\ Len(a \o b) = Len(a) + Len(b)
      /\ SizesOf(a \o b) = SizesOf(a) \o SizesOf(b)
  BY Zenon, <1>2, <1>3, SizesConcat
<1>7. /\ Others \in Seq(MemRange(Kinds)) /\ Len(Others) = Len(a) + Len(b) + Len(c)
      /\ SizesOf(Others) = SizesOf(a \o b) \o SizesOf(c)
  <2> DEFINE u == a \o b
  <2>1. Others = u \o c /\ u \in Seq(MemRange(Kinds)) /\ Len(u) = Len(a) + Len(b)
    BY <1>5, <1>6
  <2> HIDE DEF u
  <2>2. /\ Others \in Seq(MemRange(Kinds)) /\ Len(Others) = Len(u) + Len(c)
        /\ SizesOf(Others) = SizesOf(u) \o SizesOf(c)
    BY Zenon, <1>4, <2>1, SizesConcat
  <2> QED BY <2>1, <2>2 DEF u
<1>8. SizesOf(a \o b) \in Seq(Nat)
  BY <1>6, SizesDef
<1>9. RangesCost(SizesOf(Others)) = RangesCost(SizesOf(a)) + RangesCost(SizesOf(b)) + RangesCost(SizesOf(c))
  <2>1. RangesCost(SizesOf(a \o b)) = RangesCost(SizesOf(a)) + RangesCost(SizesOf(b))
    BY <1>1, <1>2, <1>3, <1>6, RangesCostConcat
  <2>2. RangesCost(SizesOf(Others)) = RangesCost(SizesOf(a \o b)) + RangesCost(SizesOf(c))
    BY <1>4, <1>7, <1>8, RangesCostConcat
  <2> QED BY <2>1, <2>2
<1>10. ASSUME NEW i \in 1 .. Len(Others), NEW t \in Threads PROVE Others[i].of # <<"stack", t>>
  <2>1. Len(a) \in Nat /\ Len(b) \in Nat /\ Len(c) \in Nat
    BY <1>2, <1>3, <1>4
  <2>2. <<"stack", t>>[1] = "stack"
    OBVIOUS
  <2>3. CASE i <= Len(a)
    <3>1. i \in 1 .. Len(a) /\ Others[i] = a[i]
      BY <1>2, <1>3, <1>4, <1>5, <1>7, <2>1, <2>3
    <3> QED BY <1>2, <2>2, <3>1
  <2>4. CASE ~ (i <= Len(a)) /\ i <= Len(a) + Len(b)
    <3>1. i - Len(a) \in 1 .. Len(b) /\ Others[i] = b[i - Len(a)]
      BY <1>2, <1>3, <1>4, <1>5, <1>7, <2>1, <2>4
    <3> QED BY Zenon, <1>3, <2>2, <3>1
  <2>5. CASE ~ (i <= Len(a) + Len(b))
    <3>1. i - (Len(a) + Len(b)) \in 1 .. Len(c) /\ Others[i] = c[i - (Len(a) + Len(b))]
      BY <1>2, <1>3, <1>4, <1>5, <1>6, <1>7, <2>1, <2>5
    <3> QED BY Zenon, <1>4, <2>2, <3>1
  <2> QED BY <2>3, <2>4, <2>5
<1> QED BY <1>2, <1>3, <1>4, <1>7, <1>9, <1>10

\* What the memory of a dump takes, descriptors included, is what it was charged.
LEMMA DescribedDef ==
  ASSUME TypeOK
  PROVE  /\ Described \in Seq(MemRange(Kinds)) /\ SizesOf(Described) \in Seq(Nat)
         /\ full => RangesCost(SizesOf(Described)) = RangesCost(regions)
         /\ ~full => /\ Described = StackRanges \o Others
                     /\ RangesCost(SizesOf(Described)) =
                          StackCost(stacks) + RangesCost(First(proc, procCount))
                            + RangesCost(First(data, dataCount)) + indirect * (Descriptor + Page)
<1>1. stacks \in [Threads -> Windows] /\ regions \in Seq(Nat) /\ "region" \in Kinds
  BY DEF TypeOK, Kinds
<1>2. CASE full
  <2>1. Described = Named("region", regions)
    BY <1>2 DEF Described
  <2> QED BY <1>1, <1>2, <2>1, NamedDef
<1>3. CASE ~full
  <2>1. StacksUpTo(StackRanges, ThreadCount)
    BY <1>1, StackRangesDef
  <2>2. /\ StackRanges \in Seq(MemRange(Kinds))
        /\ RangesCost(SizesOf(StackRanges)) = StackCost(stacks)
    BY <1>1, <2>1, PerThreadDef DEF StacksUpTo, Total
  <2> DEFINE a == Named("proc", First(proc, procCount))
             b == Named("data", First(data, dataCount))
             c == Pages
             s == StackRanges
  <2>3. Described = ((s \o a) \o b) \o c /\ Others = (a \o b) \o c
    BY <1>3 DEF Described, Others
  <2>4. /\ a \in Seq(MemRange(Kinds)) /\ b \in Seq(MemRange(Kinds)) /\ c \in Seq(MemRange(Kinds))
    <3>1. proc \in Seq(Nat) /\ data \in Seq(Nat) /\ procCount \in Nat /\ dataCount \in Nat
          /\ indirect \in Nat
      BY DEF TypeOK
    <3>2. First(proc, procCount) \in Seq(Nat) /\ First(data, dataCount) \in Seq(Nat)
      BY Zenon, <3>1, FirstDef
    <3> QED BY <3>1, <3>2, NamedDef, PagesDef DEF Kinds
  <2>5. Described = s \o Others
    <3> HIDE DEF a, b, c, s
    <3>1. s \in Seq(MemRange(Kinds))
      BY <2>2 DEF s
    <3> DEFINE ab == a \o b
    <3>2. ab \in Seq(MemRange(Kinds))
      BY <2>4, ConcatProperties
    <3>3. (s \o a) \o b = s \o ab
      BY <2>4, <3>1, ConcatAssociative
    <3>4. Described = (s \o ab) \o c /\ Others = ab \o c
      BY <2>3, <3>3
    <3> HIDE DEF ab
    <3>5. (s \o ab) \o c = s \o (ab \o c)
      <4>1. \A S : \A x, y, z \in Seq(S) : (x \o y) \o z = x \o (y \o z)
        BY ONLY Zenon, ConcatAssociative, Zenon
      <4>2. c \in Seq(MemRange(Kinds))
        BY <2>4
      <4> QED BY ONLY <3>1, <3>2, <4>1, <4>2
    <3> QED BY <3>4, <3>5
  <2> HIDE DEF a, b, c
  <2>6. /\ Others \in Seq(MemRange(Kinds))
        /\ RangesCost(SizesOf(Others)) =
              RangesCost(First(proc, procCount)) + RangesCost(First(data, dataCount))
                + indirect * (Descriptor + Page)
    BY OthersDef
  <2>7. /\ Described \in Seq(MemRange(Kinds))
        /\ SizesOf(Described) = SizesOf(StackRanges) \o SizesOf(Others)
    BY <2>2, <2>5, <2>6, SizesConcat
  <2>8. SizesOf(StackRanges) \in Seq(Nat) /\ SizesOf(Others) \in Seq(Nat) /\ SizesOf(Described) \in Seq(Nat)
    BY <2>2, <2>6, <2>7, SizesDef
  <2>9. RangesCost(SizesOf(Described)) = RangesCost(SizesOf(StackRanges)) + RangesCost(SizesOf(Others))
    BY <2>7, <2>8, RangesCostConcat
  <2>10. /\ RangesCost(First(proc, procCount)) \in Nat /\ RangesCost(First(data, dataCount)) \in Nat
         /\ indirect * (Descriptor + Page) \in Nat /\ StackCost(stacks) \in Nat
    <3>1. proc \in Seq(Nat) /\ data \in Seq(Nat) /\ procCount \in Nat /\ dataCount \in Nat
          /\ indirect \in Nat /\ Descriptor + Page \in Nat
      <4>1. Descriptor \in Nat /\ Page \in Nat
        BY LayoutAssumption
      <4> QED BY <4>1 DEF TypeOK
    <3>2. First(proc, procCount) \in Seq(Nat) /\ First(data, dataCount) \in Seq(Nat)
      BY Zenon, <3>1, FirstDef
    <3>3. \A x, y \in Nat : x * y \in Nat
      OBVIOUS
    <3> QED BY Zenon, <1>1, <3>1, <3>2, <3>3, RangesCostType, PerThreadDef
  <2> QED BY <1>3, <2>2, <2>5, <2>6, <2>7, <2>8, <2>9, <2>10
<1> QED BY <1>2, <1>3

LEMMA MemoryListDef ==
  ASSUME TypeOK
  PROVE  /\ MemoryListSize \in Nat /\ MemoryBytes \in Nat
         /\ MemoryListSize + MemoryBytes =
              (IF full THEN List64Header ELSE ListHeader) + RangesCost(SizesOf(Described))
<1> DEFINE n == Len(Described)
           h == IF full THEN List64Header ELSE ListHeader
           b == Total(SizesOf(Described))
<1>1. h \in Nat /\ Descriptor \in Nat
  BY LayoutAssumption
<1>2. Described \in Seq(MemRange(Kinds))
  BY DescribedDef
<1>3. n \in Nat /\ b \in Nat /\ Len(SizesOf(Described)) = n
  BY <1>2, SizesDef, TotalDef
<1>4. MemoryListSize = h + n * Descriptor /\ MemoryBytes = b
  BY DEF MemoryListSize, MemoryBytes
<1>5. RangesCost(SizesOf(Described)) = b + n * Descriptor
  BY <1>3 DEF RangesCost
<1> HIDE DEF n, h, b
<1>6. n * Descriptor \in Nat
  BY <1>1, <1>3
<1> DEFINE d == n * Descriptor
<1> HIDE DEF d
<1>7. MemoryListSize = h + d /\ MemoryBytes = b /\ RangesCost(SizesOf(Described)) = b + d /\ d \in Nat
  BY <1>4, <1>5, <1>6 DEF d
<1>8. MemoryListSize \in Nat /\ MemoryBytes \in Nat
      /\ MemoryListSize + MemoryBytes = h + RangesCost(SizesOf(Described))
  BY <1>1, <1>3, <1>7
<1> QED BY <1>8 DEF h

LEMMA StorageType ==
  ASSUME TypeOK
  PROVE  \A stream \in Streams : FixedStorage(stream) \in Nat /\ Storage(stream) \in Nat
<1> TAKE stream \in Streams
<1>1. stream # "MemoryList" => SizeOf[stream] \in Nat
  <2>1. SizeOf \in [Streams \ {"MemoryList"} -> Nat]
    BY LayoutAssumption
  <2> QED BY <2>1
<1>2. FixedStorage(stream) \in Nat
  BY <1>1 DEF FixedStorage
<1>3. MemoryListSize \in Nat
  BY MemoryListDef
<1> QED BY <1>2, <1>3 DEF Storage

\* The sizes charged, and the sizes laid out: the memory list apart, none is
\* laid out with more than it was charged.
LEMMA PlacedDef ==
  ASSUME TypeOK
  PROVE  /\ FixedSizes \in Seq(Nat) /\ Len(FixedSizes) = 13
         /\ PlacedSizes \in Seq(Nat) /\ Len(PlacedSizes) = 13
         /\ \A i \in 1 .. 13 : PlacedSizes[i] =
              IF Present(Physical[i]) THEN Storage(Physical[i]) ELSE 0
         /\ Total(PlacedSizes) <= Total(FixedSizes) + MemoryListSize
<1>1. \A i \in 1 .. 13 : Physical[i] \in Streams
  BY PhysicalOrder
<1>2. \A i \in 1 .. 13 : FixedStorage(Physical[i]) \in Nat /\ Storage(Physical[i]) \in Nat
  BY <1>1, StorageType
<1>3. /\ FixedSizes \in [1 .. 13 -> Nat]
      /\ \A i \in 1 .. 13 : FixedSizes[i] = FixedStorage(Physical[i])
  BY <1>2, PhysicalOrder DEF FixedSizes
<1>4. /\ PlacedSizes \in [1 .. 13 -> Nat]
      /\ \A i \in 1 .. 13 : PlacedSizes[i] = IF Present(Physical[i]) THEN Storage(Physical[i]) ELSE 0
  BY <1>2, PhysicalOrder DEF PlacedSizes
<1>5. /\ FixedSizes \in Seq(Nat) /\ Len(FixedSizes) = 13
      /\ PlacedSizes \in Seq(Nat) /\ Len(PlacedSizes) = 13
  <2>1. \A n \in Nat : \A f \in [1 .. n -> Nat] : f \in Seq(Nat) /\ Len(f) = n
    OBVIOUS
  <2>2. 13 \in Nat
    OBVIOUS
  <2>3. FixedSizes \in [1 .. 13 -> Nat] /\ PlacedSizes \in [1 .. 13 -> Nat]
    BY <1>3, <1>4
  <2> QED BY ONLY Zenon, <2>1, <2>2, <2>3
<1>6. MemoryListSize \in Nat
  BY MemoryListDef
<1>7. ASSUME NEW i \in 1 .. 13
      PROVE  PlacedSizes[i] <= FixedSizes[i] + (IF i = 11 THEN MemoryListSize ELSE 0)
  <2>1. Physical[i] # "MemoryList" => Storage(Physical[i]) = FixedStorage(Physical[i])
    BY DEF Storage
  <2>2. Physical[i] = "MemoryList" => i = 11 /\ Storage(Physical[i]) = MemoryListSize
    BY PhysicalOrder DEF Storage
  <2>3. PlacedSizes[i] <= Storage(Physical[i])
    BY <1>2, <1>4
  <2> QED BY <1>2, <1>3, <1>4, <1>6, <2>1, <2>2, <2>3
<1>8. PrefixSums(PlacedSizes)[13] <= PrefixSums(FixedSizes)[13] + MemoryListSize
  <2>1. 13 \in Nat /\ 11 \in Nat /\ 13 <= Len(PlacedSizes) /\ 13 <= Len(FixedSizes)
    BY <1>5
  <2> QED BY Zenon, <1>5, <1>6, <1>7, <2>1, PrefixExceeds
<1> QED BY <1>4, <1>5, <1>8 DEF Total

\* The cursor behind each stream.
LEMMA CursorDef ==
  ASSUME TypeOK
  PROVE  /\ DirectoryEnd \in Nat
         /\ \A i \in 0 .. 13 : Cursor(i) \in Nat /\ Cursor(i) <= Cursor(13)
         /\ \A i \in 1 .. 13 : Cursor(i) =
              Cursor(i - 1) + (IF Present(Physical[i]) THEN Storage(Physical[i]) ELSE 0)
         /\ Cursor(13) <= DirectoryEnd + Total(FixedSizes) + MemoryListSize
<1> DEFINE o == PrefixSums(PlacedSizes)
<1>1. DirectoryEnd \in Nat
  <2>1. HeaderSize \in Nat /\ DirectorySize \in Nat /\ streamCount \in Nat
    BY LayoutAssumption DEF TypeOK
  <2>2. streamCount * DirectorySize \in Nat
    BY <2>1
  <2> QED BY <2>1, <2>2 DEF DirectoryEnd
<1>2. PlacedSizes \in Seq(Nat) /\ Len(PlacedSizes) = 13
  BY PlacedDef
<1>3. /\ o \in [0 .. 13 -> Nat]
      /\ \A i \in 1 .. 13 : o[i] = o[i - 1] + PlacedSizes[i]
  BY Zenon, <1>2, PrefixSumsDef
<1>4. \A i \in 0 .. 13 : o[i] <= o[13]
  <2> TAKE i \in 0 .. 13
  <2>1. i \in 0 .. Len(PlacedSizes) /\ 13 \in i .. Len(PlacedSizes)
    BY <1>2
  <2> QED BY Zenon, <1>2, <2>1, PrefixMonotone
<1>5. o[13] = Total(PlacedSizes)
  BY <1>2 DEF Total
<1>6. \A i : Cursor(i) = DirectoryEnd + o[i]
  BY DEF Cursor, PlacedSizes
<1> HIDE DEF o
<1>7. \A i \in 0 .. 13 : Cursor(i) \in Nat /\ Cursor(i) <= Cursor(13)
  BY <1>1, <1>3, <1>4, <1>6
<1>8. ASSUME NEW i \in 1 .. 13
      PROVE  Cursor(i) = Cursor(i - 1) + (IF Present(Physical[i]) THEN Storage(Physical[i]) ELSE 0)
  <2>1. i \in 0 .. 13 /\ i - 1 \in 0 .. 13
    OBVIOUS
  <2>2. o[i] = o[i - 1] + PlacedSizes[i] /\ o[i - 1] \in Nat /\ PlacedSizes[i] \in Nat
    <3>1. \A k \in 1 .. Len(PlacedSizes) : PlacedSizes[k] \in Nat
      <4>1. \A s \in Seq(Nat) : \A k \in 1 .. Len(s) : s[k] \in Nat
        OBVIOUS
      <4> QED BY ONLY Zenon, <1>2, <4>1
    <3> QED BY Zenon, <1>2, <1>3, <2>1, <3>1
  <2>3. PlacedSizes[i] = IF Present(Physical[i]) THEN Storage(Physical[i]) ELSE 0
    BY Zenon, PlacedDef
  <2> DEFINE size == IF Present(Physical[i]) THEN Storage(Physical[i]) ELSE 0
  <2> HIDE DEF size
  <2>4. Cursor(i) = Cursor(i - 1) + size
    BY <1>1, <1>6, <2>2, <2>3 DEF size
  <2> QED BY <2>4 DEF size
<1>9. Cursor(13) <= DirectoryEnd + Total(FixedSizes) + MemoryListSize
  <2>1. Total(FixedSizes) \in Nat /\ MemoryListSize \in Nat /\ o[13] \in Nat
    BY <1>3, PlacedDef, TotalDef, MemoryListDef
  <2>2. o[13] <= Total(FixedSizes) + MemoryListSize
    BY <1>5, PlacedDef
  <2> QED BY <1>1, <1>6, <2>1, <2>2
<1> QED BY <1>1, <1>7, <1>8, <1>9

\* The cursor behind each user stream.
LEMMA UserCursorDef ==
  ASSUME TypeOK
  PROVE  /\ Padded \in Seq(Nat) /\ Len(Padded) = Len(user)
         /\ \A i \in 0 .. Len(user) :
              /\ PrefixSums(Padded)[i] \in Nat
              /\ UserCursor(i) = Cursor(13) + PrefixSums(Padded)[i]
              /\ UserCursor(i) \in Nat /\ Cursor(13) <= UserCursor(i)
         /\ UserCursor(0) = Cursor(13)
<1>1. user \in Seq(Nat \ {0}) /\ Len(user) \in Nat /\ DOMAIN user = 1 .. Len(user)
  BY DEF TypeOK
<1>2. Padded \in [1 .. Len(user) -> Nat]
  <2>1. \A k \in 1 .. Len(user) : user[k] \in Nat
    BY <1>1
  <2> QED BY Zenon, <1>1, <2>1, UpType DEF Padded
<1>3. Padded \in Seq(Nat) /\ Len(Padded) = Len(user)
  BY <1>1, <1>2
<1>4. PrefixSums(Padded) \in [0 .. Len(user) -> Nat] /\ PrefixSums(Padded)[0] = 0
  BY <1>3, PrefixSumsDef
<1>5. Cursor(13) \in Nat
  BY CursorDef
<1>6. \A i : UserCursor(i) = Cursor(13) + PrefixSums(Padded)[i]
  BY PhysicalOrder DEF UserCursor, Padded
<1>7. \A i \in 0 .. Len(user) :
        /\ PrefixSums(Padded)[i] \in Nat
        /\ UserCursor(i) = Cursor(13) + PrefixSums(Padded)[i]
        /\ UserCursor(i) \in Nat /\ Cursor(13) <= UserCursor(i)
  BY <1>4, <1>5, <1>6
<1>8. UserCursor(0) = Cursor(13)
  BY <1>1, <1>4, <1>5, <1>6
<1> QED BY <1>3, <1>7, <1>8

LEMMA PlaceDef ==
  ASSUME NEW stream \in Streams
  PROVE  Place(stream) \in 1 .. 13 /\ Physical[Place(stream)] = stream
<1>1. \E i \in DOMAIN Physical : Physical[i] = stream
  BY DEF Streams
<1> QED BY <1>1, PhysicalOrder DEF Place

-----------------------------------------------------------------------------
(***************************************************************************)
(* The inductive invariant: the bytes admitted so far are those of what    *)
(* was admitted, stream by stream and range by range.                      *)
(***************************************************************************)

\* The streams counted so far; the user's join the directory with the layout.
StreamsCounted ==
  /\ pc \in {"memory", "proc", "data", "user", "indirect", "layout"} =>
       streamCount = 6 + Cardinality(wanted)
  /\ pc \in {"guard", "emit", "done"} => streamCount = 6 + Cardinality(wanted) + included
  /\ Len(user) <= kMaxUserStreams

\* What comes later in the admission is not there yet, and a full-memory dump
\* skips the selected ranges.
NothingYet ==
  /\ pc \in {"memory", "proc"} => procCount = 0
  /\ pc \in {"memory", "proc", "data"} => dataCount = 0 /\ ~includeData /\ included = 0
  /\ pc \in {"memory", "proc", "data", "user", "indirect"} => indirect = 0
  /\ pc \in {"proc", "data", "indirect"} => ~full

\* The flag that WriteSelectedMemoryBytes looks at and the count that
\* WriteSelectedMemoryDescriptors does are dropped together.
DataFlag == dataCount = IF includeData THEN Len(data) ELSE 0

BaseCharge == HeaderSize + (6 + Cardinality(wanted)) * DirectorySize + Total(FixedSizes)

MemoryCharge ==
  IF full
  THEN List64Header + RangesCost(regions)
  ELSE ListHeader + (StackCost(stacks) + RangesCost(First(proc, procCount))
                       + RangesCost(First(data, dataCount)))

UserCharge == included * DirectorySize + PrefixSums(Padded)[included]

Accounting ==
  pc \notin {"memory", "failed"} => used = BaseCharge + MemoryCharge + UserCharge

\* A selected-memory dump is within its cap at every step.
WithinBudget ==
  pc \notin {"memory", "failed"} /\ ~full => used + indirect * (Descriptor + Page) <= Cap

GuardPassed == pc \in {"emit", "done"} => ~TooLarge

\* The last emission stays where it was put.
LastInPlace ==
  last.stream # "none" =>
    /\ pc \in {"emit", "done", "failed"}
    /\ Present(last.stream)
    /\ last.at = Rva(last.stream) /\ last.size = Extent(last.stream)

Bookkeeping ==
  StreamsCounted /\ NothingYet /\ DataFlag /\ Accounting /\ WithinBudget

IInv == TypeOK /\ Bookkeeping /\ GuardPassed /\ LastInPlace

\* Six streams.
LEMMA SixStreams ==
  ASSUME NEW a, NEW b, NEW c, NEW d, NEW e, NEW f,
         a \notin {b, c, d, e, f}, b \notin {c, d, e, f}, c \notin {d, e, f},
         d \notin {e, f}, e # f
  PROVE  IsFiniteSet({a, b, c, d, e, f}) /\ Cardinality({a, b, c, d, e, f}) = 6
<1>1. IsFiniteSet({f}) /\ Cardinality({f}) = 1
  BY Zenon, FS_Singleton
<1>2. /\ {e, f} = {f} \cup {e} /\ {d, e, f} = {e, f} \cup {d} /\ {c, d, e, f} = {d, e, f} \cup {c}
      /\ {b, c, d, e, f} = {c, d, e, f} \cup {b} /\ {a, b, c, d, e, f} = {b, c, d, e, f} \cup {a}
  OBVIOUS
<1>3. IsFiniteSet({e, f}) /\ Cardinality({e, f}) = 2
  <2>1. e \notin {f}
    OBVIOUS
  <2> QED BY <1>1, <1>2, <2>1, FS_AddElement
<1>4. IsFiniteSet({d, e, f}) /\ Cardinality({d, e, f}) = 3
  BY <1>2, <1>3, FS_AddElement
<1>5. IsFiniteSet({c, d, e, f}) /\ Cardinality({c, d, e, f}) = 4
  BY <1>2, <1>4, FS_AddElement
<1>6. IsFiniteSet({b, c, d, e, f}) /\ Cardinality({b, c, d, e, f}) = 5
  BY <1>2, <1>5, FS_AddElement
<1> QED BY <1>2, <1>6, FS_AddElement

LEMMA OptionalDef == IsFiniteSet(Optional) /\ Cardinality(Optional) = 6
<1> DEFINE S == {"CommentW", "UnloadedModules", "ThreadNames", "ThreadInfo", "MemoryInfo", "Exception"}
<1>1. /\ "CommentW" \notin {"UnloadedModules", "ThreadNames", "ThreadInfo", "MemoryInfo", "Exception"}
      /\ "UnloadedModules" \notin {"ThreadNames", "ThreadInfo", "MemoryInfo", "Exception"}
      /\ "ThreadNames" \notin {"ThreadInfo", "MemoryInfo", "Exception"}
      /\ "ThreadInfo" \notin {"MemoryInfo", "Exception"} /\ "MemoryInfo" # "Exception"
  OBVIOUS
<1>2. IsFiniteSet(S) /\ Cardinality(S) = 6
  BY Zenon, <1>1, SixStreams, Zenon
<1> QED BY <1>2 DEF Optional

LEMMA WantedDef ==
  ASSUME TypeOK
  PROVE  IsFiniteSet(wanted) /\ Cardinality(wanted) \in Nat
<1>1. wanted \subseteq Optional
  BY DEF TypeOK
<1>2. IsFiniteSet(wanted)
  BY <1>1, OptionalDef, FS_Subset
<1> QED BY <1>2, FS_CardinalityType

LEMMA ChargeTypes ==
  ASSUME TypeOK
  PROVE  /\ BaseCharge \in Nat /\ MemoryCharge \in Nat /\ UserCharge \in Nat
         /\ \A i \in 0 .. Len(user) : i * DirectorySize \in Nat
         /\ (6 + Cardinality(wanted)) * DirectorySize \in Nat
         /\ included \in 0 .. Len(user) /\ included \in Nat
<1>1. DirectorySize \in Nat /\ HeaderSize \in Nat /\ ListHeader \in Nat /\ List64Header \in Nat
  BY LayoutAssumption
<1>2. 6 + Cardinality(wanted) \in Nat
  BY WantedDef
<1>3. \A x, y \in Nat : x * y \in Nat
  OBVIOUS
<1>4. (6 + Cardinality(wanted)) * DirectorySize \in Nat
  BY <1>1, <1>2, <1>3
<1>5. included \in 0 .. Len(user) /\ included \in Nat /\ Len(user) \in Nat
  BY DEF TypeOK
<1>6. \A i \in 0 .. Len(user) : i * DirectorySize \in Nat
  BY <1>1, <1>3, <1>5
<1>7. BaseCharge \in Nat
  <2>1. Total(FixedSizes) \in Nat
    BY PlacedDef, TotalDef
  <2> QED BY <1>1, <1>4, <2>1 DEF BaseCharge
<1>8. MemoryCharge \in Nat
  <2>1. /\ proc \in Seq(Nat) /\ data \in Seq(Nat) /\ regions \in Seq(Nat)
        /\ procCount \in Nat /\ dataCount \in Nat /\ stacks \in [Threads -> Windows]
    BY DEF TypeOK
  <2>2. First(proc, procCount) \in Seq(Nat) /\ First(data, dataCount) \in Seq(Nat)
    BY Zenon, <2>1, FirstDef
  <2>3. /\ RangesCost(regions) \in Nat /\ RangesCost(First(proc, procCount)) \in Nat
        /\ RangesCost(First(data, dataCount)) \in Nat /\ StackCost(stacks) \in Nat
    BY Zenon, <2>1, <2>2, RangesCostType, PerThreadDef
  <2> QED BY <1>1, <2>3 DEF MemoryCharge
<1>9. UserCharge \in Nat
  BY <1>5, <1>6, UserCursorDef DEF UserCharge
<1> QED BY <1>4, <1>5, <1>6, <1>7, <1>8, <1>9

\* Whatever is laid out was charged, the indirect pages apart.
LEMMA LaidOutIsCharged ==
  ASSUME TypeOK, Bookkeeping, pc \in {"guard", "emit", "done"}
  PROVE  /\ full => UserCursor(included) + MemoryBytes <= used
         /\ ~full => UserCursor(included) + MemoryBytes <= used + indirect * (Descriptor + Page)
<1> DEFINE w == (6 + Cardinality(wanted)) * DirectorySize
           u == included * DirectorySize
           p == PrefixSums(Padded)[included]
           f == Total(FixedSizes)
           x == indirect * (Descriptor + Page)
           m == RangesCost(SizesOf(Described))
           s == StackCost(stacks) + RangesCost(First(proc, procCount)) + RangesCost(First(data, dataCount))
<1>1. w \in Nat /\ u \in Nat /\ included \in 0 .. Len(user) /\ 6 + Cardinality(wanted) \in Nat
      /\ included \in Nat
  BY ChargeTypes, WantedDef
<1>2. p \in Nat /\ f \in Nat
  BY Zenon, <1>1, UserCursorDef, PlacedDef, TotalDef
<1>3. x \in Nat /\ m \in Nat
  <2>1. indirect \in Nat /\ Descriptor + Page \in Nat
    <3>1. Descriptor \in Nat /\ Page \in Nat
      BY LayoutAssumption
    <3> QED BY <3>1 DEF TypeOK
  <2> QED BY <2>1, DescribedDef, RangesCostType
<1>4. DirectoryEnd = HeaderSize + (w + u)
  <2>1. streamCount = (6 + Cardinality(wanted)) + included
    BY <1>1, WantedDef DEF Bookkeeping, StreamsCounted
  <2>2. \A a, b, c \in Nat : (a + b) * c = a * c + b * c
    OBVIOUS
  <2>3. DirectorySize \in Nat
    BY LayoutAssumption
  <2>4. ((6 + Cardinality(wanted)) + included) * DirectorySize = w + u
    BY <1>1, <2>2, <2>3
  <2> QED BY <2>1, <2>4 DEF DirectoryEnd
<1>5. used = (HeaderSize + w + f) + MemoryCharge + (u + p)
  BY DEF Bookkeeping, Accounting, BaseCharge, UserCharge
<1>6. UserCursor(included) <= DirectoryEnd + f + MemoryListSize + p
  <2>1. UserCursor(included) = Cursor(13) + p /\ Cursor(13) \in Nat /\ DirectoryEnd \in Nat
    <3>1. 13 \in 0 .. 13
      OBVIOUS
    <3>2. Cursor(13) \in Nat /\ DirectoryEnd \in Nat
      BY <3>1, CursorDef
    <3> QED BY <1>1, <3>2, UserCursorDef
  <2>2. Cursor(13) <= DirectoryEnd + f + MemoryListSize
    BY CursorDef
  <2>3. MemoryListSize \in Nat
    BY MemoryListDef
  <2> HIDE DEF p, f
  <2> QED BY <1>2, <2>1, <2>2, <2>3
<1>7. MemoryListSize \in Nat /\ MemoryBytes \in Nat
      /\ MemoryListSize + MemoryBytes = (IF full THEN List64Header ELSE ListHeader) + m
  BY MemoryListDef
<1>8. UserCursor(included) \in Nat /\ HeaderSize \in Nat /\ ListHeader \in Nat /\ List64Header \in Nat
  BY <1>1, UserCursorDef, LayoutAssumption
<1> HIDE DEF w, u, p, f, x, m, s
<1>9. UserCursor(included) + MemoryBytes
        <= HeaderSize + w + u + f + p + (IF full THEN List64Header ELSE ListHeader) + m
  <2> DEFINE h == IF full THEN List64Header ELSE ListHeader
  <2>1. h \in Nat /\ MemoryListSize + MemoryBytes = h + m
    BY <1>7, <1>8
  <2> HIDE DEF h
  <2>2. UserCursor(included) + MemoryBytes <= HeaderSize + w + u + f + p + h + m
    BY <1>1, <1>2, <1>3, <1>4, <1>6, <1>7, <1>8, <2>1
  <2> QED BY <2>2 DEF h
<1>10. CASE full
  <2>1. m = RangesCost(regions)
    BY <1>10, DescribedDef DEF m
  <2>2. MemoryCharge = List64Header + m
    BY <1>10, <2>1 DEF MemoryCharge
  <2> QED BY <1>1, <1>2, <1>3, <1>5, <1>8, <1>9, <1>10, <2>2
<1>11. CASE ~full
  <2>1. m = s + x
    BY <1>11, DescribedDef DEF m, s, x
  <2>2. MemoryCharge = ListHeader + s
    BY <1>11 DEF MemoryCharge, s
  <2>3. s \in Nat
    <3>1. /\ proc \in Seq(Nat) /\ data \in Seq(Nat) /\ procCount \in Nat /\ dataCount \in Nat
          /\ stacks \in [Threads -> Windows]
      BY DEF TypeOK
    <3>2. First(proc, procCount) \in Seq(Nat) /\ First(data, dataCount) \in Seq(Nat)
      BY Zenon, <3>1, FirstDef
    <3>3. /\ RangesCost(First(proc, procCount)) \in Nat
          /\ RangesCost(First(data, dataCount)) \in Nat /\ StackCost(stacks) \in Nat
      BY <3>1, <3>2, RangesCostType, PerThreadDef
    <3> QED BY <3>3 DEF s
  <2>4. used = (HeaderSize + w + f) + (ListHeader + s) + (u + p)
    BY <1>5, <2>2
  <2>5. UserCursor(included) + MemoryBytes <= HeaderSize + w + u + f + p + ListHeader + (s + x)
    BY <1>9, <1>11, <2>1
  <2>6. UserCursor(included) + MemoryBytes <= used + x
    BY <1>1, <1>2, <1>3, <1>7, <1>8, <2>3, <2>4, <2>5
  <2> QED BY <1>11, <2>6 DEF x
<1> QED BY <1>10, <1>11

-----------------------------------------------------------------------------
(***************************************************************************)
(* What is written is what is described.                                   *)
(***************************************************************************)

LEMMA EmittedOrder ==
  /\ DOMAIN Emitted = 1 .. 15 /\ Len(Emitted) = 15
  /\ {Emitted[i] : i \in DOMAIN Emitted} = Streams \cup {"Memory", "UserStreams"}
  /\ "Memory" \notin Streams /\ "UserStreams" \notin Streams
<1> DEFINE e == Emitted
<1>1. Len(e) = 15 /\ DOMAIN e = 1 .. 15
  BY DEF Emitted
<1>2. /\ e[1] = "SystemInfo" /\ e[2] = "MiscInfo" /\ e[3] = "CommentW" /\ e[4] = "ModuleList"
      /\ e[5] = "UnloadedModules" /\ e[6] = "ThreadList" /\ e[7] = "ThreadNames"
      /\ e[8] = "ThreadInfo" /\ e[9] = "MemoryInfo" /\ e[10] = "MemoryList" /\ e[11] = "Exception"
      /\ e[12] = "ThreadContexts" /\ e[13] = "Memory" /\ e[14] = "UserStreams" /\ e[15] = "CommentA"
  BY DEF Emitted
<1> HIDE DEF e
<1>3. \A i \in 1 .. 15 : i \in {1, 2, 3, 4, 5, 6, 7, 8, 9, 10, 11, 12, 13, 14, 15}
  OBVIOUS
<1>4. {e[i] : i \in 1 .. 15} = Streams \cup {"Memory", "UserStreams"}
  BY <1>2, <1>3, StreamNames
<1>5. "Memory" \notin Streams /\ "UserStreams" \notin Streams
  BY StreamNames
<1> QED BY <1>1, <1>4, <1>5 DEF e

\* The three loops agree on the ranges.
LEMMA BackedIsDescribed ==
  ASSUME TypeOK, DataFlag
  PROVE  Backed = Described
<1>1. data \in Seq(Nat) /\ Len(data) \in Nat /\ "data" \in Kinds
  BY DEF TypeOK, Kinds
<1>2. CASE includeData
  <2>1. First(data, dataCount) = data
    BY <1>1, <1>2, FirstDef DEF DataFlag
  <2> QED BY <1>2, <2>1 DEF Backed, Described
<1>3. CASE ~includeData
  <2>1. First(data, dataCount) = <<>>
    BY <1>1, <1>3, FirstDef DEF DataFlag
  <2>2. Named("data", <<>>) = <<>>
    BY DEF Named
  <2> QED BY Zenon, <1>3, <2>1, <2>2 DEF Backed, Described
<1> QED BY <1>2, <1>3 DEF TypeOK

\* Offsets and extents are numbers.
LEMMA PlaceTypes ==
  ASSUME TypeOK, DataFlag, NEW stream \in Streams \cup {"Memory", "UserStreams"}
  PROVE  Rva(stream) \in Nat /\ Extent(stream) \in Nat
<1>1. \A x \in Nat : Wrap(x) \in Nat
  <2>1. RvaModulus \in Nat \ {0}
    BY LayoutAssumption
  <2> QED BY <2>1 DEF Wrap
<1>2. included \in 0 .. Len(user) /\ 0 \in 0 .. Len(user)
  BY DEF TypeOK
<1>3. CASE stream = "Memory"
  <2>1. UserCursor(included) \in Nat
    BY <1>2, UserCursorDef
  <2>2. Extent(stream) = MemoryBytes
    BY <1>3, BackedIsDescribed DEF Extent, MemoryBytes
  <2> QED BY <1>1, <1>3, <2>1, <2>2, MemoryListDef DEF Rva
<1>4. CASE stream = "UserStreams"
  <2>1. UserCursor(0) \in Nat /\ PrefixSums(Padded)[included] \in Nat
    BY <1>2, UserCursorDef
  <2>2. Extent(stream) = PrefixSums(Padded)[included]
    BY <1>4 DEF Extent, Padded
  <2> QED BY <1>1, <1>4, <2>1, <2>2 DEF Rva
<1>5. CASE stream \in Streams
  <2>1. stream # "Memory" /\ stream # "UserStreams"
    BY <1>5, EmittedOrder
  <2>2. Rva(stream) = Wrap(Before(stream)) /\ Extent(stream) = Storage(stream)
    BY <2>1 DEF Rva, Extent
  <2>3. Place(stream) - 1 \in 0 .. 13
    BY <1>5, PlaceDef
  <2>4. Before(stream) \in Nat
    BY <2>3, CursorDef DEF Before
  <2> QED BY <1>1, <1>5, <2>2, <2>4, StorageType
<1> QED BY <1>3, <1>4, <1>5

-----------------------------------------------------------------------------
(***************************************************************************)
(* The initial states, and what a step leaves alone.                       *)
(***************************************************************************)

LEMMA InitIInv == Init => IInv
<1> SUFFICES ASSUME Init PROVE IInv
  OBVIOUS
<1>1. PICK array \in UserArrays : user = SnapshotUserStreams(array)
  BY DEF Init
<1>2. array \in Seq(Nat)
  BY LayoutAssumption
<1>3. user \in Seq(Nat \ {0}) /\ Len(user) <= kMaxUserStreams
  BY <1>1, <1>2, SnapshotDef
<1>4. /\ wanted \subseteq Optional /\ hardMax \in HardCaps /\ full \in BOOLEAN
      /\ streamCount = 6 + Cardinality(wanted)
  BY LayoutAssumption DEF Init
<1>5. Cardinality(wanted) \in Nat
  BY <1>4, OptionalDef, FS_Subset, FS_CardinalityType
<1>6. stacks \in [Threads -> Windows]
  BY DEF Init, Windows
<1>7. TypeOK
  <2>1. proc = <<>> /\ data = <<>> /\ regions = <<>> /\ <<>> \in Seq(Nat) /\ Len(<<>>) = 0
    BY DEF Init
  <2>2. {proc, data, regions} \subseteq Seq(Nat) /\ procCount \in 0 .. Len(proc) /\ dataCount \in 0 .. Len(data)
    BY <2>1 DEF Init
  <2>3. /\ {used, indirect, faults, position} \subseteq Nat /\ included \in 0 .. Len(user)
        /\ includeData \in BOOLEAN
    <3>1. Len(user) \in Nat /\ included = 0
      BY <1>3 DEF Init
    <3>2. included \in 0 .. Len(user)
      BY <3>1
    <3>3. includeData \in BOOLEAN
      BY Zenon DEF Init
    <3>4. {used, indirect, faults, position} \subseteq Nat
      BY DEF Init
    <3> QED BY <3>2, <3>3, <3>4
  <2>4. idx \in 1 .. Len(Emitted) + 1
    BY EmittedOrder DEF Init
  <2>5. last \in [stream : {"none"} \cup {Emitted[i] : i \in DOMAIN Emitted}, at : Nat, size : Nat]
    BY DEF Init
  <2>6. pc = "memory" /\ streamCount \in Nat
    BY <1>4, <1>5 DEF Init
  <2> QED BY Zenon, <1>3, <1>4, <1>6, <2>2, <2>3, <2>4, <2>5, <2>6 DEF TypeOK
<1>8. Bookkeeping
  BY <1>3, <1>4
  DEF Init, Bookkeeping, StreamsCounted, NothingYet, DataFlag, Accounting, WithinBudget
<1>9. GuardPassed /\ LastInPlace
  BY DEF Init, GuardPassed, LastInPlace
<1> QED BY <1>7, <1>8, <1>9 DEF IInv

\* Charges follow what is admitted, and offsets what is laid out.
LEMMA ChargesAlone ==
  /\ UNCHANGED wanted => BaseCharge' = BaseCharge
  /\ UNCHANGED <<full, stacks, proc, procCount, data, dataCount, regions>> =>
       MemoryCharge' = MemoryCharge
  /\ UNCHANGED <<user, included>> => UserCharge' = UserCharge
  /\ UNCHANGED <<full, hardMax>> => Cap' = Cap
<1>1. UNCHANGED wanted => BaseCharge' = BaseCharge
  BY DEF BaseCharge, FixedSizes, FixedStorage
<1>2. UNCHANGED <<full, stacks, proc, procCount, data, dataCount, regions>> =>
        MemoryCharge' = MemoryCharge
  BY DEF MemoryCharge
<1>3. UNCHANGED <<user, included>> => UserCharge' = UserCharge
  BY DEF UserCharge, Padded
<1>4. UNCHANGED <<full, hardMax>> => Cap' = Cap
  BY DEF Cap
<1> QED BY <1>1, <1>2, <1>3, <1>4

LEMMA LayoutAlone ==
  ASSUME UNCHANGED <<inputs, admission, streamCount>>
  PROVE  /\ \A stream : Rva(stream)' = Rva(stream) /\ Extent(stream)' = Extent(stream)
         /\ \A stream : Present(stream)' = Present(stream)
         /\ TooLarge' = TooLarge
<1> USE DEF inputs, admission, memory
<1>1. \A stream : Present(stream)' = Present(stream)
  BY DEF Present
<1>2. Described' = Described /\ Backed' = Backed
  BY DEF Described, Backed, StackRanges, Pages
<1>3. MemoryListSize' = MemoryListSize /\ MemoryBytes' = MemoryBytes
  BY <1>2 DEF MemoryListSize, MemoryBytes
<1>4. \A stream : Storage(stream)' = Storage(stream)
  BY <1>3 DEF Storage, FixedStorage
<1>5. PlacedSizes' = PlacedSizes /\ Padded' = Padded
  BY <1>1, <1>4 DEF PlacedSizes, Padded
<1>6. \A i : Cursor(i)' = Cursor(i) /\ UserCursor(i)' = UserCursor(i)
  BY <1>5 DEF Cursor, UserCursor, DirectoryEnd, PlacedSizes, Padded
<1>7. \A stream : Rva(stream)' = Rva(stream)
  BY <1>6 DEF Rva, Before
<1>8. \A stream : Extent(stream)' = Extent(stream)
  BY <1>2, <1>4, <1>5 DEF Extent, Padded
<1>9. TooLarge' = TooLarge
  BY <1>3, <1>4, <1>7 DEF TooLarge
<1> QED BY <1>1, <1>7, <1>8, <1>9
-----------------------------------------------------------------------------
(***************************************************************************)
(* Every step keeps the invariant.                                         *)
(***************************************************************************)

\* Until the emission starts nothing has been put anywhere.
LEMMA NothingEmitted ==
  ASSUME LastInPlace, pc \notin {"emit", "done", "failed"}, pc' \notin {"emit", "done"},
         UNCHANGED last
  PROVE  GuardPassed' /\ LastInPlace'
<1>1. last'.stream = "none"
  BY DEF LastInPlace
<1> QED BY <1>1 DEF GuardPassed, LastInPlace

LEMMA FailInv ==
  ASSUME IInv, Fail
  PROVE  IInv'
<1> USE DEF Fail, inputs, admission, memory, emission
<1>1. TypeOK'
  BY Zenon DEF IInv, TypeOK
<1>2. Bookkeeping'
  <2>1. Len(user)' <= kMaxUserStreams /\ pc' = "failed"
    BY DEF IInv, Bookkeeping, StreamsCounted
  <2>2. DataFlag'
    BY DEF IInv, Bookkeeping, DataFlag
  <2> QED BY <2>1, <2>2
      DEF Bookkeeping, StreamsCounted, NothingYet, Accounting, WithinBudget
<1>3. GuardPassed' /\ LastInPlace'
  <2>1. \A stream : /\ Rva(stream)' = Rva(stream) /\ Extent(stream)' = Extent(stream)
                    /\ Present(stream)' = Present(stream)
    BY LayoutAlone
  <2> QED BY <2>1 DEF IInv, GuardPassed, LastInPlace
<1> QED BY <1>1, <1>2, <1>3 DEF IInv

\* The fixed charge is the one of the directory before user streams join it.
LEMMA FixedSizeDef ==
  ASSUME StreamsCounted, pc = "memory"
  PROVE  FixedSize = BaseCharge
BY DEF FixedSize, BaseCharge, DirectoryEnd, StreamsCounted, FixedSizes

LEMMA UserChargeNone ==
  ASSUME TypeOK, included = 0
  PROVE  UserCharge = 0
<1>1. Padded \in Seq(Nat)
  BY UserCursorDef
<1>2. PrefixSums(Padded)[0] = 0
  BY <1>1, PrefixSumsDef
<1>3. DirectorySize \in Nat
  BY LayoutAssumption
<1> QED BY <1>2, <1>3 DEF UserCharge

LEMMA CaptureFullInv ==
  ASSUME IInv, CaptureFull
  PROVE  IInv'
<1> USE DEF CaptureFull, inputs, emission
<1>1. PICK list \in FullLists :
        /\ regions' = list
        /\ used' = FixedSize + List64Header + RangesCost(list)
  OBVIOUS
<1>2. TypeOK /\ StreamsCounted /\ NothingYet /\ DataFlag /\ LastInPlace
  BY DEF IInv, Bookkeeping
<1>3. list \in Seq(Nat)
  BY LayoutAssumption
<1>4. FixedSize = BaseCharge /\ BaseCharge \in Nat
  BY <1>2, FixedSizeDef, ChargeTypes
<1>5. RangesCost(list) \in Nat /\ List64Header \in Nat
  BY <1>3, RangesCostType, LayoutAssumption
<1>6. TypeOK'
  <2>1. used' \in Nat
    BY <1>1, <1>4, <1>5
  <2> QED BY Zenon, <1>1, <1>2, <1>3, <2>1 DEF TypeOK
<1>7. Accounting'
  <2>1. UserCharge = 0 /\ UserCharge' = UserCharge /\ BaseCharge' = BaseCharge
    BY <1>2, UserChargeNone, ChargesAlone DEF NothingYet
  <2>2. MemoryCharge' = List64Header + RangesCost(list)
    BY <1>1 DEF MemoryCharge
  <2>3. used' = BaseCharge' + MemoryCharge' + UserCharge'
    BY <1>1, <1>4, <1>5, <2>1, <2>2
  <2> QED BY <2>3 DEF Accounting
<1>8. Bookkeeping'
  <2>1. StreamsCounted' /\ NothingYet' /\ DataFlag' /\ WithinBudget'
    BY <1>2 DEF StreamsCounted, NothingYet, DataFlag, WithinBudget
  <2> QED BY <1>7, <2>1 DEF Bookkeeping
<1>9. GuardPassed' /\ LastInPlace'
  BY <1>2, NothingEmitted
<1> QED BY <1>6, <1>8, <1>9 DEF IInv
LEMMA RangesCostNone == RangesCost(<<>>) = 0
<1>1. <<>> \in Seq(Nat) /\ Len(<<>>) = 0 /\ Descriptor \in Nat
  BY LayoutAssumption
<1>2. Total(<<>>) = 0
  BY Zenon, <1>1, PrefixSumsDef DEF Total
<1> QED BY <1>1, <1>2 DEF RangesCost

\* A list that is admitted all or nothing.
LEMMA AllOrNothing ==
  ASSUME NEW list \in Seq(Nat), NEW fits \in BOOLEAN
  PROVE  /\ RangesCost(First(list, IF fits THEN Len(list) ELSE 0)) = IF fits THEN RangesCost(list) ELSE 0
         /\ RangesCost(list) \in Nat
         /\ (IF fits THEN Len(list) ELSE 0) \in 0 .. Len(list)
<1>1. First(list, Len(list)) = list /\ First(list, 0) = <<>> /\ Len(list) \in Nat
  BY FirstDef
<1> QED BY <1>1, RangesCostType, RangesCostNone

LEMMA AdmitStacksInv ==
  ASSUME IInv, AdmitStacks
  PROVE  IInv'
<1> USE DEF AdmitStacks, inputs, emission
<1>1. PICK shape \in StackShapes :
        /\ stacks' = shape
        /\ used' = FixedSize + ListHeader + StackCost(shape)
  OBVIOUS
<1>2. TypeOK /\ StreamsCounted /\ NothingYet /\ DataFlag /\ LastInPlace
  BY DEF IInv, Bookkeeping
<1>3. shape \in [Threads -> Windows]
  BY LayoutAssumption
<1>4. FixedSize = BaseCharge /\ BaseCharge \in Nat
  BY <1>2, FixedSizeDef, ChargeTypes
<1>5. StackCost(shape) \in Nat /\ ListHeader \in Nat
  BY Zenon, <1>3, PerThreadDef, LayoutAssumption
<1>6. TypeOK'
  <2>1. used' \in Nat
    BY <1>1, <1>4, <1>5
  <2> QED BY Zenon, <1>1, <1>2, <1>3, <2>1 DEF TypeOK
<1>7. Accounting'
  <2>1. UserCharge = 0 /\ UserCharge' = UserCharge /\ BaseCharge' = BaseCharge
    BY <1>2, UserChargeNone, ChargesAlone DEF NothingYet
  <2>2. /\ First(proc, procCount)' = <<>> /\ First(data, dataCount)' = <<>>
        /\ RangesCost(<<>>) = 0
    <3>1. proc \in Seq(Nat) /\ data \in Seq(Nat) /\ procCount = 0 /\ dataCount = 0
      BY <1>2 DEF TypeOK, NothingYet
    <3>2. First(proc, procCount) = <<>> /\ First(data, dataCount) = <<>>
      BY <3>1, FirstDef
    <3> QED BY <3>2, RangesCostNone
  <2>3. MemoryCharge' = ListHeader + StackCost(shape)
    BY <1>1, <1>5, <2>2 DEF MemoryCharge
  <2>4. used' = BaseCharge' + MemoryCharge' + UserCharge'
    BY <1>1, <1>4, <1>5, <2>1, <2>3
  <2> QED BY <2>4 DEF Accounting
<1>8. WithinBudget'
  <2>1. indirect' = 0 /\ 0 * (Descriptor + Page) = 0 /\ used' \in Nat
    <3>1. Descriptor \in Nat /\ Page \in Nat
      BY LayoutAssumption
    <3> QED BY <1>2, <1>6, <3>1 DEF NothingYet, TypeOK
  <2>2. Cap' = Cap
    BY ChargesAlone
  <2> QED BY <2>1, <2>2 DEF WithinBudget
<1>9. Bookkeeping'
  <2>1. StreamsCounted' /\ NothingYet' /\ DataFlag'
    BY <1>2 DEF StreamsCounted, NothingYet, DataFlag
  <2> QED BY <1>7, <1>8, <2>1 DEF Bookkeeping
<1>10. GuardPassed' /\ LastInPlace'
  BY <1>2, NothingEmitted
<1> QED BY <1>6, <1>9, <1>10 DEF IInv

LEMMA AdmitProcInv ==
  ASSUME IInv, AdmitProc
  PROVE  IInv'
<1> USE DEF AdmitProc, inputs, emission
<1>1. PICK list \in ProcLists :
        LET fits == used + RangesCost(list) <= Cap
        IN  /\ proc' = list
            /\ procCount' = IF fits THEN Len(list) ELSE 0
            /\ used' = IF fits THEN used + RangesCost(list) ELSE used
  OBVIOUS
<1> DEFINE fits == used + RangesCost(list) <= Cap
           cost == IF fits THEN RangesCost(list) ELSE 0
<1>2. TypeOK /\ StreamsCounted /\ NothingYet /\ DataFlag /\ LastInPlace /\ Accounting /\ WithinBudget
  BY DEF IInv, Bookkeeping
<1>3. list \in Seq(Nat) /\ fits \in BOOLEAN
  BY LayoutAssumption
<1>4. /\ RangesCost(First(list, IF fits THEN Len(list) ELSE 0)) = cost
      /\ RangesCost(list) \in Nat /\ cost \in Nat
      /\ (IF fits THEN Len(list) ELSE 0) \in 0 .. Len(list)
  <2> HIDE DEF fits
  <2> QED BY <1>3, AllOrNothing
<1>5. procCount' \in 0 .. Len(list) /\ used \in Nat /\ used' = used + cost
  BY <1>1, <1>2, <1>4 DEF TypeOK
<1>6. TypeOK'
  <2>1. used' \in Nat
    BY <1>4, <1>5
  <2> QED BY Zenon, <1>1, <1>2, <1>3, <1>5, <2>1 DEF TypeOK
<1>7. ~full /\ procCount = 0 /\ ~full'
  BY <1>2 DEF NothingYet
<1>8. Accounting'
  <2> DEFINE d == RangesCost(First(data, dataCount))
             s == StackCost(stacks)
  <2>1. UserCharge' = UserCharge /\ BaseCharge' = BaseCharge
    BY ChargesAlone
  <2>2. RangesCost(First(proc, procCount)') = cost
    BY <1>1, <1>4
  <2>3. RangesCost(First(proc, procCount)) = 0
    <3>1. proc \in Seq(Nat)
      BY <1>2 DEF TypeOK
    <3> QED BY <1>7, <3>1, FirstDef, RangesCostNone
  <2>4. MemoryCharge = ListHeader + (s + 0 + d) /\ MemoryCharge' = ListHeader + (s + cost + d)
    BY <1>7, <2>2, <2>3 DEF MemoryCharge
  <2>5. s \in Nat /\ d \in Nat /\ ListHeader \in Nat /\ BaseCharge \in Nat /\ UserCharge \in Nat
    <3>1. stacks \in [Threads -> Windows] /\ data \in Seq(Nat) /\ dataCount \in Nat
      BY <1>2 DEF TypeOK
    <3>2. First(data, dataCount) \in Seq(Nat)
      BY <3>1, FirstDef
    <3> QED BY Zenon, <1>2, <3>1, <3>2, PerThreadDef, RangesCostType, LayoutAssumption, ChargeTypes
  <2>6. used = BaseCharge + MemoryCharge + UserCharge
    BY <1>2 DEF Accounting
  <2> HIDE DEF d, s, cost
  <2>7. used' = BaseCharge' + MemoryCharge' + UserCharge'
    BY <1>4, <1>5, <2>1, <2>4, <2>5, <2>6
  <2> QED BY <2>7 DEF Accounting
<1>9. WithinBudget'
  <2>1. used' = used \/ used' <= Cap
    BY <1>1
  <2>2. indirect' = 0 /\ indirect = 0 /\ 0 * (Descriptor + Page) = 0 /\ used' \in Nat
    <3>1. Descriptor \in Nat /\ Page \in Nat
      BY LayoutAssumption
    <3> QED BY <1>2, <1>6, <3>1 DEF NothingYet, TypeOK
  <2>3. Cap' = Cap
    BY ChargesAlone
  <2> QED BY <1>2, <1>5, <1>7, <2>1, <2>2, <2>3 DEF WithinBudget
<1>10. Bookkeeping'
  <2>1. StreamsCounted' /\ NothingYet' /\ DataFlag'
    BY <1>2 DEF StreamsCounted, NothingYet, DataFlag
  <2> QED BY <1>8, <1>9, <2>1 DEF Bookkeeping
<1>11. GuardPassed' /\ LastInPlace'
  BY <1>2, NothingEmitted
<1> QED BY <1>6, <1>10, <1>11 DEF IInv
LEMMA AdmitDataInv ==
  ASSUME IInv, AdmitData
  PROVE  IInv'
<1> USE DEF AdmitData, inputs, emission
<1>1. PICK list \in DataLists :
        LET fits == used + RangesCost(list) <= Cap
        IN  /\ data' = list
            /\ includeData' = (list # <<>> /\ fits)
            /\ dataCount' = IF fits THEN Len(list) ELSE 0
            /\ used' = IF fits THEN used + RangesCost(list) ELSE used
  OBVIOUS
<1> DEFINE fits == used + RangesCost(list) <= Cap
           cost == IF fits THEN RangesCost(list) ELSE 0
<1>2. TypeOK /\ StreamsCounted /\ NothingYet /\ DataFlag /\ LastInPlace /\ Accounting /\ WithinBudget
  BY DEF IInv, Bookkeeping
<1>3. list \in Seq(Nat) /\ fits \in BOOLEAN
  BY LayoutAssumption
<1>4. /\ RangesCost(First(list, IF fits THEN Len(list) ELSE 0)) = cost
      /\ RangesCost(list) \in Nat /\ cost \in Nat
      /\ (IF fits THEN Len(list) ELSE 0) \in 0 .. Len(list)
  <2> HIDE DEF fits
  <2> QED BY <1>3, AllOrNothing
<1>5. dataCount' \in 0 .. Len(list) /\ used \in Nat /\ used' = used + cost
  BY <1>1, <1>2, <1>4 DEF TypeOK
<1>6. TypeOK'
  <2>1. used' \in Nat
    BY <1>4, <1>5
  <2>2. includeData' \in BOOLEAN
    BY <1>1
  <2> QED BY Zenon, <1>1, <1>2, <1>3, <1>5, <2>1, <2>2 DEF TypeOK
<1>7. ~full /\ dataCount = 0 /\ ~full'
  BY <1>2 DEF NothingYet
<1>8. DataFlag'
  <2>1. list = <<>> => Len(list) = 0
    OBVIOUS
  <2> QED BY Zenon, <1>1, <2>1 DEF DataFlag
<1>9. Accounting'
  <2> DEFINE d == RangesCost(First(proc, procCount))
             s == StackCost(stacks)
  <2>1. UserCharge' = UserCharge /\ BaseCharge' = BaseCharge
    BY ChargesAlone
  <2>2. RangesCost(First(data, dataCount)') = cost
    BY <1>1, <1>4
  <2>3. RangesCost(First(data, dataCount)) = 0
    <3>1. data \in Seq(Nat)
      BY <1>2 DEF TypeOK
    <3> QED BY <1>7, <3>1, FirstDef, RangesCostNone
  <2>4. MemoryCharge = ListHeader + (s + d + 0) /\ MemoryCharge' = ListHeader + (s + d + cost)
    BY <1>7, <2>2, <2>3 DEF MemoryCharge
  <2>5. s \in Nat /\ d \in Nat /\ ListHeader \in Nat /\ BaseCharge \in Nat /\ UserCharge \in Nat
    <3>1. stacks \in [Threads -> Windows] /\ proc \in Seq(Nat) /\ procCount \in Nat
      BY <1>2 DEF TypeOK
    <3>2. First(proc, procCount) \in Seq(Nat)
      BY <3>1, FirstDef
    <3> QED BY Zenon, <1>2, <3>1, <3>2, PerThreadDef, RangesCostType, LayoutAssumption, ChargeTypes
  <2>6. used = BaseCharge + MemoryCharge + UserCharge
    BY <1>2 DEF Accounting
  <2> HIDE DEF d, s, cost
  <2>7. used' = BaseCharge' + MemoryCharge' + UserCharge'
    BY <1>4, <1>5, <2>1, <2>4, <2>5, <2>6
  <2> QED BY <2>7 DEF Accounting
<1>10. WithinBudget'
  <2>1. used' = used \/ used' <= Cap
    BY <1>1
  <2>2. indirect' = 0 /\ indirect = 0 /\ 0 * (Descriptor + Page) = 0 /\ used' \in Nat
    <3>1. Descriptor \in Nat /\ Page \in Nat
      BY LayoutAssumption
    <3> QED BY <1>2, <1>6, <3>1 DEF NothingYet, TypeOK
  <2>3. Cap' = Cap
    BY ChargesAlone
  <2> QED BY <1>2, <1>5, <1>7, <2>1, <2>2, <2>3 DEF WithinBudget
<1>11. Bookkeeping'
  <2>1. StreamsCounted' /\ NothingYet'
    BY <1>2 DEF StreamsCounted, NothingYet
  <2> QED BY <1>8, <1>9, <1>10, <2>1 DEF Bookkeeping
<1>12. GuardPassed' /\ LastInPlace'
  BY <1>2, NothingEmitted
<1> QED BY <1>6, <1>11, <1>12 DEF IInv

\* What one user stream more is charged is what it takes, its entry included.
LEMMA UserCharged ==
  ASSUME TypeOK, included < Len(user), included' = included + 1, UNCHANGED user
  PROVE  /\ UserCharge' = UserCharge + UserCost(user[included + 1])
         /\ UserCost(user[included + 1]) \in Nat
         /\ included' \in 0 .. Len(user)
<1>1. included \in 0 .. Len(user) /\ Len(user) \in Nat
      /\ included \in Nat /\ included + 1 \in 1 .. Len(user) /\ included + 1 \in 0 .. Len(user)
  <2>1. included \in 0 .. Len(user) /\ user \in Seq(Nat \ {0})
    BY DEF TypeOK
  <2>2. Len(user) \in Nat
    BY <2>1
  <2> QED BY <2>1, <2>2
<1> DEFINE n == included
           next == Up(user[included + 1])
           before == PrefixSums(Padded)[included]
<1>2. Padded \in Seq(Nat) /\ Len(Padded) = Len(user) /\ before \in Nat
  BY <1>1, UserCursorDef
<1>3. PrefixSums(Padded)[included + 1] = PrefixSums(Padded)[(included + 1) - 1] + Padded[included + 1]
  BY <1>1, <1>2, PrefixSumsDef
<1>4. (included + 1) - 1 = included
  BY <1>1
<1>5. Padded[included + 1] = next /\ next \in Nat
  <2>1. user \in Seq(Nat \ {0})
    BY DEF TypeOK
  <2>2. user[included + 1] \in Nat /\ included + 1 \in DOMAIN user
    BY <1>1, <2>1
  <2> QED BY <2>2, UpType DEF Padded
<1>6. DirectorySize \in Nat
  BY LayoutAssumption
<1>7. Padded' = Padded
  BY DEF Padded
<1>8. UserCharge' = (included + 1) * DirectorySize + PrefixSums(Padded)[included + 1]
  BY <1>7 DEF UserCharge
<1>9. UserCharge = n * DirectorySize + before /\ UserCost(user[included + 1]) = DirectorySize + next
  BY DEF UserCharge, UserCost
<1>10. PrefixSums(Padded)[included + 1] = before + next
  BY <1>3, <1>4, <1>5
<1> HIDE DEF next, before
<1>11. (included + 1) * DirectorySize = n * DirectorySize + DirectorySize
  BY <1>1, <1>6
<1>12. n * DirectorySize \in Nat /\ n \in Nat
  BY <1>1, <1>6
<1> HIDE DEF n
<1> QED BY <1>1, <1>2, <1>5, <1>6, <1>8, <1>9, <1>10, <1>11, <1>12

LEMMA AdmitUserInv ==
  ASSUME IInv, AdmitUser
  PROVE  IInv'
<1> USE DEF AdmitUser, inputs, memory, emission
<1>1. TypeOK /\ StreamsCounted /\ NothingYet /\ DataFlag /\ LastInPlace /\ Accounting /\ WithinBudget
  BY DEF IInv, Bookkeeping
<1> DEFINE cost == UserCost(user[included + 1])
<1>2. UserCharge' = UserCharge + cost /\ cost \in Nat /\ included' \in 0 .. Len(user)
  BY <1>1, UserCharged
<1>3. used \in Nat /\ used' = used + cost /\ used' <= Cap
  BY <1>1 DEF TypeOK
<1> HIDE DEF cost
<1>4. TypeOK'
  <2>1. used' \in Nat
    BY <1>2, <1>3
  <2> QED BY Zenon, <1>1, <1>2, <2>1 DEF TypeOK
<1>5. Accounting'
  <2>1. MemoryCharge' = MemoryCharge /\ BaseCharge' = BaseCharge
    BY ChargesAlone
  <2>2. MemoryCharge \in Nat /\ BaseCharge \in Nat /\ UserCharge \in Nat
    BY <1>1, ChargeTypes
  <2>3. used = BaseCharge + MemoryCharge + UserCharge
    BY <1>1 DEF Accounting
  <2>4. used' = BaseCharge' + MemoryCharge' + UserCharge'
    BY <1>2, <1>3, <2>1, <2>2, <2>3
  <2> QED BY <2>4 DEF Accounting
<1>6. WithinBudget'
  <2>1. indirect' = 0 /\ 0 * (Descriptor + Page) = 0 /\ used' \in Nat
    <3>1. Descriptor \in Nat /\ Page \in Nat
      BY LayoutAssumption
    <3> QED BY <1>1, <1>4, <3>1 DEF NothingYet, TypeOK
  <2>2. Cap' = Cap
    BY ChargesAlone
  <2> QED BY <1>3, <2>1, <2>2 DEF WithinBudget
<1>7. Bookkeeping'
  <2>1. StreamsCounted' /\ NothingYet' /\ DataFlag'
    BY <1>1 DEF StreamsCounted, NothingYet, DataFlag
  <2> QED BY <1>5, <1>6, <2>1 DEF Bookkeeping
<1>8. GuardPassed' /\ LastInPlace'
  BY <1>1, NothingEmitted
<1> QED BY <1>4, <1>7, <1>8 DEF IInv

LEMMA UsersDoneInv ==
  ASSUME IInv, UsersDone
  PROVE  IInv'
<1> USE DEF UsersDone, inputs, admission, memory, emission
<1>1. TypeOK /\ StreamsCounted /\ NothingYet /\ DataFlag /\ LastInPlace /\ Accounting /\ WithinBudget
  BY DEF IInv, Bookkeeping
<1>2. pc' = (IF full THEN "layout" ELSE "indirect") /\ full \in BOOLEAN
  BY <1>1 DEF TypeOK
<1>3. TypeOK'
  BY Zenon, <1>1, <1>2 DEF TypeOK
<1>4. Accounting' /\ WithinBudget'
  <2>1. MemoryCharge' = MemoryCharge /\ BaseCharge' = BaseCharge /\ UserCharge' = UserCharge /\ Cap' = Cap
    BY ChargesAlone
  <2> QED BY <1>1, <2>1 DEF Accounting, WithinBudget
<1>5. StreamsCounted' /\ NothingYet' /\ DataFlag'
  BY <1>1, <1>2 DEF StreamsCounted, NothingYet, DataFlag
<1>6. GuardPassed' /\ LastInPlace'
  BY <1>1, <1>2, NothingEmitted
<1> QED BY <1>3, <1>4, <1>5, <1>6 DEF IInv, Bookkeeping

\* The pages found fit what is left.
LEMMA PagesFit ==
  ASSUME NEW left \in Nat, NEW size \in Nat \ {0}, NEW n \in Nat, n <= left \div size
  PROVE  n * size <= left
<1> DEFINE q == left \div size
<1>1. q \in Nat /\ q * size <= left
  OBVIOUS
<1> HIDE DEF q
<1>2. \A a, b, c \in Nat : a <= b => a * c <= b * c
  OBVIOUS
<1>3. n <= q
  BY DEF q
<1>4. n * size <= q * size
  BY <1>1, <1>2, <1>3
<1>5. n * size \in Int /\ q * size \in Int
  BY <1>1
<1> QED BY <1>1, <1>4, <1>5

LEMMA AdmitIndirectInv ==
  ASSUME IInv, AdmitIndirect
  PROVE  IInv'
<1> USE DEF AdmitIndirect, inputs, emission
<1>1. TypeOK /\ StreamsCounted /\ NothingYet /\ DataFlag /\ LastInPlace /\ Accounting /\ WithinBudget
  BY DEF IInv, Bookkeeping
<1>2. PICK found \in 0 .. Smaller(IndirectCapacity, (Cap - used) \div (Descriptor + Page)) :
        indirect' = found
  OBVIOUS
<1> DEFINE left == Cap - used
           size == Descriptor + Page
<1>3. size \in Nat \ {0}
  <2>1. Descriptor \in Nat /\ Page \in Nat \ {0}
    BY LayoutAssumption
  <2> QED BY <2>1
<1>4. used \in Nat /\ Cap \in Nat /\ used <= Cap /\ left \in Nat
  <2>1. used \in Nat /\ Cap \in Nat
    <3>1. hardMax \in Nat /\ kSelectedDumpRvaLimit \in Nat
      BY Zenon, <1>1, LayoutAssumption DEF TypeOK
    <3> QED BY <1>1, <3>1 DEF TypeOK, Cap, Smaller
  <2>2. indirect = 0 /\ 0 * size = 0
    BY <1>1, <1>3 DEF NothingYet
  <2>3. used + 0 * size <= Cap
    BY <1>1, <2>2 DEF WithinBudget, NothingYet
  <2> QED BY <2>1, <2>2, <2>3
<1>5. found \in Nat /\ found <= left \div size
  <2>1. left \div size \in Int /\ IndirectCapacity \in Nat
    <3> HIDE DEF left, size
    <3> QED BY <1>3, <1>4, LayoutAssumption
  <2> DEFINE d == left \div size
  <2> HIDE DEF d
  <2>2. found \in 0 .. Smaller(IndirectCapacity, d) /\ d \in Int /\ IndirectCapacity \in Nat
    BY <2>1 DEF d
  <2>3. found \in Nat /\ found <= d
    BY <2>2 DEF Smaller
  <2> QED BY <2>3 DEF d
<1>6. found * size <= left /\ found * size \in Nat
  <2> HIDE DEF left, size
  <2> QED BY <1>3, <1>4, <1>5, PagesFit
<1>7. TypeOK'
  <2>1. indirect' \in Nat
    BY <1>2, <1>5
  <2> QED BY Zenon, <1>1, <2>1 DEF TypeOK
<1>8. WithinBudget'
  <2>1. Cap' = Cap /\ used' = used
    BY ChargesAlone
  <2> DEFINE x == found * size
  <2>2. x \in Nat /\ x <= Cap - used /\ indirect' * (Descriptor + Page) = x
    BY <1>2, <1>6
  <2> HIDE DEF x
  <2>3. used + x <= Cap
    BY <1>4, <2>2
  <2> QED BY <2>1, <2>2, <2>3 DEF WithinBudget
<1>9. Accounting'
  <2>1. MemoryCharge' = MemoryCharge /\ BaseCharge' = BaseCharge /\ UserCharge' = UserCharge
    BY ChargesAlone
  <2> QED BY <1>1, <2>1 DEF Accounting
<1>10. StreamsCounted' /\ NothingYet' /\ DataFlag'
  BY <1>1 DEF StreamsCounted, NothingYet, DataFlag
<1>11. GuardPassed' /\ LastInPlace'
  BY <1>1, NothingEmitted
<1> QED BY <1>7, <1>8, <1>9, <1>10, <1>11 DEF IInv, Bookkeeping
LEMMA LayoutInv ==
  ASSUME IInv, Layout
  PROVE  IInv'
<1> USE DEF Layout, inputs, admission, memory, emission
<1>1. TypeOK /\ StreamsCounted /\ NothingYet /\ DataFlag /\ LastInPlace /\ Accounting /\ WithinBudget
  BY DEF IInv, Bookkeeping
<1>2. streamCount = 6 + Cardinality(wanted) /\ streamCount' = streamCount + included
  BY <1>1 DEF StreamsCounted
<1>3. TypeOK'
  <2>1. streamCount' \in Nat
    <3>1. streamCount \in Nat
      BY <1>1 DEF TypeOK
    <3>2. included \in Nat
      BY <1>1, ChargeTypes
    <3> QED BY <1>2, <3>1, <3>2
  <2> QED BY Zenon, <1>1, <2>1 DEF TypeOK
<1>4. Accounting' /\ WithinBudget'
  <2>1. MemoryCharge' = MemoryCharge /\ BaseCharge' = BaseCharge /\ UserCharge' = UserCharge /\ Cap' = Cap
    BY ChargesAlone
  <2> QED BY <1>1, <2>1 DEF Accounting, WithinBudget
<1>5. StreamsCounted' /\ NothingYet' /\ DataFlag'
  BY <1>1, <1>2 DEF StreamsCounted, NothingYet, DataFlag
<1>6. GuardPassed' /\ LastInPlace'
  BY <1>1, NothingEmitted
<1> QED BY <1>3, <1>4, <1>5, <1>6 DEF IInv, Bookkeeping

\* Past the size checks only the file and its index move.
LEMMA BooksKept ==
  ASSUME IInv, pc \in {"guard", "emit"}, pc' \in {"emit", "done"},
         UNCHANGED <<inputs, admission, streamCount>>
  PROVE  Bookkeeping'
<1> USE DEF inputs, admission, memory
<1>1. StreamsCounted /\ NothingYet /\ DataFlag /\ Accounting /\ WithinBudget
  BY DEF IInv, Bookkeeping
<1>2. Accounting' /\ WithinBudget'
  <2>1. MemoryCharge' = MemoryCharge /\ BaseCharge' = BaseCharge /\ UserCharge' = UserCharge /\ Cap' = Cap
    BY ChargesAlone
  <2> QED BY <1>1, <2>1 DEF Accounting, WithinBudget
<1>3. StreamsCounted' /\ NothingYet' /\ DataFlag'
  BY <1>1 DEF StreamsCounted, NothingYet, DataFlag
<1> QED BY <1>2, <1>3 DEF Bookkeeping

LEMMA WriteDirectoryInv ==
  ASSUME IInv, WriteDirectory
  PROVE  IInv'
<1>1. UNCHANGED <<inputs, admission, streamCount, idx, last, faults>> /\ pc = "guard" /\ pc' = "emit"
  BY DEF WriteDirectory
<1>2. Bookkeeping'
  BY <1>1, BooksKept
<1>3. TypeOK'
  <2>1. TypeOK
    BY DEF IInv
  <2>2. position' = DirectoryEnd
    BY DEF WriteDirectory, DirectoryEnd
  <2>3. DirectoryEnd \in Nat
    BY <2>1, CursorDef
  <2> QED BY Zenon, <1>1, <2>1, <2>2, <2>3 DEF TypeOK, inputs, admission, memory
<1>4. GuardPassed'
  <2>1. ~TooLarge
    BY DEF WriteDirectory
  <2> QED BY <1>1, <2>1, LayoutAlone DEF GuardPassed
<1>5. LastInPlace'
  <2>1. last.stream = "none"
    BY <1>1 DEF IInv, LastInPlace
  <2> QED BY <1>1, <2>1 DEF LastInPlace
<1> QED BY <1>2, <1>3, <1>4, <1>5 DEF IInv

\* The stream that is due is one of those written, and its index moves on.
LEMMA DueDef ==
  ASSUME TypeOK, NEW i \in idx .. Len(Emitted)
  PROVE  /\ Emitted[i] \in Streams \cup {"Memory", "UserStreams"}
         /\ Emitted[i] \in {Emitted[k] : k \in DOMAIN Emitted}
         /\ Emitted[i] # "none"
         /\ i + 1 \in 1 .. Len(Emitted) + 1
<1>1. idx \in 1 .. 16 /\ i \in idx .. 15
  BY EmittedOrder DEF TypeOK
<1>2. i \in DOMAIN Emitted /\ i + 1 \in 1 .. Len(Emitted) + 1
  BY <1>1, EmittedOrder
<1>3. Emitted[i] \in {Emitted[k] : k \in DOMAIN Emitted}
  BY <1>2
<1>4. Emitted[i] \in Streams \cup {"Memory", "UserStreams"}
  BY <1>3, EmittedOrder
<1>5. "none" \notin Streams \cup {"Memory", "UserStreams"}
  BY StreamNames
<1> QED BY <1>2, <1>3, <1>4, <1>5

LEMMA EmitInv ==
  ASSUME IInv, Emit
  PROVE  IInv'
<1>1. UNCHANGED <<inputs, pc, admission, streamCount, faults>> /\ pc = "emit"
  BY DEF Emit
<1>2. Bookkeeping'
  BY <1>1, BooksKept
<1>3. PICK i \in idx .. Len(Emitted) :
        /\ Present(Emitted[i])
        /\ last' = [stream |-> Emitted[i], at |-> Rva(Emitted[i]), size |-> Extent(Emitted[i])]
        /\ position' = Rva(Emitted[i]) + Extent(Emitted[i])
        /\ idx' = i + 1
  BY DEF Emit, Due, Seek
<1>4. TypeOK /\ DataFlag /\ GuardPassed
  BY DEF IInv, Bookkeeping
<1>5. /\ Emitted[i] \in Streams \cup {"Memory", "UserStreams"}
      /\ Emitted[i] \in {Emitted[k] : k \in DOMAIN Emitted}
      /\ Emitted[i] # "none"
      /\ i + 1 \in 1 .. Len(Emitted) + 1
  BY <1>4, DueDef
<1>6. Rva(Emitted[i]) \in Nat /\ Extent(Emitted[i]) \in Nat
  BY <1>4, <1>5, PlaceTypes
<1>7. TypeOK'
  <2>1. position' \in Nat
    BY <1>3, <1>6
  <2>2. last' \in [stream : {"none"} \cup {Emitted[k] : k \in DOMAIN Emitted}, at : Nat, size : Nat]
    BY <1>3, <1>5, <1>6
  <2>3. idx' \in 1 .. Len(Emitted) + 1
    BY <1>3, <1>5
  <2> QED BY Zenon, <1>1, <1>4, <2>1, <2>2, <2>3 DEF TypeOK, inputs, admission, memory
<1>8. /\ \A stream : Rva(stream)' = Rva(stream) /\ Extent(stream)' = Extent(stream)
      /\ \A stream : Present(stream)' = Present(stream)
      /\ TooLarge' = TooLarge
  BY <1>1, LayoutAlone
<1>9. GuardPassed'
  BY <1>1, <1>4, <1>8 DEF GuardPassed
<1>10. LastInPlace'
  <2>1. /\ last'.stream = Emitted[i] /\ last'.at = Rva(Emitted[i]) /\ last'.size = Extent(Emitted[i])
        /\ Present(Emitted[i])
    BY <1>3
  <2> QED BY <1>1, <1>8, <2>1 DEF LastInPlace
<1> QED BY <1>2, <1>7, <1>9, <1>10 DEF IInv

LEMMA EmitSkipsInv ==
  ASSUME IInv, EmitSkips
  PROVE  IInv'
<1>1. UNCHANGED <<inputs, pc, admission, streamCount, last>> /\ pc = "emit" /\ faults' = faults + 1
  BY DEF EmitSkips
<1>2. Bookkeeping'
  BY <1>1, BooksKept
<1>3. PICK i \in idx .. Len(Emitted) :
        /\ \E part \in {0, Extent(Emitted[i]) \div 2} : position' = Rva(Emitted[i]) + part
        /\ idx' = i + 1
  BY DEF EmitSkips, Seek
<1>4. TypeOK /\ DataFlag /\ GuardPassed /\ LastInPlace
  BY DEF IInv, Bookkeeping
<1>5. /\ Emitted[i] \in Streams \cup {"Memory", "UserStreams"}
      /\ i + 1 \in 1 .. Len(Emitted) + 1
  BY <1>4, DueDef
<1>6. Rva(Emitted[i]) \in Nat /\ Extent(Emitted[i]) \in Nat
  BY <1>4, <1>5, PlaceTypes
<1>7. TypeOK'
  <2>1. position' \in Nat
    BY <1>3, <1>6
  <2>2. faults' \in Nat
    <3>1. faults \in Nat
      BY <1>4 DEF TypeOK
    <3> QED BY <1>1, <3>1
  <2> QED BY Zenon, <1>1, <1>3, <1>4, <1>5, <2>1, <2>2 DEF TypeOK, inputs, admission, memory
<1>8. /\ \A stream : Rva(stream)' = Rva(stream) /\ Extent(stream)' = Extent(stream)
      /\ \A stream : Present(stream)' = Present(stream)
      /\ TooLarge' = TooLarge
  BY <1>1, LayoutAlone
<1>9. GuardPassed' /\ LastInPlace'
  BY <1>1, <1>4, <1>8 DEF GuardPassed, LastInPlace
<1> QED BY <1>2, <1>7, <1>9 DEF IInv

\* The end of the emission, and a step that changes nothing.
LEMMA RestInv ==
  ASSUME IInv, EmitDone \/ UNCHANGED vars
  PROVE  IInv'
<1>1. CASE EmitDone
  <2>1. UNCHANGED <<inputs, admission, streamCount, emission>> /\ pc = "emit" /\ pc' = "done"
    BY <1>1 DEF EmitDone
  <2>2. Bookkeeping'
    BY <2>1, BooksKept
  <2>3. TypeOK'
    BY Zenon, <2>1 DEF IInv, TypeOK, inputs, admission, memory, emission
  <2>4. /\ \A stream : Rva(stream)' = Rva(stream) /\ Extent(stream)' = Extent(stream)
        /\ \A stream : Present(stream)' = Present(stream)
        /\ TooLarge' = TooLarge
    BY <2>1, LayoutAlone
  <2>5. GuardPassed' /\ LastInPlace'
    BY <2>1, <2>4 DEF IInv, GuardPassed, LastInPlace, emission
  <2> QED BY <2>2, <2>3, <2>5 DEF IInv
<1>2. CASE UNCHANGED vars
  <2>1. UNCHANGED <<inputs, pc, admission, streamCount, emission>>
    BY <1>2 DEF vars
  <2>2. TypeOK'
    BY Zenon, <2>1 DEF IInv, TypeOK, inputs, admission, memory, emission
  <2>3. /\ \A stream : Rva(stream)' = Rva(stream) /\ Extent(stream)' = Extent(stream)
        /\ \A stream : Present(stream)' = Present(stream)
        /\ TooLarge' = TooLarge
    BY <2>1, LayoutAlone
  <2>4. GuardPassed' /\ LastInPlace'
    BY <2>1, <2>3 DEF IInv, GuardPassed, LastInPlace, emission
  <2>5. MemoryCharge' = MemoryCharge /\ BaseCharge' = BaseCharge /\ UserCharge' = UserCharge /\ Cap' = Cap
    BY <2>1, ChargesAlone DEF inputs, admission, memory
  <2>6. Bookkeeping'
    BY <2>1, <2>5
    DEF IInv, Bookkeeping, StreamsCounted, NothingYet, DataFlag, Accounting, WithinBudget,
        inputs, admission, memory
  <2> QED BY <2>2, <2>4, <2>6 DEF IInv
<1> QED BY <1>1, <1>2

LEMMA NextIInv == IInv /\ [Next]_vars => IInv'
<1> SUFFICES ASSUME IInv, [Next]_vars PROVE IInv'
  OBVIOUS
<1>1. CASE CaptureFull
  BY <1>1, CaptureFullInv
<1>2. CASE CaptureFullFails \/ StackPolicyFails \/ GuardRefuses \/ EmitFails
  <2>1. Fail
    BY <1>2 DEF CaptureFullFails, StackPolicyFails, GuardRefuses, EmitFails
  <2> QED BY <2>1, FailInv
<1>3. CASE AdmitStacks
  BY <1>3, AdmitStacksInv
<1>4. CASE AdmitProc
  BY <1>4, AdmitProcInv
<1>5. CASE AdmitData
  BY <1>5, AdmitDataInv
<1>6. CASE AdmitUser
  BY <1>6, AdmitUserInv
<1>7. CASE UsersDone
  BY <1>7, UsersDoneInv
<1>8. CASE AdmitIndirect
  BY <1>8, AdmitIndirectInv
<1>9. CASE Layout
  BY <1>9, LayoutInv
<1>10. CASE WriteDirectory
  BY <1>10, WriteDirectoryInv
<1>11. CASE Emit
  BY <1>11, EmitInv
<1>12. CASE EmitSkips
  BY <1>12, EmitSkipsInv
<1>13. CASE EmitDone \/ UNCHANGED vars
  BY <1>13, RestInv
<1> QED BY <1>1, <1>2, <1>3, <1>4, <1>5, <1>6, <1>7, <1>8, <1>9, <1>10, <1>11, <1>12, <1>13 DEF Next

\* The bytes admitted are those of what was admitted, in every reachable state:
\* the invariant the theorems below rest on.
THEOREM Admitted == Spec => []IInv
<1>1. Init => IInv
  BY InitIInv
<1>2. IInv /\ [Next]_vars => IInv'
  BY NextIInv
<1> QED BY <1>1, <1>2, PTL DEF Spec

\* The types of the layout's variables hold throughout (DumpLayout's TypeOK).
THEOREM TypeCorrect == Spec => []TypeOK
<1>1. IInv => TypeOK
  BY DEF IInv
<1> QED BY <1>1, Admitted, PTL
-----------------------------------------------------------------------------
(***************************************************************************)
(* What follows for a dump that is laid out.                               *)
(***************************************************************************)

\* A selected-memory dump ends within its cap, which the cursor can hold.
LEMMA SelectedFits ==
  ASSUME TypeOK, Bookkeeping, pc \in {"guard", "emit", "done"}, ~full
  PROVE  /\ UserCursor(included) + MemoryBytes <= Cap
         /\ used <= Cap /\ Cap \in Nat /\ Cap <= hardMax /\ Cap < RvaModulus
<1>1. Cap \in Nat /\ Cap <= hardMax /\ Cap < RvaModulus
  <2>1. hardMax \in Nat /\ kSelectedDumpRvaLimit \in Nat /\ RvaModulus \in Nat
        /\ kSelectedDumpRvaLimit < RvaModulus
    BY LayoutAssumption DEF TypeOK
  <2> QED BY <2>1 DEF Cap, Smaller
<1> DEFINE x == indirect * (Descriptor + Page)
           end == UserCursor(included) + MemoryBytes
<1>2. x \in Nat
  <2>1. indirect \in Nat /\ Descriptor + Page \in Nat
    <3>1. Descriptor \in Nat /\ Page \in Nat
      BY LayoutAssumption
    <3> QED BY <3>1 DEF TypeOK
  <2> QED BY <2>1
<1>3. used + x <= Cap /\ end <= used + x
  BY LaidOutIsCharged DEF Bookkeeping, WithinBudget
<1>4. used \in Nat
  BY DEF TypeOK
<1>5. end \in Nat
  <2>1. UserCursor(included) \in Nat
    BY ChargeTypes, UserCursorDef
  <2> QED BY <2>1, MemoryListDef
<1> HIDE DEF x, end
<1>6. end <= Cap /\ used <= Cap
  BY <1>1, <1>2, <1>3, <1>4, <1>5
<1> QED BY <1>1, <1>6 DEF end

\* An offset below 2^32 survives the cursor, and with the last one all do.
LEMMA NoWrap ==
  ASSUME TypeOK, UserCursor(included) < RvaModulus
  PROVE  /\ \A i \in 0 .. 13 : Wrap(Cursor(i)) = Cursor(i)
         /\ Wrap(UserCursor(0)) = UserCursor(0) /\ UserCursor(0) = Cursor(13)
         /\ Wrap(UserCursor(included)) = UserCursor(included)
<1>1. RvaModulus \in Nat \ {0}
  BY LayoutAssumption
<1>2. \A x \in Nat : x < RvaModulus => Wrap(x) = x
  BY <1>1 DEF Wrap
<1>3. /\ included \in 0 .. Len(user) /\ UserCursor(included) \in Nat
      /\ Cursor(13) <= UserCursor(included) /\ UserCursor(0) = Cursor(13)
  BY ChargeTypes, UserCursorDef
<1>4. \A i \in 0 .. 13 : Cursor(i) \in Nat /\ Cursor(i) <= Cursor(13)
  BY CursorDef
<1>5. 13 \in 0 .. 13
  OBVIOUS
<1>6. \A i \in 0 .. 13 : Cursor(i) < RvaModulus
  <2> TAKE i \in 0 .. 13
  <2>1. Cursor(i) \in Nat /\ Cursor(i) <= Cursor(13) /\ Cursor(13) \in Nat
    BY <1>4, <1>5
  <2>2. RvaModulus \in Nat
    BY <1>1
  <2> QED BY <1>3, <2>1, <2>2
<1> QED BY Zenon, <1>2, <1>3, <1>4, <1>5, <1>6

\* No entry of a list is larger than its total.
LEMMA EntryWithinTotal ==
  ASSUME NEW s \in Seq(Nat), NEW i \in 1 .. Len(s)
  PROVE  s[i] <= Total(s)
<1>1. i - 1 \in 0 .. Len(s) /\ i \in 0 .. Len(s) /\ Len(s) \in i .. Len(s) /\ Len(s) \in 0 .. Len(s)
      /\ s[i] \in Nat
  OBVIOUS
<1>2. PrefixSums(s)[i] = PrefixSums(s)[i - 1] + s[i]
  BY PrefixSumsDef
<1>3. PrefixSums(s)[i - 1] \in Nat /\ PrefixSums(s)[i] \in Nat /\ Total(s) \in Nat
  BY Zenon, <1>1, PrefixSumsDef, TotalDef
<1>4. PrefixSums(s)[i] <= Total(s)
  BY <1>1, PrefixMonotone DEF Total
<1> QED BY <1>1, <1>2, <1>3, <1>4

\* The last size checks find nothing in a selected-memory dump.
LEMMA NotTooLarge ==
  ASSUME TypeOK, Bookkeeping, pc \in {"guard", "emit", "done"}, ~full
  PROVE  ~TooLarge
<1> DEFINE end == UserCursor(included) + MemoryBytes
<1>1. /\ end <= Cap /\ used <= Cap
      /\ Cap \in Nat /\ Cap <= hardMax /\ Cap < RvaModulus
  BY SelectedFits
<1>2. /\ UserCursor(included) \in Nat /\ MemoryBytes \in Nat /\ used \in Nat
      /\ RvaModulus \in Nat /\ hardMax \in Nat
  <2>1. UserCursor(included) \in Nat
    BY ChargeTypes, UserCursorDef
  <2> QED BY Zenon, <2>1, MemoryListDef, LayoutAssumption DEF TypeOK
<1>3. UserCursor(included) <= Cap /\ UserCursor(included) < RvaModulus
  BY <1>1, <1>2
<1>4. Rva("Memory") = UserCursor(included)
  BY <1>3, NoWrap DEF Rva
<1>5. ~(Rva("Memory") + MemoryBytes >= RvaModulus) /\ ~(Rva("Memory") + MemoryBytes > hardMax)
  BY <1>1, <1>2, <1>4
<1>6. ASSUME NEW stream \in {"ThreadContexts", "ThreadInfo", "MemoryInfo"}
      PROVE  Storage(stream) < RvaModulus
  <2>1. stream \in Streams /\ stream # "MemoryList"
    BY StreamNames
  <2> DEFINE i == Place(stream)
             f == FixedSizes[i]
             t == Total(FixedSizes)
  <2>2. i \in 1 .. 13 /\ Physical[i] = stream
    BY <2>1, PlaceDef
  <2>3. Storage(stream) = f
    BY <2>1, <2>2, PhysicalOrder DEF Storage, FixedSizes
  <2>4. f <= t /\ t \in Nat /\ f \in Nat
    <3>1. FixedSizes \in Seq(Nat) /\ Len(FixedSizes) = 13
      BY PlacedDef
    <3>2. i \in 1 .. Len(FixedSizes)
      BY <2>2, <3>1
    <3> HIDE DEF i
    <3>3. FixedSizes[i] <= Total(FixedSizes)
      BY Zenon, <3>1, <3>2, EntryWithinTotal
    <3> QED BY <2>1, <2>3, <3>1, <3>3, TotalDef, StorageType
  <2>5. t <= used
    <3> DEFINE w == (6 + Cardinality(wanted)) * DirectorySize
    <3>1. used = (HeaderSize + w + t) + MemoryCharge + UserCharge
      BY DEF Bookkeeping, Accounting, BaseCharge
    <3>2. w \in Nat /\ MemoryCharge \in Nat /\ UserCharge \in Nat /\ HeaderSize \in Nat
      BY ChargeTypes, LayoutAssumption
    <3> HIDE DEF w, t
    <3> QED BY <2>4, <3>1, <3>2
  <2> HIDE DEF f, t, i
  <2> QED BY <1>1, <1>2, <2>3, <2>4, <2>5
<1>7. Storage("MemoryList") < RvaModulus
  <2>1. "MemoryList" \in Streams /\ Physical[11] = "MemoryList"
    BY StreamNames DEF Physical
  <2>2. Present("MemoryList")
    BY DEF Present, Optional
  <2>3. 11 \in 1 .. 13 /\ 11 \in 0 .. 13 /\ 10 \in 0 .. 13 /\ 11 - 1 = 10
    OBVIOUS
  <2>4. Cursor(11) = Cursor(11 - 1) + Storage("MemoryList")
    <3>1. Cursor(11) =
            Cursor(11 - 1) + (IF Present(Physical[11]) THEN Storage(Physical[11]) ELSE 0)
      BY <2>3, CursorDef
    <3> QED BY <2>1, <2>2, <3>1
  <2>5. Cursor(11) \in Nat /\ Cursor(10) \in Nat /\ Cursor(11) <= Cursor(13)
    BY <2>3, CursorDef
  <2>6. Cursor(13) <= UserCursor(included) /\ Cursor(13) \in Nat
    <3>1. 13 \in 0 .. 13
      OBVIOUS
    <3> QED BY Zenon, <3>1, CursorDef, ChargeTypes, UserCursorDef
  <2>7. Storage("MemoryList") \in Nat
    BY <2>1, StorageType
  <2> QED BY <1>2, <1>3, <2>3, <2>4, <2>5, <2>6, <2>7
<1> QED BY <1>2, <1>5, <1>6, <1>7, StorageType, StreamNames DEF TooLarge

\* The streams in the directory are the six every dump has and those wanted.
LEMMA DirectoryDef ==
  ASSUME TypeOK, StreamsCounted, LaidOut
  PROVE  DirectoryEntries = streamCount /\ DirectoryEntries <= 12 + kMaxUserStreams
<1> DEFINE six == {"SystemInfo", "MiscInfo", "CommentA", "ModuleList", "ThreadList", "MemoryList"}
           listed == {s \in Streams \ {"ThreadContexts"} : Present(s)}
<1>1. wanted \subseteq Optional /\ IsFiniteSet(wanted) /\ Cardinality(wanted) \in Nat
  BY Zenon, WantedDef DEF TypeOK
<1>2. listed = six \cup wanted /\ six \cap wanted = {}
  <2>1. Streams \ {"ThreadContexts"} = six \cup Optional
    BY StreamNames DEF Optional
  <2>2. six \cap Optional = {}
    BY DEF Optional
  <2>3. \A s \in six \cup Optional : s # "UserStreams"
    BY DEF Optional
  <2> HIDE DEF six
  <2>4. \A s \in six \cup Optional : Present(s) <=> s \in six \cup wanted
    BY <1>1, <2>2, <2>3 DEF Present
  <2> QED BY <1>1, <2>1, <2>2, <2>4
<1>3. IsFiniteSet(six) /\ Cardinality(six) = 6
  <2>1. /\ "SystemInfo" \notin {"MiscInfo", "CommentA", "ModuleList", "ThreadList", "MemoryList"}
        /\ "MiscInfo" \notin {"CommentA", "ModuleList", "ThreadList", "MemoryList"}
        /\ "CommentA" \notin {"ModuleList", "ThreadList", "MemoryList"}
        /\ "ModuleList" \notin {"ThreadList", "MemoryList"} /\ "ThreadList" # "MemoryList"
    OBVIOUS
  <2> QED BY Zenon, <2>1, SixStreams, Zenon
<1> HIDE DEF six
<1>4. Cardinality(listed) = 6 + Cardinality(wanted)
  <2>1. Cardinality(six \cap wanted) = 0
    BY <1>2, FS_EmptySet
  <2>2. Cardinality(six \cup wanted) = Cardinality(six) + Cardinality(wanted) - Cardinality(six \cap wanted)
    BY <1>1, <1>3, FS_Union
  <2>3. Cardinality(six \cup wanted) = 6 + Cardinality(wanted)
    BY <1>1, <1>3, <2>1, <2>2
  <2> QED BY <1>2, <2>3
<1>5. DirectoryEntries = Cardinality(listed) + included
  BY DEF DirectoryEntries
<1>6. streamCount = 6 + Cardinality(wanted) + included
  BY DEF StreamsCounted, LaidOut
<1>7. Cardinality(wanted) <= 6
  BY <1>1, OptionalDef, FS_Subset
<1>8. included \in Nat /\ included <= kMaxUserStreams /\ kMaxUserStreams \in Nat
  <2>1. included \in 0 .. Len(user) /\ Len(user) \in Nat /\ Len(user) <= kMaxUserStreams
    BY DEF TypeOK, StreamsCounted
  <2>2. kMaxUserStreams \in Nat
    BY LayoutAssumption
  <2> QED BY <2>1, <2>2
<1> HIDE DEF listed
<1> QED BY <1>1, <1>4, <1>5, <1>6, <1>7, <1>8
\* A stack's place among the bytes is the one the ThreadList adds up.
LEMMA StackPlace ==
  ASSUME TypeOK, DataFlag, ~full, NEW i \in DOMAIN Described, NEW t \in Threads,
         Described[i].of = <<"stack", t>>
  PROVE  PrefixSums(SizesOf(Backed))[i - 1] = PrefixSums(PerThread(stacks))[t - 1]
<1> DEFINE r == StackRanges
           o == Others
<1>1. /\ r \in Seq(MemRange(Kinds))
      /\ \A k \in 1 .. Len(r), s \in Threads :
           r[k].of = <<"stack", s>> =>
             PrefixSums(SizesOf(r))[k - 1] = PrefixSums(PerThread(stacks))[s - 1]
  BY Zenon, StackRangesDef DEF TypeOK, StacksUpTo
<1>2. o \in Seq(MemRange(Kinds)) /\ \A k \in 1 .. Len(o), s \in Threads : o[k].of # <<"stack", s>>
  BY OthersDef
<1>3. Described = r \o o /\ Backed = Described
  BY DescribedDef, BackedIsDescribed
<1> HIDE DEF r, o
<1>4. SizesOf(Described) = SizesOf(r) \o SizesOf(o)
  BY <1>1, <1>2, <1>3, SizesConcat
<1>5. Len(r) \in Nat /\ Len(o) \in Nat /\ Len(Described) = Len(r) + Len(o)
      /\ i \in 1 .. Len(r) + Len(o)
  BY <1>1, <1>2, <1>3
<1>6. i <= Len(r)
  <2> SUFFICES ASSUME i > Len(r) PROVE FALSE
    BY <1>5
  <2>1. i - Len(r) \in 1 .. Len(o) /\ Described[i] = o[i - Len(r)]
    BY <1>1, <1>2, <1>3, <1>5
  <2> QED BY <1>2, <2>1
<1>7. i \in 1 .. Len(r) /\ Described[i] = r[i] /\ i - 1 \in 0 .. Len(r)
  BY <1>1, <1>2, <1>3, <1>5, <1>6
<1>8. SizesOf(r) \in Seq(Nat) /\ SizesOf(o) \in Seq(Nat) /\ Len(SizesOf(r)) = Len(r)
  BY <1>1, <1>2, SizesDef
<1>9. PrefixSums(SizesOf(Described))[i - 1] = PrefixSums(SizesOf(r))[i - 1]
  BY <1>4, <1>7, <1>8, PrefixConcat
<1>10. PrefixSums(SizesOf(r))[i - 1] = PrefixSums(PerThread(stacks))[t - 1]
  BY <1>1, <1>7
<1> QED BY <1>3, <1>9, <1>10

\* A stream that was written is where it belongs, and ends where the next begins.
LEMMA InPlace ==
  ASSUME TypeOK, DataFlag, LastInPlace, last.stream # "none", UserCursor(included) < RvaModulus \/ last.stream = "Memory"
  PROVE  /\ last.at = Rva(last.stream)
         /\ last.at + last.size = CASE last.stream = "Memory"      -> Wrap(UserCursor(included)) + MemoryBytes
                                    [] last.stream = "UserStreams" -> Rva("Memory")
                                    [] OTHER                      -> Cursor(Place(last.stream))
<1> DEFINE stream == last.stream
<1>1. last.at = Rva(stream) /\ last.size = Extent(stream) /\ Present(stream)
  BY DEF LastInPlace
<1>2. stream \in Streams \cup {"Memory", "UserStreams"}
  BY EmittedOrder DEF TypeOK
<1> HIDE DEF stream
<1>3. CASE stream = "Memory"
  <2>1. Rva(stream) = Wrap(UserCursor(included)) /\ Extent(stream) = MemoryBytes
    BY <1>3, BackedIsDescribed DEF Rva, Extent, MemoryBytes
  <2> QED BY <1>1, <1>3, <2>1 DEF stream
<1>4. CASE stream = "UserStreams"
  <2>1. UserCursor(included) < RvaModulus
    BY <1>4 DEF stream
  <2>2. /\ Wrap(UserCursor(0)) = Cursor(13)
        /\ Wrap(UserCursor(included)) = UserCursor(included)
    BY <2>1, NoWrap
  <2>3. UserCursor(included) = Cursor(13) + PrefixSums(Padded)[included]
    BY Zenon, ChargeTypes, UserCursorDef
  <2>4. Rva(stream) = Cursor(13) /\ Extent(stream) = PrefixSums(Padded)[included]
        /\ Rva("Memory") = UserCursor(included)
    BY <1>4, <2>2 DEF Rva, Extent, Padded
  <2> QED BY <1>1, <1>4, <2>3, <2>4 DEF stream
<1>5. CASE stream \in Streams
  <2>1. stream # "Memory" /\ stream # "UserStreams"
    BY <1>5, EmittedOrder
  <2>2. UserCursor(included) < RvaModulus
    BY <2>1 DEF stream
  <2> DEFINE i == Place(stream)
  <2>3. i \in 1 .. 13 /\ i - 1 \in 0 .. 13 /\ Physical[i] = stream
    BY <1>5, PlaceDef
  <2>4. Cursor(i) = Cursor(i - 1) + Storage(stream)
    <3>1. Cursor(i) = Cursor(i - 1) + (IF Present(Physical[i]) THEN Storage(Physical[i]) ELSE 0)
      BY <2>3, CursorDef
    <3> QED BY <1>1, <2>3, <3>1
  <2>5. Rva(stream) = Cursor(i - 1) /\ Extent(stream) = Storage(stream)
    <3>1. Wrap(Cursor(i - 1)) = Cursor(i - 1)
      BY <2>2, <2>3, NoWrap
    <3> QED BY <2>1, <3>1 DEF Rva, Before, Extent
  <2> QED BY <1>1, <2>1, <2>4, <2>5 DEF stream
<1> QED BY <1>2, <1>3, <1>4, <1>5

-----------------------------------------------------------------------------
(***************************************************************************)
(* The properties of the runs.                                             *)
(***************************************************************************)

\* What a dump writes was charged to it and stays within the cap, and its
\* directory has room for as many entries as the header announces (FileFits).
THEOREM FileWithinCap == Spec => []FileFits
<1>1. IInv => FileFits
  <2> SUFFICES ASSUME IInv, LaidOut PROVE FileFits
    BY DEF FileFits
  <2>1. TypeOK /\ Bookkeeping /\ GuardPassed /\ StreamsCounted /\ pc \in {"emit", "done"}
    BY DEF IInv, Bookkeeping, LaidOut
  <2>2. WithinCap
    <3> DEFINE end == UserCursor(included) + MemoryBytes
    <3>1. end \in Nat /\ used \in Nat /\ hardMax \in Nat
      <4>1. UserCursor(included) \in Nat /\ MemoryBytes \in Nat
        BY <2>1, ChargeTypes, UserCursorDef, MemoryListDef
      <4>2. used \in Nat /\ hardMax \in Nat
        BY <2>1, LayoutAssumption DEF TypeOK
      <4> QED BY <4>1, <4>2
    <3>2. CASE full
      <4>1. end <= used
        BY <2>1, <3>2, LaidOutIsCharged
      <4>2. ~(used > hardMax)
        BY <2>1, <3>2 DEF GuardPassed, TooLarge
      <4> HIDE DEF end
      <4>3. end <= hardMax
        BY <3>1, <4>1, <4>2
      <4> QED BY <4>3 DEF WithinCap, end
    <3>3. CASE ~full
      <4>1. end <= Cap /\ Cap \in Nat /\ Cap <= hardMax
        BY <2>1, <3>3, SelectedFits
      <4> HIDE DEF end
      <4>2. end <= hardMax
        BY <3>1, <4>1
      <4> QED BY <4>2 DEF WithinCap, end
    <3> QED BY <3>2, <3>3
  <2> QED BY <2>1, <2>2, DirectoryDef DEF FileFits
<1> QED BY <1>1, Admitted, PTL

\* No offset of a selected-memory dump lost its upper half to the 32-bit cursor
\* (OffsetsExact).
THEOREM OffsetsKept == Spec => []OffsetsExact
<1>1. IInv => OffsetsExact
  <2> SUFFICES ASSUME IInv, LaidOut, ~full PROVE OffsetsExact
    BY DEF OffsetsExact
  <2>1. TypeOK /\ Bookkeeping /\ pc \in {"guard", "emit", "done"}
    BY DEF IInv, LaidOut
  <2>2. UserCursor(included) + MemoryBytes <= Cap /\ Cap \in Nat /\ Cap < RvaModulus
    BY <2>1, SelectedFits
  <2>3. UserCursor(included) \in Nat /\ MemoryBytes \in Nat /\ RvaModulus \in Nat
    BY Zenon, <2>1, ChargeTypes, UserCursorDef, MemoryListDef, LayoutAssumption
  <2>4. UserCursor(included) < RvaModulus /\ UserCursor(included) + MemoryBytes < RvaModulus
    BY <2>2, <2>3
  <2>5. Rva("Memory") = UserCursor(included)
    BY <2>1, <2>4, NoWrap DEF Rva
  <2>6. ASSUME NEW stream \in Streams PROVE Rva(stream) = Before(stream)
    <3>1. stream # "Memory" /\ stream # "UserStreams"
      BY EmittedOrder
    <3>2. Place(stream) - 1 \in 0 .. 13
      BY PlaceDef
    <3>3. Wrap(Cursor(Place(stream) - 1)) = Cursor(Place(stream) - 1)
      BY <2>1, <2>4, <3>2, NoWrap
    <3> QED BY <3>1, <3>3 DEF Rva, Before
  <2> QED BY <2>4, <2>5, <2>6 DEF OffsetsExact
<1> QED BY <1>1, Admitted, PTL

\* The descriptors, the bytes and the ThreadList agree on where a stack is
\* (DescriptorsMatchBytes).
THEOREM StacksAgree == Spec => []DescriptorsMatchBytes
<1>1. IInv => DescriptorsMatchBytes
  <2> SUFFICES ASSUME IInv, LaidOut PROVE DescriptorsMatchBytes
    BY DEF DescriptorsMatchBytes
  <2>1. TypeOK /\ DataFlag
    BY DEF IInv, Bookkeeping
  <2>2. Described = Backed
    BY <2>1, BackedIsDescribed
  <2>3. ASSUME NEW i \in DOMAIN Described, NEW t \in Threads,
               Described[i].of = <<"stack", t>>, ~full
        PROVE  ThreadListRva(Rva("Memory"), t) = Rva("Memory") + PrefixSums(SizesOf(Backed))[i - 1]
    <3>1. PrefixSums(SizesOf(Backed))[i - 1] = PrefixSums(PerThread(stacks))[t - 1]
      BY <2>1, <2>3, StackPlace
    <3> QED BY <3>1 DEF ThreadListRva, PerThread
  <2> QED BY <2>2, <2>3 DEF DescriptorsMatchBytes
<1> QED BY <1>1, Admitted, PTL

\* Whatever was skipped before it, a stream lands where its directory entry
\* says and ends where the next begins (StreamsInPlace).
THEOREM NothingShifts == Spec => []StreamsInPlace
<1>1. IInv => StreamsInPlace
  <2> SUFFICES ASSUME IInv, pc = "emit", last.stream # "none",
                      full => UserCursor(included) < RvaModulus
               PROVE  StreamsInPlace
    BY DEF StreamsInPlace
  <2>1. TypeOK /\ Bookkeeping /\ DataFlag /\ LastInPlace
    BY DEF IInv, Bookkeeping
  <2>2. UserCursor(included) < RvaModulus
    <3>1. CASE ~full
      <4>1. UserCursor(included) + MemoryBytes <= Cap /\ Cap \in Nat /\ Cap < RvaModulus
        BY <2>1, <3>1, SelectedFits
      <4>2. UserCursor(included) \in Nat /\ MemoryBytes \in Nat /\ RvaModulus \in Nat
        BY Zenon, <2>1, ChargeTypes, UserCursorDef, MemoryListDef, LayoutAssumption
      <4> QED BY <4>1, <4>2
    <3> QED BY <3>1
  <2> QED BY <2>1, <2>2, InPlace DEF StreamsInPlace
<1> QED BY <1>1, Admitted, PTL

\* No selected-memory dump that was admitted is thrown away by the last size
\* checks (AdmittedIsWritten).
THEOREM AdmittedWritten == Spec => AdmittedIsWritten
<1>1. IInv /\ [Next]_vars => [pc = "guard" /\ ~full => pc' = "emit"]_vars
  <2> SUFFICES ASSUME IInv, Next, pc = "guard", ~full PROVE pc' = "emit"
    BY DEF vars
  <2>1. ~TooLarge
    BY NotTooLarge DEF IInv
  <2>2. CASE WriteDirectory
    BY <2>2 DEF WriteDirectory
  <2>3. CASE GuardRefuses
    BY <2>1, <2>3 DEF GuardRefuses
  <2>4. ~CaptureFull /\ ~CaptureFullFails /\ ~AdmitStacks /\ ~StackPolicyFails
    BY DEF CaptureFull, CaptureFullFails, AdmitStacks, StackPolicyFails
  <2>5. ~AdmitProc /\ ~AdmitData /\ ~AdmitUser /\ ~UsersDone /\ ~AdmitIndirect /\ ~Layout
    BY DEF AdmitProc, AdmitData, AdmitUser, UsersDone, AdmitIndirect, Layout
  <2>6. ~Emit /\ ~EmitSkips /\ ~EmitFails /\ ~EmitDone
    BY DEF Emit, EmitSkips, EmitFails, EmitDone
  <2> QED BY <2>2, <2>3, <2>4, <2>5, <2>6 DEF Next
<1> QED BY <1>1, Admitted, PTL DEF Spec, AdmittedIsWritten

=============================================================================
