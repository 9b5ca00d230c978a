-------------------------- MODULE IndirectScan_proofs --------------------------
(***************************************************************************)
(* Proofs about IndirectScan, for any process, any memory, any plan of     *)
(* threads, any leftovers of an earlier dump, and any values of the limits *)
(***************************************************************************)
EXTENDS IndirectScan, PrefixSums_proofs, FiniteSetTheorems

-----------------------------------------------------------------------------
(***************************************************************************)
(* Sequences and ranges.                                                   *)
(***************************************************************************)

\* A function on 1 .. n is a sequence of n elements.
LEMMA FunctionIsSeq ==
  ASSUME NEW S, NEW n \in Nat, NEW f \in [1 .. n -> S]
  PROVE  f \in Seq(S) /\ Len(f) = n
<1>1. f \in Seq(S)
  BY SeqDef
<1>2. DOMAIN f = 1 .. Len(f) /\ Len(f) \in Nat
  BY <1>1, LenProperties
<1> QED BY <1>1, <1>2

\* Append adds one element at the end.
LEMMA AppendFacts ==
  ASSUME NEW S, NEW s \in Seq(S), NEW e \in S
  PROVE  /\ Append(s, e) \in Seq(S)
         /\ Len(Append(s, e)) = Len(s) + 1
         /\ \A i \in 1 .. Len(s) : Append(s, e)[i] = s[i]
         /\ Append(s, e)[Len(s) + 1] = e
  OBVIOUS

\* What is in a sequence that grew by one element.
LEMMA AppendEntries ==
  ASSUME NEW S, NEW s \in Seq(S), NEW e \in S
  PROVE  Entries(Append(s, e)) = Entries(s) \cup {e}
<1>1. Len(s) \in Nat
  BY LenProperties
<1>2. \A x \in Entries(Append(s, e)) : x \in Entries(s) \cup {e}
  BY <1>1, AppendFacts DEF Entries
<1>3. \A x \in Entries(s) : x \in Entries(Append(s, e))
  BY <1>1, AppendFacts DEF Entries
<1>4. e \in Entries(Append(s, e))
  BY <1>1, AppendFacts DEF Entries
<1> QED BY <1>2, <1>3, <1>4

\* RangesOverlap does not depend on the order of the two ranges.
LEMMA OverlapSymmetric ==
  ASSUME NEW r, NEW s
  PROVE  RangesOverlap(r, s) = RangesOverlap(s, r)
  BY DEF RangesOverlap

LEMMA AlignDownNat ==
  ASSUME NEW a \in Nat
  PROVE  AlignDown(a) \in Nat
<1>1. Page \in Nat /\ Page > 0
  BY LimitsAssumption
<1>2. a % Page \in 0 .. Page - 1 /\ a % Page <= a
  BY <1>1
<1> QED BY <1>1, <1>2 DEF AlignDown

LEMMA PagesNat ==
  ASSUME NEW value \in Nat
  PROVE  FirstPage(value) \in Nat /\ LastPage(value) \in Nat
<1>1. kPointerStraddleWindow \in Nat /\ kPointerStraddleWindow >= 1
  BY LimitsAssumption
<1>2. value + kPointerStraddleWindow - 1 \in Nat
  BY <1>1
<1> QED BY <1>2, AlignDownNat DEF FirstPage, LastPage

-----------------------------------------------------------------------------
(***************************************************************************)
(* The process that is dumped.                                             *)
(***************************************************************************)

\* The process is one of those that may be dumped, and stays the same.
Dumped == world \in Worlds /\ memory \in Memories

\* VirtualQuery finds a region of the process that holds the address, or none.
LEMMA VirtualQueryFacts ==
  ASSUME Dumped, NEW a \in Nat
  PROVE  /\ VirtualQuery(a) \in Entries(world.regions) \cup {NoRegion}
         /\ VirtualQuery(a) \in Regions
         /\ VirtualQuery(a) # NoRegion => Contains(VirtualQuery(a), a)
<1>1. world.regions \in Seq(Regions)
  BY WorldsAssumption DEF Dumped
<1>2. Entries(world.regions) \subseteq Regions
  BY <1>1, ElementOfSeq DEF Entries
<1>3. NoRegion \in Regions
  BY DEF NoRegion, Regions
<1> DEFINE holding == {region \in Entries(world.regions) : Contains(region, a)}
<1>4. CASE holding = {}
  BY <1>3, <1>4 DEF VirtualQuery
<1>5. CASE holding # {}
  <2>1. VirtualQuery(a) \in holding
    BY <1>5 DEF VirtualQuery
  <2> QED BY <2>1, <1>2
<1> QED BY <1>4, <1>5

\* Regions do not overlap: a region that holds an address is the one
\* VirtualQuery finds, so that the region cache is as good as a query.
LEMMA RegionUnique ==
  ASSUME Dumped, NEW a \in Nat, NEW region \in Entries(world.regions), Contains(region, a)
  PROVE  VirtualQuery(a) = region
<1>1. world.regions \in Seq(Regions) /\ Entries(world.regions) \subseteq Regions
  BY WorldsAssumption, ElementOfSeq DEF Dumped, Entries
<1> DEFINE holding == {r \in Entries(world.regions) : Contains(r, a)}
<1>2. VirtualQuery(a) \in holding
  BY DEF VirtualQuery
<1>3. ASSUME NEW r \in holding
      PROVE  r = region
  <2>1. PICK i \in 1 .. Len(world.regions), j \in 1 .. Len(world.regions) :
          r = world.regions[i] /\ region = world.regions[j]
    BY DEF Entries
  <2>2. r \in Regions /\ region \in Regions
    BY <1>1, <1>3
  <2>3. RangesOverlap(r, region)
    BY <2>2, <1>3 DEF Contains, RangesOverlap, End, Regions
  <2>4. i = j
    BY <2>1, <2>3, WorldsAssumption DEF Dumped
  <2> QED BY <2>1, <2>4
<1> QED BY <1>2, <1>3

\* The region cache holds a region of the process, or nothing yet.
Cached(cache) == cache \in Entries(world.regions) \cup {NoRegion}

LEMMA ClassifyFacts ==
  ASSUME Dumped, NEW cache, Cached(cache), NEW a \in Nat
  PROVE  /\ Classify(cache, a) = VirtualQuery(a)
         /\ CacheAfter(cache, a) \in Regions
         /\ Cached(CacheAfter(cache, a))
<1>1. Classify(cache, a) = VirtualQuery(a)
  <2>1. CASE Contains(cache, a)
    <3>1. cache # NoRegion
      BY <2>1 DEF Contains, NoRegion, End
    <3> QED BY <3>1, <2>1, RegionUnique DEF Cached, Classify
  <2>2. CASE ~Contains(cache, a)
    BY <2>2 DEF Classify
  <2> QED BY <2>1, <2>2
<1>2. cache \in Regions
  <2>1. Entries(world.regions) \subseteq Regions
    BY WorldsAssumption, ElementOfSeq DEF Dumped, Entries
  <2>2. NoRegion \in Regions
    BY DEF NoRegion, Regions
  <2> QED BY <2>1, <2>2 DEF Cached
<1> QED BY <1>1, <1>2, VirtualQueryFacts DEF CacheAfter, Cached

-----------------------------------------------------------------------------
(***************************************************************************)
(* One page, and one reference.                                            *)
(***************************************************************************)

\* What is true of the plan of indirect pages at every step of a scan.
Sound(st) ==
  /\ st \in Founds
  /\ Len(st.pages) <= world.cap
  /\ IsFiniteSet(st.visited) /\ Cardinality(st.visited) <= HashSlots
  /\ Cached(st.cache)
  /\ \A i, j \in 1 .. Len(st.pages) : st.pages[i].page = st.pages[j].page => i = j
  /\ \A i \in 1 .. Len(st.pages) :
       /\ st.pages[i].page \in st.visited
       /\ Capturable(VirtualQuery(st.pages[i].page), st.pages[i].page)
       /\ \A k \in Entries(known) : ~RangesOverlap(PageAt(st.pages[i].page), k)

\* CollectIndirectPage keeps the plan sound and adds at most one page.
LEMMA CollectSound ==
  ASSUME Dumped, NEW st, Sound(st), NEW page \in Nat,
         NEW layer \in 1 .. kIndirectMaxScanLayers
  PROVE  /\ Sound(CollectIndirectPage(st, page, layer))
         /\ Len(st.pages) <= Len(CollectIndirectPage(st, page, layer).pages)
         /\ Len(CollectIndirectPage(st, page, layer).pages) <= Len(st.pages) + 1
<1> DEFINE after == CollectIndirectPage(st, page, layer)
           tried == /\ Len(st.pages) < world.cap
                    /\ Capturable(Classify(st.cache, page), page)
                    /\ page \notin st.visited
                    /\ Cardinality(st.visited) < HashSlots
           taken == tried /\ ~KnownMemoryRangeOverlaps(PageAt(page))
           entry == [page |-> page, layer |-> layer]
<1>1. /\ after.pages = IF taken THEN Append(st.pages, entry) ELSE st.pages
      /\ after.visited = IF tried THEN st.visited \cup {page} ELSE st.visited
      /\ after.cache = IF Len(st.pages) < world.cap THEN CacheAfter(st.cache, page) ELSE st.cache
      /\ after = [pages |-> after.pages, visited |-> after.visited, cache |-> after.cache]
  BY DEF CollectIndirectPage
<1> HIDE DEF after
<1>2. st.pages \in Seq(Pages) /\ st.visited \in SUBSET Nat /\ st.cache \in Regions
  BY DEF Sound, Founds
<1>3. entry \in Pages
  BY DEF Pages
<1>4. Len(st.pages) \in Nat /\ world.cap \in Nat /\ HashSlots \in Nat
  BY <1>2, LenProperties, WorldsAssumption, LimitsAssumption DEF Dumped
<1>5. Cached(after.cache) /\ after.cache \in Regions
  BY <1>1, <1>2, ClassifyFacts DEF Sound
<1>6. IsFiniteSet(after.visited) /\ Cardinality(after.visited) <= HashSlots
  <2>1. CASE tried
    <3>1. IsFiniteSet(st.visited)
      BY DEF Sound
    <3>2. Cardinality(st.visited) \in Nat
      BY <3>1, FS_CardinalityType
    <3>3. /\ IsFiniteSet(st.visited \cup {page})
          /\ Cardinality(st.visited \cup {page}) = Cardinality(st.visited) + 1
      BY Zenon, <3>1, <2>1, FS_AddElement
    <3> QED BY <3>2, <3>3, <2>1, <1>1, <1>4
  <2>2. CASE ~tried
    BY <2>2, <1>1 DEF Sound
  <2> QED BY <2>1, <2>2
<1>7. CASE taken
  <2>1. /\ after.pages \in Seq(Pages)
        /\ Len(after.pages) = Len(st.pages) + 1
        /\ \A i \in 1 .. Len(st.pages) : after.pages[i] = st.pages[i]
        /\ after.pages[Len(st.pages) + 1] = entry
    BY <1>1, <1>2, <1>3, <1>7, AppendFacts
  <2>2. after \in Founds
    BY Zenon, <1>1, <1>2, <1>5, <2>1 DEF Founds
  <2>3. \A i \in 1 .. Len(st.pages) : st.pages[i].page \in st.visited
    BY DEF Sound
  <2>4. page \notin st.visited /\ after.visited = st.visited \cup {page}
    BY <1>1, <1>7
  <2>5. \A i, j \in 1 .. Len(after.pages) : after.pages[i].page = after.pages[j].page => i = j
    <3>1. \A i, j \in 1 .. Len(st.pages) : st.pages[i].page = st.pages[j].page => i = j
      BY DEF Sound
    <3>2. \A i \in 1 .. Len(st.pages) : after.pages[i].page # page
      BY Zenon, <2>1, <2>3, <2>4
    <3>3. \A i \in 1 .. Len(after.pages) : i \in 1 .. Len(st.pages) \/ i = Len(st.pages) + 1
      BY <2>1, <1>4
    <3>4. after.pages[Len(st.pages) + 1].page = page
      BY <2>1
    <3> QED BY Zenon, <2>1, <3>1, <3>2, <3>3, <3>4
  <2>6. Capturable(VirtualQuery(page), page)
    BY <1>7, ClassifyFacts DEF Sound
  <2>7. \A k \in Entries(known) : ~RangesOverlap(PageAt(page), k)
    BY <1>7 DEF KnownMemoryRangeOverlaps
  <2>8. \A i \in 1 .. Len(after.pages) :
          /\ after.pages[i].page \in after.visited
          /\ Capturable(VirtualQuery(after.pages[i].page), after.pages[i].page)
          /\ \A k \in Entries(known) : ~RangesOverlap(PageAt(after.pages[i].page), k)
    <3> TAKE i \in 1 .. Len(after.pages)
    <3>1. CASE i = Len(st.pages) + 1
      BY <3>1, <2>1, <2>4, <2>6, <2>7
    <3>2. CASE i \in 1 .. Len(st.pages)
      BY Zenon, <3>2, <2>1, <2>4 DEF Sound
    <3> QED BY <3>1, <3>2, <2>1, <1>4
  <2>9. Len(after.pages) <= world.cap
    BY <2>1, <1>4, <1>7
  <2> QED BY <2>1, <2>2, <2>5, <2>8, <2>9, <1>4, <1>5, <1>6 DEF Sound, after
<1>8. CASE ~taken
  <2>1. after.pages = st.pages
    BY <1>8, <1>1
  <2>2. st.visited \subseteq after.visited /\ after.visited \subseteq Nat
    BY <1>1, <1>2
  <2>3. after \in Founds
    BY <1>1, <1>2, <1>5, <2>1, <2>2 DEF Founds
  <2> QED BY <2>1, <2>2, <2>3, <1>4, <1>5, <1>6 DEF Sound, after
<1> QED BY <1>7, <1>8

\* AddIndirectMemoryRangeFromPointer keeps the plan sound and adds at most two.
LEMMA ReferenceSound ==
  ASSUME Dumped, NEW st, Sound(st), NEW ref \in References
  PROVE  /\ Sound(AddIndirectMemoryRangeFromPointer(st, ref))
         /\ Len(st.pages) <= Len(AddIndirectMemoryRangeFromPointer(st, ref).pages)
         /\ Len(AddIndirectMemoryRangeFromPointer(st, ref).pages) <= Len(st.pages) + 2
<1> DEFINE first == CollectIndirectPage(st, FirstPage(ref.value), ref.layer)
           second == CollectIndirectPage(first, LastPage(ref.value), ref.layer)
<1>1. ref.value \in Nat /\ ref.layer \in 1 .. kIndirectMaxScanLayers
  BY DEF References
<1>2. FirstPage(ref.value) \in Nat /\ LastPage(ref.value) \in Nat
  BY <1>1, PagesNat
<1>3. /\ Sound(first)
      /\ Len(st.pages) <= Len(first.pages) /\ Len(first.pages) <= Len(st.pages) + 1
  BY Zenon, <1>1, <1>2, CollectSound
<1>4. /\ Sound(second)
      /\ Len(first.pages) <= Len(second.pages) /\ Len(second.pages) <= Len(first.pages) + 1
  BY Zenon, <1>1, <1>2, <1>3, CollectSound
<1>5. Len(st.pages) \in Nat /\ Len(first.pages) \in Nat /\ Len(second.pages) \in Nat
  BY <1>3, <1>4, LenProperties DEF Sound, Founds
<1> HIDE DEF first, second
<1> QED
  BY <1>3, <1>4, <1>5 DEF AddIndirectMemoryRangeFromPointer, first, second

-----------------------------------------------------------------------------
(***************************************************************************)
(* Where references come from.                                             *)
(***************************************************************************)

LEMMA WordNat ==
  ASSUME Dumped, NEW a
  PROVE  Word(a) \in Nat
  BY MemoriesAssumption DEF Dumped, Word

\* The references of one layer.
OnLayer(layer) == {ref \in References : ref.layer = layer}

LEMMA OnLayerTyped ==
  ASSUME NEW layer, NEW s \in Seq(OnLayer(layer))
  PROVE  /\ s \in Seq(References)
         /\ \A ref \in Entries(s) : ref \in References /\ ref.layer = layer
<1>1. OnLayer(layer) \subseteq References
  BY DEF OnLayer
<1>2. \A ref \in Entries(s) : ref \in OnLayer(layer)
  BY ElementOfSeq DEF Entries
<1>3. s \in [1 .. Len(s) -> References] /\ Len(s) \in Nat
  <2>1. s \in [1 .. Len(s) -> OnLayer(layer)] /\ Len(s) \in Nat
    OBVIOUS
  <2> QED BY <2>1, <1>1
<1> QED BY <1>2, <1>3, FunctionIsSeq DEF OnLayer

LEMMA SpanTyped ==
  ASSUME Dumped, NEW from \in Nat, NEW to \in Nat, NEW range \in Ranges,
         NEW layer \in 1 .. kIndirectMaxScanLayers
  PROVE  Span(from, to, range, layer) \in Seq(OnLayer(layer))
<1> DEFINE n == IF from < to THEN to - from ELSE 0
<1>1. n \in Nat
  OBVIOUS
<1>2. \A i \in 1 .. n : Word(from + i - 1) \in Nat
  BY WordNat
<1>3. Span(from, to, range, layer) \in [1 .. n -> OnLayer(layer)]
  BY <1>2 DEF Span, References, OnLayer
<1> QED BY <1>1, <1>3, FunctionIsSeq

LEMMA PageReferencesTyped ==
  ASSUME Dumped, NEW page \in Nat, NEW layer \in 1 .. kIndirectMaxScanLayers
  PROVE  /\ PageReferences(page, layer) \in Seq(OnLayer(layer))
         /\ PageReferences(page, layer) \in Seq(References)
<1>1. Page \in Nat
  BY LimitsAssumption
<1>2. PageAt(page) \in Ranges /\ page + Page \in Nat
  BY <1>1 DEF PageAt, Ranges
<1>3. PageReferences(page, layer) \in Seq(OnLayer(layer))
  BY <1>2, SpanTyped DEF PageReferences
<1> QED BY <1>3, OnLayerTyped

LEMMA RootReferencesTyped ==
  ASSUME Dumped, NEW thread \in Threads, NEW sp \in Nat
  PROVE  /\ RootReferences(thread, sp) \in Seq(OnLayer(1))
         /\ RootReferences(thread, sp) \in Seq(References)
<1>1. 1 \in 1 .. kIndirectMaxScanLayers /\ NoRange \in Ranges
  BY LimitsAssumption DEF NoRange, Ranges
<1>2. RegisterReferences(thread) \in Seq(OnLayer(1))
  <2> DEFINE n == IF thread.context THEN Len(thread.registers) ELSE 0
  <2>1. thread.registers \in Seq(Nat) /\ n \in Nat
    BY LenProperties DEF Threads
  <2>2. \A i \in 1 .. n : thread.registers[i] \in Nat
    BY <2>1, ElementOfSeq
  <2>3. RegisterReferences(thread) \in [1 .. n -> OnLayer(1)]
    BY <1>1, <2>2 DEF RegisterReferences, References, OnLayer
  <2> QED BY Zenon, <2>1, <2>3, FunctionIsSeq
<1>3. ASSUME NEW stack \in Ranges, NEW pointer \in Nat
      PROVE  StackReferences(stack, pointer) \in Seq(OnLayer(1))
  <2>1. stack.start \in Nat /\ End(stack) \in Nat
    BY DEF Ranges, End
  <2>2. /\ Span(pointer, End(stack), stack, 1) \in Seq(OnLayer(1))
        /\ Span(stack.start, pointer, stack, 1) \in Seq(OnLayer(1))
        /\ Span(stack.start, End(stack), stack, 1) \in Seq(OnLayer(1))
    BY Zenon, <2>1, <1>1, SpanTyped
  <2> QED BY <2>2, ConcatProperties DEF StackReferences
<1>4. thread.stack \in Ranges /\ thread.aux \in Ranges
  BY DEF Threads
<1>5. /\ StackReferences(thread.stack, sp) \in Seq(OnLayer(1))
      /\ StackReferences(thread.aux, 0) \in Seq(OnLayer(1))
  BY <1>3, <1>4
<1>6. StackReferences(thread.stack, sp) \o StackReferences(thread.aux, 0) \in Seq(OnLayer(1))
  BY <1>5, ConcatProperties
<1>7. (IF thread.include /\ thread.stack.size # 0
       THEN StackReferences(thread.stack, sp) \o StackReferences(thread.aux, 0)
       ELSE <<>>) \in Seq(OnLayer(1))
  BY <1>6
<1>8. RootReferences(thread, sp) \in Seq(OnLayer(1))
  BY <1>2, <1>7, ConcatProperties DEF RootReferences
<1> QED BY <1>8, OnLayerTyped

LEMMA ThreadsTyped ==
  ASSUME Dumped
  PROVE  /\ Len(world.threads) \in Nat
         /\ \A t \in 1 .. Len(world.threads) : world.threads[t] \in Threads
  BY WorldsAssumption, LenProperties, ElementOfSeq DEF Dumped

LEMMA CrashReferencesTyped ==
  ASSUME Dumped
  PROVE  CrashReferences \in Seq(OnLayer(1)) /\ CrashReferences \in Seq(References)
<1>1. CASE world.preferred = 0
  BY <1>1 DEF CrashReferences
<1>2. CASE world.preferred # 0
  <2>1. world.preferred \in 1 .. Len(world.threads)
    BY <1>2, WorldsAssumption, ThreadsTyped DEF Dumped
  <2> DEFINE thread == world.threads[world.preferred]
  <2>2. thread \in Threads
    BY <2>1, ThreadsTyped
  <2>3. (IF thread.context THEN thread.sp ELSE 0) \in Nat
    BY <2>2 DEF Threads
  <2> QED BY Zenon, <1>2, <2>2, <2>3, RootReferencesTyped DEF CrashReferences
<1> QED BY <1>1, <1>2

LEMMA ProcCandidatesTyped ==
  ASSUME Dumped
  PROVE  ProcCandidates \in Seq(Ranges)
<1>1. <<world.peb>> \in Seq(Ranges) /\ <<world.params, world.environment>> \in Seq(Ranges)
  BY WorldsAssumption DEF Dumped
<1>2. [t \in 1 .. Len(world.threads) |-> world.threads[t].teb] \in Seq(Ranges)
  <2>1. [t \in 1 .. Len(world.threads) |-> world.threads[t].teb]
           \in [1 .. Len(world.threads) -> Ranges]
    BY ThreadsTyped DEF Threads
  <2> QED BY <2>1, ThreadsTyped, FunctionIsSeq
<1>3. <<world.params, world.environment>> \o world.strings \in Seq(Ranges)
  BY <1>1, WorldsAssumption, ConcatProperties DEF Dumped
<1>4. (IF world.peb.size # 0 /\ world.params.size # 0 /\ world.paramsReadable
       THEN <<world.params, world.environment>> \o world.strings
       ELSE <<>>) \in Seq(Ranges)
  BY <1>3
<1>5. <<world.peb>> \o [t \in 1 .. Len(world.threads) |-> world.threads[t].teb] \in Seq(Ranges)
  BY <1>1, <1>2, ConcatProperties
<1> QED BY <1>4, <1>5, ConcatProperties DEF ProcCandidates

LEMMA PlannedTyped ==
  ASSUME Dumped, proc \in Seq(Ranges), data \in Seq(Ranges)
  PROVE  Planned \in Seq(Ranges)
<1> DEFINE n == Len(world.threads)
<1>1. n \in Nat /\ 2 * n \in Nat
  BY ThreadsTyped
<1>2. \A i \in 1 .. 2 * n : (i + 1) \div 2 \in 1 .. n
  BY <1>1
<1>3. NoRange \in Ranges
  BY DEF NoRange, Ranges
<1>4. StackRanges \in [1 .. 2 * n -> Ranges]
  BY Zenon, <1>2, <1>3, ThreadsTyped DEF StackRanges, Threads
<1>5. StackRanges \in Seq(Ranges)
  BY Zenon, <1>1, <1>4, FunctionIsSeq
<1>6. /\ (IF world.admitProc THEN proc ELSE <<>>) \in Seq(Ranges)
      /\ (IF world.admitData THEN data ELSE <<>>) \in Seq(Ranges)
  OBVIOUS
<1>7. StackRanges \o (IF world.admitProc THEN proc ELSE <<>>) \in Seq(Ranges)
  BY <1>5, <1>6, ConcatProperties
<1> QED BY <1>6, <1>7, ConcatProperties DEF Planned

-----------------------------------------------------------------------------
(***************************************************************************)
(* The inductive invariant.                                                *)
(***************************************************************************)

\* Where references are offered, where calls are open, and that every seed is
\* a page of the plan.
Phased ==
  /\ refs # <<>> => pc \in {"seed", "breadth", "others", "last"}
  /\ frames # <<>> => pc = "chain"
  /\ pc = "chain" => seeds <= Count

\* Open calls lie one below the other, and within the reserve of their seed.
Walk ==
  /\ \A i, j \in 1 .. Len(frames) : i < j => frames[i].layer > frames[j].layer
  /\ frames # <<>> => Count <= stop + 1

Tables ==
  /\ Len(proc) <= kMaxProcThreadRanges
  /\ Len(data) <= kMaxDataSegRanges
  /\ pc \in {"known"} \/ Scanning => Len(known) <= kMaxKnownMemoryRanges

\* DescribedOnce, for the process ranges.
ProcDisjoint ==
  /\ \A i, j \in 1 .. Len(proc) : i # j => ~RangesOverlap(proc[i], proc[j])
  /\ \A i \in 1 .. Len(proc) :
       VirtualQuery(proc[i].start).dumpable /\ End(proc[i]) <= End(VirtualQuery(proc[i].start))

\* The first n described ranges are known, or were kept out for a reason.
Accounted(n) ==
  \A i \in 1 .. n :
    i <= Len(Planned) /\ Planned[i].size # 0 => Planned[i] \in Entries(known) \/ KeptOut(Planned[i])

KnownPlan ==
  /\ pc = "known" => Accounted(idx - 1)
  /\ Scanning => Accounted(Len(Planned))

IInv ==
  /\ Dumped
  /\ TypeOK
  /\ Phased
  /\ Walk
  /\ Tables
  /\ ProcDisjoint
  /\ KnownPlan
  /\ Scanning => Sound(found)

\* The initial states satisfy it, whatever an earlier dump left in the tables.
LEMMA InitIInv == Init => IInv
<1> SUFFICES ASSUME Init PROVE IInv
  OBVIOUS
<1>1. Dumped
  BY DEF Init, Dumped
<1>2. known \in Seq(Ranges) /\ found \in Founds
  BY LeftoversAssumption DEF Init
<1>3. TypeOK
  BY <1>2 DEF Init, TypeOK
<1>4. Phased /\ Walk /\ ProcDisjoint /\ KnownPlan /\ ~Scanning
  BY DEF Init, Phased, Walk, ProcDisjoint, KnownPlan, Scanning
<1>5. Tables
  BY <1>4, LimitsAssumption DEF Init, Tables
<1> QED BY <1>1, <1>3, <1>4, <1>5 DEF IInv

-----------------------------------------------------------------------------
(***************************************************************************)
(* What a step leaves alone.                                               *)
(***************************************************************************)

LEMMA DumpedStays ==
  ASSUME Dumped, UNCHANGED process
  PROVE  Dumped'
  BY DEF Dumped, process

LEMMA ProcStays ==
  ASSUME ProcDisjoint, UNCHANGED <<process, proc>>
  PROVE  ProcDisjoint'
  BY DEF ProcDisjoint, RangesOverlap, End, VirtualQuery, Entries, Contains, process

LEMMA PlannedStays ==
  ASSUME UNCHANGED <<process, proc, data>>
  PROVE  Planned' = Planned
  BY DEF Planned, StackRanges, process

LEMMA AccountedStays ==
  ASSUME UNCHANGED <<process, planned>>, NEW n, Accounted(n)
  PROVE  Accounted(n)'
<1>1. Planned' = Planned
  BY PlannedStays DEF planned
<1> QED BY <1>1 DEF Accounted, KeptOut, Entries, RangesOverlap, End, planned, process

\* The plan that a step leaves in found is sound afterwards if it is before.
LEMMA SoundAfter ==
  ASSUME UNCHANGED <<process, known>>, NEW st, Sound(st), found' = st
  PROVE  Sound(found)'
<1>1. \A a : VirtualQuery(a)' = VirtualQuery(a)
  BY DEF VirtualQuery, Entries, Contains, process
<1>2. Entries(known)' = Entries(known) /\ world' = world
  BY DEF Entries, process
<1>3. Cached(st.cache)'
  BY <1>2 DEF Sound, Cached, Entries
<1>4. \A i \in 1 .. Len(st.pages) :
        /\ st.pages[i].page \in st.visited
        /\ Capturable(VirtualQuery(st.pages[i].page), st.pages[i].page)'
        /\ \A k \in Entries(known)' : ~RangesOverlap(PageAt(st.pages[i].page), k)
  BY <1>1, <1>2 DEF Sound, Capturable, End
<1> QED BY <1>2, <1>3, <1>4 DEF Sound

-----------------------------------------------------------------------------
(***************************************************************************)
(* Capturing and planning.                                                 *)
(***************************************************************************)

\* AddProcThreadRange keeps the process ranges typed, few, and disjoint.
LEMMA CaptureProcStep ==
  ASSUME IInv, CaptureProc
  PROVE  IInv'
<1> DEFINE c == ProcCandidates[idx]
           r == Clamp(c)
<1>1. Dumped /\ proc \in Seq(Ranges) /\ idx \in Nat \ {0} /\ Len(proc) \in Nat
  BY LenProperties DEF IInv, TypeOK
<1>2. c \in Ranges
  BY <1>1, ProcCandidatesTyped, ElementOfSeq, LenProperties DEF CaptureProc
<1>3. UNCHANGED <<process, pc, data, known, found, refs, chain, head>> /\ idx' = idx + 1
  BY DEF CaptureProc
<1>4. pc = "proc" /\ ~Scanning
  BY DEF CaptureProc, Scanning
<1>5. CASE proc' = proc
  <2>1. TypeOK'
    BY <1>3, <1>5 DEF IInv, TypeOK, chain
  <2>2. Phased' /\ Walk' /\ Tables' /\ KnownPlan' /\ ~Scanning'
    BY <1>3, <1>4, <1>5 DEF IInv, Phased, Walk, Tables, KnownPlan, Scanning, Count, chain
  <2>3. Dumped' /\ ProcDisjoint'
    BY <1>3, <1>5, DumpedStays, ProcStays DEF IInv
  <2> QED BY <2>1, <2>2, <2>3 DEF IInv
<1>6. CASE proc' # proc
  <2>1. /\ Len(proc) < kMaxProcThreadRanges
        /\ VirtualQuery(c.start).dumpable
        /\ \A taken \in Entries(proc) : ~RangesOverlap(r, taken)
        /\ proc' = Append(proc, r)
    BY <1>6 DEF CaptureProc, AddProcThreadRange
  <2>2. VirtualQuery(c.start) \in Regions /\ Contains(VirtualQuery(c.start), c.start)
    <3>1. VirtualQuery(c.start) # NoRegion
      BY <2>1 DEF NoRegion
    <3> QED BY <3>1, <1>1, <1>2, VirtualQueryFacts DEF Ranges
  <2>3. r \in Ranges /\ r.start = c.start /\ End(r) <= End(VirtualQuery(c.start))
    <3> DEFINE room == End(VirtualQuery(c.start)) - c.start
    <3>1. c.start \in Nat /\ c.size \in Nat /\ kProcThreadRangeMaxBytes \in Nat
      BY <1>2, LimitsAssumption DEF Ranges
    <3>2. End(VirtualQuery(c.start)) \in Nat /\ room \in Nat
      BY <2>2, <3>1 DEF Contains, End, Regions
    <3>3. r = [start |-> c.start, size |-> r.size]
      BY <1>2 DEF Clamp, Ranges
    <3>4. r.size \in Nat /\ r.size <= room
      BY <3>1, <3>2, <1>2 DEF Clamp, Ranges
    <3> QED BY <3>1, <3>2, <3>3, <3>4 DEF Ranges, End
  <2>4. /\ proc' \in Seq(Ranges)
        /\ Len(proc') = Len(proc) + 1
        /\ \A i \in 1 .. Len(proc) : proc'[i] = proc[i]
        /\ proc'[Len(proc) + 1] = r
    BY <1>1, <2>1, <2>3, AppendFacts
  <2>5. TypeOK'
    BY <1>1, <1>3, <2>4 DEF IInv, TypeOK, chain
  <2>6. Phased' /\ Walk' /\ KnownPlan' /\ ~Scanning'
    BY <1>3, <1>4 DEF IInv, Phased, Walk, KnownPlan, Scanning, Count, chain
  <2>7. Tables'
    BY <1>1, <1>3, <1>4, <2>1, <2>4, LimitsAssumption DEF IInv, Tables, Scanning
  <2>8. \A i, j \in 1 .. Len(proc') : i # j => ~RangesOverlap(proc'[i], proc'[j])
    <3>1. \A i, j \in 1 .. Len(proc) : i # j => ~RangesOverlap(proc[i], proc[j])
      BY DEF IInv, ProcDisjoint
    <3>2. \A i \in 1 .. Len(proc) : ~RangesOverlap(r, proc[i]) /\ ~RangesOverlap(proc[i], r)
      BY <2>1, OverlapSymmetric DEF Entries
    <3>3. \A i \in 1 .. Len(proc') : i \in 1 .. Len(proc) \/ i = Len(proc) + 1
      BY <2>4, <1>1
    <3> QED BY <2>4, <3>1, <3>2, <3>3
  <2>9. \A i \in 1 .. Len(proc') :
           VirtualQuery(proc'[i].start).dumpable
             /\ End(proc'[i]) <= End(VirtualQuery(proc'[i].start))
    <3>1. \A i \in 1 .. Len(proc') : i \in 1 .. Len(proc) \/ i = Len(proc) + 1
      BY <2>4, <1>1
    <3> QED BY <2>1, <2>3, <2>4, <3>1 DEF IInv, ProcDisjoint
  <2>10. \A a : VirtualQuery(a)' = VirtualQuery(a)
    BY <1>3 DEF VirtualQuery, Entries, Contains, process
  <2>11. ProcDisjoint'
    BY <2>8, <2>9, <2>10 DEF ProcDisjoint, RangesOverlap, End
  <2> QED BY <1>3, <2>5, <2>6, <2>7, <2>11, DumpedStays DEF IInv
<1> QED BY <1>5, <1>6

LEMMA CaptureProcDoneStep ==
  ASSUME IInv, CaptureProcDone
  PROVE  IInv'
<1>1. UNCHANGED <<process, planned, found, refs, chain, head>> /\ pc' = "data" /\ idx' = 1
  BY DEF CaptureProcDone
<1>2. TypeOK' /\ Phased' /\ Walk' /\ KnownPlan' /\ ~Scanning'
  BY <1>1 DEF CaptureProcDone, IInv, TypeOK, Phased, Walk, KnownPlan, Scanning, Count, planned, chain
<1>3. Tables'
  BY <1>1, <1>2 DEF IInv, Tables, planned
<1> QED BY <1>1, <1>2, <1>3, DumpedStays, ProcStays DEF IInv, planned

\* CaptureDataSegRanges stops at its table.
LEMMA CaptureDataStep ==
  ASSUME IInv, CaptureData
  PROVE  IInv'
<1> DEFINE region == world.regions[idx]
           entry == [start |-> region.start, size |-> region.size]
<1>1. UNCHANGED <<process, pc, proc, known, found, refs, chain, head>> /\ idx' = idx + 1
  BY DEF CaptureData
<1>2. pc = "data" /\ ~Scanning /\ Dumped /\ idx \in Nat \ {0} /\ data \in Seq(Ranges)
  BY DEF CaptureData, Scanning, IInv, TypeOK
<1>3. entry \in Ranges
  <2>1. world.regions \in Seq(Regions)
    BY <1>2, WorldsAssumption DEF Dumped
  <2>2. region \in Regions
    BY <2>1, <1>2, LenProperties, ElementOfSeq DEF CaptureData
  <2> QED BY <2>2 DEF Regions, Ranges
<1>4. data' \in Seq(Ranges) /\ Len(data') <= Len(data) + 1 /\ Len(data) \in Nat
  BY <1>2, <1>3, AppendFacts, LenProperties DEF CaptureData
<1>5. TypeOK'
  BY <1>1, <1>2, <1>4 DEF IInv, TypeOK, chain
<1>6. Phased' /\ Walk' /\ KnownPlan' /\ ~Scanning'
  BY <1>1, <1>2 DEF IInv, Phased, Walk, KnownPlan, Scanning, Count, chain
<1>7. Tables'
  <2>1. Len(data) < kMaxDataSegRanges /\ kMaxDataSegRanges \in Nat /\ Len(data') \in Nat
    BY <1>4, LimitsAssumption, LenProperties DEF CaptureData
  <2>2. Len(data') <= kMaxDataSegRanges
    BY <2>1, <1>4
  <2> QED BY <1>1, <1>2, <1>6, <2>2 DEF IInv, Tables
<1> QED BY <1>1, <1>5, <1>6, <1>7, DumpedStays, ProcStays DEF IInv

LEMMA CaptureDataDoneStep ==
  ASSUME IInv, CaptureDataDone
  PROVE  IInv'
<1>1. UNCHANGED <<process, proc, data, found, refs, chain, head>> /\ idx' = 1
  BY DEF CaptureDataDone
<1>2. pc = "data" /\ pc' \in {"unscanned", "known"} /\ known' \in {known, <<>>}
  BY DEF CaptureDataDone
<1>3. pc' = "known" => known' = <<>>
  BY DEF CaptureDataDone
<1>4. TypeOK' /\ Phased' /\ Walk' /\ ~Scanning'
  BY <1>1, <1>2 DEF IInv, TypeOK, Phased, Walk, Scanning, Count, chain
<1>5. KnownPlan'
  BY <1>1, <1>4 DEF KnownPlan, Accounted
<1>6. Tables'
  BY <1>1, <1>3, <1>4, LimitsAssumption DEF IInv, Tables
<1> QED BY <1>1, <1>4, <1>5, <1>6, DumpedStays, ProcStays DEF IInv

\* AddKnownMemoryRange takes a range, or leaves it out because it is empty, the
\* table is full, or it overlaps a range that is there already.
LEMMA CollectKnownStep ==
  ASSUME IInv, CollectKnown
  PROVE  IInv'
<1> DEFINE r == Planned[idx]
<1>1. UNCHANGED <<process, pc, proc, data, found, refs, chain, head>> /\ idx' = idx + 1
  BY DEF CollectKnown
<1>2. /\ pc = "known" /\ ~Scanning /\ Dumped /\ idx \in Nat \ {0}
      /\ proc \in Seq(Ranges) /\ data \in Seq(Ranges) /\ known \in Seq(Ranges)
  BY DEF CollectKnown, Scanning, IInv, TypeOK
<1>3. Planned \in Seq(Ranges) /\ idx <= Len(Planned) /\ Len(Planned) \in Nat
  BY <1>2, PlannedTyped, LenProperties DEF CollectKnown
<1>4. r \in Ranges
  BY <1>2, <1>3, ElementOfSeq
<1>5. known' = AddKnownMemoryRange(r) /\ Len(known) \in Nat
  BY <1>2, LenProperties DEF CollectKnown
<1> HIDE DEF r
<1>6. known' \in {known, Append(known, r)}
  BY <1>5 DEF AddKnownMemoryRange
<1>7. known' \in Seq(Ranges) /\ Entries(known) \subseteq Entries(known')
  <2>1. CASE known' = known
    BY <2>1, <1>2
  <2>2. CASE known' = Append(known, r)
    <3>1. Append(known, r) \in Seq(Ranges) /\ Entries(Append(known, r)) = Entries(known) \cup {r}
      BY <1>2, <1>4, AppendFacts, AppendEntries
    <3> QED BY <2>2, <3>1
  <2> QED BY <2>1, <2>2, <1>6
<1>8. Len(known) <= kMaxKnownMemoryRanges /\ Len(known') <= kMaxKnownMemoryRanges
  BY <1>2, <1>4, <1>5, AppendFacts, LimitsAssumption DEF IInv, Tables, AddKnownMemoryRange
<1>9. Len(known) = kMaxKnownMemoryRanges => known' = known
  BY <1>5, LimitsAssumption DEF AddKnownMemoryRange
<1>10. r.size # 0 => r \in Entries(known') \/ KeptOut(r)
  <2>1. CASE Len(known) < kMaxKnownMemoryRanges /\ ~KnownMemoryRangeOverlaps(r)
    BY <2>1, <1>2, <1>4, <1>5, AppendEntries DEF AddKnownMemoryRange
  <2>2. CASE KnownMemoryRangeOverlaps(r)
    BY <2>2 DEF KeptOut, KnownMemoryRangeOverlaps
  <2>3. CASE ~(Len(known) < kMaxKnownMemoryRanges)
    BY <2>3, <1>5, <1>8, LimitsAssumption DEF KeptOut
  <2> QED BY <2>1, <2>2, <2>3
<1> DEFINE KeptAfter(x) ==
             Len(known') = kMaxKnownMemoryRanges \/ \E k \in Entries(known') : RangesOverlap(x, k)
<1>11. \A x : KeptOut(x) => KeptAfter(x)
  BY <1>7, <1>9 DEF KeptOut
<1>12. Planned' = Planned
  BY <1>1, PlannedStays
<1>13. Accounted(idx - 1)'
  <2>1. ASSUME NEW i \in 1 .. idx, i <= Len(Planned), Planned[i].size # 0
        PROVE  Planned[i] \in Entries(known') \/ KeptAfter(Planned[i])
    <3>1. CASE i = idx
      BY <3>1, <2>1, <1>10, <1>11 DEF r
    <3>2. CASE i \in 1 .. idx - 1
      <4>1. Accounted(idx - 1)
        BY <1>2 DEF IInv, KnownPlan
      <4>2. Planned[i] \in Entries(known) \/ KeptOut(Planned[i])
        BY <3>2, <4>1, <2>1 DEF Accounted
      <4> QED BY <4>2, <1>7, <1>11
    <3> QED BY <3>1, <3>2, <1>2
  <2>2. \A i \in 1 .. idx : i <= Len(Planned) /\ Planned[i].size # 0 =>
          Planned[i] \in Entries(known') \/ KeptAfter(Planned[i])
    BY <2>1
  <2>3. Entries(known)' = Entries(known')
    BY DEF Entries
  <2>4. idx' - 1 = idx
    BY <1>1, <1>2
  <2> QED BY <2>2, <2>3, <2>4, <1>12 DEF Accounted, KeptOut
<1>14. TypeOK' /\ Phased' /\ Walk' /\ ~Scanning'
  BY <1>1, <1>2, <1>7 DEF IInv, TypeOK, Phased, Walk, Scanning, Count, chain
<1>15. KnownPlan' /\ Tables'
  BY <1>1, <1>8, <1>13, <1>14 DEF IInv, KnownPlan, Tables
<1> QED BY <1>1, <1>14, <1>15, DumpedStays, ProcStays DEF IInv

-----------------------------------------------------------------------------
(***************************************************************************)
(* Scanning.                                                               *)
(***************************************************************************)

\* A step of the scan leaves the tables it scans against alone.
LEMMA ScanLeaves ==
  ASSUME IInv, Scanning, Scanning', UNCHANGED <<process, planned>>
  PROVE  Dumped' /\ ProcDisjoint' /\ KnownPlan' /\ Tables'
<1>1. Accounted(Len(Planned))
  BY DEF IInv, KnownPlan
<1>2. Planned' = Planned
  BY PlannedStays DEF planned
<1>3. Accounted(Len(Planned))'
  BY <1>1, <1>2 DEF Accounted, KeptOut, Entries, RangesOverlap, End, planned
<1>4. pc' # "known"
  BY DEF Scanning
<1> QED BY <1>3, <1>4, DumpedStays, ProcStays DEF IInv, KnownPlan, Tables, planned

LEMMA ScanTables ==
  ASSUME IInv
  PROVE  /\ Dumped
         /\ found \in Founds /\ found.pages \in Seq(Pages) /\ Count \in Nat
         /\ refs \in Seq(References) /\ frames \in Seq(Calls)
         /\ \A i \in 1 .. Count : found.pages[i].page \in Nat
                                    /\ found.pages[i].layer \in 1 .. kIndirectMaxScanLayers
<1>1. /\ Dumped /\ found \in Founds /\ found.pages \in Seq(Pages)
      /\ refs \in Seq(References) /\ frames \in Seq(Calls)
  BY DEF IInv, TypeOK, Founds
<1>2. Count \in Nat
  BY <1>1, LenProperties DEF Count
<1>3. \A i \in 1 .. Count : found.pages[i] \in Pages
  BY <1>1, ElementOfSeq DEF Count
<1> QED BY <1>1, <1>2, <1>3 DEF Pages

\* The tables are emptied, so that nothing of an earlier dump counts.
LEMMA StartScanStep ==
  ASSUME IInv, StartScan
  PROVE  IInv'
<1>1. UNCHANGED <<process, idx, planned, chain, head>> /\ pc' = "seed" /\ refs' = CrashReferences
  BY DEF StartScan
<1>2. pc = "known" /\ refs = <<>> /\ frames = <<>> /\ Scanning'
  BY <1>1 DEF StartScan, IInv, Phased, Scanning
<1>3. Dumped /\ refs' \in Seq(References)
  BY <1>1, CrashReferencesTyped DEF IInv
<1>4. Sound(found)'
  <2>1. found' = [pages |-> <<>>, visited |-> {}, cache |-> NoRegion]
    BY DEF StartScan
  <2>2. NoRegion \in Regions
    BY DEF NoRegion, Regions
  <2>3. found' \in Founds
    BY <2>1, <2>2 DEF Founds
  <2>4. world' = world /\ world.cap \in Nat /\ HashSlots \in Nat
    BY <1>1, <1>3, WorldsAssumption, LimitsAssumption DEF process, Dumped
  <2>5. IsFiniteSet(found'.visited) /\ Cardinality(found'.visited) = 0
    BY <2>1, FS_EmptySet
  <2> QED BY <2>1, <2>3, <2>4, <2>5 DEF Sound, Cached
<1>5. KnownPlan'
  <2>1. Accounted(idx - 1) /\ idx > Len(Planned) /\ idx \in Nat
    BY <1>2 DEF StartScan, IInv, KnownPlan, TypeOK
  <2>2. Len(Planned) \in Nat
    BY <1>3, PlannedTyped, LenProperties DEF IInv, TypeOK
  <2>3. Accounted(Len(Planned))
    BY <2>1, <2>2 DEF Accounted
  <2>4. Planned' = Planned
    BY <1>1, PlannedStays DEF planned
  <2>5. Accounted(Len(Planned))'
    BY Zenon, <1>1, <2>3, <2>4 DEF Accounted, KeptOut, Entries, RangesOverlap, End, planned
  <2> QED BY <1>1, <2>5 DEF KnownPlan
<1>6. TypeOK'
  BY <1>1, <1>3, <1>4 DEF IInv, TypeOK, Sound, planned, chain
<1>7. Phased' /\ Walk' /\ Tables'
  BY <1>1, <1>2 DEF IInv, Phased, Walk, Tables, planned, chain
<1> QED BY <1>1, <1>4, <1>5, <1>6, <1>7, DumpedStays, ProcStays DEF IInv, planned

LEMMA OfferStep ==
  ASSUME IInv, Offer
  PROVE  IInv'
<1> DEFINE after == AddIndirectMemoryRangeFromPointer(found, Head(refs))
<1>1. UNCHANGED <<process, pc, idx, planned, chain, head>> /\ found' = after /\ refs # <<>>
  BY DEF Offer
<1>2. pc \in {"seed", "breadth", "others", "last"} /\ frames = <<>>
  BY <1>1 DEF IInv, Phased
<1>3. Scanning /\ Scanning'
  BY <1>1, <1>2 DEF Scanning
<1>4. Head(refs) \in References /\ Tail(refs) \in Seq(References)
  BY <1>1, ScanTables, HeadTailProperties
<1>5. Sound(after)
  BY <1>3, <1>4, ReferenceSound DEF IInv
<1>6. Sound(found)'
  <2> HIDE DEF after
  <2> QED BY <1>1, <1>5, SoundAfter DEF planned
<1>7. refs' \in Seq(References)
  BY <1>4 DEF Offer
<1>8. TypeOK'
  BY <1>1, <1>6, <1>7 DEF IInv, TypeOK, Sound, planned, chain
<1>9. Phased' /\ Walk'
  BY <1>1, <1>2 DEF IInv, Phased, Walk, chain
<1> QED BY <1>1, <1>3, <1>6, <1>8, <1>9, ScanLeaves DEF IInv

LEMMA StartChainsStep ==
  ASSUME IInv, StartChains
  PROVE  IInv'
<1>1. /\ UNCHANGED <<process, planned, found, refs, frames, stop, head>>
      /\ pc = "seed" /\ refs = <<>> /\ seeds' = Count /\ idx' = 1 /\ pc' = "chain"
  BY DEF StartChains
<1>2. Scanning /\ Scanning' /\ Count \in Nat /\ Count' = Count
  BY <1>1, ScanTables DEF Scanning, Count
<1>3. Sound(found)'
  BY <1>1, <1>2, SoundAfter DEF IInv, planned
<1>4. TypeOK' /\ Phased' /\ Walk'
  BY <1>1, <1>2 DEF IInv, TypeOK, Phased, Walk, planned
<1> QED BY <1>1, <1>2, <1>3, <1>4, ScanLeaves DEF IInv

\* A call that is entered is typed and lies on the layer it was asked for.
LEMMA FollowTyped ==
  ASSUME Dumped, NEW page \in Nat, NEW layer \in 1 .. kIndirectMaxScanLayers,
         NEW count, NEW limit
  PROVE  /\ Follow(page, layer, count, limit) \in Seq(Calls)
         /\ Len(Follow(page, layer, count, limit)) <= 1
         /\ \A i \in 1 .. Len(Follow(page, layer, count, limit)) :
              Follow(page, layer, count, limit)[i].layer = layer
<1> DEFINE call == [page |-> page, layer |-> layer, left |-> PageReferences(page, layer + 1),
                    followed |-> 0]
<1>1. CASE layer < kIndirectMaxScanLayers /\ count < world.cap /\ count < limit
  <2>1. layer + 1 \in 1 .. kIndirectMaxScanLayers /\ layer \in 1 .. kIndirectMaxScanLayers - 1
    BY <1>1, LimitsAssumption
  <2>2. PageReferences(page, layer + 1) \in Seq(References)
    BY <2>1, PageReferencesTyped
  <2>3. 0 \in 0 .. kIndirectChainFanout
    BY LimitsAssumption
  <2>4. call \in Calls
    BY <2>1, <2>2, <2>3 DEF Calls
  <2>5. Follow(page, layer, count, limit) = <<call>>
    BY <1>1 DEF Follow
  <2> HIDE DEF call
  <2>6. call.layer = layer
    BY DEF call
  <2> QED BY <2>4, <2>5, <2>6
<1>2. CASE ~(layer < kIndirectMaxScanLayers /\ count < world.cap /\ count < limit)
  <2>1. Follow(page, layer, count, limit) = <<>>
    BY <1>2 DEF Follow
  <2> QED BY <2>1
<1> QED BY <1>1, <1>2

\* The walk of a seed starts with the reserve counted from where the plan is.
LEMMA FollowSeedStep ==
  ASSUME IInv, FollowSeed
  PROVE  IInv'
<1>1. /\ UNCHANGED <<process, pc, planned, found, refs, seeds, head>>
      /\ pc = "chain" /\ idx <= seeds /\ idx' = idx + 1
      /\ stop' = Count + kIndirectPerSeedReserve
      /\ frames' = Follow(found.pages[idx].page, found.pages[idx].layer, Count, stop')
  BY DEF FollowSeed
<1>2. /\ Scanning /\ Scanning' /\ Count' = Count /\ Count \in Nat
      /\ kIndirectPerSeedReserve \in Nat /\ idx \in Nat \ {0} /\ seeds \in Nat
  BY Zenon, <1>1, ScanTables, LimitsAssumption DEF Scanning, Count, IInv, TypeOK
<1>3. idx \in 1 .. Count
  BY <1>1, <1>2 DEF IInv, Phased
<1>4. frames' \in Seq(Calls) /\ Len(frames') <= 1
  BY Zenon, <1>1, <1>3, ScanTables, FollowTyped
<1>5. Walk'
  <2>1. Len(frames') \in Nat
    BY <1>4, LenProperties
  <2>2. Count <= stop' + 1
    BY <1>1, <1>2
  <2>3. \A i, j \in 1 .. Len(frames') : ~(i < j)
    BY <2>1, <1>4
  <2> QED BY <1>2, <2>2, <2>3 DEF Walk
<1>6. Sound(found)'
  BY <1>1, <1>2, SoundAfter DEF IInv, planned
<1>7. TypeOK' /\ Phased'
  BY <1>1, <1>2, <1>4 DEF IInv, TypeOK, Phased, planned
<1> QED BY <1>1, <1>2, <1>5, <1>6, <1>7, ScanLeaves DEF IInv

\* A call that replaces the innermost one, with a deeper call on top or none,
\* leaves the calls in order.
LEMMA PushOrder ==
  ASSUME NEW calls \in Seq(Calls), calls # <<>>,
         \A i, j \in 1 .. Len(calls) : i < j => calls[i].layer > calls[j].layer,
         NEW top \in Calls, top.layer = Head(calls).layer,
         NEW deeper \in Seq(Calls), Len(deeper) <= 1,
         \A i \in 1 .. Len(deeper) : deeper[i].layer = top.layer + 1
  PROVE  LET all == deeper \o <<top>> \o Tail(calls)
         IN  /\ all \in Seq(Calls)
             /\ \A i, j \in 1 .. Len(all) : i < j => all[i].layer > all[j].layer
<1> DEFINE rest == Tail(calls)
           lower == <<top>> \o rest
           all == deeper \o <<top>> \o rest
<1>1. /\ rest \in Seq(Calls) /\ Len(rest) = Len(calls) - 1 /\ Head(calls) = calls[1]
      /\ \A i \in 1 .. Len(rest) : rest[i] = calls[i + 1]
      /\ Len(calls) \in Nat \ {0} /\ Len(deeper) \in 0 .. 1
  <2>1. /\ rest \in Seq(Calls) /\ Len(rest) = Len(calls) - 1
        /\ \A i \in 1 .. Len(rest) : rest[i] = calls[i + 1]
    BY HeadTailProperties
  <2>2. Head(calls) = calls[1]
    OBVIOUS
  <2>3. Len(calls) \in Nat /\ Len(calls) # 0
    BY LenProperties, EmptySeq
  <2>4. Len(deeper) \in Nat
    BY LenProperties
  <2>5. Len(calls) \in Nat \ {0} /\ Len(deeper) \in 0 .. 1
    BY <2>3, <2>4
  <2> HIDE DEF rest
  <2> QED BY Zenon, <2>1, <2>2, <2>5
<1>2. <<top>> \in Seq(Calls) /\ Len(<<top>>) = 1 /\ <<top>>[1] = top
  OBVIOUS
<1> HIDE DEF rest
<1>3. /\ lower \in Seq(Calls) /\ Len(lower) = Len(calls)
      /\ \A i \in 1 .. Len(lower) : lower[i] = IF i <= 1 THEN <<top>>[i] ELSE rest[i - 1]
  BY <1>1, <1>2, ConcatProperties
<1>4. \A i \in 1 .. Len(lower) : lower[i].layer = calls[i].layer
  <2> TAKE i \in 1 .. Len(lower)
  <2>1. CASE i = 1
    BY <2>1, <1>1, <1>2, <1>3
  <2>2. CASE i # 1
    <3>1. i - 1 \in 1 .. Len(rest) /\ lower[i] = rest[i - 1]
      BY <2>2, <1>1, <1>3
    <3>2. rest[i - 1] = calls[(i - 1) + 1]
      BY <3>1, <1>1
    <3> QED BY <3>1, <3>2, <1>1, <1>3
  <2> QED BY <2>1, <2>2
<1>5. all = deeper \o lower
  BY <1>1, <1>2, ConcatAssociative
<1> HIDE DEF lower, all
<1>6. /\ all \in Seq(Calls) /\ Len(all) = Len(deeper) + Len(lower)
      /\ \A i \in 1 .. Len(all) :
           all[i] = IF i <= Len(deeper) THEN deeper[i] ELSE lower[i - Len(deeper)]
  BY <1>3, <1>5, ConcatProperties
<1>7. \A i \in 1 .. Len(calls) : calls[i].layer \in Int
  <2> TAKE i \in 1 .. Len(calls)
  <2>1. calls[i] \in Calls
    BY ElementOfSeq
  <2>2. kIndirectMaxScanLayers \in Nat
    BY LimitsAssumption
  <2>3. calls[i].layer \in 1 .. kIndirectMaxScanLayers - 1
    BY ONLY Zenon, <2>1 DEF Calls
  <2> QED BY ONLY <2>2, <2>3
<1>8. \A i, j \in 1 .. Len(all) : i < j => all[i].layer > all[j].layer
  <2> TAKE i, j \in 1 .. Len(all)
  <2> HAVE i < j
  <2>1. CASE Len(deeper) = 0
    <3>1. all[i] = lower[i] /\ all[j] = lower[j] /\ i \in 1 .. Len(lower) /\ j \in 1 .. Len(lower)
      BY <2>1, <1>1, <1>3, <1>6
    <3> QED BY <3>1, <1>3, <1>4
  <2>2. CASE Len(deeper) = 1
    <3>1. j - 1 \in 1 .. Len(lower) /\ all[j] = lower[j - 1]
      BY <2>2, <1>1, <1>3, <1>6
    <3>2. j - 1 \in 1 .. Len(calls) /\ all[j].layer = calls[j - 1].layer
      BY <3>1, <1>3, <1>4
    <3>3. calls[1].layer >= calls[j - 1].layer
      <4>1. CASE j - 1 = 1
        BY <4>1, <3>2, <1>7
      <4>2. CASE j - 1 # 1
        <5>1. 1 \in 1 .. Len(calls) /\ 1 < j - 1
          BY <4>2, <3>2
        <5>2. calls[1].layer > calls[j - 1].layer
          BY <5>1, <3>2
        <5> QED BY <5>1, <5>2, <3>2, <1>7
      <4> QED BY <4>1, <4>2
    <3>4. CASE i = 1
      <4>1. all[1] = deeper[1] /\ deeper[1].layer = top.layer + 1
        BY <3>4, <2>2, <1>6
      <4>2. top.layer = calls[1].layer /\ 1 \in 1 .. Len(calls)
        BY <1>1
      <4>3. calls[1].layer \in Int /\ calls[j - 1].layer \in Int
        BY <4>2, <3>2, <1>7
      <4> HIDE DEF all
      <4> QED BY <4>1, <4>2, <4>3, <3>2, <3>3, <3>4
    <3>5. CASE i > 1
      <4>1. i - 1 \in 1 .. Len(lower) /\ all[i] = lower[i - 1]
        BY <3>5, <2>2, <1>1, <1>3, <1>6
      <4>2. i - 1 \in 1 .. Len(calls) /\ all[i].layer = calls[i - 1].layer
        BY <4>1, <1>3, <1>4
      <4>3. i - 1 < j - 1
        OBVIOUS
      <4>4. calls[i - 1].layer > calls[j - 1].layer
        BY Zenon, <4>2, <4>3, <3>2
      <4> QED BY <4>2, <4>4, <3>2
    <3> QED BY <3>4, <3>5
  <2> QED BY <2>1, <2>2, <1>1
<1> QED BY Zenon, <1>6, <1>8 DEF all, rest

\* What a call refers to lies on a layer there is.
LEMMA NextLayer ==
  ASSUME NEW call \in Calls
  PROVE  call.layer + 1 \in 1 .. kIndirectMaxScanLayers
<1> DEFINE layer == call.layer
           K == kIndirectMaxScanLayers
<1>1. layer \in 1 .. K - 1
  BY DEF Calls
<1>2. K \in Nat
  BY LimitsAssumption
<1> HIDE DEF layer, K
<1>3. layer + 1 \in 1 .. K
  BY <1>1, <1>2
<1> QED BY <1>3 DEF layer, K

\* What is left of a call after one word of it.
LEMMA RestTyped ==
  ASSUME NEW call \in Calls, Following(call), NEW grew \in BOOLEAN
  PROVE  [call EXCEPT !.left = Tail(@), !.followed = IF grew THEN @ + 1 ELSE @] \in Calls
<1> DEFINE n == call.followed
           left == Tail(call.left)
<1>1. call.left \in Seq(References) /\ call.left # <<>>
  BY DEF Calls, Following
<1>2. left \in Seq(References)
  BY <1>1, HeadTailProperties
<1>3. kIndirectChainFanout \in Nat /\ n \in 0 .. kIndirectChainFanout /\ n < kIndirectChainFanout
  BY LimitsAssumption DEF Calls, Following
<1> HIDE DEF n
<1>4. (IF grew THEN n + 1 ELSE n) \in 0 .. kIndirectChainFanout
  BY <1>3
<1> HIDE DEF left
<1>5. [call EXCEPT !.left = left, !.followed = IF grew THEN n + 1 ELSE n] \in Calls
  BY Zenon, <1>2, <1>4 DEF Calls
<1> QED BY <1>5 DEF n, left

\* One word of the innermost call: at most two pages over the count that was
\* below the reserve, and the calls stay in order.
LEMMA FollowWordStep ==
  ASSUME IInv, FollowWord
  PROVE  IInv'
<1> DEFINE call  == Head(frames)
           ref   == Head(call.left)
           after == AddIndirectMemoryRangeFromPointer(found, ref)
           grew  == Len(after.pages) > Count
           rest  == [call EXCEPT !.left = Tail(@), !.followed = IF grew THEN @ + 1 ELSE @]
           deeper == IF grew THEN Follow(AlignDown(ref.value), call.layer + 1, Len(after.pages), stop)
                     ELSE <<>>
<1>1. /\ UNCHANGED <<process, pc, idx, planned, refs, seeds, stop, head>>
      /\ frames # <<>> /\ Following(call)
      /\ found' = after /\ frames' = deeper \o <<rest>> \o Tail(frames)
  BY Zenon DEF FollowWord
<1>2. pc = "chain" /\ Scanning /\ Scanning'
  BY Zenon, <1>1 DEF IInv, Phased, Scanning
<1>3. call \in Calls /\ Dumped
  BY Zenon, <1>1, ScanTables, HeadTailProperties
<1>4. /\ call.left \in Seq(References) /\ call.left # <<>>
      /\ call.layer \in 1 .. kIndirectMaxScanLayers - 1
      /\ call.followed \in 0 .. kIndirectChainFanout /\ call.followed < kIndirectChainFanout
  BY Zenon, <1>1, <1>3 DEF Calls, Following
<1>5. ref \in References /\ Tail(call.left) \in Seq(References)
  BY <1>4, HeadTailProperties
<1>6. /\ Sound(after) /\ Count <= Len(after.pages) /\ Len(after.pages) <= Count + 2
      /\ Len(after.pages) \in Nat
  <2>1. Sound(after) /\ Count <= Len(after.pages) /\ Len(after.pages) <= Count + 2
    BY <1>2, <1>3, <1>5, ReferenceSound DEF IInv, Count
  <2> QED BY Zenon, <2>1, LenProperties DEF Sound, Founds
<1>7. rest \in Calls /\ rest.layer = call.layer
  <2>1. rest \in Calls
    BY Zenon, <1>1, <1>3, RestTyped
  <2> QED BY <2>1, <1>3 DEF Calls
<1>8. /\ deeper \in Seq(Calls) /\ Len(deeper) <= 1
      /\ \A i \in 1 .. Len(deeper) : deeper[i].layer = call.layer + 1
  <2>1. AlignDown(ref.value) \in Nat
    BY Zenon, <1>5, AlignDownNat DEF References
  <2>2. call.layer + 1 \in 1 .. kIndirectMaxScanLayers
    BY <1>3, NextLayer
  <2> DEFINE lower == Follow(AlignDown(ref.value), call.layer + 1, Len(after.pages), stop)
  <2>3. /\ lower \in Seq(Calls) /\ Len(lower) <= 1
        /\ \A i \in 1 .. Len(lower) : lower[i].layer = call.layer + 1
    <3> HIDE DEF call, after, ref
    <3> QED BY <2>1, <2>2, <1>3, FollowTyped
  <2>4. CASE grew
    <3>1. deeper = lower
      BY <2>4
    <3> HIDE DEF lower, deeper
    <3> QED BY <2>3, <3>1
  <2>5. CASE ~grew
    <3>1. deeper = <<>>
      BY <2>5
    <3> HIDE DEF lower, deeper
    <3>2. deeper \in Seq(Calls) /\ Len(deeper) = 0
      BY <3>1
    <3> QED BY <3>2
  <2> QED BY <2>4, <2>5
<1> HIDE DEF call, after, rest, deeper
<1>9. /\ frames' \in Seq(Calls)
      /\ \A i, j \in 1 .. Len(frames') : i < j => frames'[i].layer > frames'[j].layer
  <2>1. frames \in Seq(Calls) /\ call = Head(frames)
    BY ScanTables DEF call
  <2>2. \A i, j \in 1 .. Len(frames) : i < j => frames[i].layer > frames[j].layer
    BY DEF IInv, Walk
  <2> DEFINE all == deeper \o <<rest>> \o Tail(frames)
  <2>3. frames # <<>> /\ rest.layer = Head(frames).layer
    BY <1>1, <1>7, <2>1
  <2>4. /\ all \in Seq(Calls)
        /\ \A i, j \in 1 .. Len(all) : i < j => all[i].layer > all[j].layer
    BY Zenon, <1>7, <1>8, <2>1, <2>2, <2>3, PushOrder
  <2>5. frames' = all
    BY <1>1
  <2> HIDE DEF all
  <2> QED BY <2>4, <2>5
<1>10. Count' <= stop' + 1 /\ seeds' <= Count'
  <2>1. Count' = Len(after.pages) /\ stop' = stop /\ seeds' = seeds
    BY <1>1 DEF Count
  <2>2. Count < stop /\ stop \in Nat /\ seeds \in Nat /\ Count \in Nat
    BY <1>1, ScanTables DEF Following, IInv, TypeOK
  <2>3. seeds <= Count
    BY <1>2 DEF IInv, Phased
  <2> QED BY <2>1, <2>2, <2>3, <1>6
<1>11. Sound(found)'
  BY <1>1, <1>6, SoundAfter DEF planned
<1>12. TypeOK' /\ Phased' /\ Walk'
  BY Zenon, <1>1, <1>2, <1>9, <1>10, <1>11 DEF IInv, TypeOK, Phased, Walk, Sound, planned
<1> QED BY <1>1, <1>2, <1>11, <1>12, ScanLeaves DEF IInv

LEMMA FollowReturnsStep ==
  ASSUME IInv, FollowReturns
  PROVE  IInv'
<1>1. /\ UNCHANGED <<process, pc, idx, planned, found, refs, seeds, stop, head>>
      /\ frames # <<>> /\ frames' = Tail(frames)
  BY DEF FollowReturns
<1>2. pc = "chain" /\ Scanning /\ Scanning' /\ Count' = Count
  BY <1>1 DEF IInv, Phased, Scanning, Count
<1>3. /\ frames' \in Seq(Calls) /\ Len(frames') = Len(frames) - 1 /\ Len(frames) \in Nat
      /\ \A i \in 1 .. Len(frames') : frames'[i] = frames[i + 1]
  BY <1>1, ScanTables, HeadTailProperties, LenProperties
<1>4. Walk'
  <2>1. \A i, j \in 1 .. Len(frames) : i < j => frames[i].layer > frames[j].layer
    BY DEF IInv, Walk
  <2>2. \A i, j \in 1 .. Len(frames') : i < j => frames'[i].layer > frames'[j].layer
    <3> TAKE i, j \in 1 .. Len(frames')
    <3> DEFINE n == Len(frames)
               m == Len(frames')
    <3>1. n \in Nat /\ m = n - 1 /\ i \in 1 .. m /\ j \in 1 .. m
      BY <1>3
    <3> HIDE DEF n, m
    <3>2. i + 1 \in 1 .. n /\ j + 1 \in 1 .. n /\ (i < j => i + 1 < j + 1)
      BY <3>1
    <3>3. frames'[i] = frames[i + 1] /\ frames'[j] = frames[j + 1]
      BY <3>1, <1>3 DEF m
    <3> QED BY <3>2, <3>3, <2>1 DEF n
  <2> QED BY <1>1, <1>2, <2>2 DEF IInv, Walk
<1>5. Sound(found)'
  BY <1>1, <1>2, SoundAfter DEF IInv, planned
<1>6. TypeOK' /\ Phased'
  BY <1>1, <1>2, <1>3 DEF IInv, TypeOK, Phased, planned
<1> QED BY <1>1, <1>2, <1>4, <1>5, <1>6, ScanLeaves DEF IInv

LEMMA ChainsDoneStep ==
  ASSUME IInv, ChainsDone
  PROVE  IInv'
<1>1. /\ UNCHANGED <<process, idx, planned, found, refs, chain, head>>
      /\ pc = "chain" /\ frames = <<>> /\ pc' = "breadth"
  BY DEF ChainsDone
<1>2. Scanning /\ Scanning' /\ refs = <<>>
  BY <1>1 DEF IInv, Phased, Scanning
<1>3. Sound(found)'
  BY <1>1, <1>2, SoundAfter DEF IInv, planned
<1>4. TypeOK' /\ Phased' /\ Walk'
  BY <1>1, <1>2 DEF IInv, TypeOK, Phased, Walk, planned, chain
<1> QED BY <1>1, <1>2, <1>3, <1>4, ScanLeaves DEF IInv

LEMMA ExpandPageStep ==
  ASSUME IInv, ExpandPage
  PROVE  IInv'
<1> DEFINE next == found.pages[head]
<1>1. /\ UNCHANGED <<process, pc, idx, planned, found, chain>>
      /\ pc \in {"breadth", "last"} /\ Expanding /\ head' = head + 1
      /\ refs' = IF next.layer < kIndirectMaxScanLayers
                 THEN PageReferences(next.page, next.layer + 1) ELSE <<>>
  BY DEF ExpandPage
<1>2. Scanning /\ Scanning' /\ frames = <<>> /\ Dumped /\ head \in 1 .. Count
  <2>1. Scanning /\ Scanning' /\ frames = <<>>
    BY <1>1 DEF IInv, Phased, Scanning
  <2>2. Dumped /\ Count \in Nat
    BY ScanTables
  <2>3. head \in Nat \ {0}
    BY DEF IInv, TypeOK
  <2>4. head <= Count
    BY <1>1 DEF Expanding
  <2> QED BY <2>1, <2>2, <2>3, <2>4
<1>3. next.page \in Nat /\ next.layer \in 1 .. kIndirectMaxScanLayers
  BY <1>2, ScanTables
<1>4. refs' \in Seq(References)
  <2> HIDE DEF next
  <2>1. CASE next.layer < kIndirectMaxScanLayers
    <3>1. next.layer + 1 \in 1 .. kIndirectMaxScanLayers
      BY <2>1, <1>3, LimitsAssumption
    <3> QED BY Zenon, <3>1, <2>1, <1>1, <1>2, <1>3, PageReferencesTyped
  <2>2. CASE ~(next.layer < kIndirectMaxScanLayers)
    BY <2>2, <1>1
  <2> QED BY <2>1, <2>2
<1>5. Sound(found)'
  BY <1>1, <1>2, SoundAfter DEF IInv, planned
<1>6. TypeOK' /\ Phased' /\ Walk'
  BY <1>1, <1>2, <1>4 DEF IInv, TypeOK, Phased, Walk, Count, planned, chain
<1> QED BY <1>1, <1>2, <1>5, <1>6, ScanLeaves DEF IInv

LEMMA ExpandDoneStep ==
  ASSUME IInv, ExpandDone
  PROVE  IInv'
<1>1. /\ UNCHANGED <<process, planned, found, refs, chain, head>> /\ refs = <<>> /\ idx' = 1
      /\ pc \in {"breadth", "last"} /\ pc' \in {"others", "done"}
  BY DEF ExpandDone
<1>2. Scanning /\ Scanning' /\ frames = <<>>
  BY <1>1 DEF IInv, Phased, Scanning
<1>3. Sound(found)'
  BY <1>1, <1>2, SoundAfter DEF IInv, planned
<1>4. TypeOK' /\ Phased' /\ Walk'
  BY <1>1, <1>2 DEF IInv, TypeOK, Phased, Walk, planned, chain
<1> QED BY <1>1, <1>2, <1>3, <1>4, ScanLeaves DEF IInv

LEMMA SeedOtherStep ==
  ASSUME IInv, SeedOther
  PROVE  IInv'
<1>1. /\ UNCHANGED <<process, pc, planned, found, chain, head>> /\ idx' = idx + 1
      /\ pc = "others" /\ idx <= Len(world.threads)
      /\ refs' \in {<<>>, RootReferences(world.threads[idx], 0)}
  BY DEF SeedOther
<1>2. Scanning /\ Scanning' /\ frames = <<>> /\ Dumped /\ idx \in Nat \ {0}
  BY <1>1 DEF IInv, TypeOK, Phased, Scanning
<1>3. refs' \in Seq(References)
  <2>1. world.threads[idx] \in Threads
    BY <1>1, <1>2, ThreadsTyped
  <2>2. RootReferences(world.threads[idx], 0) \in Seq(References)
    BY Zenon, <2>1, <1>2, RootReferencesTyped
  <2>3. <<>> \in Seq(References)
    OBVIOUS
  <2> HIDE DEF RootReferences
  <2> QED BY Zenon, <2>2, <2>3, <1>1
<1>4. Sound(found)'
  BY <1>1, <1>2, SoundAfter DEF IInv, planned
<1>5. TypeOK' /\ Phased' /\ Walk'
  BY <1>1, <1>2, <1>3 DEF IInv, TypeOK, Phased, Walk, planned, chain
<1> QED BY <1>1, <1>2, <1>4, <1>5, ScanLeaves DEF IInv

LEMMA OthersDoneStep ==
  ASSUME IInv, OthersDone
  PROVE  IInv'
<1>1. /\ UNCHANGED <<process, idx, planned, found, refs, chain, head>>
      /\ pc = "others" /\ refs = <<>> /\ pc' = "last"
  BY DEF OthersDone
<1>2. Scanning /\ Scanning' /\ frames = <<>>
  BY <1>1 DEF IInv, Phased, Scanning
<1>3. Sound(found)'
  BY <1>1, <1>2, SoundAfter DEF IInv, planned
<1>4. TypeOK' /\ Phased' /\ Walk'
  BY <1>1, <1>2 DEF IInv, TypeOK, Phased, Walk, planned, chain
<1> QED BY <1>1, <1>2, <1>3, <1>4, ScanLeaves DEF IInv

\* Nothing happens.
LEMMA StutterStep ==
  ASSUME IInv, UNCHANGED vars
  PROVE  IInv'
<1>1. UNCHANGED <<process, planned, pc, idx, found, refs, chain, head>>
  BY DEF vars
<1>2. TypeOK' /\ Phased' /\ Walk' /\ Tables' /\ Scanning' = Scanning
  BY Zenon, <1>1 DEF IInv, TypeOK, Phased, Walk, Tables, Scanning, Count, planned, chain
<1>3. KnownPlan'
  <2>1. Planned' = Planned
    BY <1>1, PlannedStays DEF planned
  <2>2. CASE pc = "known"
    <3>1. Accounted(idx - 1)'
      BY <1>1, <2>1, <2>2 DEF IInv, KnownPlan, Accounted, KeptOut, Entries, RangesOverlap,
                              End, planned
    <3> QED BY <3>1, <2>2, <1>1 DEF KnownPlan, Scanning
  <2>3. CASE Scanning
    <3>1. Accounted(Len(Planned))'
      BY <1>1, <2>1, <2>3 DEF IInv, KnownPlan, Accounted, KeptOut, Entries, RangesOverlap,
                              End, planned
    <3> QED BY <3>1, <2>3, <1>1 DEF KnownPlan, Scanning
  <2>4. CASE pc # "known" /\ ~Scanning
    BY <2>4, <1>1, <1>2 DEF KnownPlan
  <2> QED BY <2>2, <2>3, <2>4
<1>4. Scanning' => Sound(found)'
  BY <1>1, <1>2, SoundAfter DEF IInv, planned
<1> QED BY <1>1, <1>2, <1>3, <1>4, DumpedStays, ProcStays DEF IInv, planned

\* The invariant is inductive: one lemma for each action.
LEMMA InductiveIInv == IInv /\ [Next]_vars => IInv'
<1> SUFFICES ASSUME IInv, [Next]_vars PROVE IInv'
  OBVIOUS
<1>1. CASE CaptureProc \/ CaptureProcDone \/ CaptureData \/ CaptureDataDone
  BY <1>1, CaptureProcStep, CaptureProcDoneStep, CaptureDataStep, CaptureDataDoneStep
<1>2. CASE CollectKnown \/ StartScan \/ Offer
  BY <1>2, CollectKnownStep, StartScanStep, OfferStep
<1>3. CASE StartChains \/ FollowSeed \/ FollowWord \/ FollowReturns \/ ChainsDone
  BY <1>3, StartChainsStep, FollowSeedStep, FollowWordStep, FollowReturnsStep, ChainsDoneStep
<1>4. CASE ExpandPage \/ ExpandDone \/ SeedOther \/ OthersDone
  BY <1>4, ExpandPageStep, ExpandDoneStep, SeedOtherStep, OthersDoneStep
<1>5. CASE UNCHANGED vars
  BY <1>5, StutterStep
<1> QED BY <1>1, <1>2, <1>3, <1>4, <1>5 DEF Next

-----------------------------------------------------------------------------
(***************************************************************************)
(* The theorems about types, limits and ranges.                            *)
(***************************************************************************)

\* The invariant says what LimitsKept says of the tables, the plan and the walk.
LEMMA IInvLimits == IInv => LimitsKept
<1> SUFFICES ASSUME IInv PROVE LimitsKept
  OBVIOUS
<1>1. Scanning => Count <= world.cap /\ IsFiniteSet(found.visited)
                    /\ Cardinality(found.visited) <= HashSlots
  BY DEF IInv, Sound, Count
<1> QED BY <1>1 DEF IInv, Tables, Walk, LimitsKept

\* The invariant says what DescribedOnce says of ranges and pages.
LEMMA IInvDescribed == IInv => DescribedOnce
<1> SUFFICES ASSUME IInv PROVE DescribedOnce
  OBVIOUS
<1>1. ASSUME Scanning
      PROVE  /\ \A i, j \in 1 .. Count : found.pages[i].page = found.pages[j].page => i = j
             /\ \A page \in Captured :
                  /\ Capturable(VirtualQuery(page), page)
                  /\ \A k \in Entries(known) : ~RangesOverlap(PageAt(page), k)
  BY <1>1 DEF IInv, Sound, Count, Captured
<1>2. ASSUME Scanning, NEW range \in Entries(Planned), range.size # 0
      PROVE  range \in Entries(known) \/ KeptOut(range)
  <2>1. Accounted(Len(Planned))
    BY <1>2 DEF IInv, KnownPlan
  <2>2. PICK i \in 1 .. Len(Planned) : range = Planned[i]
    BY DEF Entries
  <2> QED BY <2>1, <2>2, <1>2 DEF Accounted
<1> QED BY <1>1, <1>2 DEF IInv, ProcDisjoint, DescribedOnce

\* The strengthened invariant holds at every step of a scan.
LEMMA Invariance == Spec => []IInv
<1> QED BY InitIInv, InductiveIInv, PTL DEF Spec

\* Every variable keeps its type, and every page of the plan lies on one of the
\* layers 1 to kIndirectMaxScanLayers (CollectIndirectMemoryRanges).
THEOREM TypeCorrect == Spec => []TypeOK
<1>1. IInv => TypeOK
  BY DEF IInv
<1> QED BY <1>1, Invariance, PTL

\* Page cap, visited table, tables of ranges and the reserve of a walk hold
\* together, for every process, memory and value of the limits
\* (CollectIndirectPage, FollowIndirectChainDepthFirst).
THEOREM LimitsAlwaysKept == Spec => []LimitsKept
<1> QED BY IInvLimits, Invariance, PTL

\* No page is described twice, or beside a known range; and every described
\* range is known or was kept out because the table was full or it overlapped
\* one that was there (AddProcThreadRange, AddKnownMemoryRange,
\* CollectIndirectPage).
THEOREM AlwaysDescribedOnce == Spec => []DescribedOnce
<1> QED BY IInvDescribed, Invariance, PTL

-----------------------------------------------------------------------------
(***************************************************************************)
(* What n references lead to.                                              *)
(***************************************************************************)

LEMMA TargetsNat ==
  ASSUME NEW ref \in References
  PROVE  Targets(ref) \subseteq Nat
<1>1. ref.value \in Nat
  BY DEF References
<1> QED BY <1>1, PagesNat DEF Targets

\* The pages that the words of some pages refer to, a reference further.
Further(pages, n) ==
  UNION {UNION {Targets(ref) : ref \in Entries(PageReferences(page, n))} : page \in pages}

LEMMA FurtherNat ==
  ASSUME Dumped, NEW pages \in SUBSET Nat, NEW n \in 1 .. kIndirectMaxScanLayers
  PROVE  Further(pages, n) \subseteq Nat
<1>1. ASSUME NEW page \in pages, NEW ref \in Entries(PageReferences(page, n))
      PROVE  Targets(ref) \subseteq Nat
  <2>1. PageReferences(page, n) \in Seq(References)
    BY PageReferencesTyped
  <2>2. ref \in References
    BY <2>1, ElementOfSeq DEF Entries
  <2> QED BY <2>2, TargetsNat
<1> QED BY <1>1 DEF Further

\* reach[n] is what n references lead to from the roots.
IsWithin(reach, roots) ==
  /\ reach \in [1 .. kIndirectMaxScanLayers -> SUBSET Nat]
  /\ \A page \in Nat : page \in reach[1] <=> \E ref \in roots : page \in Targets(ref)
  /\ \A n \in 1 .. kIndirectMaxScanLayers - 1 :
       reach[n + 1] = reach[n] \cup Further(reach[n], n + 1)

\* Within is defined: there is such a function for every process and any roots.
LEMMA WithinDef ==
  ASSUME Dumped, NEW roots, roots \subseteq References
  PROVE  IsWithin(Within(roots), roots)
<1> DEFINE N == kIndirectMaxScanLayers - 1
           first == UNION {Targets(ref) : ref \in roots}
           step == [p \in (1 .. N) \X SUBSET Nat |-> p[2] \cup Further(p[2], p[1] + 1)]
           Rec(f) == f = [n \in 1 .. kIndirectMaxScanLayers |->
                            IF n = 1 THEN first ELSE f[n - 1] \cup Further(f[n - 1], n)]
<1>1. kIndirectMaxScanLayers \in Nat \ {0} /\ N \in Nat
  BY LimitsAssumption
<1>2. first \in SUBSET Nat
  BY TargetsNat
<1>3. \A n \in 1 .. N : n + 1 \in 1 .. kIndirectMaxScanLayers
  BY <1>1
<1>4. \A n \in 1 .. N, pages \in SUBSET Nat :
        /\ pages \cup Further(pages, n + 1) \in SUBSET Nat
        /\ step[<<n, pages>>] = pages \cup Further(pages, n + 1)
  BY Zenon, <1>3, FurtherNat
<1>5. step \in StepFunctions(N, SUBSET Nat)
  BY <1>4 DEF StepFunctions
<1> HIDE DEF first, step
<1>6. PICK g \in [0 .. N -> SUBSET Nat] : IsRecursive(g, N, first, step)
  <2> HIDE DEF N
  <2> QED BY Zenon, <1>1, <1>2, <1>5, Recursion
<1> DEFINE f == [n \in 1 .. kIndirectMaxScanLayers |-> g[n - 1]]
<1>7. Rec(f)
  <2>1. ASSUME NEW n \in 1 .. kIndirectMaxScanLayers
        PROVE  f[n] = IF n = 1 THEN first ELSE f[n - 1] \cup Further(f[n - 1], n)
    <3>1. n - 1 \in 0 .. N /\ f[n] = g[n - 1]
      BY <1>1
    <3>2. CASE n = 1
      BY <3>1, <3>2, <1>6 DEF IsRecursive
    <3>3. CASE n # 1
      <4>1. n - 1 \in 1 .. N /\ n - 1 # 0 /\ f[n - 1] = g[(n - 1) - 1] /\ (n - 1) - 1 \in 0 .. N
        BY <3>3, <1>1
      <4>2. g[n - 1] = step[<<n - 1, g[(n - 1) - 1]>>]
        BY <4>1, <3>1, <1>6 DEF IsRecursive
      <4>3. step[<<n - 1, f[n - 1]>>] = f[n - 1] \cup Further(f[n - 1], (n - 1) + 1)
        <5>1. PICK m, before : m = n - 1 /\ before = g[(n - 1) - 1]
          OBVIOUS
        <5>2. m \in 1 .. N /\ before \in SUBSET Nat /\ f[n - 1] = before
          BY <5>1, <4>1
        <5>3. step[<<m, before>>] = before \cup Further(before, m + 1)
          BY <5>2, <1>4
        <5> QED BY Zenon, <5>1, <5>2, <5>3
      <4>4. (n - 1) + 1 = n
        OBVIOUS
      <4> QED BY Zenon, <4>1, <4>2, <4>3, <4>4, <3>1, <3>3
    <3> QED BY <3>2, <3>3
  <2>2. f = [n \in 1 .. kIndirectMaxScanLayers |-> f[n]]
    OBVIOUS
  <2> HIDE DEF f
  <2> QED BY <2>1, <2>2
<1>8. Rec(Within(roots))
  <2>1. Within(roots) = CHOOSE h : Rec(h)
    BY DEF Within, first, Further
  <2> HIDE DEF Rec, f
  <2> QED BY <2>1, <1>7
<1> DEFINE w == Within(roots)
<1>9. w = [n \in 1 .. kIndirectMaxScanLayers |->
             IF n = 1 THEN first ELSE w[n - 1] \cup Further(w[n - 1], n)]
  BY Zenon, <1>8
<1> HIDE DEF w
<1>10. w[1] = first
  BY <1>1, <1>9
<1>11. ASSUME NEW n \in 1 .. N PROVE w[n + 1] = w[n] \cup Further(w[n], n + 1)
  <2>1. n + 1 \in 1 .. kIndirectMaxScanLayers /\ n + 1 # 1 /\ (n + 1) - 1 = n
    BY <1>1
  <2> QED BY Zenon, <2>1, <1>9
<1>12. \A n \in Nat : n \in {m \in Nat : m <= N => w[m + 1] \in SUBSET Nat}
  <2> DEFINE T == {m \in Nat : m <= N => w[m + 1] \in SUBSET Nat}
  <2>1. 0 \in T
    <3>1. w[0 + 1] = w[1]
      OBVIOUS
    <3> QED BY Zenon, <3>1, <1>2, <1>10
  <2>2. ASSUME NEW n \in Nat, n \in T PROVE n + 1 \in T
    <3> SUFFICES ASSUME n + 1 <= N PROVE w[(n + 1) + 1] \in SUBSET Nat
      OBVIOUS
    <3>1. n + 1 \in 1 .. N /\ w[n + 1] \in SUBSET Nat
      BY <1>1, <2>2
    <3>2. w[n + 1] \cup Further(w[n + 1], (n + 1) + 1) \in SUBSET Nat
      <4>1. (n + 1) + 1 \in 1 .. kIndirectMaxScanLayers
        BY <3>1, <1>3
      <4>2. Further(w[n + 1], (n + 1) + 1) \subseteq Nat
        BY <4>1, <3>1, FurtherNat
      <4> QED BY <4>2, <3>1
    <3>3. w[(n + 1) + 1] = w[n + 1] \cup Further(w[n + 1], (n + 1) + 1)
      BY <3>1, <1>11
    <3> QED BY <3>2, <3>3
  <2> HIDE DEF T
  <2>3. \A n \in Nat : n \in T
    BY <2>1, <2>2, NatInduct
  <2> QED BY <2>3 DEF T
<1>13. w \in [1 .. kIndirectMaxScanLayers -> SUBSET Nat]
  <2>1. ASSUME NEW n \in 1 .. kIndirectMaxScanLayers PROVE w[n] \in SUBSET Nat
    <3>1. n - 1 \in Nat /\ n - 1 <= N /\ (n - 1) + 1 = n
      BY <1>1
    <3>2. w[(n - 1) + 1] \in SUBSET Nat
      BY <3>1, <1>12
    <3> QED BY <3>1, <3>2
  <2> QED BY <2>1, <1>9
<1>14. \A page \in Nat : page \in w[1] <=> \E ref \in roots : page \in Targets(ref)
  BY <1>10 DEF first
<1> QED BY <1>11, <1>13, <1>14 DEF w, IsWithin

\* What n references lead to, more references lead to as well.
LEMMA WithinMonotone ==
  ASSUME NEW reach, NEW roots, IsWithin(reach, roots), NEW n \in 1 .. kIndirectMaxScanLayers
  PROVE  reach[n] \subseteq reach[kIndirectMaxScanLayers]
<1> DEFINE K == kIndirectMaxScanLayers
           T == {m \in Nat : n + m <= K => reach[n] \subseteq reach[n + m]}
<1>1. K \in Nat \ {0} /\ n \in Nat \ {0}
  BY LimitsAssumption
<1>2. \A m \in 1 .. K - 1 : reach[m] \subseteq reach[m + 1]
  BY DEF IsWithin
<1> HIDE DEF K
<1>3. 0 \in T
  <2>1. n + 0 = n
    BY <1>1
  <2>2. reach[n] \subseteq reach[n + 0]
    BY <2>1
  <2> QED BY <2>2
<1>4. ASSUME NEW m \in Nat, m \in T PROVE m + 1 \in T
  <2> SUFFICES ASSUME n + (m + 1) <= K PROVE reach[n] \subseteq reach[n + (m + 1)]
    OBVIOUS
  <2>1. n + m \in 1 .. K - 1 /\ (n + m) + 1 = n + (m + 1) /\ n + m <= K
    BY <1>1
  <2>2. reach[n + m] \subseteq reach[(n + m) + 1]
    BY <2>1, <1>2
  <2>3. reach[n] \subseteq reach[n + m]
    BY <2>1, <1>4
  <2> QED BY <2>1, <2>2, <2>3
<1>5. \A m \in Nat : m \in T
  <2> HIDE DEF T
  <2> QED BY <1>3, <1>4, NatInduct
<1>6. K - n \in Nat /\ n + (K - n) = K /\ n + (K - n) <= K
  BY <1>1 DEF K
<1>7. K - n \in T
  BY <1>5, <1>6
<1>8. reach[n] \subseteq reach[n + (K - n)]
  BY <1>6, <1>7
<1> QED BY <1>6, <1>8 DEF K

\* The references of the roots are typed.
AllRoots == Entries(CrashReferences) \cup OtherReferences

LEMMA RootsTyped ==
  ASSUME Dumped
  PROVE  Entries(CrashReferences) \subseteq References /\ AllRoots \subseteq References
<1>1. Entries(CrashReferences) \subseteq References
  BY CrashReferencesTyped, ElementOfSeq DEF Entries
<1>2. ASSUME NEW t \in 1 .. Len(world.threads)
      PROVE  Entries(RootReferences(world.threads[t], 0)) \subseteq References
  <2>1. RootReferences(world.threads[t], 0) \in Seq(References)
    BY ThreadsTyped, RootReferencesTyped
  <2> QED BY <2>1, ElementOfSeq DEF Entries
<1>3. OtherReferences \subseteq References
  BY <1>2 DEF OtherReferences
<1> QED BY <1>1, <1>3 DEF AllRoots

-----------------------------------------------------------------------------
(***************************************************************************)
(* How the plan grows.                                                     *)
(***************************************************************************)

\* What was in the plan stays, what is new are some targets, on one layer; and
\* nothing is new at the cap.
Grown(st, after, targets, layer) ==
  /\ Len(st.pages) <= Len(after.pages)
  /\ \A i \in 1 .. Len(st.pages) : after.pages[i] = st.pages[i]
  /\ \A i \in 1 .. Len(after.pages) :
       \/ i \in 1 .. Len(st.pages)
       \/ after.pages[i].page \in targets /\ after.pages[i].layer = layer
  /\ st.visited \subseteq after.visited
  /\ Len(st.pages) < Len(after.pages) => Len(st.pages) < world.cap

CapturedBy(st) == {st.pages[i].page : i \in 1 .. Len(st.pages)}

\* There is room for another page.
OpenAt(st) == Len(st.pages) < world.cap /\ Cardinality(st.visited) < HashSlots

\* Every page in the visited table is captured, or overlaps a known range.
Held(st) ==
  \A page \in st.visited : page \in CapturedBy(st) \/ KnownMemoryRangeOverlaps(PageAt(page))

\* A page that should be in the dump is.
Settled(st, page) ==
  Capturable(VirtualQuery(page), page) =>
    page \in CapturedBy(st) \/ KnownMemoryRangeOverlaps(PageAt(page))

LEMMA SoundTyped ==
  ASSUME NEW st, Sound(st)
  PROVE  /\ st.pages \in Seq(Pages) /\ Len(st.pages) \in Nat
         /\ IsFiniteSet(st.visited) /\ Cardinality(st.visited) \in Nat
  BY LenProperties, FS_CardinalityType DEF Sound, Founds

\* What is captured stays captured, and what is settled stays settled.
LEMMA GrownKeeps ==
  ASSUME NEW st, Sound(st), NEW after, Sound(after), NEW targets, NEW layer,
         Grown(st, after, targets, layer)
  PROVE  /\ CapturedBy(st) \subseteq CapturedBy(after)
         /\ CapturedBy(after) \subseteq CapturedBy(st) \cup targets
         /\ \A page : Settled(st, page) => Settled(after, page)
         /\ OpenAt(after) => OpenAt(st)
         /\ Cardinality(after.visited) < HashSlots => Cardinality(st.visited) < HashSlots
<1>1. /\ Len(st.pages) \in Nat /\ Len(after.pages) \in Nat
      /\ IsFiniteSet(after.visited)
      /\ Cardinality(st.visited) \in Nat /\ Cardinality(after.visited) \in Nat
  BY SoundTyped
<1>2. \A i \in 1 .. Len(st.pages) : i \in 1 .. Len(after.pages) /\ after.pages[i] = st.pages[i]
  BY <1>1 DEF Grown
<1>3. CapturedBy(st) \subseteq CapturedBy(after)
  BY <1>2 DEF CapturedBy
<1>4. CapturedBy(after) \subseteq CapturedBy(st) \cup targets
  <2>1. ASSUME NEW i \in 1 .. Len(after.pages)
        PROVE  after.pages[i].page \in CapturedBy(st) \cup targets
    BY <1>2 DEF CapturedBy, Grown
  <2> QED BY <2>1 DEF CapturedBy
<1>5. \A page : Settled(st, page) => Settled(after, page)
  BY <1>3 DEF Settled
<1>6. Cardinality(st.visited) <= Cardinality(after.visited)
  BY <1>1, FS_Subset DEF Grown
<1>7. Cardinality(after.visited) < HashSlots => Cardinality(st.visited) < HashSlots
  BY <1>1, <1>6, LimitsAssumption
<1>8. Len(after.pages) < world.cap => Len(st.pages) < world.cap
  BY <1>1 DEF Grown
<1> QED BY <1>3, <1>4, <1>5, <1>7, <1>8 DEF OpenAt

\* CollectIndirectPage adds the page, or nothing; it settles the page as long
\* as there is room.
LEMMA CollectGrows ==
  ASSUME Dumped, NEW st, Sound(st), NEW targets, NEW page \in Nat, page \in targets,
         NEW layer \in 1 .. kIndirectMaxScanLayers
  PROVE  LET after == CollectIndirectPage(st, page, layer)
         IN  /\ Grown(st, after, targets, layer)
             /\ Held(st) => Held(after)
             /\ Held(st) /\ OpenAt(st) => Settled(after, page)
<1> DEFINE after == CollectIndirectPage(st, page, layer)
           tried == /\ Len(st.pages) < world.cap
                    /\ Capturable(Classify(st.cache, page), page)
                    /\ page \notin st.visited
                    /\ Cardinality(st.visited) < HashSlots
           overlaps == KnownMemoryRangeOverlaps(PageAt(page))
           taken == tried /\ ~overlaps
           entry == [page |-> page, layer |-> layer]
<1>1. /\ after.pages = IF taken THEN Append(st.pages, entry) ELSE st.pages
      /\ after.visited = IF tried THEN st.visited \cup {page} ELSE st.visited
  BY DEF CollectIndirectPage
<1>2. st.pages \in Seq(Pages) /\ Len(st.pages) \in Nat /\ entry \in Pages
  BY Zenon, SoundTyped DEF Pages
<1>3. Classify(st.cache, page) = VirtualQuery(page)
  BY ClassifyFacts DEF Sound
<1>4. entry.page = page /\ entry.layer = layer
  OBVIOUS
<1> HIDE DEF after, entry
<1>5. CASE taken
  <2>1. /\ Len(after.pages) = Len(st.pages) + 1
        /\ \A i \in 1 .. Len(st.pages) : after.pages[i] = st.pages[i]
        /\ after.pages[Len(st.pages) + 1] = entry
    BY <1>1, <1>2, <1>5, AppendFacts
  <2>2. \A i \in 1 .. Len(after.pages) : i \in 1 .. Len(st.pages) \/ i = Len(st.pages) + 1
    BY <2>1, <1>2
  <2>3. after.visited = st.visited \cup {page} /\ Len(st.pages) < world.cap
    BY <1>1, <1>5
  <2>4. Grown(st, after, targets, layer)
    BY <2>1, <2>2, <2>3, <1>2, <1>4 DEF Grown
  <2>5. page \in CapturedBy(after)
    <3>1. Len(st.pages) + 1 \in 1 .. Len(after.pages)
      BY <2>1, <1>2
    <3> QED BY <3>1, <2>1, <1>4 DEF CapturedBy
  <2>6. CapturedBy(st) \subseteq CapturedBy(after)
    <3>1. 1 .. Len(st.pages) \subseteq 1 .. Len(after.pages)
      BY <2>1, <1>2
    <3> QED BY Zenon, <3>1, <2>1 DEF CapturedBy
  <2>7. Held(st) => Held(after)
    BY <2>3, <2>5, <2>6 DEF Held
  <2>8. Settled(after, page)
    BY <2>5 DEF Settled
  <2> QED BY <2>4, <2>7, <2>8 DEF after
<1>6. CASE ~taken
  <2>1. after.pages = st.pages
    BY <1>1, <1>6
  <2>2. st.visited \subseteq after.visited /\ after.visited \subseteq st.visited \cup {page}
    BY <1>1
  <2>3. Grown(st, after, targets, layer)
    BY <2>1, <2>2, <1>2 DEF Grown
  <2>4. CapturedBy(after) = CapturedBy(st)
    BY <2>1 DEF CapturedBy
  <2>5. Held(st) => Held(after)
    <3>1. page \in after.visited => page \in st.visited \/ overlaps
      BY <1>1, <1>6
    <3> QED BY <3>1, <2>2, <2>4 DEF Held
  <2>6. ASSUME Held(st), OpenAt(st) PROVE Settled(after, page)
    <3>1. Capturable(VirtualQuery(page), page) => page \in st.visited \/ overlaps
      BY <2>6, <1>3, <1>6 DEF OpenAt
    <3> QED BY <3>1, <2>6, <2>4 DEF Held, Settled
  <2> QED BY <2>3, <2>5, <2>6 DEF after
<1> QED BY <1>5, <1>6

LEMMA GrownTransitive ==
  ASSUME NEW st, NEW first, NEW second, Sound(st), Sound(first), Sound(second),
         NEW targets, NEW layer,
         Grown(st, first, targets, layer), Grown(first, second, targets, layer)
  PROVE  Grown(st, second, targets, layer)
<1>1. Len(st.pages) \in Nat /\ Len(first.pages) \in Nat /\ Len(second.pages) \in Nat
  BY SoundTyped
<1>2. Len(st.pages) <= Len(first.pages) /\ Len(first.pages) <= Len(second.pages)
  BY DEF Grown
<1>3. Len(st.pages) <= Len(second.pages)
  BY <1>1, <1>2
<1>4. \A i \in 1 .. Len(st.pages) : i \in 1 .. Len(first.pages)
  BY <1>1, <1>2
<1>5. \A i \in 1 .. Len(st.pages) : second.pages[i] = st.pages[i]
  BY <1>4 DEF Grown
<1>6. ASSUME NEW i \in 1 .. Len(second.pages), i \notin 1 .. Len(st.pages)
      PROVE  second.pages[i].page \in targets /\ second.pages[i].layer = layer
  BY Zenon, <1>6 DEF Grown
<1>7. st.visited \subseteq second.visited
  BY DEF Grown
<1>8. Len(st.pages) < Len(second.pages) => Len(st.pages) < world.cap
  <2>1. CASE Len(st.pages) < Len(first.pages)
    BY <2>1 DEF Grown
  <2>2. CASE ~ (Len(st.pages) < Len(first.pages))
    <3>1. Len(st.pages) = Len(first.pages)
      BY <2>2, <1>1, <1>2
    <3> QED BY <3>1 DEF Grown
  <2> QED BY <2>1, <2>2
<1> QED BY <1>3, <1>5, <1>6, <1>7, <1>8 DEF Grown

\* AddIndirectMemoryRangeFromPointer adds pages the reference stands for, and
\* settles all of them as long as there is room.
LEMMA ReferenceGrows ==
  ASSUME Dumped, NEW st, Sound(st), NEW ref \in References
  PROVE  LET after == AddIndirectMemoryRangeFromPointer(st, ref)
         IN  /\ Grown(st, after, Targets(ref), ref.layer)
             /\ Held(st) => Held(after)
             /\ Held(st) /\ OpenAt(after) => \A page \in Targets(ref) : Settled(after, page)
             /\ Len(st.pages) < Len(after.pages) => FirstPage(ref.value) \in Targets(ref)
<1> DEFINE p == FirstPage(ref.value)
           q == LastPage(ref.value)
           first == CollectIndirectPage(st, p, ref.layer)
           second == CollectIndirectPage(first, q, ref.layer)
           after == AddIndirectMemoryRangeFromPointer(st, ref)
<1>1. p \in Nat /\ q \in Nat /\ ref.layer \in 1 .. kIndirectMaxScanLayers
  BY PagesNat DEF References
<1>2. after = IF ~Plausible(ref) THEN st ELSE IF p = q THEN first ELSE second
  BY DEF AddIndirectMemoryRangeFromPointer
<1>3. Len(st.pages) \in Nat
  BY SoundTyped
<1> HIDE DEF after, p, q
<1>4. CASE ~Plausible(ref)
  <2>1. after = st /\ Targets(ref) = {}
    BY <1>2, <1>4 DEF Targets
  <2>2. Grown(st, st, Targets(ref), ref.layer)
    BY <1>3 DEF Grown
  <2>3. ~ (Len(st.pages) < Len(st.pages))
    BY <1>3
  <2> QED BY <2>1, <2>2, <2>3 DEF after
<1>5. CASE Plausible(ref)
  <2>1. Targets(ref) = {p, q} /\ FirstPage(ref.value) \in Targets(ref)
    BY <1>5 DEF Targets, p, q
  <2>2. Sound(first)
    BY <1>1, CollectSound
  <2>3. /\ Grown(st, first, Targets(ref), ref.layer)
        /\ Held(st) => Held(first)
        /\ Held(st) /\ OpenAt(st) => Settled(first, p)
    BY <1>1, <2>1, CollectGrows
  <2>4. OpenAt(first) => OpenAt(st)
    BY <2>2, <2>3, GrownKeeps
  <2>5. CASE p = q
    <3>1. after = first
      BY <1>2, <1>5, <2>5
    <3>2. Held(st) /\ OpenAt(first) => \A page \in Targets(ref) : Settled(first, page)
      BY <2>1, <2>3, <2>4, <2>5
    <3> QED BY <3>1, <3>2, <2>1, <2>3 DEF after
  <2>6. CASE p # q
    <3> HIDE DEF first
    <3>1. after = second
      BY <1>2, <1>5, <2>6
    <3>2. Sound(second)
      BY <1>1, <2>2, CollectSound
    <3>3. /\ Grown(first, second, Targets(ref), ref.layer)
          /\ Held(first) => Held(second)
          /\ Held(first) /\ OpenAt(first) => Settled(second, q)
      BY <1>1, <2>1, <2>2, CollectGrows
    <3> HIDE DEF second
    <3>4. Grown(st, second, Targets(ref), ref.layer)
      BY <2>2, <2>3, <3>2, <3>3, GrownTransitive
    <3>5. /\ OpenAt(second) => OpenAt(first)
          /\ Settled(first, p) => Settled(second, p)
      BY <2>2, <3>2, <3>3, GrownKeeps
    <3>6. Held(st) /\ OpenAt(second) => \A page \in Targets(ref) : Settled(second, page)
      BY <2>1, <2>3, <2>4, <3>3, <3>5
    <3> QED BY <3>1, <3>3, <3>4, <3>6, <2>1, <2>3 DEF after
  <2> QED BY <2>5, <2>6
<1> QED BY <1>4, <1>5

-----------------------------------------------------------------------------
(***************************************************************************)
(* Nothing is found, or on its way to be found, too far out.               *)
(***************************************************************************)

PagesWithin(st, reach) ==
  \A i \in 1 .. Len(st.pages) : st.pages[i].page \in reach[st.pages[i].layer]

RefsWithin(references, reach) ==
  \A ref \in Entries(references) : Targets(ref) \subseteq reach[ref.layer]

CallWithin(call, reach) ==
  \A ref \in Entries(call.left) :
    ref.layer = call.layer + 1 /\ Targets(ref) \subseteq reach[ref.layer]

InReach(reach) ==
  /\ PagesWithin(found, reach)
  /\ RefsWithin(refs, reach)
  /\ \A call \in Entries(frames) : CallWithin(call, reach)

\* A page that n references lead to refers to pages that n + 1 lead to.
LEMMA PageRefsWithin ==
  ASSUME Dumped, NEW reach, NEW roots, IsWithin(reach, roots),
         NEW layer \in 1 .. kIndirectMaxScanLayers - 1, NEW page \in reach[layer]
  PROVE  \A ref \in Entries(PageReferences(page, layer + 1)) :
           ref.layer = layer + 1 /\ Targets(ref) \subseteq reach[layer + 1]
<1>1. layer + 1 \in 1 .. kIndirectMaxScanLayers /\ layer \in 1 .. kIndirectMaxScanLayers
  BY LimitsAssumption
<1>2. page \in Nat
  BY <1>1 DEF IsWithin
<1>3. PageReferences(page, layer + 1) \in Seq(OnLayer(layer + 1))
  BY <1>1, <1>2, PageReferencesTyped
<1>4. reach[layer + 1] = reach[layer] \cup Further(reach[layer], layer + 1)
  BY DEF IsWithin
<1>5. ASSUME NEW ref \in Entries(PageReferences(page, layer + 1))
      PROVE  Targets(ref) \subseteq Further(reach[layer], layer + 1)
  BY DEF Further
<1> QED BY <1>3, <1>4, <1>5, OnLayerTyped

\* The roots lie on the first layer.
LEMMA RootRefsWithin ==
  ASSUME Dumped, NEW reach, NEW roots, IsWithin(reach, roots), roots \subseteq References,
         NEW s \in Seq(OnLayer(1)), Entries(s) \subseteq roots
  PROVE  RefsWithin(s, reach)
<1> SUFFICES ASSUME NEW ref \in Entries(s) PROVE Targets(ref) \subseteq reach[ref.layer]
  BY DEF RefsWithin
<1>1. ref \in roots /\ ref.layer = 1 /\ ref \in References
  BY OnLayerTyped
<1>2. Targets(ref) \subseteq Nat
  BY <1>1, TargetsNat
<1>3. Targets(ref) \subseteq reach[1]
  BY <1>1, <1>2 DEF IsWithin
<1> QED BY <1>1, <1>3

LEMMA GrownWithin ==
  ASSUME NEW st, NEW after, NEW targets, NEW layer, NEW reach,
         Grown(st, after, targets, layer), PagesWithin(st, reach), targets \subseteq reach[layer]
  PROVE  PagesWithin(after, reach)
<1> SUFFICES ASSUME NEW i \in 1 .. Len(after.pages)
             PROVE  after.pages[i].page \in reach[after.pages[i].layer]
  BY DEF PagesWithin
<1>1. CASE i \in 1 .. Len(st.pages)
  BY <1>1 DEF Grown, PagesWithin
<1>2. CASE i \notin 1 .. Len(st.pages)
  BY <1>2 DEF Grown
<1> QED BY <1>1, <1>2

LEMMA HeadTailEntries ==
  ASSUME NEW S, NEW s \in Seq(S), s # <<>>
  PROVE  Head(s) \in Entries(s) /\ Entries(s) \subseteq {Head(s)} \cup Entries(Tail(s))
         /\ Entries(Tail(s)) \subseteq Entries(s)
<1>1. /\ Len(s) \in Nat \ {0} /\ Head(s) = s[1] /\ Len(Tail(s)) = Len(s) - 1
      /\ \A i \in 1 .. Len(s) - 1 : Tail(s)[i] = s[i + 1]
  BY HeadTailProperties, LenProperties, EmptySeq
<1>2. Head(s) \in Entries(s)
  BY <1>1 DEF Entries
<1>3. ASSUME NEW i \in 1 .. Len(s) PROVE s[i] \in {Head(s)} \cup Entries(Tail(s))
  <2>1. CASE i = 1
    BY <2>1, <1>1
  <2>2. CASE i # 1
    <3>1. i - 1 \in 1 .. Len(Tail(s)) /\ Tail(s)[i - 1] = s[(i - 1) + 1] /\ (i - 1) + 1 = i
      BY <2>2, <1>1
    <3> QED BY Zenon, <3>1 DEF Entries
  <2> QED BY <2>1, <2>2
<1>4. ASSUME NEW i \in 1 .. Len(Tail(s)) PROVE Tail(s)[i] \in Entries(s)
  <2>1. i + 1 \in 1 .. Len(s) /\ Tail(s)[i] = s[i + 1]
    BY <1>1
  <2> QED BY <2>1 DEF Entries
<1> QED BY <1>2, <1>3, <1>4 DEF Entries

LEMMA ConcatEntries ==
  ASSUME NEW S, NEW s \in Seq(S), NEW t \in Seq(S)
  PROVE  Entries(s \o t) \subseteq Entries(s) \cup Entries(t)
<1>1. Len(s) \in Nat /\ Len(t) \in Nat /\ Len(s \o t) = Len(s) + Len(t)
  BY ConcatProperties, LenProperties
<1>2. \A i \in 1 .. Len(s) + Len(t) :
        (s \o t)[i] = IF i <= Len(s) THEN s[i] ELSE t[i - Len(s)]
  BY ConcatProperties
<1>3. ASSUME NEW i \in 1 .. Len(s) + Len(t) PROVE (s \o t)[i] \in Entries(s) \cup Entries(t)
  <2>1. CASE i <= Len(s)
    <3>1. i \in 1 .. Len(s)
      BY <2>1, <1>1
    <3> QED BY <3>1, <2>1, <1>2 DEF Entries
  <2>2. CASE ~(i <= Len(s))
    <3>1. i - Len(s) \in 1 .. Len(t)
      BY <2>2, <1>1
    <3> QED BY <3>1, <2>2, <1>2 DEF Entries
  <2> QED BY <2>1, <2>2
<1> QED BY <1>1, <1>3 DEF Entries

LEMMA InReachStays ==
  ASSUME NEW reach, InReach(reach), UNCHANGED <<found, refs, frames>>
  PROVE  InReach(reach)'
  BY DEF InReach

\* A reference that is offered is one of those on their way.
LEMMA OfferReach ==
  ASSUME IInv, Offer, NEW reach, InReach(reach)
  PROVE  InReach(reach)'
<1> DEFINE ref == Head(refs)
           after == AddIndirectMemoryRangeFromPointer(found, ref)
<1>1. UNCHANGED <<pc, frames>> /\ found' = after /\ refs' \in {<<>>, Tail(refs)} /\ refs # <<>>
  BY DEF Offer, chain
<1>2. refs \in Seq(References) /\ Dumped /\ Sound(found)
  BY <1>1, ScanTables DEF IInv, Phased, Scanning
<1>3. ref \in References /\ ref \in Entries(refs) /\ Entries(Tail(refs)) \subseteq Entries(refs)
  BY <1>1, <1>2, HeadTailProperties, HeadTailEntries
<1> HIDE DEF after, ref
<1>4. Grown(found, after, Targets(ref), ref.layer)
  BY <1>2, <1>3, ReferenceGrows DEF after
<1>5. PagesWithin(after, reach)
  BY <1>3, <1>4, GrownWithin DEF InReach, RefsWithin
<1>6. RefsWithin(refs', reach)
  <2>1. Entries(refs') \subseteq Entries(refs)
    <3>1. Entries(<<>>) = {}
      BY DEF Entries
    <3> QED BY Zenon, <3>1, <1>1, <1>3
  <2> QED BY <2>1 DEF InReach, RefsWithin
<1> QED BY <1>1, <1>5, <1>6 DEF InReach

\* A call is entered for a page that layer references lead to.
LEMMA FollowWithin ==
  ASSUME Dumped, NEW reach, NEW roots, IsWithin(reach, roots),
         NEW layer \in 1 .. kIndirectMaxScanLayers, NEW page \in reach[layer],
         NEW count, NEW limit
  PROVE  \A call \in Entries(Follow(page, layer, count, limit)) : CallWithin(call, reach)
<1> DEFINE left == PageReferences(page, layer + 1)
           call == [page |-> page, layer |-> layer, left |-> left, followed |-> 0]
<1>1. CASE layer < kIndirectMaxScanLayers /\ count < world.cap /\ count < limit
  <2>1. Follow(page, layer, count, limit) = <<call>>
    BY <1>1 DEF Follow
  <2>2. layer \in 1 .. kIndirectMaxScanLayers - 1
    BY <1>1, LimitsAssumption
  <2>3. \A ref \in Entries(left) : ref.layer = layer + 1 /\ Targets(ref) \subseteq reach[layer + 1]
    BY <2>2, PageRefsWithin
  <2>4. call.left = left /\ call.layer = layer
    OBVIOUS
  <2> HIDE DEF call, left
  <2>5. CallWithin(call, reach)
    BY <2>3, <2>4 DEF CallWithin
  <2>6. Entries(<<call>>) = {call}
    BY DEF Entries
  <2> QED BY <2>1, <2>5, <2>6
<1>2. CASE ~(layer < kIndirectMaxScanLayers /\ count < world.cap /\ count < limit)
  <2>1. Follow(page, layer, count, limit) = <<>>
    BY <1>2 DEF Follow
  <2> QED BY <2>1 DEF Entries
<1> QED BY <1>1, <1>2

LEMMA FollowSeedReach ==
  ASSUME IInv, FollowSeed, NEW reach, NEW roots, IsWithin(reach, roots), InReach(reach)
  PROVE  InReach(reach)'
<1>1. /\ UNCHANGED <<found, refs>> /\ pc = "chain" /\ idx <= seeds
      /\ frames' = Follow(found.pages[idx].page, found.pages[idx].layer, Count, stop')
  BY DEF FollowSeed
<1>2. idx \in 1 .. Count
  BY <1>1, ScanTables DEF IInv, TypeOK, Phased
<1>3. /\ found.pages[idx].layer \in 1 .. kIndirectMaxScanLayers
      /\ found.pages[idx].page \in reach[found.pages[idx].layer]
  BY <1>2, ScanTables DEF InReach, PagesWithin, Count
<1>4. \A call \in Entries(frames') : CallWithin(call, reach)
  <2>1. Dumped
    BY DEF IInv
  <2> QED BY <2>1, <1>1, <1>3, FollowWithin
<1> QED BY <1>1, <1>4 DEF InReach

\* The word of the innermost call leads one reference further, and so do the
\* words of the page that the walk descends to.
LEMMA FollowWordReach ==
  ASSUME IInv, FollowWord, NEW reach, NEW roots, IsWithin(reach, roots), InReach(reach)
  PROVE  InReach(reach)'
<1> DEFINE call  == Head(frames)
           ref   == Head(call.left)
           after == AddIndirectMemoryRangeFromPointer(found, ref)
           grew  == Len(after.pages) > Count
           rest  == [call EXCEPT !.left = Tail(@), !.followed = IF grew THEN @ + 1 ELSE @]
           deeper == IF grew THEN Follow(AlignDown(ref.value), call.layer + 1, Len(after.pages), stop)
                     ELSE <<>>
<1>1. /\ UNCHANGED <<pc, refs>> /\ frames # <<>> /\ call.left # <<>>
      /\ found' = after /\ frames' = deeper \o <<rest>> \o Tail(frames)
  BY Zenon DEF FollowWord, Following
<1>2. frames \in Seq(Calls) /\ Dumped /\ Sound(found) /\ Len(found.pages) \in Nat
  BY Zenon, <1>1, ScanTables DEF IInv, Phased, Scanning, Count
<1>3. call \in Calls /\ call \in Entries(frames) /\ Entries(Tail(frames)) \subseteq Entries(frames)
      /\ Tail(frames) \in Seq(Calls)
  BY Zenon, <1>1, <1>2, HeadTailProperties, HeadTailEntries
<1>4. call.left \in Seq(References) /\ call.layer \in 1 .. kIndirectMaxScanLayers - 1
  BY <1>3 DEF Calls
<1>5. /\ ref \in References /\ ref \in Entries(call.left) /\ Tail(call.left) \in Seq(References)
      /\ Entries(Tail(call.left)) \subseteq Entries(call.left)
  BY Zenon, <1>1, <1>4, HeadTailProperties, HeadTailEntries
<1>6. CallWithin(call, reach)
  BY <1>3 DEF InReach
<1>7. ref.layer = call.layer + 1 /\ Targets(ref) \subseteq reach[ref.layer]
  BY <1>5, <1>6 DEF CallWithin
<1>8. rest.left = Tail(call.left) /\ rest.layer = call.layer
  BY <1>3 DEF Calls
<1> HIDE DEF after, ref, rest
<1>9. /\ Grown(found, after, Targets(ref), ref.layer)
      /\ Len(found.pages) < Len(after.pages) => FirstPage(ref.value) \in Targets(ref)
  BY <1>2, <1>5, ReferenceGrows DEF after
<1>10. PagesWithin(after, reach)
  BY <1>7, <1>9, GrownWithin DEF InReach
<1>11. CallWithin(rest, reach)
  BY <1>5, <1>6, <1>8 DEF CallWithin
<1>12. \A c \in Entries(deeper) : CallWithin(c, reach)
  <2>1. CASE grew
    <3>1. FirstPage(ref.value) \in reach[call.layer + 1] /\ FirstPage(ref.value) = AlignDown(ref.value)
      <4>1. Len(found.pages) < Len(after.pages)
        BY <2>1, <1>2, <1>9 DEF Count, Grown
      <4> QED BY <4>1, <1>7, <1>9 DEF FirstPage
    <3>2. call.layer + 1 \in 1 .. kIndirectMaxScanLayers
      BY <1>3, NextLayer
    <3> QED BY <3>1, <3>2, <2>1, <1>2, FollowWithin
  <2>2. CASE ~grew
    BY <2>2 DEF Entries
  <2> QED BY <2>1, <2>2
<1>13. deeper \in Seq(Calls) /\ rest \in Calls
  <2>1. deeper \in Seq(Calls)
    <3>1. AlignDown(ref.value) \in Nat
      BY <1>5, AlignDownNat DEF References
    <3>2. call.layer + 1 \in 1 .. kIndirectMaxScanLayers
      BY <1>3, NextLayer
    <3>3. Follow(AlignDown(ref.value), call.layer + 1, Len(after.pages), stop) \in Seq(Calls)
      BY <3>1, <3>2, <1>2, FollowTyped
    <3> QED BY <3>3
  <2>2. rest \in Calls
    BY Zenon, <1>1, <1>3, RestTyped DEF FollowWord, rest
  <2> QED BY <2>1, <2>2
<1> HIDE DEF call, deeper
<1>14. \A c \in Entries(frames') : CallWithin(c, reach)
  <2>1. <<rest>> \in Seq(Calls) /\ <<rest>> \o Tail(frames) \in Seq(Calls)
    BY <1>3, <1>13
  <2>2. Entries(<<rest>>) = {rest}
    BY DEF Entries
  <2>3. Entries(<<rest>> \o Tail(frames)) \subseteq {rest} \cup Entries(frames)
    BY Zenon, <2>1, <2>2, <1>3, ConcatEntries
  <2>4. frames' = deeper \o (<<rest>> \o Tail(frames))
    BY <2>1, <1>1, <1>3, <1>13, ConcatAssociative
  <2>5. Entries(frames') \subseteq Entries(deeper) \cup {rest} \cup Entries(frames)
    <3> DEFINE lower == <<rest>> \o Tail(frames)
    <3>1. lower \in Seq(Calls) /\ Entries(lower) \subseteq {rest} \cup Entries(frames)
      BY <2>1, <2>3
    <3>2. frames' = deeper \o lower
      BY <2>4
    <3> HIDE DEF lower
    <3>3. Entries(frames') \subseteq Entries(deeper) \cup Entries(lower)
      BY <3>1, <3>2, <1>13, ConcatEntries
    <3> QED BY <3>1, <3>3
  <2> QED BY <2>5, <1>11, <1>12 DEF InReach
<1> QED BY <1>1, <1>10, <1>14 DEF InReach

LEMMA RootsStay ==
  ASSUME UNCHANGED process
  PROVE  CrashReferences' = CrashReferences /\ AllRoots' = AllRoots
<1>1. world' = world /\ memory' = memory
  BY DEF process
<1>2. CrashReferences' = CrashReferences
  BY <1>1 DEF CrashReferences, RootReferences, RegisterReferences, StackReferences, Span, Word
<1>3. OtherReferences' = OtherReferences
  BY <1>1 DEF OtherReferences, RootReferences, RegisterReferences, StackReferences, Span, Word,
              Entries
<1> QED BY <1>2, <1>3 DEF AllRoots, Entries

LEMMA WithinStays ==
  ASSUME UNCHANGED process, NEW roots
  PROVE  Within(roots)' = Within(roots)
<1>1. memory' = memory
  BY DEF process
<1> QED BY <1>1 DEF Within, PageReferences, Span, Word

LEMMA StartScanReach ==
  ASSUME IInv, StartScan, NEW reach, NEW roots, IsWithin(reach, roots), roots \subseteq References,
         Entries(CrashReferences) \subseteq roots
  PROVE  InReach(reach)'
<1>1. /\ found' = [pages |-> <<>>, visited |-> {}, cache |-> NoRegion]
      /\ refs' = CrashReferences /\ frames' = frames /\ frames = <<>>
  BY DEF StartScan, IInv, Phased, chain
<1>2. PagesWithin(found', reach)
  BY <1>1 DEF PagesWithin
<1>3. RefsWithin(refs', reach)
  BY <1>1, CrashReferencesTyped, RootRefsWithin DEF IInv
<1>4. \A call \in Entries(frames') : CallWithin(call, reach)
  BY <1>1 DEF Entries
<1> QED BY <1>2, <1>3, <1>4 DEF InReach

LEMMA ExpandPageReach ==
  ASSUME IInv, ExpandPage, NEW reach, NEW roots, IsWithin(reach, roots), InReach(reach)
  PROVE  InReach(reach)'
<1> DEFINE next == found.pages[head]
<1>1. /\ UNCHANGED <<found, frames>> /\ head <= Count
      /\ refs' = IF next.layer < kIndirectMaxScanLayers
                 THEN PageReferences(next.page, next.layer + 1) ELSE <<>>
  BY DEF ExpandPage, Expanding, chain
<1>2. head \in 1 .. Count /\ Dumped
  BY <1>1, ScanTables DEF IInv, TypeOK
<1>3. next.layer \in 1 .. kIndirectMaxScanLayers /\ next.page \in reach[next.layer]
  BY <1>2, ScanTables DEF InReach, PagesWithin, Count
<1> HIDE DEF next
<1>4. RefsWithin(refs', reach)
  <2>1. CASE next.layer < kIndirectMaxScanLayers
    <3>1. next.layer \in 1 .. kIndirectMaxScanLayers - 1
      BY <2>1, <1>3, LimitsAssumption
    <3> QED BY <3>1, <2>1, <1>1, <1>2, <1>3, PageRefsWithin DEF RefsWithin
  <2>2. CASE ~(next.layer < kIndirectMaxScanLayers)
    BY <2>2, <1>1 DEF RefsWithin, Entries
  <2> QED BY <2>1, <2>2
<1> QED BY <1>1, <1>4 DEF InReach

LEMMA SeedOtherReach ==
  ASSUME IInv, SeedOther, NEW reach, NEW roots, IsWithin(reach, roots), roots \subseteq References,
         OtherReferences \subseteq roots, InReach(reach)
  PROVE  InReach(reach)'
<1>1. /\ UNCHANGED <<found, frames>> /\ idx <= Len(world.threads)
      /\ refs' = IF idx = world.preferred THEN <<>> ELSE RootReferences(world.threads[idx], 0)
  BY DEF SeedOther, chain
<1>2. idx \in 1 .. Len(world.threads) /\ Dumped
  BY <1>1, ThreadsTyped DEF IInv, TypeOK
<1>3. RefsWithin(refs', reach)
  <2>1. CASE idx = world.preferred
    BY <2>1, <1>1 DEF RefsWithin, Entries
  <2>2. CASE idx # world.preferred
    <3>1. refs' = RootReferences(world.threads[idx], 0) /\ refs' \in Seq(OnLayer(1))
      BY <2>2, <1>1, <1>2, ThreadsTyped, RootReferencesTyped
    <3>2. Entries(refs') \subseteq OtherReferences
      BY <3>1, <2>2, <1>2 DEF OtherReferences
    <3> HIDE DEF OtherReferences
    <3> QED BY <3>1, <3>2, <1>2, RootRefsWithin
  <2> QED BY <2>1, <2>2
<1> QED BY <1>1, <1>3 DEF InReach

LEMMA FollowReturnsReach ==
  ASSUME IInv, FollowReturns, NEW reach, InReach(reach)
  PROVE  InReach(reach)'
<1>1. UNCHANGED <<found, refs>> /\ frames' = Tail(frames) /\ frames # <<>>
  BY DEF FollowReturns
<1>2. Entries(frames') \subseteq Entries(frames)
  BY <1>1, ScanTables, HeadTailEntries
<1> QED BY <1>1, <1>2 DEF InReach

\* A step of the scan: which one it is, and that the process stays the same.
ScanStep ==
  \/ Offer
  \/ StartChains \/ FollowSeed \/ FollowWord \/ FollowReturns \/ ChainsDone
  \/ ExpandPage \/ ExpandDone \/ SeedOther \/ OthersDone
  \/ UNCHANGED vars

LEMMA ScanSteps ==
  ASSUME IInv, [Next]_vars, Scanning'
  PROVE  /\ UNCHANGED <<process, planned>>
         /\ (pc = "known" /\ StartScan) \/ (Scanning /\ ScanStep)
<1>1. ~CaptureProc /\ ~CaptureProcDone /\ ~CaptureData /\ ~CaptureDataDone /\ ~CollectKnown
  <2>1. ~CaptureProc /\ ~CollectKnown
    BY DEF CaptureProc, CollectKnown, Scanning
  <2>2. ~CaptureProcDone /\ ~CaptureDataDone
    BY DEF CaptureProcDone, CaptureDataDone, Scanning
  <2>3. ~CaptureData
    BY DEF CaptureData, Scanning
  <2> QED BY <2>1, <2>2, <2>3
<1>2. CASE StartScan
  <2>1. pc = "known" /\ UNCHANGED <<process, planned>>
    BY <1>2 DEF StartScan
  <2> QED BY <2>1, <1>2
<1>3. CASE Offer
  BY <1>3 DEF Offer, ScanStep, Scanning
<1>4. CASE FollowWord
  <2>1. pc = "chain"
    BY Zenon, <1>4 DEF FollowWord, IInv, Phased
  <2> QED BY Zenon, <2>1, <1>4 DEF FollowWord, ScanStep, Scanning
<1>5. CASE FollowReturns
  <2>1. pc = "chain"
    BY <1>5 DEF FollowReturns, IInv, Phased
  <2> QED BY <2>1, <1>5 DEF FollowReturns, ScanStep, Scanning
<1>6. CASE StartChains \/ FollowSeed \/ ChainsDone
  BY <1>6 DEF StartChains, FollowSeed, ChainsDone, ScanStep, Scanning
<1>7. CASE ExpandPage \/ ExpandDone \/ SeedOther \/ OthersDone
  BY <1>7 DEF ExpandPage, ExpandDone, SeedOther, OthersDone, ScanStep, Scanning
<1>8. CASE UNCHANGED vars
  BY <1>8 DEF vars, ScanStep, Scanning
<1> QED BY <1>1, <1>2, <1>3, <1>4, <1>5, <1>6, <1>7, <1>8 DEF Next

\* A step keeps everything within reach of the roots it takes references from.
LEMMA ReachStep ==
  ASSUME IInv, ScanStep, NEW reach, NEW roots, IsWithin(reach, roots), roots \subseteq References,
         SeedOther => OtherReferences \subseteq roots, InReach(reach)
  PROVE  InReach(reach)'
<1>1. CASE Offer
  BY <1>1, OfferReach
<1>2. CASE FollowSeed
  BY <1>2, FollowSeedReach
<1>3. CASE FollowWord
  BY <1>3, FollowWordReach
<1>4. CASE FollowReturns
  BY <1>4, FollowReturnsReach
<1>5. CASE ExpandPage
  BY <1>5, ExpandPageReach
<1>6. CASE SeedOther
  BY <1>6, SeedOtherReach
<1>7. CASE StartChains \/ ChainsDone \/ ExpandDone \/ OthersDone \/ UNCHANGED vars
  BY <1>7, InReachStays DEF StartChains, ChainsDone, ExpandDone, OthersDone, vars, chain
<1> QED BY <1>1, <1>2, <1>3, <1>4, <1>5, <1>6, <1>7 DEF ScanStep

\* Every page that is found lies within reach of the threads, and whatever may
\* still be found does.
Reached == Scanning => InReach(Within(AllRoots))

LEMMA ReachedStep == IInv /\ Reached /\ [Next]_vars => Reached'
<1> SUFFICES ASSUME IInv, Reached, [Next]_vars, Scanning' PROVE InReach(Within(AllRoots))'
  BY DEF Reached
<1>1. /\ UNCHANGED process
      /\ StartScan \/ (Scanning /\ ScanStep)
  BY ScanSteps
<1>2. PICK roots, reach : roots = AllRoots /\ reach = Within(AllRoots)
  OBVIOUS
<1>3. Dumped
  BY DEF IInv
<1>4. roots \subseteq References /\ IsWithin(reach, roots)
  BY <1>2, <1>3, RootsTyped, WithinDef
<1>5. Entries(CrashReferences) \subseteq roots /\ OtherReferences \subseteq roots
  BY <1>2 DEF AllRoots
<1>6. InReach(reach)'
  <2>1. CASE StartScan
    BY <2>1, <1>4, <1>5, StartScanReach
  <2>2. CASE Scanning /\ ScanStep
    <3>1. InReach(reach)
      BY <2>2, <1>2 DEF Reached
    <3> QED BY <3>1, <2>2, <1>4, <1>5, ReachStep
  <2> QED BY <2>1, <2>2, <1>1
<1>7. Within(AllRoots)' = reach
  <2>1. AllRoots' = roots
    BY <1>1, <1>2, RootsStay
  <2>2. Within(roots)' = Within(roots)
    BY <1>1, WithinStays
  <2> QED BY <2>1, <2>2, <1>2
<1> QED BY <1>6, <1>7

LEMMA ReachedInvariance == Spec => []Reached
<1>1. Init => Reached
  BY DEF Init, Reached, Scanning
<1> QED BY <1>1, ReachedStep, Invariance, PTL DEF Spec

\* No page is put on a layer above the one it can be reached on, by whichever
\* pass it was found: nothing is captured, or expanded, from further away than
\* kIndirectMaxScanLayers references (FollowIndirectChainDepthFirst,
\* ExpandIndirectBfs).
THEOREM AlwaysWithinReach == Spec => []WithinReach
<1>1. Reached => WithinReach
  BY Zenon DEF Reached, WithinReach, Scanning, InReach, PagesWithin, AllRoots, Count
<1> QED BY <1>1, ReachedInvariance, PTL

-----------------------------------------------------------------------------
(***************************************************************************)
(* Nothing is passed over while there is room.                             *)
(***************************************************************************)

\* A reference is covered when all the pages it stands for are settled.
LEMMA CoveredSettled ==
  ASSUME NEW ref
  PROVE  Covered(ref) <=> \A page \in Targets(ref) : Settled(found, page)
  BY DEF Covered, Settled, Captured, CapturedBy, Count

\* A step of the scan takes one reference, or leaves the plan as it is.
Taking(ref) ==
  /\ ref \in References
  /\ found' = AddIndirectMemoryRangeFromPointer(found, ref)
  /\ \/ refs = <<>>
     \/ refs # <<>> /\ ref = Head(refs)
          /\ refs' = IF Len(found'.pages) < world.cap THEN Tail(refs) ELSE <<>>

Idle == found' = found /\ (refs = <<>> \/ refs' = refs)

LEMMA TakingOrIdle ==
  ASSUME IInv, Scanning, ScanStep
  PROVE  Idle \/ \E ref : Taking(ref)
<1>1. CASE Offer
  <2>1. Head(refs) \in References
    BY <1>1, ScanTables, HeadTailProperties DEF Offer
  <2>2. Taking(Head(refs))
    BY <2>1, <1>1 DEF Taking, Offer
  <2> QED BY <2>2
<1>2. CASE FollowWord
  <2> DEFINE call == Head(frames)
             ref  == Head(call.left)
  <2>1. /\ frames # <<>> /\ call.left # <<>>
        /\ found' = AddIndirectMemoryRangeFromPointer(found, ref)
    BY Zenon, <1>2 DEF FollowWord, Following
  <2>2. refs = <<>>
    BY <2>1 DEF IInv, Phased
  <2>3. call \in Calls
    BY <2>1, ScanTables, HeadTailProperties
  <2>4. ref \in References
    BY <2>1, <2>3, HeadTailProperties DEF Calls
  <2>5. Taking(ref)
    BY <2>1, <2>2, <2>4 DEF Taking
  <2> QED BY <2>5
<1>3. CASE FollowSeed \/ FollowReturns \/ ChainsDone
  <2>1. refs = <<>>
    BY <1>3 DEF FollowSeed, FollowReturns, ChainsDone, IInv, Phased
  <2> QED BY <2>1, <1>3 DEF FollowSeed, FollowReturns, ChainsDone, Idle
<1>4. CASE StartChains \/ ExpandPage \/ ExpandDone \/ SeedOther \/ OthersDone \/ UNCHANGED vars
  BY <1>4 DEF StartChains, ExpandPage, ExpandDone, SeedOther, OthersDone, vars, Idle
<1> QED BY <1>1, <1>2, <1>3, <1>4 DEF ScanStep

\* What a step does to the plan.
LEMMA PlanStep ==
  ASSUME IInv, Scanning, ScanStep, UNCHANGED <<process, planned>>, NEW st, found' = st
  PROVE  /\ Sound(st)
         /\ \E targets, layer : Grown(found, st, targets, layer)
         /\ Held(found) => Held(st)
         /\ Held(found) /\ OpenAt(st) =>
              \A ref \in Entries(refs) :
                ref \in Entries(refs') \/ \A page \in Targets(ref) : Settled(st, page)
<1>1. Dumped /\ Sound(found) /\ refs \in Seq(References)
  BY ScanTables DEF IInv
<1>2. CASE Idle
  <2>1. st = found /\ Len(found.pages) \in Nat
    BY <1>1, <1>2, SoundTyped DEF Idle
  <2>2. Grown(found, st, {}, 1)
    BY <2>1 DEF Grown
  <2>3. \A ref \in Entries(refs) : ref \in Entries(refs')
    BY <1>2 DEF Idle, Entries
  <2> QED BY <1>1, <2>1, <2>2, <2>3
<1>3. ASSUME NEW ref, Taking(ref)
      PROVE  /\ Sound(st)
             /\ Grown(found, st, Targets(ref), ref.layer)
             /\ Held(found) => Held(st)
             /\ Held(found) /\ OpenAt(st) =>
                  \A r \in Entries(refs) :
                    r \in Entries(refs') \/ \A page \in Targets(r) : Settled(st, page)
  <2>1. ref \in References /\ st = AddIndirectMemoryRangeFromPointer(found, ref)
    BY <1>3 DEF Taking
  <2>2. Sound(st)
    BY <1>1, <2>1, ReferenceSound
  <2>3. /\ Grown(found, st, Targets(ref), ref.layer)
        /\ Held(found) => Held(st)
        /\ Held(found) /\ OpenAt(st) => \A page \in Targets(ref) : Settled(st, page)
    BY <1>1, <2>1, ReferenceGrows
  <2>4. ASSUME Held(found), OpenAt(st), NEW r \in Entries(refs)
        PROVE  r \in Entries(refs') \/ \A page \in Targets(r) : Settled(st, page)
    <3>1. refs # <<>>
      BY <2>4 DEF Entries
    <3>2. ref = Head(refs) /\ refs' = Tail(refs)
      BY <3>1, <2>4, <1>3 DEF Taking, OpenAt
    <3>3. r = ref \/ r \in Entries(refs')
      BY <3>1, <3>2, <1>1, HeadTailEntries
    <3> QED BY <3>3, <2>3, <2>4
  <2> QED BY <2>2, <2>3, <2>4
<1> QED BY <1>2, <1>3, TakingOrIdle

\* What is primed: the process and the known ranges are the same.
LEMMA PlanPrimed ==
  ASSUME UNCHANGED <<process, planned>>
  PROVE  /\ \A page : Settled(found, page)' = Settled(found', page)
         /\ Held(found)' = Held(found')
         /\ OpenAt(found)' = OpenAt(found')
<1>1. \A a : VirtualQuery(a)' = VirtualQuery(a)
  BY DEF VirtualQuery, Entries, Contains, process
<1>2. \A range : KnownMemoryRangeOverlaps(range)' = KnownMemoryRangeOverlaps(range)
  BY DEF KnownMemoryRangeOverlaps, Entries, RangesOverlap, End, planned
<1>3. \A page : Settled(found, page)' = Settled(found', page)
  BY <1>1, <1>2 DEF Settled
<1>4. Held(found)' = Held(found')
  BY <1>2 DEF Held
<1>5. OpenAt(found)' = OpenAt(found')
  BY DEF OpenAt, process
<1> QED BY <1>3, <1>4, <1>5

\* What a step does to references and to what is captured.
LEMMA CoverStep ==
  ASSUME IInv, Held(found), Scanning, ScanStep, UNCHANGED <<process, planned>>
  PROVE  /\ Held(found)'
         /\ OpenAt(found)' => OpenAt(found)
         /\ Room' => Room
         /\ \A ref : Covered(ref) => Covered(ref)'
         /\ OpenAt(found)' =>
              \A ref \in Entries(refs) : ref \in Entries(refs)' \/ Covered(ref)'
         /\ Count \in Nat /\ Count' \in Nat /\ Count <= Count'
         /\ Count' # Count => Count < world.cap
         /\ \A i \in 1 .. Count : found.pages[i]' = found.pages[i]
         /\ \A page \in Captured' : page \in Captured \/ ~Settled(found, page)
<1>1. PICK st : st = found'
  OBVIOUS
<1>2. /\ Sound(found) /\ Sound(st)
      /\ Held(st)
      /\ OpenAt(st) => \A ref \in Entries(refs) :
                         ref \in Entries(refs') \/ \A page \in Targets(ref) : Settled(st, page)
  BY <1>1, PlanStep DEF IInv
<1>3. PICK targets, layer : Grown(found, st, targets, layer)
  BY <1>1, PlanStep
<1>4. /\ CapturedBy(found) \subseteq CapturedBy(st)
      /\ \A page : Settled(found, page) => Settled(st, page)
      /\ OpenAt(st) => OpenAt(found)
      /\ Cardinality(st.visited) < HashSlots => Cardinality(found.visited) < HashSlots
  BY <1>2, <1>3, GrownKeeps
<1>5. /\ Len(found.pages) \in Nat /\ Len(st.pages) \in Nat
  BY <1>2, SoundTyped
<1>6. /\ \A page : Settled(found, page)' = Settled(st, page)
      /\ Held(found)' = Held(st)
      /\ OpenAt(found)' = OpenAt(st)
  BY <1>1, PlanPrimed
<1>7. /\ Count = Len(found.pages) /\ Count' = Len(st.pages)
      /\ Captured = CapturedBy(found) /\ Captured' = CapturedBy(st)
      /\ Room' = (Cardinality(st.visited) < HashSlots)
  BY <1>1 DEF Count, Captured, CapturedBy, Room
<1>8. \A ref : Covered(ref)' <=> \A page \in Targets(ref) : Settled(st, page)
  <2>1. \A ref : Covered(ref)' <=> \A page \in Targets(ref) : Settled(found, page)'
    BY DEF Covered, Settled, Captured, CapturedBy, Count
  <2> QED BY <2>1, <1>6
<1>9. \A ref : Covered(ref) => Covered(ref)'
  BY <1>4, <1>8, CoveredSettled
<1>10. OpenAt(st) => \A ref \in Entries(refs) : ref \in Entries(refs)' \/ Covered(ref)'
  <2>1. Entries(refs)' = Entries(refs')
    BY DEF Entries
  <2> QED BY <2>1, <1>2, <1>8
<1>11. Count <= Count' /\ (Count' # Count => Count < world.cap)
  BY <1>3, <1>5, <1>7 DEF Grown
<1>12. \A i \in 1 .. Count : found.pages[i]' = found.pages[i]
  BY <1>1, <1>3, <1>7 DEF Grown
<1>13. ASSUME NEW page \in Captured', page \notin Captured PROVE ~Settled(found, page)
  <2>1. PICK i \in 1 .. Len(st.pages) : page = st.pages[i].page
    BY <1>7 DEF CapturedBy
  <2>2. /\ Capturable(VirtualQuery(page), page)
        /\ ~KnownMemoryRangeOverlaps(PageAt(page))
    BY <2>1, <1>2 DEF Sound, KnownMemoryRangeOverlaps
  <2> QED BY <2>2, <1>7, <1>13 DEF Settled
<1> QED BY <1>2, <1>4, <1>5, <1>6, <1>7, <1>9, <1>10, <1>11, <1>12, <1>13 DEF Room

\* The references of a sequence are covered, or still on their way.
Handled(s) == \A ref \in Entries(s) : Covered(ref) \/ ref \in Entries(refs)

PageHandled(page, layer) ==
  layer < kIndirectMaxScanLayers => Handled(PageReferences(page, layer + 1))

PagesHandled(n) == \A i \in 1 .. n : PageHandled(found.pages[i].page, found.pages[i].layer)

ThreadsHandled(n) ==
  \A t \in 1 .. n : t # world.preferred => Handled(RootReferences(world.threads[t], 0))

\* How far the scan has come, in each of its passes: what was taken from the
\* queue, and the roots up to here, are handled.
Progress ==
  /\ pc \notin {"breadth", "others", "last", "done"} => head = 1
  /\ Scanning =>
       /\ Held(found)
       /\ head <= Count + 1
       /\ OpenAt(found) =>
            /\ Handled(CrashReferences)
            /\ PagesHandled(head - 1)
            /\ pc = "others" => ThreadsHandled(idx - 1)
            /\ pc \in {"last", "done"} => ThreadsHandled(Len(world.threads))
            /\ pc = "done" => head = Count + 1

LEMMA HandledStays ==
  ASSUME IInv, Held(found), Scanning, ScanStep, UNCHANGED <<process, planned>>,
         OpenAt(found)', NEW s, Handled(s)
  PROVE  Handled(s)'
<1>1. Entries(s)' = Entries(s)
  BY DEF Entries
<1>2. /\ \A ref : Covered(ref) => Covered(ref)'
      /\ \A ref \in Entries(refs) : ref \in Entries(refs)' \/ Covered(ref)'
  BY CoverStep
<1> QED BY <1>1, <1>2 DEF Handled

\* The words of a page, and those a thread starts from, stay the same.
LEMMA ReferencesStay ==
  ASSUME UNCHANGED process
  PROVE  /\ \A page, layer : PageReferences(page, layer)' = PageReferences(page, layer)
         /\ \A thread, sp : RootReferences(thread, sp)' = RootReferences(thread, sp)
<1>1. memory' = memory
  BY DEF process
<1> QED BY <1>1 DEF PageReferences, RootReferences, RegisterReferences, StackReferences, Span, Word

LEMMA PageHandledStays ==
  ASSUME IInv, Held(found), Scanning, ScanStep, UNCHANGED <<process, planned>>,
         OpenAt(found)', NEW n \in Nat, n <= Count, PagesHandled(n)
  PROVE  PagesHandled(n)'
<1>1. \A page, layer : PageReferences(page, layer)' = PageReferences(page, layer)
  BY ReferencesStay
<1>2. \A i \in 1 .. n : found.pages[i]' = found.pages[i]
  <2>1. Count \in Nat /\ \A i \in 1 .. Count : found.pages[i]' = found.pages[i]
    BY CoverStep
  <2> QED BY <2>1
<1>3. ASSUME NEW i \in 1 .. n, NEW page, NEW layer,
             page = found.pages[i].page, layer = found.pages[i].layer
      PROVE  PageHandled(page, layer)'
  <2> SUFFICES ASSUME layer < kIndirectMaxScanLayers
               PROVE  Handled(PageReferences(page, layer + 1))'
    BY DEF PageHandled
  <2>1. PICK s : s = PageReferences(page, layer + 1)
    OBVIOUS
  <2>2. Handled(s)
    BY <1>3, <2>1 DEF PagesHandled, PageHandled
  <2>3. Handled(s)'
    BY <2>2, HandledStays
  <2>4. PageReferences(page, layer + 1)' = s
    BY <2>1, <1>1
  <2> QED BY <2>3, <2>4
<1>4. \A i \in 1 .. n : PageHandled(found.pages[i].page, found.pages[i].layer)'
  <2> TAKE i \in 1 .. n
  <2>1. PICK page, layer : page = found.pages[i].page /\ layer = found.pages[i].layer
    OBVIOUS
  <2>2. PageHandled(page, layer)'
    BY <1>3, <2>1
  <2>3. found.pages[i].page' = page /\ found.pages[i].layer' = layer
    BY <1>2, <2>1
  <2> QED BY <2>2, <2>3
<1> QED BY <1>4 DEF PagesHandled

LEMMA ThreadsHandledStays ==
  ASSUME IInv, Held(found), Scanning, ScanStep, UNCHANGED <<process, planned>>,
         OpenAt(found)', NEW n, ThreadsHandled(n)
  PROVE  ThreadsHandled(n)'
<1>1. \A thread : RootReferences(thread, 0)' = RootReferences(thread, 0)
  BY ReferencesStay
<1>2. world' = world
  BY DEF process
<1>3. ASSUME NEW t \in 1 .. n, t # world.preferred
      PROVE  Handled(RootReferences(world.threads[t], 0))'
  <2>1. PICK s : s = RootReferences(world.threads[t], 0)
    OBVIOUS
  <2>2. Handled(s)'
    BY <1>3, <2>1, HandledStays DEF ThreadsHandled
  <2>3. RootReferences(world.threads[t], 0)' = s
    BY <1>1, <1>2, <2>1
  <2> QED BY <2>2, <2>3
<1> QED BY <1>2, <1>3 DEF ThreadsHandled

LEMMA CrashHandledStays ==
  ASSUME IInv, Held(found), Scanning, ScanStep, UNCHANGED <<process, planned>>,
         OpenAt(found)', Handled(CrashReferences)
  PROVE  Handled(CrashReferences)'
<1>1. PICK s : s = CrashReferences
  OBVIOUS
<1>2. Handled(s)'
  BY <1>1, HandledStays
<1>3. CrashReferences' = s
  BY <1>1, RootsStay
<1> QED BY <1>2, <1>3

\* The queue does not start before the breadth-first pass.
LEMMA HeadStep ==
  ASSUME IInv, Progress, [Next]_vars
  PROVE  pc' \notin {"breadth", "others", "last", "done"} => head' = 1
<1>1. CASE CaptureProc \/ CaptureProcDone \/ CaptureData \/ CaptureDataDone \/ CollectKnown
  BY <1>1 DEF Progress, CaptureProc, CaptureProcDone, CaptureData, CaptureDataDone, CollectKnown
<1>2. CASE StartScan \/ StartChains \/ FollowSeed \/ ChainsDone
  BY <1>2 DEF Progress, StartScan, StartChains, FollowSeed, ChainsDone
<1>3. CASE Offer \/ FollowWord \/ FollowReturns \/ UNCHANGED vars
  BY Zenon, <1>3 DEF Progress, Offer, FollowWord, FollowReturns, vars
<1>4. CASE ExpandPage \/ ExpandDone \/ SeedOther \/ OthersDone
  BY <1>4 DEF Progress, ExpandPage, ExpandDone, SeedOther, OthersDone
<1> QED BY <1>1, <1>2, <1>3, <1>4 DEF Next

\* The tables are empty when the scan starts, and the crash thread comes first.
LEMMA StartScanProgress ==
  ASSUME IInv, Progress, StartScan
  PROVE  /\ Held(found)' /\ head' <= Count' + 1
         /\ Handled(CrashReferences)' /\ PagesHandled(head - 1)' /\ pc' = "seed"
<1>1. /\ found' = [pages |-> <<>>, visited |-> {}, cache |-> NoRegion]
      /\ refs' = CrashReferences /\ pc' = "seed" /\ pc = "known"
      /\ head' = head /\ UNCHANGED process
  BY DEF StartScan
<1>2. head = 1
  BY <1>1 DEF Progress
<1>3. Held(found)'
  BY <1>1 DEF Held
<1>4. Count' = 0
  BY <1>1 DEF Count
<1>5. Handled(CrashReferences)'
  <2>1. CrashReferences' = refs'
    BY <1>1, RootsStay
  <2> QED BY <2>1 DEF Handled
<1>6. PagesHandled(head - 1)'
  BY <1>1, <1>2 DEF PagesHandled
<1> QED BY <1>1, <1>2, <1>3, <1>4, <1>5, <1>6

\* Taking the next page from the queue puts its references on their way.
LEMMA ExpandPageProgress ==
  ASSUME IInv, ExpandPage, NEW n, n = head - 1, PagesHandled(n)'
  PROVE  PagesHandled(head - 1)'
<1>1. PICK k, page, layer :
        k = head /\ page = found.pages[head].page /\ layer = found.pages[head].layer
  BY Zenon
<1>2. /\ UNCHANGED <<process, found>> /\ head' = k + 1
      /\ refs' = IF layer < kIndirectMaxScanLayers THEN PageReferences(page, layer + 1) ELSE <<>>
  BY <1>1 DEF ExpandPage
<1>3. k \in Nat \ {0} /\ n = k - 1
  BY <1>1 DEF IInv, TypeOK
<1>4. PageHandled(page, layer)'
  <2> SUFFICES ASSUME layer < kIndirectMaxScanLayers
               PROVE  Handled(PageReferences(page, layer + 1))'
    BY DEF PageHandled
  <2>1. PageReferences(page, layer + 1)' = PageReferences(page, layer + 1)
    BY <1>2, ReferencesStay
  <2>2. PageReferences(page, layer + 1)' = refs'
    BY <2>1, <1>2
  <2> QED BY <2>2 DEF Handled
<1>5. found.pages[k]'.page = page /\ found.pages[k]'.layer = layer
  BY <1>1, <1>2
<1>6. ASSUME NEW i \in 1 .. k
      PROVE  PageHandled(found.pages[i].page, found.pages[i].layer)'
  <2>1. CASE i = k
    BY <2>1, <1>4, <1>5
  <2>2. CASE i # k
    <3>1. i \in 1 .. n
      BY <2>2, <1>3
    <3> QED BY <3>1 DEF PagesHandled
  <2> QED BY <2>1, <2>2
<1>7. head' - 1 = k
  BY <1>2, <1>3
<1> QED BY <1>6, <1>7 DEF PagesHandled

\* Taking up the next thread puts its references on their way.
LEMMA SeedOtherProgress ==
  ASSUME IInv, SeedOther, NEW n, n = idx - 1, ThreadsHandled(n)'
  PROVE  ThreadsHandled(idx - 1)'
<1>1. PICK k : k = idx
  OBVIOUS
<1>2. /\ UNCHANGED process /\ idx' = k + 1
      /\ refs' = IF k = world.preferred THEN <<>> ELSE RootReferences(world.threads[k], 0)
  BY <1>1 DEF SeedOther
<1>3. k \in Nat \ {0} /\ n = k - 1 /\ world' = world
  BY <1>1, <1>2 DEF IInv, TypeOK, process
<1>4. \A thread : RootReferences(thread, 0)' = RootReferences(thread, 0)
  BY <1>2, ReferencesStay
<1>5. ASSUME NEW t \in 1 .. k, t # world.preferred
      PROVE  Handled(RootReferences(world.threads[t], 0))'
  <2>1. CASE t = k
    <3>1. RootReferences(world.threads[k], 0)' = refs'
      BY <2>1, <1>2, <1>3, <1>4, <1>5
    <3> QED BY <3>1, <2>1 DEF Handled
  <2>2. CASE t # k
    <3>1. t \in 1 .. n
      BY <2>2, <1>3
    <3> QED BY <3>1, <1>3, <1>5 DEF ThreadsHandled
  <2> QED BY <2>1, <2>2
<1>6. idx' - 1 = k
  BY <1>2, <1>3
<1> QED BY <1>3, <1>5, <1>6 DEF ThreadsHandled

\* The pass over the other threads ends after the last one, or at the cap.
LEMMA OthersDoneProgress ==
  ASSUME IInv, OthersDone, OpenAt(found), ThreadsHandled(idx - 1)
  PROVE  ThreadsHandled(Len(world.threads))
<1>1. idx > Len(world.threads) /\ idx \in Nat /\ Len(world.threads) \in Nat
  <2>1. Len(world.threads) \in Nat /\ idx \in Nat /\ Count \in Nat /\ world.cap \in Nat
    BY ThreadsTyped, ScanTables, WorldsAssumption DEF IInv, TypeOK, Dumped
  <2> QED BY <2>1 DEF OthersDone, OpenAt, Count
<1>2. 1 .. Len(world.threads) \subseteq 1 .. idx - 1
  BY <1>1
<1> QED BY <1>2 DEF ThreadsHandled

\* Each step of the scan: what is handled stays so, and what is taken up next is
\* handled because it is on its way.
LEMMA ScanProgress ==
  ASSUME IInv, Progress, Scanning, Scanning', ScanStep, UNCHANGED <<process, planned>>
  PROVE  /\ Held(found)'
         /\ head' <= Count' + 1
         /\ OpenAt(found)' =>
              /\ Handled(CrashReferences)'
              /\ PagesHandled(head - 1)'
              /\ pc' = "others" => ThreadsHandled(idx - 1)'
              /\ pc' \in {"last", "done"} => ThreadsHandled(Len(world.threads))'
              /\ pc' = "done" => head' = Count' + 1
<1>1. Held(found) /\ head <= Count + 1 /\ head \in Nat \ {0}
  BY DEF Progress, IInv, TypeOK
<1>2. /\ Held(found)' /\ Count \in Nat /\ Count' \in Nat /\ Count <= Count'
      /\ OpenAt(found)' => OpenAt(found)
  BY <1>1, CoverStep
<1>3. head' <= Count' + 1
  <2> DEFINE c == Count'
             h == head'
  <2>0. c \in Nat /\ Count <= c /\ Count \in Nat
    BY <1>2
  <2> HIDE DEF c, h
  <2>1. CASE ExpandPage
    <3>1. head <= Count /\ h = head + 1
      BY <2>1 DEF ExpandPage, Expanding, h
    <3>2. h <= c + 1
      BY <3>1, <2>0, <1>1
    <3> QED BY <3>2 DEF h, c
  <2>2. CASE ~ExpandPage
    <3>1. h = head
      BY Zenon, <2>2 DEF ScanStep, Offer, StartChains, FollowSeed, FollowWord, FollowReturns,
                  ChainsDone, ExpandDone, SeedOther, OthersDone, vars, h
    <3>2. h <= c + 1
      BY <3>1, <2>0, <1>1
    <3> QED BY <3>2 DEF h, c
  <2> QED BY <2>1, <2>2
<1>4. ASSUME OpenAt(found)'
      PROVE  /\ Handled(CrashReferences)'
             /\ PagesHandled(head - 1)'
             /\ pc' = "others" => ThreadsHandled(idx - 1)'
             /\ pc' \in {"last", "done"} => ThreadsHandled(Len(world.threads))'
             /\ pc' = "done" => head' = Count' + 1
  <2>1. OpenAt(found)
    BY <1>2, <1>4
  <2>2. /\ Handled(CrashReferences)
        /\ PagesHandled(head - 1)
        /\ pc = "others" => ThreadsHandled(idx - 1)
        /\ pc \in {"last", "done"} => ThreadsHandled(Len(world.threads))
        /\ pc = "done" => head = Count + 1
    BY <2>1 DEF Progress
  <2>3. Handled(CrashReferences)'
    BY <1>1, <1>4, <2>2, CrashHandledStays
  <2>4. PICK h : h = head - 1
    OBVIOUS
  <2>5. PagesHandled(h)'
    <3>1. h \in Nat /\ h <= Count
      BY <2>4, <1>1, <1>2
    <3> QED BY <3>1, <2>2, <2>4, <1>1, <1>4, PageHandledStays
  <2>6. ASSUME NEW n, ThreadsHandled(n) PROVE ThreadsHandled(n)'
    BY <2>6, <1>1, <1>4, ThreadsHandledStays
  <2>7. CASE ExpandPage
    <3>1. PagesHandled(head - 1)'
      BY <2>4, <2>5, <2>7, ExpandPageProgress
    <3>2. UNCHANGED <<pc, idx, world>> /\ pc \in {"breadth", "last"}
      BY <2>7 DEF ExpandPage, process
    <3>3. pc = "last" => ThreadsHandled(Len(world.threads))'
      <4>1. PICK n : n = Len(world.threads)
        BY Zenon
      <4>2. Len(world.threads)' = n
        BY <4>1, <3>2
      <4> QED BY <4>1, <4>2, <2>2, <2>6
    <3> QED BY <3>1, <3>2, <3>3, <2>3
  <2>8. CASE ~ExpandPage
    <3>1. head' = head
      BY Zenon, <2>8 DEF ScanStep, Offer, StartChains, FollowSeed, FollowWord, FollowReturns,
                  ChainsDone, ExpandDone, SeedOther, OthersDone, vars
    <3>2. PagesHandled(head - 1)'
      BY <3>1, <2>4, <2>5
    <3>3. pc' = "others" => ThreadsHandled(idx - 1)'
      <4> SUFFICES ASSUME pc' = "others" PROVE ThreadsHandled(idx - 1)'
        OBVIOUS
      <4>1. CASE ExpandDone
        <5>1. idx' - 1 = 0
          BY <4>1 DEF ExpandDone
        <5> QED BY <5>1 DEF ThreadsHandled
      <4>2. CASE SeedOther
        BY <4>2, <2>2, <2>6, SeedOtherProgress DEF SeedOther
      <4>3. CASE ~ExpandDone /\ ~SeedOther
        <5>1. pc = "others" /\ idx' = idx
          <6>1. ~StartChains /\ ~FollowSeed /\ ~ChainsDone /\ ~OthersDone
            BY DEF StartChains, FollowSeed, ChainsDone, OthersDone
          <6> QED BY Zenon, <6>1, <4>3, <2>8 DEF ScanStep, Offer, FollowWord, FollowReturns, vars
        <5>2. PICK n : n = idx - 1
          OBVIOUS
        <5>3. ThreadsHandled(n)' /\ (idx - 1)' = n
          BY <5>1, <5>2, <2>2, <2>6
        <5> QED BY <5>3
      <4> QED BY <4>1, <4>2, <4>3
    <3>4. pc' \in {"last", "done"} => ThreadsHandled(Len(world.threads))'
      <4> SUFFICES ASSUME pc' \in {"last", "done"} PROVE ThreadsHandled(Len(world.threads))'
        OBVIOUS
      <4>1. PICK n : n = Len(world.threads)
        BY Zenon
      <4>2. Len(world.threads)' = n
        BY <4>1 DEF process
      <4>3. ThreadsHandled(n)
        <5>1. CASE OthersDone
          BY <5>1, <4>1, <2>1, <2>2, OthersDoneProgress DEF OthersDone
        <5>2. CASE ~OthersDone
          <6>1. ~StartChains /\ ~FollowSeed /\ ~ChainsDone /\ ~SeedOther
            BY DEF StartChains, FollowSeed, ChainsDone, SeedOther
          <6>2. pc \in {"last", "done"}
            BY Zenon, <6>1, <5>2, <2>8 DEF ScanStep, Offer, FollowWord, FollowReturns, ExpandDone, vars
          <6> QED BY <6>2, <4>1, <2>2
        <5> QED BY <5>1, <5>2
      <4> QED BY <4>2, <4>3, <2>6
    <3>5. pc' = "done" => head' = Count' + 1
      <4> SUFFICES ASSUME pc' = "done" PROVE head' = Count' + 1
        OBVIOUS
      <4>1. CASE ExpandDone
        <5>1. ~Expanding /\ Count' = Count
          BY <4>1 DEF ExpandDone, Count
        <5>2. ~(head <= Count)
          BY <5>1, <2>1 DEF Expanding, OpenAt, Count
        <5> QED BY <5>1, <5>2, <3>1, <1>1, <1>2
      <4>2. CASE ~ExpandDone
        <5>1. ~StartChains /\ ~FollowSeed /\ ~ChainsDone /\ ~SeedOther /\ ~OthersDone
          BY DEF StartChains, FollowSeed, ChainsDone, SeedOther, OthersDone
        <5>2. pc = "done"
          BY Zenon, <5>1, <4>2, <2>8 DEF ScanStep, Offer, FollowWord, FollowReturns, vars
        <5>3. ~Offer /\ ~FollowWord /\ ~FollowReturns
          <6>1. refs = <<>> /\ frames = <<>>
            BY <5>2 DEF IInv, Phased
          <6> QED BY <6>1 DEF Offer, FollowWord, FollowReturns
        <5>4. UNCHANGED vars
          BY <5>1, <5>3, <4>2, <2>8 DEF ScanStep
        <5> QED BY <5>2, <5>4, <2>2 DEF vars, Count
      <4> QED BY <4>1, <4>2
    <3> QED BY <3>2, <3>3, <3>4, <3>5, <2>3
  <2> QED BY <2>7, <2>8
<1> QED BY <1>2, <1>3, <1>4

LEMMA ProgressStep == IInv /\ Progress /\ [Next]_vars => Progress'
<1> SUFFICES ASSUME IInv, Progress, [Next]_vars PROVE Progress'
  OBVIOUS
<1>1. pc' \notin {"breadth", "others", "last", "done"} => head' = 1
  BY HeadStep
<1>2. ASSUME Scanning'
      PROVE  /\ Held(found)'
             /\ head' <= Count' + 1
             /\ OpenAt(found)' =>
                  /\ Handled(CrashReferences)'
                  /\ PagesHandled(head - 1)'
                  /\ pc' = "others" => ThreadsHandled(idx - 1)'
                  /\ pc' \in {"last", "done"} => ThreadsHandled(Len(world.threads))'
                  /\ pc' = "done" => head' = Count' + 1
  <2>1. /\ UNCHANGED <<process, planned>>
        /\ StartScan \/ (Scanning /\ ScanStep)
    BY <1>2, ScanSteps
  <2>2. CASE StartScan
    BY <2>2, StartScanProgress
  <2>3. CASE Scanning /\ ScanStep
    BY <2>1, <2>3, <1>2, ScanProgress
  <2> QED BY <2>1, <2>2, <2>3
<1> QED BY <1>1, <1>2 DEF Progress

-----------------------------------------------------------------------------
(***************************************************************************)
(* The crash thread comes first.                                           *)
(***************************************************************************)

CrashReach == Within(Entries(CrashReferences))

\* Pages that the crash thread refers to itself lie on the first layer.
FirstLayer(reach) ==
  \A i \in 1 .. Count : found.pages[i].page \in reach[1] => found.pages[i].layer = 1

\* What the crash thread refers to is covered, and what those pages refer to.
CrashFirst(reach) ==
  /\ AllCovered(CrashReferences)
  /\ kIndirectMaxScanLayers > 1 =>
       \A page \in Captured \cap reach[1] : AllCovered(PageReferences(page, 2))

\* Up to the breadth-first pass everything is within reach of the crash thread.
CrashOnly ==
  /\ pc \in {"seed", "chain", "breadth"} => InReach(CrashReach)
  /\ pc = "seed" =>
       /\ \A i \in 1 .. Count : found.pages[i].layer = 1
       /\ \A ref \in Entries(refs) : ref.layer = 1
  /\ pc \in {"chain", "breadth"} /\ OpenAt(found) =>
       AllCovered(CrashReferences) /\ FirstLayer(CrashReach)

\* Afterwards it is covered, or the plan is full of what it reaches.
CrashDone ==
  pc \in {"others", "last", "done"} /\ Room =>
    \/ CrashFirst(CrashReach)
    \/ Captured \subseteq CrashReach[kIndirectMaxScanLayers] /\ ~(Count < world.cap)

LEMMA CrashReachFacts ==
  ASSUME Dumped
  PROVE  IsWithin(CrashReach, Entries(CrashReferences))
  BY RootsTyped, WithinDef DEF CrashReach

LEMMA CrashReachStays ==
  ASSUME UNCHANGED process
  PROVE  CrashReach' = CrashReach
<1>1. PICK roots : roots = Entries(CrashReferences)
  OBVIOUS
<1>2. Entries(CrashReferences)' = roots
  BY <1>1, RootsStay DEF Entries
<1>3. Within(roots)' = Within(roots)
  BY WithinStays
<1> QED BY <1>1, <1>2, <1>3 DEF CrashReach

\* What the crash thread refers to is not captured later.
LEMMA NotNew ==
  ASSUME IInv, Held(found), Scanning, ScanStep, UNCHANGED <<process, planned>>,
         AllCovered(CrashReferences), NEW reach, IsWithin(reach, Entries(CrashReferences)),
         NEW page \in reach[1], page \in Captured'
  PROVE  page \in Captured
<1>1. reach[1] \subseteq Nat
  BY LimitsAssumption DEF IsWithin
<1>2. PICK ref \in Entries(CrashReferences) : page \in Targets(ref)
  BY <1>1 DEF IsWithin
<1>3. Covered(ref)
  BY DEF AllCovered
<1>4. Settled(found, page)
  BY <1>2, <1>3, CoveredSettled
<1>5. page \in Captured \/ ~Settled(found, page)
  BY CoverStep
<1> QED BY <1>4, <1>5

LEMMA AllCoveredStays ==
  ASSUME IInv, Held(found), Scanning, ScanStep, UNCHANGED <<process, planned>>
  PROVE  /\ AllCovered(CrashReferences) => AllCovered(CrashReferences)'
         /\ \A page, layer :
              AllCovered(PageReferences(page, layer)) => AllCovered(PageReferences(page, layer))'
<1>1. \A ref : Covered(ref) => Covered(ref)'
  BY CoverStep
<1>2. \A s : AllCovered(s) => AllCovered(s)'
  <2>1. \A s : Entries(s)' = Entries(s)
    BY DEF Entries
  <2> QED BY <2>1, <1>1 DEF AllCovered
<1>3. CrashReferences' = CrashReferences
  BY RootsStay
<1>4. \A page, layer : PageReferences(page, layer)' = PageReferences(page, layer)
  BY ReferencesStay
<1> QED BY <1>2, <1>3, <1>4

LEMMA CrashFirstStays ==
  ASSUME IInv, Held(found), Scanning, ScanStep, UNCHANGED <<process, planned>>,
         NEW reach, IsWithin(reach, Entries(CrashReferences)), CrashFirst(reach)
  PROVE  CrashFirst(reach)'
<1>1. AllCovered(CrashReferences)'
  BY AllCoveredStays DEF CrashFirst
<1>2. ASSUME kIndirectMaxScanLayers > 1, NEW page \in reach[1], page \in Captured'
      PROVE  AllCovered(PageReferences(page, 2))'
  <2>1. page \in Captured
    BY <1>2, NotNew DEF CrashFirst
  <2>2. AllCovered(PageReferences(page, 2))
    BY <2>1, <1>2 DEF CrashFirst
  <2> QED BY <2>2, AllCoveredStays
<1> QED BY <1>1, <1>2 DEF CrashFirst

LEMMA FirstLayerStays ==
  ASSUME IInv, Held(found), Scanning, ScanStep, UNCHANGED <<process, planned>>, Scanning',
         AllCovered(CrashReferences), NEW reach, IsWithin(reach, Entries(CrashReferences)),
         FirstLayer(reach), [Next]_vars
  PROVE  FirstLayer(reach)'
<1>1. /\ Count \in Nat /\ Count' \in Nat /\ Count <= Count'
      /\ \A i \in 1 .. Count : found.pages[i]' = found.pages[i]
  BY CoverStep
<1>2. \A i, j \in 1 .. Count' : found'.pages[i].page = found'.pages[j].page => i = j
  <2>1. IInv'
    BY InductiveIInv
  <2>2. Sound(found)'
    BY <2>1 DEF IInv
  <2> QED BY <2>2 DEF Sound, Count
<1>3. ASSUME NEW i \in 1 .. Count', found'.pages[i].page \in reach[1]
      PROVE  found'.pages[i].layer = 1
  <2>1. found'.pages[i].page \in Captured'
    BY DEF Captured
  <2>2. found'.pages[i].page \in Captured
    BY <2>1, <1>3, NotNew
  <2>3. PICK j \in 1 .. Count : found'.pages[i].page = found.pages[j].page
    BY <2>2 DEF Captured
  <2>4. j \in 1 .. Count' /\ found'.pages[j] = found.pages[j]
    BY <1>1
  <2>5. i = j
    BY <2>3, <2>4, <1>2
  <2>6. found.pages[j].page \in reach[1]
    BY <2>3, <1>3
  <2> QED BY <2>4, <2>5, <2>6 DEF FirstLayer
<1> QED BY <1>3 DEF FirstLayer

LEMMA AllCoveredWhenTaken ==
  ASSUME NEW s, Handled(s), refs = <<>>
  PROVE  AllCovered(s)
  BY DEF Handled, AllCovered, Entries

\* The first pass captures on the first layer.
LEMMA OfferLayer ==
  ASSUME IInv, Offer, pc = "seed",
         \A i \in 1 .. Count : found.pages[i].layer = 1,
         \A ref \in Entries(refs) : ref.layer = 1
  PROVE  /\ \A i \in 1 .. Count' : found.pages[i]'.layer = 1
         /\ \A ref \in Entries(refs)' : ref.layer = 1
<1> DEFINE ref == Head(refs)
           after == AddIndirectMemoryRangeFromPointer(found, ref)
<1>1. found' = after /\ refs' \in {<<>>, Tail(refs)} /\ refs # <<>>
  BY DEF Offer
<1>2. refs \in Seq(References) /\ Dumped /\ Sound(found)
  BY ScanTables DEF IInv, Scanning
<1>3. ref \in References /\ ref \in Entries(refs) /\ Entries(Tail(refs)) \subseteq Entries(refs)
  BY <1>1, <1>2, HeadTailProperties, HeadTailEntries
<1> HIDE DEF after, ref
<1>4. Grown(found, after, Targets(ref), ref.layer)
  BY <1>2, <1>3, ReferenceGrows DEF after
<1>5. \A i \in 1 .. Len(after.pages) : after.pages[i].layer = 1
  BY <1>3, <1>4 DEF Grown, Count
<1>6. Entries(refs)' \subseteq Entries(refs)
  BY <1>1, <1>3 DEF Entries
<1> QED BY <1>1, <1>5, <1>6 DEF Count

LEMMA StartScanCrash ==
  ASSUME IInv, StartScan
  PROVE  CrashOnly'
<1>1. /\ UNCHANGED process /\ pc' = "seed" /\ refs' = CrashReferences
      /\ found' = [pages |-> <<>>, visited |-> {}, cache |-> NoRegion]
  BY DEF StartScan
<1>2. Dumped
  BY DEF IInv
<1>3. PICK roots, reach : roots = Entries(CrashReferences) /\ reach = CrashReach
  OBVIOUS
<1>4. roots \subseteq References /\ IsWithin(reach, roots)
  BY <1>2, <1>3, RootsTyped, CrashReachFacts
<1>5. InReach(reach)'
  BY <1>3, <1>4, StartScanReach
<1>6. CrashReach' = reach
  BY <1>1, <1>3, CrashReachStays
<1>7. \A i \in 1 .. Count' : found.pages[i]'.layer = 1
  BY <1>1 DEF Count
<1>8. \A ref \in Entries(refs)' : ref.layer = 1
  <2>1. Entries(refs)' = Entries(CrashReferences)
    BY <1>1 DEF Entries
  <2> QED BY <2>1, <1>2, CrashReferencesTyped, OnLayerTyped
<1> QED BY <1>1, <1>5, <1>6, <1>7, <1>8 DEF CrashOnly

\* Each step before the pass over the other threads.
LEMMA ScanCrash ==
  ASSUME IInv, Progress, CrashOnly, [Next]_vars, Scanning, Scanning', ScanStep,
         UNCHANGED <<process, planned>>
  PROVE  CrashOnly'
<1>1. Dumped /\ Held(found)
  BY DEF IInv, Progress
<1>2. PICK roots, reach : roots = Entries(CrashReferences) /\ reach = CrashReach
  OBVIOUS
<1>3. roots \subseteq References /\ IsWithin(reach, roots) /\ IsWithin(reach, Entries(CrashReferences))
  BY <1>1, <1>2, RootsTyped, CrashReachFacts
<1>4. CrashReach' = reach
  BY <1>2, CrashReachStays
<1>5. pc' \in {"seed", "chain", "breadth"} => pc \in {"seed", "chain", "breadth"} /\ ~SeedOther
  <2>1. CASE Offer \/ FollowWord \/ FollowReturns \/ UNCHANGED vars
    <3>1. ~SeedOther \/ pc' = "others"
      BY DEF SeedOther
    <3> QED BY Zenon, <2>1, <3>1 DEF Offer, FollowWord, FollowReturns, vars
  <2>2. CASE StartChains \/ FollowSeed \/ ChainsDone
    BY <2>2 DEF StartChains, FollowSeed, ChainsDone, SeedOther
  <2>3. CASE ExpandPage \/ ExpandDone \/ SeedOther \/ OthersDone
    BY <2>3 DEF ExpandPage, ExpandDone, SeedOther, OthersDone
  <2> QED BY <2>1, <2>2, <2>3 DEF ScanStep
<1>6. ASSUME pc' \in {"seed", "chain", "breadth"} PROVE InReach(CrashReach)'
  <2>1. InReach(reach)
    BY <1>2, <1>5, <1>6 DEF CrashOnly
  <2>2. InReach(reach)'
    BY <2>1, <1>3, <1>5, <1>6, ReachStep
  <2> QED BY <2>2, <1>4
<1>7. ASSUME pc' = "seed"
      PROVE  /\ \A i \in 1 .. Count' : found.pages[i]'.layer = 1
             /\ \A ref \in Entries(refs)' : ref.layer = 1
  <2>1. pc = "seed" /\ (Offer \/ UNCHANGED vars)
    <3>1. /\ ~StartChains /\ ~FollowSeed /\ ~ChainsDone
          /\ ~ExpandPage /\ ~ExpandDone /\ ~SeedOther /\ ~OthersDone
      BY <1>7 DEF StartChains, FollowSeed, ChainsDone, ExpandPage, ExpandDone, SeedOther,
                  OthersDone
    <3>2. ~FollowWord /\ ~FollowReturns
      <4>1. FollowWord \/ FollowReturns => pc = "chain" /\ pc' = pc
        BY Zenon DEF FollowWord, FollowReturns, IInv, Phased
      <4> QED BY <4>1, <1>7
    <3>3. Offer \/ UNCHANGED vars
      BY <3>1, <3>2 DEF ScanStep
    <3> QED BY <3>3, <1>7 DEF Offer, vars
  <2>2. /\ \A i \in 1 .. Count : found.pages[i].layer = 1
        /\ \A ref \in Entries(refs) : ref.layer = 1
    BY <2>1 DEF CrashOnly
  <2>3. CASE Offer
    BY <2>1, <2>2, <2>3, OfferLayer
  <2>4. CASE UNCHANGED vars
    BY <2>2, <2>4 DEF vars, Count, Entries
  <2> QED BY <2>1, <2>3, <2>4
<1>8. ASSUME pc' \in {"chain", "breadth"}, OpenAt(found)'
      PROVE  AllCovered(CrashReferences)' /\ FirstLayer(CrashReach)'
  <2>1. OpenAt(found)
    BY <1>1, <1>8, CoverStep
  <2>2. AllCovered(CrashReferences) /\ FirstLayer(reach)
    <3>1. CASE pc = "seed"
      <4>1. refs = <<>>
        <5>1. ~Offer /\ ~UNCHANGED vars
          BY <3>1, <1>8 DEF Offer, vars
        <5>2. ~FollowWord /\ ~FollowReturns
          BY Zenon, <3>1 DEF FollowWord, FollowReturns, IInv, Phased
        <5>3. StartChains
          BY <5>1, <5>2, <3>1 DEF ScanStep, FollowSeed, ChainsDone, ExpandPage, ExpandDone,
                                  SeedOther, OthersDone
        <5> QED BY <5>3 DEF StartChains
      <4>2. Handled(CrashReferences)
        BY <2>1 DEF Progress
      <4>3. \A i \in 1 .. Count : found.pages[i].layer = 1
        BY <3>1 DEF CrashOnly
      <4> QED BY <4>1, <4>2, <4>3, AllCoveredWhenTaken DEF FirstLayer
    <3>2. CASE pc \in {"chain", "breadth"}
      BY <3>2, <2>1, <1>2 DEF CrashOnly
    <3> QED BY <3>1, <3>2, <1>5, <1>8
  <2>3. AllCovered(CrashReferences)'
    BY <2>2, <1>1, AllCoveredStays
  <2>4. FirstLayer(reach)'
    BY <2>2, <1>1, <1>3, FirstLayerStays
  <2> QED BY <2>3, <2>4, <1>4
<1> QED BY <1>6, <1>7, <1>8 DEF CrashOnly

LEMMA CrashOnlyStep == IInv /\ Progress /\ CrashOnly /\ [Next]_vars => CrashOnly'
<1> SUFFICES ASSUME IInv, Progress, CrashOnly, [Next]_vars PROVE CrashOnly'
  OBVIOUS
<1>1. CASE Scanning'
  <2>1. /\ UNCHANGED <<process, planned>>
        /\ StartScan \/ (Scanning /\ ScanStep)
    BY <1>1, ScanSteps
  <2> QED BY <2>1, <1>1, StartScanCrash, ScanCrash
<1>2. CASE ~Scanning'
  BY <1>2 DEF CrashOnly, Scanning
<1> QED BY <1>1, <1>2

\* When the breadth-first pass ends with room left, every page of the queue was
\* expanded, those of the first layer among them.
LEMMA ExpandDoneCrash ==
  ASSUME IInv, Progress, CrashOnly, ExpandDone, pc = "breadth", Room
  PROVE  \/ CrashFirst(CrashReach)
         \/ Captured \subseteq CrashReach[kIndirectMaxScanLayers] /\ ~(Count < world.cap)
<1>1. Dumped /\ Scanning /\ refs = <<>> /\ ~Expanding
  BY DEF IInv, Scanning, ExpandDone
<1>2. PICK reach : reach = CrashReach
  OBVIOUS
<1>3. IsWithin(reach, Entries(CrashReferences)) /\ InReach(reach)
  BY <1>1, <1>2, CrashReachFacts DEF CrashOnly
<1>4. CASE Count < world.cap
  <2>1. OpenAt(found)
    BY <1>4 DEF OpenAt, Room, Count
  <2>2. /\ AllCovered(CrashReferences) /\ FirstLayer(reach)
        /\ PagesHandled(head - 1)
    BY <2>1, <1>1, <1>2 DEF CrashOnly, Progress
  <2>3. \A i \in 1 .. Count : i \in 1 .. head - 1
    <3>1. Count \in Nat /\ head \in Nat /\ ~(head <= Count)
      BY <1>1, <1>4, ScanTables DEF Expanding, IInv, TypeOK
    <3> QED BY <3>1
  <2>4. ASSUME kIndirectMaxScanLayers > 1, NEW page \in Captured \cap reach[1]
        PROVE  AllCovered(PageReferences(page, 2))
    <3>1. PICK i \in 1 .. Count : page = found.pages[i].page
      BY DEF Captured
    <3>2. found.pages[i].layer = 1
      BY <3>1, <2>2 DEF FirstLayer
    <3>3. PageHandled(page, 1)
      BY <3>1, <3>2, <2>2, <2>3 DEF PagesHandled
    <3>4. Handled(PageReferences(page, 2))
      <4>1. 1 < kIndirectMaxScanLayers /\ 1 + 1 = 2
        BY <2>4, LimitsAssumption
      <4> QED BY <4>1, <3>3 DEF PageHandled
    <3> QED BY <3>4, <1>1, AllCoveredWhenTaken
  <2> QED BY <2>2, <2>4, <1>2 DEF CrashFirst
<1>5. CASE ~(Count < world.cap)
  <2>1. ASSUME NEW i \in 1 .. Count
        PROVE  found.pages[i].page \in reach[kIndirectMaxScanLayers]
    <3>1. found.pages[i].layer \in 1 .. kIndirectMaxScanLayers
      BY ScanTables
    <3>2. reach[found.pages[i].layer] \subseteq reach[kIndirectMaxScanLayers]
      BY <3>1, <1>3, WithinMonotone
    <3> QED BY <3>2, <1>3 DEF InReach, PagesWithin, Count
  <2> QED BY <2>1, <1>2, <1>5 DEF Captured
<1> QED BY <1>4, <1>5

LEMMA CrashDoneStep == IInv /\ Progress /\ CrashOnly /\ CrashDone /\ [Next]_vars => CrashDone'
<1> SUFFICES ASSUME IInv, Progress, CrashOnly, CrashDone, [Next]_vars,
                    pc' \in {"others", "last", "done"}, Room'
             PROVE  \/ CrashFirst(CrashReach)'
                    \/ Captured' \subseteq (CrashReach[kIndirectMaxScanLayers])'
                         /\ ~(Count' < world'.cap)
  BY DEF CrashDone
<1>1. Scanning /\ ScanStep /\ UNCHANGED <<process, planned>>
  <2>1. Scanning'
    BY DEF Scanning
  <2>2. ~StartScan
    BY DEF StartScan
  <2> QED BY <2>1, <2>2, ScanSteps
<1>2. Dumped /\ Held(found)
  BY <1>1 DEF IInv, Progress
<1>3. PICK reach : reach = CrashReach
  OBVIOUS
<1>4. IsWithin(reach, Entries(CrashReferences)) /\ CrashReach' = reach
  BY <1>1, <1>2, <1>3, CrashReachFacts, CrashReachStays
<1>5. Room /\ world' = world
  BY <1>1, <1>2, CoverStep DEF process
<1>6. \/ CrashFirst(reach)
      \/ Captured \subseteq reach[kIndirectMaxScanLayers] /\ ~(Count < world.cap)
  <2>1. CASE pc \in {"others", "last", "done"}
    BY <2>1, <1>3, <1>5 DEF CrashDone
  <2>2. CASE pc \notin {"others", "last", "done"}
    <3>1. ~Offer /\ ~FollowWord /\ ~FollowReturns /\ ~UNCHANGED vars
      BY Zenon, <2>2 DEF Offer, FollowWord, FollowReturns, vars
    <3>2. ~StartChains /\ ~FollowSeed /\ ~ChainsDone /\ ~ExpandPage /\ ~SeedOther /\ ~OthersDone
      BY <2>2 DEF StartChains, FollowSeed, ChainsDone, ExpandPage, SeedOther, OthersDone
    <3>3. ExpandDone
      BY <3>1, <3>2, <1>1 DEF ScanStep
    <3>4. pc = "breadth"
      BY <3>3, <2>2 DEF ExpandDone
    <3> QED BY <3>3, <3>4, <1>3, <1>5, ExpandDoneCrash
  <2> QED BY <2>1, <2>2
<1>7. CASE CrashFirst(reach)
  <2>1. CrashFirst(reach)'
    BY <1>1, <1>2, <1>4, <1>7, CrashFirstStays
  <2> QED BY <2>1, <1>4
<1>8. CASE Captured \subseteq reach[kIndirectMaxScanLayers] /\ ~(Count < world.cap)
  <2>1. Count' = Count /\ \A i \in 1 .. Count : found.pages[i]' = found.pages[i]
    BY <1>1, <1>2, <1>8, CoverStep
  <2>2. Captured' = Captured
    BY <2>1 DEF Captured
  <2> QED BY <2>1, <2>2, <1>4, <1>5, <1>8
<1> QED BY <1>6, <1>7, <1>8

LEMMA FollowedInvariance == Spec => [](Progress /\ CrashOnly /\ CrashDone)
<1>1. Init => Progress /\ CrashOnly /\ CrashDone
  BY DEF Init, Progress, CrashOnly, CrashDone, Scanning
<1> QED BY <1>1, ProgressStep, CrashOnlyStep, CrashDoneStep, Invariance, PTL DEF Spec

\* As long as there is room nothing is passed over: what the crash thread and
\* then the other threads refer to, and what every expanded page above the last
\* layer refers to, is captured or known.  And the crash thread comes first: a
\* page out of its reach is captured only when its own references, and those of
\* the pages they lead to, are all covered (CollectIndirectMemoryRanges,
\* ExpandIndirectBfs).
THEOREM AlwaysFollowed == Spec => []ReferencesFollowed
<1>1. IInv /\ Progress /\ CrashDone => ReferencesFollowed
  <2> SUFFICES ASSUME IInv, Progress, CrashDone PROVE ReferencesFollowed
    OBVIOUS
  <2>1. ASSUME Count < world.cap, Room, refs = <<>>, Scanning
        PROVE  /\ pc \in {"chain", "breadth", "others", "last", "done"} =>
                    AllCovered(CrashReferences)
               /\ pc \in {"breadth", "others", "last", "done"} => Followed(head - 1)
               /\ pc = "done" => head = Count + 1
               /\ pc \in {"last", "done"} => \A ref \in OtherReferences : Covered(ref)
    <3>1. OpenAt(found)
      BY <2>1 DEF OpenAt, Room, Count
    <3>2. /\ Handled(CrashReferences)
          /\ PagesHandled(head - 1)
          /\ pc \in {"last", "done"} => ThreadsHandled(Len(world.threads))
          /\ pc = "done" => head = Count + 1
      BY <3>1, <2>1 DEF Progress
    <3>3. \A s : Handled(s) => AllCovered(s)
      BY <2>1, AllCoveredWhenTaken
    <3>4. Followed(head - 1)
      BY <3>2, <3>3 DEF Followed, PagesHandled, PageHandled, AllCovered
    <3>5. ThreadsHandled(Len(world.threads)) => \A ref \in OtherReferences : Covered(ref)
      <4>1. ASSUME ThreadsHandled(Len(world.threads)),
                   NEW t \in 1 .. Len(world.threads), t # world.preferred
            PROVE  AllCovered(RootReferences(world.threads[t], 0))
        BY <4>1, <3>3 DEF ThreadsHandled
      <4> QED BY <4>1 DEF OtherReferences, AllCovered
    <3> QED BY <3>2, <3>3, <3>4, <3>5
  <2>2. pc \in {"others", "done"} /\ Room =>
          LET reach == Within(Entries(CrashReferences))
          IN  Captured \subseteq reach[kIndirectMaxScanLayers] \/
                /\ AllCovered(CrashReferences)
                /\ kIndirectMaxScanLayers > 1 =>
                     \A page \in Captured \cap reach[1] : AllCovered(PageReferences(page, 2))
    BY DEF CrashDone, CrashFirst, CrashReach
  <2> QED BY <2>1, <2>2 DEF ReferencesFollowed, Scanning
<1> QED BY <1>1, FollowedInvariance, Invariance, PTL

=============================================================================
