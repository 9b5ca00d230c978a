----------------------------- MODULE IndirectScan -----------------------------
(***************************************************************************)
(* Which memory, besides the stacks, a selected-memory dump describes:     *)
(* the process and thread data and the writable data segments, captured    *)
(* once; the table of known ranges; and the pages that registers, stacks   *)
(* and captured pages refer to, found by CollectIndirectMemoryRanges.      *)
(*                                                                         *)
(* Every other thread is frozen while this runs, so a run is determined by *)
(* the process it looks at: a world.  Addresses count words of the size of *)
(* a pointer.  A word that cannot be read is not in memory; it reads as 0, *)
(* which, like a word the code could not read, refers to nothing.          *)
(***************************************************************************)
EXTENDS Integers, Sequences, FiniteSets

CONSTANTS
  Page,                     \* kIndirectMemoryRangeSize
  kPointerStraddleWindow,
  kIndirectMaxScanLayers,
  kIndirectChainFanout,
  kIndirectPerSeedReserve,
  HashSlots,                \* IndirectVisitedHashSlots()
  kMaxKnownMemoryRanges,
  kMaxProcThreadRanges,
  kProcThreadRangeMaxBytes,
  kMaxDataSegRanges,
  MinAppAddr, MaxAppAddr,   \* the bounds of application addresses
  Worlds,                   \* the processes that may be dumped, and what they ask for
  Memories,                 \* what their memory may hold
  Leftovers                 \* what an earlier dump may have left in the tables

Ranges  == [start : Nat, size : Nat]
Regions == [start : Nat, size : Nat, dumpable : BOOLEAN, image : BOOLEAN, writable : BOOLEAN]
Threads == [context : BOOLEAN, registers : Seq(Nat), sp : Nat, include : BOOLEAN,
            stack : Ranges, aux : Ranges, teb : Ranges]
Pages   == [page : Nat, layer : 1 .. kIndirectMaxScanLayers]
Founds  == [pages : Seq(Pages), visited : SUBSET Nat, cache : Regions]

Entries(s) == {s[i] : i \in 1 .. Len(s)}
End(range) == range.start + range.size

RangesOverlap(r, s) ==
  /\ r.size # 0 /\ s.size # 0
  /\ r.start < End(s) /\ s.start < End(r)

ASSUME LimitsAssumption ==
  /\ Page \in Nat \ {0}
  /\ kPointerStraddleWindow \in 1 .. Page
  /\ {kIndirectMaxScanLayers, kIndirectChainFanout, kIndirectPerSeedReserve} \subseteq Nat \ {0}
  /\ {HashSlots, kMaxKnownMemoryRanges, kMaxProcThreadRanges, kMaxDataSegRanges,
      kProcThreadRangeMaxBytes, MinAppAddr, MaxAppAddr} \subseteq Nat

ASSUME WorldsAssumption ==
  \A w \in Worlds :
    /\ w.regions \in Seq(Regions)        \* VirtualQuery, in the order of the walk
    /\ \A i, j \in 1 .. Len(w.regions) : i # j => ~RangesOverlap(w.regions[i], w.regions[j])
    /\ w.threads \in Seq(Threads)        \* g_ThreadPlan
    /\ w.preferred \in 0 .. Len(w.threads)  \* preferredThreadId, 0 when it is not in the plan
    /\ {w.peb, w.params, w.environment} \subseteq Ranges  \* size 0 for a null pointer
    /\ w.paramsReadable \in BOOLEAN
    /\ w.strings \in Seq(Ranges)
    /\ w.admitProc \in BOOLEAN           \* asked for, and within the budget
    /\ w.admitData \in BOOLEAN
    /\ w.cap \in Nat                     \* g_IndirectMemoryRangeCap

ASSUME MemoriesAssumption == \A m \in Memories : \A a \in DOMAIN m : m[a] \in Nat

ASSUME LeftoversAssumption ==
  \A l \in Leftovers : l.known \in Seq(Ranges) /\ l.found \in Founds

VARIABLES
  world,  \* the process that is dumped
  memory, \* the words of it that can be read
  pc,     \* the step
  idx,    \* its loop index
  proc,   \* g_ProcThreadRanges
  data,   \* g_DataSegRanges
  known,  \* g_KnownMemoryRanges
  found,  \* IndirectMemoryRanges(), IndirectVisitedHash(), the region cache
  refs,   \* what is left of the span, the registers or the page being scanned
  seeds,  \* seedCount
  frames, \* calls of FollowIndirectChainDepthFirst, the innermost first
  stop,   \* their seedStopCount
  head    \* bfsHead + 1: the next page to expand

planned == <<proc, data, known>>
chain == <<seeds, frames, stop>>
process == <<world, memory>>
vars == <<process, pc, idx, planned, found, refs, chain, head>>

NoRange  == [start |-> 0, size |-> 0]
NoRegion == [start |-> 0, size |-> 0, dumpable |-> FALSE, image |-> FALSE, writable |-> FALSE]

Count == Len(found.pages)
Captured == {found.pages[i].page : i \in 1 .. Count}
AlignDown(address) == address - (address % Page)
PageAt(page) == [start |-> page, size |-> Page]

Contains(range, address) == range.start <= address /\ address < End(range)

\* VirtualQuery: the region of an address, or failure.
VirtualQuery(address) ==
  LET holding == {region \in Entries(world.regions) : Contains(region, address)}
  IN  IF holding = {} THEN NoRegion ELSE CHOOSE region \in holding : TRUE

Init ==
  /\ world \in Worlds /\ memory \in Memories
  /\ \E leftover \in Leftovers : known = leftover.known /\ found = leftover.found
  /\ pc = "proc"
  /\ idx = 1
  /\ proc = <<>> /\ data = <<>>
  /\ refs = <<>>
  /\ seeds = 0 /\ frames = <<>> /\ stop = 0
  /\ head = 1

-----------------------------------------------------------------------------
(***************************************************************************)
(* Ranges that are captured once.                                          *)
(***************************************************************************)

\* CaptureProcessThreadDataRanges: the PEB, the TEBs, then whatever the process
\* parameters lead to, if they can be read.
ProcCandidates ==
  <<world.peb>>
    \o [t \in 1 .. Len(world.threads) |-> world.threads[t].teb]
    \o (IF world.peb.size # 0 /\ world.params.size # 0 /\ world.paramsReadable
        THEN <<world.params, world.environment>> \o world.strings
        ELSE <<>>)

\* A candidate cut to the largest range and to its region.
Clamp(range) ==
  LET room == End(VirtualQuery(range.start)) - range.start
      size == IF range.size < kProcThreadRangeMaxBytes THEN range.size
              ELSE kProcThreadRangeMaxBytes
  IN  [range EXCEPT !.size = IF size < room THEN size ELSE room]

\* Mutant: a candidate that overlaps one already taken is taken as well.
AddProcThreadRangeTwice(range) ==
  IF /\ range.start # 0 /\ range.size # 0
     /\ Len(proc) < kMaxProcThreadRanges
     /\ VirtualQuery(range.start).dumpable
  THEN Append(proc, Clamp(range)) ELSE proc

AddProcThreadRange(range) ==
  IF /\ range.start # 0 /\ range.size # 0
     /\ Len(proc) < kMaxProcThreadRanges
     /\ VirtualQuery(range.start).dumpable
     /\ \A taken \in Entries(proc) : ~RangesOverlap(Clamp(range), taken)
  THEN Append(proc, Clamp(range)) ELSE proc

CaptureProc ==
  /\ pc = "proc"
  /\ idx <= Len(ProcCandidates)
  /\ proc' = AddProcThreadRange(ProcCandidates[idx])
  /\ idx' = idx + 1
  /\ UNCHANGED <<process, pc, data, known, found, refs, chain, head>>

CaptureProcDone ==
  /\ pc = "proc"
  /\ idx > Len(ProcCandidates)
  /\ pc' = "data"
  /\ idx' = 1
  /\ UNCHANGED <<process, planned, found, refs, chain, head>>

ShouldIncludeExtraMemoryRange(region) == region.dumpable /\ region.image /\ region.writable

\* CaptureDataSegRanges: one region of the walk, which ends with the table.
CaptureData ==
  /\ pc = "data"
  /\ idx <= Len(world.regions)
  /\ Len(data) < kMaxDataSegRanges
  /\ LET region == world.regions[idx]
     IN  data' = IF ShouldIncludeExtraMemoryRange(region)
                 THEN Append(data, [start |-> region.start, size |-> region.size])
                 ELSE data
  /\ idx' = idx + 1
  /\ UNCHANGED <<process, pc, proc, known, found, refs, chain, head>>

\* The page cap is computed from what is left; without one nothing is scanned.
CaptureDataDone ==
  /\ pc = "data"
  /\ idx > Len(world.regions) \/ Len(data) = kMaxDataSegRanges
  /\ IF world.cap = 0 THEN pc' = "unscanned" /\ UNCHANGED known
                      ELSE pc' = "known" /\ known' = <<>>
  /\ idx' = 1
  /\ UNCHANGED <<process, proc, data, found, refs, chain, head>>

-----------------------------------------------------------------------------
(***************************************************************************)
(* The table of known ranges.                                              *)
(***************************************************************************)

\* The stack windows of the plan, each thread's primary before its high one.
StackRanges ==
  [i \in 1 .. 2 * Len(world.threads) |->
     LET thread == world.threads[(i + 1) \div 2]
     IN  IF i % 2 = 0 THEN thread.aux
         ELSE IF thread.include THEN thread.stack ELSE NoRange]

\* Everything the memory list describes before the indirect pages.
Planned ==
  StackRanges \o (IF world.admitProc THEN proc ELSE <<>>)
              \o (IF world.admitData THEN data ELSE <<>>)

KnownMemoryRangeOverlaps(range) == \E k \in Entries(known) : RangesOverlap(range, k)

\* Mutant: the last slot of the table is never used.
AddKnownMemoryRangeShort(range) ==
  IF range.size # 0 /\ Len(known) + 1 < kMaxKnownMemoryRanges /\ ~KnownMemoryRangeOverlaps(range)
  THEN Append(known, range) ELSE known

AddKnownMemoryRange(range) ==
  IF range.size # 0 /\ Len(known) < kMaxKnownMemoryRanges /\ ~KnownMemoryRangeOverlaps(range)
  THEN Append(known, range) ELSE known

\* CollectKnownSelectedMemoryRanges, a range at a time.
CollectKnown ==
  /\ pc = "known"
  /\ idx <= Len(Planned)
  /\ known' = AddKnownMemoryRange(Planned[idx])
  /\ idx' = idx + 1
  /\ UNCHANGED <<process, pc, proc, data, found, refs, chain, head>>

-----------------------------------------------------------------------------
(***************************************************************************)
(* One reference.                                                          *)
(***************************************************************************)

\* ClassifyRegionCached: the region of an address, and the cache afterwards.
Classify(cache, address) == IF Contains(cache, address) THEN cache ELSE VirtualQuery(address)
CacheAfter(cache, address) ==
  LET region == Classify(cache, address) IN IF region.size = 0 THEN cache ELSE region

\* Dumpable, and not restored from the module's file.
Capturable(region, page) ==
  /\ region.dumpable
  /\ region.image => region.writable
  /\ region.start <= page /\ page + Page <= End(region)

\* Mutant: pages that are described already are taken again.
CollectIndirectPageAlways(st, page, layer) ==
  LET tried == /\ Len(st.pages) < world.cap
               /\ Capturable(Classify(st.cache, page), page)
               /\ page \notin st.visited
               /\ Cardinality(st.visited) < HashSlots
  IN  [pages   |-> IF tried THEN Append(st.pages, [page |-> page, layer |-> layer]) ELSE st.pages,
       visited |-> IF tried THEN st.visited \cup {page} ELSE st.visited,
       cache   |-> IF Len(st.pages) < world.cap THEN CacheAfter(st.cache, page) ELSE st.cache]

\* CollectIndirectPage: a full visited table takes every page for seen.
CollectIndirectPage(st, page, layer) ==
  LET tried == /\ Len(st.pages) < world.cap
               /\ Capturable(Classify(st.cache, page), page)
               /\ page \notin st.visited
               /\ Cardinality(st.visited) < HashSlots
      taken == tried /\ ~KnownMemoryRangeOverlaps(PageAt(page))
  IN  [pages   |-> IF taken THEN Append(st.pages, [page |-> page, layer |-> layer]) ELSE st.pages,
       visited |-> IF tried THEN st.visited \cup {page} ELSE st.visited,
       cache   |-> IF Len(st.pages) < world.cap THEN CacheAfter(st.cache, page) ELSE st.cache]

Plausible(ref) ==
  /\ ~Contains(ref.from, ref.value)
  /\ ref.value >= MinAppAddr /\ ref.value <= MaxAppAddr

FirstPage(value) == AlignDown(value)
LastPage(value)  == AlignDown(value + kPointerStraddleWindow - 1)

\* AddIndirectMemoryRangeFromPointer: the page of the value, and the next one
\* when the value is close to it.
AddIndirectMemoryRangeFromPointer(st, ref) ==
  LET first == CollectIndirectPage(st, FirstPage(ref.value), ref.layer)
  IN  IF ~Plausible(ref) THEN st
      ELSE IF FirstPage(ref.value) = LastPage(ref.value) THEN first
      ELSE CollectIndirectPage(first, LastPage(ref.value), ref.layer)

Word(address) == IF address \in DOMAIN memory THEN memory[address] ELSE 0

\* The words from one address up to another, as references out of a range.
Span(from, to, range, layer) ==
  [i \in 1 .. (IF from < to THEN to - from ELSE 0) |->
     [value |-> Word(from + i - 1), from |-> range, layer |-> layer]]

\* Mutant: references of a page stay on its own layer.
PageReferencesSameLayer(page, layer) ==
  Span(page, page + Page, PageAt(page), IF layer = 1 THEN 1 ELSE layer - 1)

PageReferences(page, layer) == Span(page, page + Page, PageAt(page), layer)

\* ScanContextRegistersForIndirectMemory, of a context that could be read.
RegisterReferences(thread) ==
  [i \in 1 .. (IF thread.context THEN Len(thread.registers) ELSE 0) |->
     [value |-> thread.registers[i], from |-> NoRange, layer |-> 1]]

\* ScanStackForIndirectMemory: from the stack pointer up first, if it is known.
StackReferences(stack, sp) ==
  IF Contains(stack, sp)
  THEN Span(sp, End(stack), stack, 1) \o Span(stack.start, sp, stack, 1)
  ELSE Span(stack.start, End(stack), stack, 1)

RootReferences(thread, sp) ==
  RegisterReferences(thread)
    \o (IF thread.include /\ thread.stack.size # 0
        THEN StackReferences(thread.stack, sp) \o StackReferences(thread.aux, 0)
        ELSE <<>>)

CrashReferences ==
  IF world.preferred = 0 THEN <<>>
  ELSE LET thread == world.threads[world.preferred]
       IN  RootReferences(thread, IF thread.context THEN thread.sp ELSE 0)

\* A word of a span, of the registers or of a page is offered to the plan; at
\* the cap the rest of them is dropped.
Offer ==
  /\ refs # <<>>
  /\ found' = AddIndirectMemoryRangeFromPointer(found, Head(refs))
  /\ refs' = IF Len(found'.pages) < world.cap THEN Tail(refs) ELSE <<>>
  /\ UNCHANGED <<process, pc, idx, planned, chain, head>>

-----------------------------------------------------------------------------
(***************************************************************************)
(* The crash thread.                                                       *)
(***************************************************************************)

\* Mutant: the visited table still holds the pages of an earlier dump.
StartScanDirty ==
  /\ pc = "known"
  /\ idx > Len(Planned)
  /\ found' = [found EXCEPT !.pages = <<>>, !.cache = NoRegion]
  /\ refs' = CrashReferences
  /\ pc' = "seed"
  /\ UNCHANGED <<process, idx, planned, chain, head>>

\* CollectIndirectMemoryRanges empties its tables and takes the registers and
\* the stack of the crash thread.
StartScan ==
  /\ pc = "known"
  /\ idx > Len(Planned)
  /\ found' = [pages |-> <<>>, visited |-> {}, cache |-> NoRegion]
  /\ refs' = CrashReferences
  /\ pc' = "seed"
  /\ UNCHANGED <<process, idx, planned, chain, head>>

StartChains ==
  /\ pc = "seed"
  /\ refs = <<>>
  /\ seeds' = Count
  /\ idx' = 1
  /\ pc' = "chain"
  /\ UNCHANGED <<process, planned, found, refs, frames, stop, head>>

\* A call of FollowIndirectChainDepthFirst, if it gets past its first check.
Follow(page, layer, count, limit) ==
  IF layer < kIndirectMaxScanLayers /\ count < world.cap /\ count < limit
  THEN <<[page |-> page, layer |-> layer, left |-> PageReferences(page, layer + 1),
          followed |-> 0]>>
  ELSE <<>>

FollowSeed ==
  /\ pc = "chain"
  /\ frames = <<>>
  /\ idx <= seeds /\ Count < world.cap
  /\ stop' = Count + kIndirectPerSeedReserve
  /\ frames' = Follow(found.pages[idx].page, found.pages[idx].layer, Count, stop')
  /\ idx' = idx + 1
  /\ UNCHANGED <<process, pc, planned, found, refs, seeds, head>>

\* Mutant: the walk forgets the reserve of its seed.
FollowingUnbounded(call) ==
  /\ call.left # <<>>
  /\ call.followed < kIndirectChainFanout
  /\ Count < world.cap

\* The condition of the loop over a page.
Following(call) ==
  /\ call.left # <<>>
  /\ call.followed < kIndirectChainFanout
  /\ Count < world.cap
  /\ Count < stop

\* The innermost call offers its next word; when a page was captured for it,
\* the call descends to the page of the word, captured or not.
FollowWord ==
  /\ frames # <<>>
  /\ Following(Head(frames))
  /\ LET call  == Head(frames)
         ref   == Head(call.left)
         after == AddIndirectMemoryRangeFromPointer(found, ref)
         grew  == Len(after.pages) > Count
         rest  == [call EXCEPT !.left = Tail(@), !.followed = IF grew THEN @ + 1 ELSE @]
         deeper == IF grew THEN Follow(AlignDown(ref.value), call.layer + 1, Len(after.pages), stop)
                   ELSE <<>>
     IN  /\ found' = after
         /\ frames' = deeper \o <<rest>> \o Tail(frames)
  /\ UNCHANGED <<process, pc, idx, planned, refs, seeds, stop, head>>

FollowReturns ==
  /\ frames # <<>>
  /\ ~Following(Head(frames))
  /\ frames' = Tail(frames)
  /\ UNCHANGED <<process, pc, idx, planned, found, refs, seeds, stop, head>>

ChainsDone ==
  /\ pc = "chain"
  /\ frames = <<>>
  /\ idx > seeds \/ Count >= world.cap
  /\ pc' = "breadth"
  /\ UNCHANGED <<process, idx, planned, found, refs, chain, head>>

-----------------------------------------------------------------------------
(***************************************************************************)
(* Breadth first, and the other threads.                                   *)
(***************************************************************************)

Expanding == head <= Count /\ Count < world.cap

\* Mutant: pages of the last layer are scanned as well.
ExpandPageTooDeep ==
  /\ pc \in {"breadth", "last"}
  /\ refs = <<>>
  /\ Expanding
  /\ refs' = PageReferences(found.pages[head].page, found.pages[head].layer + 1)
  /\ head' = head + 1
  /\ UNCHANGED <<process, pc, idx, planned, found, chain>>

\* ExpandIndirectBfs: the next page of the queue.
ExpandPage ==
  /\ pc \in {"breadth", "last"}
  /\ refs = <<>>
  /\ Expanding
  /\ LET next == found.pages[head]
     IN  refs' = IF next.layer < kIndirectMaxScanLayers
                 THEN PageReferences(next.page, next.layer + 1) ELSE <<>>
  /\ head' = head + 1
  /\ UNCHANGED <<process, pc, idx, planned, found, chain>>

ExpandDone ==
  /\ pc \in {"breadth", "last"}
  /\ refs = <<>>
  /\ ~Expanding
  /\ pc' = IF pc = "breadth" THEN "others" ELSE "done"
  /\ idx' = 1
  /\ UNCHANGED <<process, planned, found, refs, chain, head>>

\* The registers and the stack of the next thread that is not the crash thread.
SeedOther ==
  /\ pc = "others"
  /\ refs = <<>>
  /\ idx <= Len(world.threads) /\ Count < world.cap
  /\ refs' = IF idx = world.preferred THEN <<>> ELSE RootReferences(world.threads[idx], 0)
  /\ idx' = idx + 1
  /\ UNCHANGED <<process, pc, planned, found, chain, head>>

OthersDone ==
  /\ pc = "others"
  /\ refs = <<>>
  /\ idx > Len(world.threads) \/ Count >= world.cap
  /\ pc' = "last"
  /\ UNCHANGED <<process, idx, planned, found, refs, chain, head>>

Next ==
  \/ CaptureProc \/ CaptureProcDone \/ CaptureData \/ CaptureDataDone
  \/ CollectKnown \/ StartScan \/ Offer
  \/ StartChains \/ FollowSeed \/ FollowWord \/ FollowReturns \/ ChainsDone
  \/ ExpandPage \/ ExpandDone \/ SeedOther \/ OthersDone

Spec == Init /\ [][Next]_vars

-----------------------------------------------------------------------------
(***************************************************************************)
(* Properties.                                                             *)
(***************************************************************************)

References == [value : Nat, from : Ranges, layer : 1 .. kIndirectMaxScanLayers]
Calls == [page : Nat, layer : 1 .. kIndirectMaxScanLayers - 1, left : Seq(References),
          followed : 0 .. kIndirectChainFanout]

Scanning == pc \in {"seed", "chain", "breadth", "others", "last", "done"}

\* Every variable has its type (the process does not change); the pages of the plan lie on layers 1 to
\* kIndirectMaxScanLayers (CollectIndirectMemoryRanges).
TypeOK ==
  /\ pc \in {"proc", "data", "known", "unscanned", "seed", "chain", "breadth", "others",
              "last", "done"}
  /\ {idx, head} \subseteq Nat \ {0}
  /\ {seeds, stop} \subseteq Nat
  /\ proc \in Seq(Ranges) /\ data \in Seq(Ranges) /\ known \in Seq(Ranges)
  /\ found \in Founds
  /\ refs \in Seq(References)
  /\ frames \in Seq(Calls)

\* A range of the memory list that was kept out of the table of known ranges:
\* the table was full, or what it overlaps was there before it.
KeptOut(range) ==
  \/ Len(known) = kMaxKnownMemoryRanges
  \/ \E k \in Entries(known) : RangesOverlap(range, k)

\* No byte is described twice: process ranges are disjoint and inside one
\* committed region each; an indirect page is captured once, can be read, is not
\* restored from a module file, and overlaps no other described range but one
\* that was kept out of the known table (AddProcThreadRange,
\* AddKnownMemoryRange, CollectIndirectPage).
DescribedOnce ==
  /\ \A i, j \in 1 .. Len(proc) : i # j => ~RangesOverlap(proc[i], proc[j])
  /\ \A i \in 1 .. Len(proc) :
       VirtualQuery(proc[i].start).dumpable /\ End(proc[i]) <= End(VirtualQuery(proc[i].start))
  /\ Scanning =>
       /\ \A i, j \in 1 .. Count : found.pages[i].page = found.pages[j].page => i = j
       /\ \A page \in Captured :
            /\ Capturable(VirtualQuery(page), page)
            /\ \A k \in Entries(known) : ~RangesOverlap(PageAt(page), k)
       /\ \A range \in Entries(Planned) :
            range.size # 0 => range \in Entries(known) \/ KeptOut(range)

\* The four limits of the scan hold together: page cap, visited table, table of
\* known ranges, and one scratch page per depth of the walk; a walk overshoots
\* the reserve of its seed by no more than the one page a straddling pointer
\* adds (CollectIndirectPage, VisitedPageSeenOrInsert, AddKnownMemoryRange,
\* FollowIndirectChainDepthFirst).
LimitsKept ==
  /\ Len(proc) <= kMaxProcThreadRanges
  /\ Len(data) <= kMaxDataSegRanges
  /\ pc \in {"known"} \/ Scanning => Len(known) <= kMaxKnownMemoryRanges
  /\ Scanning =>
       /\ Count <= world.cap
       /\ IsFiniteSet(found.visited) /\ Cardinality(found.visited) <= HashSlots
       /\ \A i, j \in 1 .. Len(frames) : i < j => frames[i].layer > frames[j].layer
       /\ frames # <<>> => Count <= stop + 1

\* The pages a reference may stand for, whatever becomes of them.
Targets(ref) == IF Plausible(ref) THEN {FirstPage(ref.value), LastPage(ref.value)} ELSE {}

\* A page that should be in the dump is.
Covered(ref) ==
  \A page \in Targets(ref) :
    Capturable(VirtualQuery(page), page) =>
      page \in Captured \/ KnownMemoryRangeOverlaps(PageAt(page))

\* Every reference of the first n pages was followed, if it is not too deep.
Followed(n) ==
  \A i \in 1 .. n :
    found.pages[i].layer < kIndirectMaxScanLayers =>
      \A ref \in Entries(PageReferences(found.pages[i].page, found.pages[i].layer + 1)) :
        Covered(ref)

AllCovered(references) == \A ref \in Entries(references) : Covered(ref)

Room == Cardinality(found.visited) < HashSlots

OtherReferences ==
  UNION {Entries(RootReferences(world.threads[t], 0)) :
           t \in (1 .. Len(world.threads)) \ {world.preferred}}

\* The pages within n references of some roots: a reference definition that
\* knows no order, no cap and no tables.
Within(roots) ==
  LET within[n \in 1 .. kIndirectMaxScanLayers] ==
        IF n = 1 THEN UNION {Targets(ref) : ref \in roots}
        ELSE within[n - 1] \cup
               UNION {UNION {Targets(ref) : ref \in Entries(PageReferences(page, n))} :
                        page \in within[n - 1]}
  IN  within

\* As long as there is room, nothing is passed over: what the crash thread and
\* then the other threads refer to, and what every expanded page above the last
\* layer refers to, is captured or known.  And the crash thread comes first:
\* once a page is captured that lies out of its reach, its own references, and
\* those of the pages they lead to, are all covered
\* (CollectIndirectMemoryRanges, ExpandIndirectBfs).
ReferencesFollowed ==
  /\ Count < world.cap /\ Room /\ refs = <<>> =>
       /\ pc \in {"chain", "breadth", "others", "last", "done"} => AllCovered(CrashReferences)
       /\ pc \in {"breadth", "others", "last", "done"} => Followed(head - 1)
       /\ pc = "done" => head = Count + 1
       /\ pc \in {"last", "done"} => \A ref \in OtherReferences : Covered(ref)
  /\ pc \in {"others", "done"} /\ Room =>
       LET reach == Within(Entries(CrashReferences))
       IN  Captured \subseteq reach[kIndirectMaxScanLayers] \/
             /\ AllCovered(CrashReferences)
             /\ kIndirectMaxScanLayers > 1 =>
                  \A page \in Captured \cap reach[1] : AllCovered(PageReferences(page, 2))

\* No page is put on a layer above the one it can be reached on, by whichever
\* of the passes it was found: nothing is captured, or expanded, from further
\* away than kIndirectMaxScanLayers references (FollowIndirectChainDepthFirst,
\* ExpandIndirectBfs).
WithinReach ==
  pc \in {"others", "done"} /\ refs = <<>> =>
    LET within == Within(Entries(CrashReferences) \cup OtherReferences)
    IN  \A i \in 1 .. Count : found.pages[i].page \in within[found.pages[i].layer]
=============================================================================
