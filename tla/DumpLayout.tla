------------------------------ MODULE DumpLayout ------------------------------
(***************************************************************************)
(* The layout of a dump file and its emission: WriteMiniDumpInprocImpl     *)
(* after the threads are frozen.  It adds up the streams whose size is     *)
(* fixed, admits optional memory and user streams under the hard size cap, *)
(* gives everything an offset on a 32-bit cursor, and then seeks to each   *)
(* offset and writes, skipping a stream whose memory faults.               *)
(*                                                                         *)
(* Which stacks are kept is decided by StackPolicy; all that is known of   *)
(* it here is that what it keeps fits (FitsCap).  Sizes are scaled.        *)
(***************************************************************************)
EXTENDS Integers, Sequences, FiniteSets, PrefixSums

CONSTANTS
  ThreadCount,      \* g_ThreadPlanCount
  HeaderSize,       \* sizeof(MINIDUMP_HEADER)
  DirectorySize,    \* sizeof(MINIDUMP_DIRECTORY)
  SizeOf,           \* storage of each stream of fixed size
  Descriptor,       \* sizeof(MINIDUMP_MEMORY_DESCRIPTOR), of either list
  ListHeader,       \* sizeof(ULONG32)
  List64Header,     \* 2 * sizeof(ULONG64)
  Page,             \* kIndirectMemoryRangeSize
  Alignment,        \* what Align4 rounds up to
  kMaxUserStreams,
  RvaModulus,       \* 2^32
  kSelectedDumpRvaLimit,
  IndirectCapacity, \* IndirectMemoryRangesCapacity()
  HardCaps,         \* hardMaxFileSize
  WantedSets,       \* optional streams a dump asks for, or has
  StackShapes,      \* stack sizes the policy may keep of each thread
  ProcLists,        \* process/thread-data ranges: their sizes
  DataLists,        \* data segments: their sizes
  FullLists,        \* committed regions of a full-memory dump: their sizes
  UserArrays,       \* the caller's UserStreamArray: buffer sizes, 0 for a null one
  MaxFaults         \* bound: streams that fault while they are written

VARIABLES
  full,       \* writeFullMemory
  hardMax,    \* hardMaxFileSize
  wanted,     \* the optional streams of this dump
  user,       \* g_UserStreams: buffer sizes
  pc,         \* where the call is
  used,       \* bytes admitted so far
  stacks,     \* per thread, the sizes of its primary and high window
  proc,       \* g_ProcThreadRanges
  procCount,  \* procThreadRangeCount
  data,       \* g_DataSegRanges
  includeData,\* includeDataSegs
  dataCount,  \* extraRangeCount
  regions,    \* g_FullMemoryRanges
  indirect,   \* indirectRangeCount
  included,   \* includedUserStreamCount
  streamCount,\* NumberOfStreams
  idx,        \* index of the emission
  position,   \* the file pointer
  last,       \* what the last emission wrote, and where
  faults      \* streams skipped so far

inputs == <<full, hardMax, wanted, user>>
memory == <<stacks, proc, procCount, data, includeData, dataCount, regions, indirect>>
admission == <<used, memory, included>>
emission == <<idx, position, last, faults>>
vars == <<inputs, pc, admission, streamCount, emission>>

Threads == 1 .. ThreadCount
Windows == [primary : Nat, aux : Nat]
Optional == {"CommentW", "UnloadedModules", "ThreadNames", "ThreadInfo", "MemoryInfo", "Exception"}

\* The streams, and the context records, in the order of the file.
Physical ==
  <<"SystemInfo", "MiscInfo", "CommentA", "CommentW", "ModuleList", "UnloadedModules",
    "ThreadList", "ThreadNames", "ThreadInfo", "MemoryInfo", "MemoryList", "Exception",
    "ThreadContexts">>

\* The order in which they are written, with the memory and the user's blobs.
Emitted ==
  <<"SystemInfo", "MiscInfo", "CommentW", "ModuleList", "UnloadedModules", "ThreadList",
    "ThreadNames", "ThreadInfo", "MemoryInfo", "MemoryList", "Exception", "ThreadContexts",
    "Memory", "UserStreams", "CommentA">>

Streams == {Physical[i] : i \in DOMAIN Physical}

\* Sizes are unsigned, and every cap, list and count is what it says; the cursor
\* has room for the largest selected-memory dump.
ASSUME LayoutAssumption ==
  /\ {ThreadCount, HeaderSize, DirectorySize, Descriptor, ListHeader, List64Header,
      kMaxUserStreams, kSelectedDumpRvaLimit, IndirectCapacity} \subseteq Nat
  /\ {Page, Alignment, RvaModulus} \subseteq Nat \ {0}
  /\ kSelectedDumpRvaLimit < RvaModulus
  /\ SizeOf \in [Streams \ {"MemoryList"} -> Nat]
  /\ HardCaps \subseteq Nat
  /\ WantedSets \subseteq SUBSET Optional
  /\ StackShapes \subseteq [Threads -> Windows]
  /\ ProcLists \cup DataLists \cup FullLists \cup UserArrays \subseteq Seq(Nat)

Present(stream) ==
  /\ stream \in Optional => stream \in wanted
  /\ stream = "UserStreams" => included > 0

Smaller(a, b) == IF a < b THEN a ELSE b
Up(size) == ((size + Alignment - 1) \div Alignment) * Alignment
First(s, n) == SubSeq(s, 1, Smaller(n, Len(s)))

\* Mutant: null entries are taken as streams.
SnapshotWithNulls(array) == First(array, kMaxUserStreams)

\* SnapshotUserStreams: null entries are skipped, the rest is capped.
SnapshotUserStreams(array) ==
  LET taken[i \in 0 .. Len(array)] ==
        IF i = 0 THEN <<>>
        ELSE IF array[i] # 0 /\ Len(taken[i - 1]) < kMaxUserStreams
             THEN Append(taken[i - 1], array[i])
             ELSE taken[i - 1]
  IN  taken[Len(array)]

Init ==
  /\ full \in BOOLEAN
  /\ hardMax \in HardCaps
  /\ wanted \in WantedSets
  /\ \E array \in UserArrays : user = SnapshotUserStreams(array)
  /\ pc = "memory"
  /\ used = 0
  /\ stacks = [t \in Threads |-> [primary |-> 0, aux |-> 0]]
  /\ proc = <<>> /\ procCount = 0
  /\ data = <<>> /\ includeData = FALSE /\ dataCount = 0
  /\ regions = <<>>
  /\ indirect = 0
  /\ included = 0
  /\ streamCount = 6 + Cardinality(wanted)
  /\ idx = 1
  /\ position = 0
  /\ last = [stream |-> "none", at |-> 0, size |-> 0]
  /\ faults = 0

Fail == pc' = "failed" /\ UNCHANGED <<inputs, admission, streamCount, emission>>

-----------------------------------------------------------------------------
(***************************************************************************)
(* Admission under the cap.                                                *)
(***************************************************************************)

\* The size of a stream whose size no budget decides, 0 if the dump lacks it;
\* those of the thread and memory infos are worked out even then.
FixedStorage(stream) ==
  IF stream = "MemoryList" \/ (stream \in Optional \ (wanted \cup {"ThreadInfo", "MemoryInfo"}))
  THEN 0
  ELSE SizeOf[stream]

DirectoryEnd == HeaderSize + streamCount * DirectorySize

\* Mutant: streams that are there only now and then are not charged.
FixedSizeWithoutOptional ==
  DirectoryEnd + Total([i \in DOMAIN Physical |->
                          IF Physical[i] \in Optional THEN 0 ELSE FixedStorage(Physical[i])])

\* fixedSize, before user streams join the directory.
FixedSize == DirectoryEnd + Total([i \in DOMAIN Physical |-> FixedStorage(Physical[i])])

\* Mutant: only the caller's cap counts.
CapUnlimited == hardMax

\* The 32-bit offsets of a selected-memory dump limit it further.
Cap == IF full THEN hardMax ELSE Smaller(hardMax, kSelectedDumpRvaLimit)

\* Bytes of some ranges with their descriptors.
RangesCost(sizes) == Total(sizes) + Len(sizes) * Descriptor

\* CaptureFullMemoryRanges: every committed region, or ERROR_INSUFFICIENT_BUFFER
\* when they do not all fit into the plan.
CaptureFull ==
  /\ pc = "memory" /\ full
  /\ \E list \in FullLists :
       /\ regions' = list
       /\ used' = FixedSize + List64Header + RangesCost(list)
  /\ pc' = "user"
  /\ UNCHANGED <<inputs, stacks, proc, procCount, data, includeData, dataCount,
                 indirect, included, streamCount, emission>>

CaptureFullFails == pc = "memory" /\ full /\ Fail

\* What the stacks of a shape take, as CountStackMemoryRanges adds it up.
WindowCost(size) == IF size = 0 THEN 0 ELSE size + Descriptor
StackCost(shape) ==
  Total([t \in Threads |-> WindowCost(shape[t].primary) + WindowCost(shape[t].aux)])

\* ApplyThreadStackCapturePolicy keeps what fits, or fails.
AdmitStacks ==
  /\ pc = "memory" /\ ~full
  /\ \E shape \in StackShapes :
       /\ stacks' = shape
       /\ used' = FixedSize + ListHeader + StackCost(shape)
  /\ used' <= Cap
  /\ pc' = "proc"
  /\ UNCHANGED <<inputs, proc, procCount, data, includeData, dataCount, regions,
                 indirect, included, streamCount, emission>>

StackPolicyFails == pc = "memory" /\ ~full /\ Fail

\* Process and thread data, if asked for, all or nothing.
AdmitProc ==
  /\ pc = "proc"
  /\ \E list \in ProcLists :
       LET fits == used + RangesCost(list) <= Cap
       IN  /\ proc' = list
           /\ procCount' = IF fits THEN Len(list) ELSE 0
           /\ used' = IF fits THEN used + RangesCost(list) ELSE used
  /\ pc' = "data"
  /\ UNCHANGED <<inputs, stacks, data, includeData, dataCount, regions, indirect,
                 included, streamCount, emission>>

\* Mutant: the flag of dropped data segments stays set.
AdmitDataKeepsFlag ==
  /\ pc = "data"
  /\ \E list \in DataLists :
       LET fits == used + RangesCost(list) <= Cap
       IN  /\ data' = list
           /\ includeData' = (list # <<>>)
           /\ dataCount' = IF fits THEN Len(list) ELSE 0
           /\ used' = IF fits THEN used + RangesCost(list) ELSE used
  /\ pc' = "user"
  /\ UNCHANGED <<inputs, stacks, proc, procCount, regions, indirect, included,
                 streamCount, emission>>

\* Data segments, if asked for, all or nothing.
AdmitData ==
  /\ pc = "data"
  /\ \E list \in DataLists :
       LET fits == used + RangesCost(list) <= Cap
       IN  /\ data' = list
           /\ includeData' = (list # <<>> /\ fits)
           /\ dataCount' = IF fits THEN Len(list) ELSE 0
           /\ used' = IF fits THEN used + RangesCost(list) ELSE used
  /\ pc' = "user"
  /\ UNCHANGED <<inputs, stacks, proc, procCount, regions, indirect, included,
                 streamCount, emission>>

\* Mutant: the padding behind a user stream is not charged.
UserCostUnpadded(size) == DirectorySize + size

UserCost(size) == DirectorySize + Up(size)

\* User streams, in array order until one does not fit.
AdmitUser ==
  /\ pc = "user"
  /\ included < Len(user)
  /\ used + UserCost(user[included + 1]) <= Cap
  /\ used' = used + UserCost(user[included + 1])
  /\ included' = included + 1
  /\ UNCHANGED <<inputs, pc, memory, streamCount, emission>>

UsersDone ==
  /\ pc = "user"
  /\ included < Len(user) => used + UserCost(user[included + 1]) > Cap
  /\ pc' = IF full THEN "layout" ELSE "indirect"
  /\ UNCHANGED <<inputs, admission, streamCount, emission>>

\* Indirect pages, as many as are found, as the table holds and as still fit.
AdmitIndirect ==
  /\ pc = "indirect"
  /\ \E found \in 0 .. Smaller(IndirectCapacity, (Cap - used) \div (Descriptor + Page)) :
       indirect' = found
  /\ pc' = "layout"
  /\ UNCHANGED <<inputs, used, stacks, proc, procCount, data, includeData, dataCount,
                 regions, included, streamCount, emission>>

-----------------------------------------------------------------------------
(***************************************************************************)
(* Offsets.                                                                *)
(***************************************************************************)

\* Stack ranges, in plan order, primary before high window.
Window(what, t, size) == IF size = 0 THEN <<>> ELSE <<[of |-> <<what, t>>, size |-> size]>>
StackRanges ==
  LET upTo[t \in 0 .. ThreadCount] ==
        IF t = 0 THEN <<>>
        ELSE upTo[t - 1] \o Window("stack", t, stacks[t].primary)
                         \o Window("aux", t, stacks[t].aux)
  IN  upTo[ThreadCount]

Named(what, sizes) == [i \in 1 .. Len(sizes) |-> [of |-> <<what, i>>, size |-> sizes[i]]]
Pages == [i \in 1 .. indirect |-> [of |-> <<"indirect", i>>, size |-> Page]]

\* The ranges WriteSelectedMemoryDescriptors or WriteMemoryDescriptors describes.
Described ==
  IF full THEN Named("region", regions)
  ELSE StackRanges \o Named("proc", First(proc, procCount))
                   \o Named("data", First(data, dataCount)) \o Pages

\* The ranges WriteSelectedMemoryBytes or WriteMemoryBytes writes.
Backed ==
  IF full THEN Named("region", regions)
  ELSE StackRanges \o Named("proc", First(proc, procCount))
                   \o (IF includeData THEN Named("data", data) ELSE <<>>) \o Pages

SizesOf(ranges) == [i \in 1 .. Len(ranges) |-> ranges[i].size]

MemoryListSize ==
  (IF full THEN List64Header ELSE ListHeader) + Len(Described) * Descriptor

Storage(stream) == IF stream = "MemoryList" THEN MemoryListSize ELSE FixedStorage(stream)

\* The offset of a thread's stack that WriteThreadList adds up by itself.
ThreadListRva(base, t) ==
  base + PrefixSums([s \in Threads |-> stacks[s].primary + stacks[s].aux])[t - 1]

\* nextRva after i streams of the file, before it is cut to 32 bits.
Cursor(i) ==
  DirectoryEnd
    + PrefixSums([k \in DOMAIN Physical |->
                    IF Present(Physical[k]) THEN Storage(Physical[k]) ELSE 0])[i]

Place(stream) == CHOOSE i \in DOMAIN Physical : Physical[i] = stream
Before(stream) == Cursor(Place(stream) - 1)

\* nextRva after i user streams.
UserCursor(i) == Cursor(Len(Physical)) + PrefixSums([k \in DOMAIN user |-> Up(user[k])])[i]

Wrap(offset) == offset % RvaModulus

Rva(stream) ==
  CASE stream = "UserStreams" -> Wrap(UserCursor(0))
    [] stream = "Memory"      -> Wrap(UserCursor(included))
    [] OTHER                  -> Wrap(Before(stream))

MemoryBytes == Total(SizesOf(Described))

\* User streams join the directory, and every offset is fixed.
Layout ==
  /\ pc = "layout"
  /\ streamCount' = streamCount + included
  /\ pc' = "guard"
  /\ UNCHANGED <<inputs, admission, emission>>

\* The last checks: a full-memory dump that is too large, a stream whose size
\* does not fit its 32-bit field, or a selected-memory dump whose end does not
\* fit, is ERROR_FILE_TOO_LARGE.
TooLarge ==
  \/ full /\ used > hardMax
  \/ \E stream \in {"ThreadContexts", "ThreadInfo", "MemoryInfo", "MemoryList"} :
       Storage(stream) >= RvaModulus
  \/ /\ ~full
     /\ LET end == Rva("Memory") + MemoryBytes
        IN  end >= RvaModulus \/ end > hardMax

GuardRefuses == pc = "guard" /\ TooLarge /\ Fail

\* The header and the directory are written; the file pointer follows them.
WriteDirectory ==
  /\ pc = "guard"
  /\ ~TooLarge
  /\ position' = DirectoryEnd
  /\ pc' = "emit"
  /\ UNCHANGED <<inputs, admission, streamCount, idx, last, faults>>

-----------------------------------------------------------------------------
(***************************************************************************)
(* Emission.                                                               *)
(***************************************************************************)

\* The i-th stream of the order is the next one this dump has.
Due(i) == Present(Emitted[i]) /\ \A k \in idx .. i - 1 : ~Present(Emitted[k])

Extent(stream) ==
  CASE stream = "Memory"      -> Total(SizesOf(Backed))
    [] stream = "UserStreams" -> PrefixSums([k \in DOMAIN user |-> Up(user[k])])[included]
    [] OTHER                  -> Storage(stream)

\* Mutant: a stream is written where the one before it ended.
SeekNowhere(stream) == position

\* SetFilePointerEx to the offset laid out for the stream.
Seek(stream) == Rva(stream)

Emit ==
  /\ pc = "emit"
  /\ \E i \in idx .. Len(Emitted) :
       LET stream == Emitted[i]
       IN  /\ Due(i)
           /\ last' = [stream |-> stream, at |-> Seek(stream), size |-> Extent(stream)]
           /\ position' = Seek(stream) + Extent(stream)
           /\ idx' = i + 1
  /\ UNCHANGED <<inputs, pc, admission, streamCount, faults>>

\* Memory faults under the stream's guard, before or after something was
\* written, or its content fails its own check: the stream is skipped.
EmitSkips ==
  /\ pc = "emit"
  /\ faults < MaxFaults
  /\ \E i \in idx .. Len(Emitted) :
       LET stream == Emitted[i]
       IN  /\ Due(i)
           /\ \E part \in {0, Extent(stream) \div 2} : position' = Seek(stream) + part
           /\ idx' = i + 1
  /\ faults' = faults + 1
  /\ UNCHANGED <<inputs, pc, admission, streamCount, last>>

\* A write fails: nothing further is written.
EmitFails ==
  /\ pc = "emit"
  /\ \E i \in idx .. Len(Emitted) : Due(i)
  /\ Fail

EmitDone ==
  /\ pc = "emit"
  /\ \A i \in idx .. Len(Emitted) : ~Present(Emitted[i])
  /\ pc' = "done"
  /\ UNCHANGED <<inputs, admission, streamCount, emission>>

Next ==
  \/ CaptureFull \/ CaptureFullFails
  \/ AdmitStacks \/ StackPolicyFails \/ AdmitProc \/ AdmitData
  \/ AdmitUser \/ UsersDone \/ AdmitIndirect
  \/ Layout \/ GuardRefuses \/ WriteDirectory
  \/ Emit \/ EmitSkips \/ EmitFails \/ EmitDone

Spec == Init /\ [][Next]_vars

-----------------------------------------------------------------------------
(***************************************************************************)
(* Properties.                                                             *)
(***************************************************************************)

TypeOK ==
  /\ full \in BOOLEAN /\ hardMax \in HardCaps /\ wanted \subseteq Optional
  /\ user \in Seq(Nat \ {0})
  /\ pc \in {"memory", "proc", "data", "user", "indirect", "layout", "guard", "emit",
              "done", "failed"}
  /\ {used, indirect, faults, position} \subseteq Nat
  /\ stacks \in [Threads -> Windows]
  /\ {proc, data, regions} \subseteq Seq(Nat)
  /\ procCount \in 0 .. Len(proc) /\ dataCount \in 0 .. Len(data)
  /\ includeData \in BOOLEAN
  /\ included \in 0 .. Len(user)
  /\ streamCount \in Nat
  /\ idx \in 1 .. Len(Emitted) + 1
  /\ last \in [stream : {"none"} \cup {Emitted[i] : i \in DOMAIN Emitted}, at : Nat, size : Nat]

LaidOut == pc \in {"emit", "done"}

\* Every byte of the layout was charged.
WithinCap == UserCursor(included) + MemoryBytes <= hardMax

\* The entries put into the directory are as many as the header says.
DirectoryEntries ==
  Cardinality({s \in Streams \ {"ThreadContexts"} : Present(s)}) + included

\* What is written ends within the cap the caller set, in either kind of dump
\* (minidump_inproc.h:40, "production hard cap (in bytes) on the produced dump"),
\* and the directory array has room for as many entries as the header announces
\* (minidump_inproc.cpp:117-119).
FileFits ==
  LaidOut =>
    /\ WithinCap
    /\ DirectoryEntries = streamCount
    /\ DirectoryEntries <= 12 + kMaxUserStreams

\* No offset of a selected-memory dump, down to the last described byte, lost
\* its upper half to the 32-bit cursor (minidump_inproc.cpp:408-411).
OffsetsExact ==
  LaidOut /\ ~full =>
    /\ \A stream \in Streams : Present(stream) => Rva(stream) = Before(stream)
    /\ Rva("Memory") = UserCursor(included)
    /\ Rva("Memory") + MemoryBytes < RvaModulus

\* Three loops give a stack its place in the file: the descriptors, the bytes,
\* and the offset in the ThreadList.  They agree, whatever was left out, so that
\* each descriptor points at the bytes of its range
\* (minidump_inproc_memory.cpp:1023, "in descriptor order").
DescriptorsMatchBytes ==
  LaidOut =>
    /\ Described = Backed
    /\ \A i \in DOMAIN Described : \A t \in Threads :
         Described[i].of = <<"stack", t>> /\ ~full =>
           ThreadListRva(Rva("Memory"), t) = Rva("Memory") + PrefixSums(SizesOf(Backed))[i - 1]

\* The admission leaves nothing for the last size check of a selected-memory
\* dump to find: no dump that was admitted is thrown away there
\* (minidump_inproc.cpp:406-421).
AdmittedIsWritten ==
  [][pc = "guard" /\ ~full => pc' = "emit"]_vars

\* Whatever was skipped before it, each stream lands on the bytes its directory
\* entry describes, and reaches into no other (minidump_inproc.cpp:371-375,
\* "a skipped/faulting stream cannot shift any other stream's position").
StreamsInPlace ==
  LET next == CASE last.stream = "Memory"      -> Wrap(UserCursor(included)) + MemoryBytes
                [] last.stream = "UserStreams" -> Rva("Memory")
                [] OTHER                      -> Cursor(Place(last.stream))
  IN  pc = "emit" /\ last.stream # "none" /\ (full => UserCursor(included) < RvaModulus) =>
        last.at = Rva(last.stream) /\ last.at + last.size = next

=============================================================================
