------------------------------- MODULE ListWalks -------------------------------
(***************************************************************************)
(* The lists that are walked more than once for one dump: the loader's     *)
(* list of modules, ntdll's ring of unloaded modules, the regions of the   *)
(* address space and the names in the thread plan.  One walk counts, and   *)
(* the space that it measures is laid out; later walks write.              *)
(*                                                                         *)
(* A loader list is a table of entries, each with the index of the entry   *)
(* its Flink leads to: 0 for the head or NULL, Lost for a Flink that       *)
(* cannot be read.  A corrupt list may lead back into itself.              *)
(***************************************************************************)
EXTENDS PrefixSums, SequencesExt, FiniteSetsExt

CONSTANTS
  kMaxModules, kMaxUnloadedModules, kMaxModuleNameBytes, kMaxCodeViewRecordBytes,
  kMaxThreadNameChars, kImageNameChars,
  ULONG32Size,     \* sizeof(ULONG32)
  WCHARSize,       \* sizeof(WCHAR), of the NUL of a string as well
  Alignment,       \* what Align4 rounds up to
  ModuleSize,      \* sizeof(MINIDUMP_MODULE)
  UnloadedHeader,  \* sizeof(INPROC_MINIDUMP_UNLOADED_MODULE_LIST)
  UnloadedSize,    \* sizeof(INPROC_MINIDUMP_UNLOADED_MODULE)
  NamesHeader,     \* sizeof(INPROC_MINIDUMP_THREAD_NAME_LIST)
  NameSize,        \* sizeof(INPROC_MINIDUMP_THREAD_NAME)
  InfoHeader,      \* sizeof(MINIDUMP_MEMORY_INFO_LIST)
  InfoSize         \* sizeof(MINIDUMP_MEMORY_INFO)

ASSUME WalkAssumption ==
  /\ {kMaxModules, kMaxUnloadedModules, kMaxModuleNameBytes, kMaxCodeViewRecordBytes,
      kMaxThreadNameChars, kImageNameChars, ModuleSize, UnloadedHeader, UnloadedSize,
      NamesHeader, NameSize, InfoHeader, InfoSize} \subseteq Nat
  /\ {WCHARSize, Alignment, ULONG32Size} \subseteq Nat \ {0}

Lost == -1

\* What is walked.
LoaderList ==
  [first   : Int,
   entries : Seq([header : BOOLEAN, chars : BOOLEAN, length : Nat, next : Int,
                  debug : Seq([kind : {"RSDS", "other", "unreadable"}, size : Nat])])]
UnloadRing == Seq([readable : BOOLEAN, base : BOOLEAN, chars : Nat])
ListStates == [modules : LoaderList, ring : UnloadRing, regions : Seq(Nat)]

Smaller(a, b) == IF a < b THEN a ELSE b
First(s, n) == SubSeq(s, 1, Smaller(n, Len(s)))
Up(size) == ((size + Alignment - 1) \div Alignment) * Alignment

\* The sum of the sizes of the entries before the i-th.
SumBefore(Size(_), entries, i) == Total([k \in 1 .. i - 1 |-> Size(entries[k])])
SumOf(Size(_), entries) == SumBefore(Size, entries, Len(entries) + 1)

\* A length, the characters, a NUL, and padding.
MinidumpStringSize(bytes) == Up(ULONG32Size + bytes + WCHARSize)

-----------------------------------------------------------------------------
(***************************************************************************)
(* Modules.                                                                *)
(***************************************************************************)

\* The entries a walk passes, at most limit of them.
Walk(list, limit) ==
  LET at[k \in 1 .. limit] ==
        LET from == IF k = 1 THEN list.first ELSE at[k - 1]
        IN  IF k = 1 \/ from \notin DOMAIN list.entries THEN from ELSE list.entries[from].next
      seen == {k \in 1 .. limit : \A j \in 1 .. k : at[j] \in DOMAIN list.entries}
  IN  [k \in 1 .. Cardinality(seen) |-> list.entries[at[k]]]

\* A name is clamped and cut to whole WCHARs, and is empty if its header or its
\* characters cannot be read.
SafeModuleNameLength(entry) ==
  IF entry.header /\ entry.chars
  THEN LET length == Smaller(entry.length, kMaxModuleNameBytes) IN (length \div WCHARSize) * WCHARSize
  ELSE 0

\* QueryModuleCodeViewRecord: the first RSDS record of the debug directory that
\* is whole and readable; 0 if there is none.  An unreadable directory entry ends
\* the search.
CodeViewSize(entry) ==
  LET debug == entry.debug
      lost  == SelectInSeq(debug, LAMBDA d : d.kind = "unreadable")
      read  == IF lost = 0 THEN debug ELSE First(debug, lost - 1)
      good  == SelectInSeq(read, LAMBDA d :
                 d.kind = "RSDS" /\ d.size >= ULONG32Size /\ d.size <= kMaxCodeViewRecordBytes)
  IN  IF good = 0 THEN 0 ELSE read[good].size

NameStorage(entry) == MinidumpStringSize(SafeModuleNameLength(entry))
RecordStorage(entry) == Up(CodeViewSize(entry))

\* The counting walk stops in front of an entry whose name header is lost.
CountModules(list) ==
  LET walked == Walk(list, kMaxModules)
      lost   == SelectInSeq(walked, LAMBDA entry : ~entry.header)
      seen   == IF lost = 0 THEN walked ELSE First(walked, lost - 1)
  IN  [count |-> Len(seen), names |-> SumOf(NameStorage, seen),
       records |-> SumOf(RecordStorage, seen)]

StringRva(rva, count) == rva + ULONG32Size + count * ModuleSize

\* Mutant: the records are taken to follow the descriptors.
CodeViewBaseAfterDescriptors(list, rva, count) == StringRva(rva, count)

\* ComputeModuleCodeViewBaseRva: the records follow the names of a walk.
CodeViewBase(list, rva, count) ==
  StringRva(rva, count) + SumOf(NameStorage, Walk(list, count))

\* Where the descriptors of another walk say that names and records are; 0
\* for no record, and a descriptor of zeros where the walk was too short.
ModuleDescriptors(list, rva, count, base) ==
  LET walked == Walk(list, count)
  IN  [i \in 1 .. count |->
         IF i > Len(walked) THEN [name |-> 0, record |-> 0]
         ELSE [name   |-> StringRva(rva, count) + SumBefore(NameStorage, walked, i),
               record |-> IF CodeViewSize(walked[i]) = 0 THEN 0
                          ELSE base + SumBefore(RecordStorage, walked, i)]]

\* The strings of a third walk, with empty ones up to the count.
ModuleStrings(list, count) ==
  LET walked == Walk(list, count)
  IN  [i \in 1 .. count |->
         IF i > Len(walked) THEN MinidumpStringSize(0) ELSE NameStorage(walked[i])]

\* The records of a fourth; a module without one takes no space.
ModuleRecords(list, count) ==
  LET walked == Walk(list, count)
  IN  [i \in 1 .. Len(walked) |-> RecordStorage(walked[i])]

-----------------------------------------------------------------------------
(***************************************************************************)
(* Unloaded modules, regions, thread names.                                *)
(***************************************************************************)

\* Populated slots among those that are looked at: GetUnloadEventTrace gives
\* none when the ring is missing or looks wrong.
UnloadedModules(ring) ==
  Kept(First(ring, kMaxUnloadedModules), {slot \in ToSet(ring) : slot.readable /\ slot.base})

UnloadedName(slot) == MinidumpStringSize(Smaller(slot.chars, kImageNameChars) * WCHARSize)

CountUnloadedModules(ring) ==
  LET valid == UnloadedModules(ring)
  IN  [count |-> Len(valid), names |-> SumOf(UnloadedName, valid)]

\* What a write pass over the ring emits.
UnloadedWalk(ring, count) == First(UnloadedModules(ring), count)

UnloadedStringRva(rva, count) == rva + UnloadedHeader + count * UnloadedSize

\* The regions up to one without a size or behind the one before it.
MemoryInfoRanges(regions) ==
  LET bad == SelectInSeq(regions, LAMBDA size : size = 0)
  IN  IF bad = 0 THEN Len(regions) ELSE bad - 1

\* CaptureThreadName: a name that is longer than the buffer is not captured.
CaptureThreadName(chars) == IF chars > kMaxThreadNameChars THEN 0 ELSE chars

ThreadNameStorage(chars) == MinidumpStringSize(chars * WCHARSize)
ThreadNames(plan) == Kept(plan, Nat \ {0})
=============================================================================
