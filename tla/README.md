# A TLA+ model of the in-process minidump writer

The library writes a Windows minidump of its own process from inside a crash
handler: no heap, no loader lock, no second process.  It freezes the other
threads, lays the file out under a hard size limit, writes stream after stream
with every risky read guarded, thaws the threads and returns.  This directory
holds TLA+ models of it, TLC runs and TLAPS proofs.  Source paths below are
relative to the repository: `main` is `src/minidump_inproc.cpp`, `thr`
`src/minidump_inproc_threads.cpp`, `mem` `src/minidump_inproc_memory.cpp`, `str`
`src/minidump_inproc_streams.cpp`, `util` `src/minidump_inproc_util.cpp`, `mod`
`src/minidump_inproc_modules.cpp`, `int` `src/minidump_inproc_internal.h`, `hdr`
`include/minidump_inproc.h`.

## 1. Inventory

| Component | State | Operations | Interacts with |
|---|---|---|---|
| Init-once globals (util 52-124, int 565-613) | `g_Protected`: API table, SYSTEM_INFO, InitStatus, two mutex handles, CRC; page protection | `ResolveInprocApis`, `ProtectInitGlobals`, `IsProtectedGlobalsIntact` | the load-time constructor, every caller, the head of the dump call |
| Dump session (main 16-65, 650-701; thr 86-398) | DumpMutex, `g_ThreadPlan`, `g_ThreadPlanCount`; kernel suspend counts and handles | `WriteMiniDumpInproc`, `BuildThreadPlanAndFreeze`, `ResumeThreadPlan` | all threads of the process, TerminateThread, vectored handlers |
| Stack policy (thr 642-928) | windows and IncludeStack of plan entries, remaining budget | `ApplyThreadStackCapturePolicy`, `CountStackMemoryRanges` | plan, layout |
| Layout and budget (main 107-425) | sizes, counts, flags, the 32-bit cursor | admission of each kind of memory, offsets, size checks | stack policy, range capture, user streams, emission |
| Emission (main 426-624, mem 892-1139) | file pointer, directory | one guarded write per stream | file, frozen memory |
| Range capture (mem 10-137, 694-885) | fixed arrays of ranges | full memory, memory info, data segments, process/thread data | address space |
| Indirect scan (mem 142-685) | page array, visited table, known ranges, region cache | seed, depth-first reservation, breadth-first expansion | plan windows, budget |
| Comment stream W (str 211-728) | text, length, CRC, CommentMutex | `SetMiniDumpInprocComment*`, `CommentIniApply`, `WriteCommentStreamW` | setter threads, the dump (without the mutex) |
| Comment stream A (str 480-640, main 721-774) | fixed buffer with a reserved field | build, patch, write last | layout |
| Modules, unloaded modules (mod) | none of their own | count, then write | loader list, ntdll ring |
| Thread streams, system and exception streams (thr 428-638, str 797) | none | copy from the plan or the probe | plan |
| Utilities (util) | none | guarded copies, WriteAll, CRC, truncation | everywhere |
| Examples and tools (`examples/`) | a dump thread and two events in the stress test | handshake with a 120 s timeout | the API |

**Where it is hard.**  Threads race to initialize and to dump; any read may
fault, at any point between freezing and thawing; the writer may be terminated
or re-entered; the snapshot of threads is stale when it is used; tables and
budgets run full; three passes over the same plan must agree; setters are
frozen in the middle of an edit.  `PROJECT.json` lists each hazard at its line,
with the properties that cover it or the reason why none does.

**What makes each component correct.**  Globals: populated once, never changed
once published, an early dump refused as *not ready*.  Session: one writer,
never frozen by itself, everyone else frozen during the write pass, and nothing
left suspended, open or locked on any way out.  Stack policy: windows inside
their stacks, the cap kept, the crash frame and the order of priority kept.
Layout: what is charged is what is laid out, offsets exact, each descriptor on
its bytes.  Emission: a skipped stream moves nothing.  Indirect scan: no table
overflows, no page twice, no reachable page lost while there is room.
Comments: the text is the setters' map, call by call, and a text nobody was
changing is in the dump whole.  Lists walked more than once: whatever changes
between two walks, every stream ends up in its place.

## 2. Modules

| Module | Models | State and actions against the code |
|---|---|---|
| `InprocInit` | init-once globals and the guards of the dump call | one action per step of `ResolveInprocApis`; `CallWrite` and `Guard` are the two moments at which a dump call reads the globals |
| `DumpSession` | one or more concurrent dump calls | `pc[t]` is where thread `t` is in the call; each system call and each loop iteration of the plan is an action; `Run`, `Spawn`, `Exit`, `Kill` are the rest of the process |
| `StopTheWorld` | abstract: what a call promises to the process | one writer, the set of threads it holds |
| `MCDumpSession` | the refinement mapping | writer = owner of the DumpMutex, frozen = suspend count above 0 |
| `DumpSession_proofs` | theorems about `DumpSession` | section 5 |
| `StackPolicy` | which stack bytes are kept | one action per plan entry and per admission step |
| `StackPolicy_proofs` | theorems about `StackPolicy` | section 5 |
| `DumpLayout` | admission, offsets, emission | one action per kind of memory, per user stream, per emitted stream |
| `PrefixSums` | the loops over lists | `PrefixSums(sizes)` for every loop that adds sizes up, `Kept(list, wanted)` for every one that passes entries over |
| `MCDumpLayout` | values of the constants of `DumpLayout` | |
| `DumpLayout_proofs`, `PrefixSums_proofs` | theorems about `DumpLayout`, lemmas about running totals | section 5 |
| `StackPriority_proofs`, `InprocInit_proofs` | theorems about `StackPolicy` and `InprocInit` | section 5 |
| `IndirectScan` | process and thread data, data segments, known ranges, indirect pages | `pc` and `idx` are the step and its loop index; `frames` is the stack of `FollowIndirectChainDepthFirst`; one action per candidate range, per word scanned and per page expanded |
| `MCIndirectScan` | its worlds: processes with two threads and four heap pages | |
| `IndirectScan_proofs` | theorems about `IndirectScan` | section 5 |
| `CommentIni` | `CommentIniApply` and the conversions before it, as operators | the text is a sequence of lines, each with the WCHARs it takes |
| `CommentBuffer` | the threads that call `SetMiniDumpInprocCommentW` and `-A` | one action per step: wait, verify, splice (begin and end), CRC, release; `Kill` ends a thread anywhere |
| `CommentMap` | abstract: a map from section and key to values | what each call promises |
| `ListWalks` | the walks of the loader list, the unloaded ring, the thread names and the regions, as operators | one per loop of the code, so that two walks of one list can differ |
| `StreamPasses` | the write pass over what was measured before, composed with `CommentBuffer` and `ListWalks` | `stage` is the next step of the dump; `Disturb` changes a list between two walks; `CommentMap` is implemented by the whole |
| `MCStreamPasses` | its worlds: call sequences, races, lists | |
| `StreamPasses_proofs` | theorems about `StreamPasses`, `CommentBuffer` and `ListWalks` | section 5 |

`StackPolicy` and `DumpLayout` take from each other what the code passes: the
first works on entries that are distinct (`PlanComplete` of `DumpSession`), the
second on stack sizes that fit (`FitsCap` of `StackPolicy`).  They are not
composed into one state machine: nothing else flows between them.

### Abstractions a reader should know

*DumpSession.*  `intact`, the answer of the integrity check, is chosen at the
start; `InprocInit` shows which answer this commit gives, and the other steps
are modelled for both.  Parameter checks before the mutex (main 657-674), return
codes and last errors are left out.  `SuspendThread` fails on an ended thread
or at the kernel's limit of suspensions.  Thread ids are not reused.  The order
of the kernel's snapshot is not specified, so what the clamp keeps is any
subset of the right size.  Entries beyond `g_ThreadPlanCount` are never read
before they are cleared, so the model forgets them.  Re-entry is modelled from
the write pass only, one level deep.  A thread born after the snapshot is not
in the plan and runs on, as in the code.

*StackPolicy.*  Stack pointers and the outcome of `FindMainThreadId` are input.
A page is 2, a descriptor 1, the 1 MB limits 8 and the 512 KB ones 4.

*IndirectScan.*  Addresses count words, not bytes; a page is four words.  All
other threads are frozen while it runs, so a run is determined by the world (the
regions, the plan, what was asked for), the memory and what an earlier dump left
in the static tables.  Whether a region is dumpable is input.  The hash of the
visited table is a set with a size: which slot a page takes does not matter, that
the table is full does.  A word that cannot be read is 0, which refers to nothing.

*CommentIni, CommentBuffer.*  Names are opaque and have a length; a name that
contains `=` or begins with `[` is not modelled (section 4).  Characters that
matter are modelled: the separator, carriage return, line feed, and surrogates
for the ANSI functions.  While a splice runs, `whole` says how many leading
WCHARs are still those of `text`; what lies behind them is not known, so a check
of the CRC that covers it fails, and one that does not may go either way, and a
length read from it may be anything.  A setter is frozen by a dump anywhere.  All
setters alive are planned and suspended (PlanComplete and FrozenStandsStill of
`DumpSession`).  A missing CommentMutex occurs only in worlds without a dump,
which is refused anyhow when initialization did not end.

*StreamPasses.*  The file is the sequence of the extents written; what is in a
byte is decided by the last one over it.  Streams written from the frozen plan by
one loop (ThreadList, ThreadInfo, contexts) are one extent.  A list is disturbed
at most once between the count and its last walk, to any of the later states of
the world; a loader list may break off, lead back into itself, or become
unreadable.

*DumpLayout.*  The contents of a stream are one extent.  What the code adds up
in loops, the cost of ranges, the offsets and the space of user streams, are
prefix sums over the lists of sizes.  A 32-bit offset is one modulo 64 in the
run, and modulo any `RvaModulus` in the proofs.  The bytes of a skipped stream
are whatever had been written before the fault.

## 3. Runs

| Run | Bounds | Shows |
|---|---|---|
| `init` | 3 threads, 2 calls each | one initializer, published means final, nobody returns early or spins for ever, early dumps get ERROR_NOT_READY |
| `init_crc` (violation) | 1 thread | the CRC covers a status that changes after it was computed |
| `init_again` (violation) | 2 threads | a call after the page became read-only faults |
| `session` | 3 threads: two that crash, one that starts late and may be killed; plan of 2 | everything about a call except abandonment and re-entry; refinement of `StopTheWorld`; liveness |
| `session_hostile` | the same, the writer may be killed too and faults re-enter | one writer and no self-suspension even then |
| `session_abandoned` (violation) | as `session`, writer killed | the DumpMutex is kept for ever by a caller that was told "busy" |
| `session_reentry` (violation) | as `session`, re-entry | threads frozen by the outer call stay frozen |
| `stacks` | 3 threads; 4 stack sizes, 3 pointers each; 8 caps | cut, trim and admit at every boundary |
| `stacks_base` (violation) | 1 thread | the base of a stack slightly over the overflow threshold is lost |
| `layout` | 2 threads, 4 sets of optional streams, 4 caps, up to 3 user streams, 1 fault | charged = laid out = written, in both kinds of dump |
| `indirect` | 4 plans of threads, 4 caps, 2 leftovers, 1080 memories of four heap pages | four limits, straddling pointers, two passes: nothing twice, nothing lost while there is room, nothing from too far away |
| `streams` | call sequences of up to 3, two racing threads with a dump and one termination, 36 pairs of lists as counted and as they are later | the comment text is the map that calls promise; every stream keeps its place; nobody waits for ever |

**Why the bounds are enough.**  In `session` the plan has room for fewer threads
than live, so clamping, eviction and the writer's own slot all occur; two
crashers give every order of lock, fault and release; the third thread is at
various times unborn, missed by the snapshot, frozen, and terminated while
frozen.  The same formulas were checked with four threads and a plan of three,
and the proofs need no bound.  In `stacks` the sizes lie below, at and above
each limit in whole pages (page 2, limits 4 and 8, stacks 2, 4 and 10) and the
caps leave nothing, part of a page, one page, one window and everything.  In
`layout` the caps refuse fixed streams, refuse some kinds of memory, reach the
32-bit limit and exceed it; three entries in the caller's array exceed the two
user streams allowed.  In `indirect` the caps stop the scan before, in
and after the crash thread's phase, the known table is smaller than all ranges
together, the visited table is smaller than the pages that can be reached, the
reserve of a seed is smaller than its chain, and every depth up to one beyond the
layer limit occurs.  In `streams` the buffer holds two entries and refuses a
third, the texts touch every place a splice can be in (first, middle and last
line, new section, empty value), two setters and a dump interleave at every
step, and the lists lie below, at and above the table sizes.  `MaxKills`
(CommentBuffer: one thread; only one with calls left or the mutex, since the end
of any other changes nothing), `MaxCalls` (InprocInit), `MaxHandles`, `MaxSuspend`
(DumpSession: kernel quotas) and `MaxFaults` (DumpLayout) are the bounds on
counters.

**Deadlock.**  `CHECK_DEADLOCK FALSE` stands where the system may really stop:
`stacks`, `layout` and `indirect` end when the function returns, `streams` when
all calls are made and the dump is written, the `init` runs when all
calls are used up and a thread has faulted, the `session` runs when every thread
of the process has ended.

**Fairness.**  `DumpSession!FairSpec` has weak fairness on each writer's own
steps: a running thread is scheduled, and its only wait has a zero timeout.
Nothing is assumed of the application, of faults or of terminations.
`InprocInit!Spec` has weak fairness on each thread inside `ResolveInprocApis`;
a thread that spins is running, and the initializer never blocks.
`StreamPasses!Spec` has weak fairness on each setter inside a call and on the
dump once it has begun.  A setter that waits for the mutex is not enabled while
another one owns it, so this says only that a thread that may run does; that its
turn comes (`SettersReturn`) is because each owner releases and has finitely many calls.  Nothing is assumed
of terminations, of the begin of a dump or of changes of lists.

## 4. What the runs found

* `init_crc`: `SetProtectedGlobalsCrc` (util 109) hashes InitStatus too, and
  line 110 then changes it.  The check at the head of the dump never holds, so
  as the code stands every dump ends with ERROR_INVALID_DATA.
* `init_again`: the compare-exchange at util 59 writes to a read-only page.
* `session_abandoned`: main 681 takes WAIT_ABANDONED for a failure and keeps
  the mutex.
* `session_reentry`: the recursive mutex lets the writing thread in again.
* `stacks_base`: thr 748 drops the high window whole when the windows overlap.

Also met, without a run of their own: hdr 45-46 says the whole stack is kept up
to 2 MB, the code's threshold is 1 MB (int 177); int 1014 calls the limit soft
and 0 unlimited, the code raises it to 4 MB and refuses what exceeds it; a
full-memory dump has no check that keeps the 32-bit cursor from wrapping when
user streams alone exceed 4 GB (`OffsetsExact` is stated for selected-memory
dumps, `StreamsInPlace` for cursors that do not wrap); when exactly one page and
its descriptor remain, thr 767 gives up on trimming a larger stack, so that a
one-page stack of lower priority is taken instead (`PriorityRespected` allows
it).

Met while modelling indirect memory, comments and lists; the properties are
stated so that they hold, and each exception is named where it stands:

* str 658 takes WAIT_ABANDONED for a failure, although the comment above it says
  that "a corrupted process can never deadlock future setters".  The caller owns the mutex
  then and does not release it: setters on other threads wait for ever
  (`Forgotten`, which `SettersReturn` excuses).  It is the defect of
  `session_abandoned` once more.
* str 239 hands a length in WCHARs to a CRC over bytes, so only the first half of
  the text is covered, where int 637 promises the full buffer.  A text torn in
  its second half passes the check: a setter edits it further, a dump writes it.
* The comment is measured before the other threads are frozen (main 138-139).  A
  text that grows in between is cut to the old size without a NUL, and a setter
  frozen between splice and CRC costs the dump its comment (`CommentKept`).
* When the module list and the ring of unloaded modules both change after they
  were counted, bytes of a module list that overran its space stay in the stream
  of the unloaded modules (`StreamsKeepPlace` excludes just that).  When the walk
  of the module list breaks off early, offsets of CodeView records are computed
  as if the missing names took no space, so they point into padding.
* A page may reach the breadth-first pass with the depth at which the
  depth-first reservation found it, deeper than its shortest distance; pages up
  to the layer limit away can be missed, where mem 631 promises the "full
  transitive subtree" (`WithinReach` bounds distance from above only).  The
  per-seed reserve is "a HARD count-based budget ceiling" (mem 558, int 108-115); a
  straddling pointer takes one page more than it (`LimitsKept` allows one).
* The table of known ranges (5120) is smaller than the table of data segments
  alone (8192), and a range that overlaps a known one in part is dropped, so a
  page may be described twice: by a range that did not become known and as an
  indirect page.  Data segments are not compared with process and thread data
  either.  `DescribedOnce` speaks of known ranges and says which ones became so.
* README.md:110 of the repository says that setters use a light spin lock; the
  code uses a kernel mutex.  A key with `=` or a section with `[` in its name is
  accepted and never found again.

## 5. What is proved

`DumpSession_proofs` proves, for any number of threads, any capacity of two or
more, any kernel limits and any snapshot, in two parts:

- whichever threads are terminated, in the API too, and whatever fault re-enters
  it: type correctness, `OneWriter`, `WriterNotFrozen` and `FrozenStandsStill`.
  `PlanComplete` needs `~Reentrant`: a re-entered call resumes and empties the
  plan, and the call it interrupted goes on writing with that;
- under `Benign` (no fault re-enters the API, no thread that may call it is
  terminated): `NothingLeftBehind`, `MutexFreeWhenIdle`, `BusyMeansWriting`, and
  that `DumpSession` implements `StopTheWorld`.  The two violation runs show that
  the first two are false without it, which is what the two findings are.

**Argument, whatever happens.**  `Safe` says of ownership only that a thread in
the API owns the mutex at least as often as it will release it (`Exclusive`,
`Depth`): the kernel gives an abandoned mutex to the next one, and a re-entered
call counts twice.  The plan may be one that another call left: what remains
true of it is that it names no thread twice (`Distinct`) and claims no handle
and no suspension that is not there (`Recorded`), so that resuming it takes no
count below zero.  Nobody in the API is suspended (`NotFrozen`), because who
fills a plan has its own entry, and only that, marked as its own (`Marked`).
`Standing` adds what a live writer has achieved by each stage: the plan it fills
is its own, and what has been passed stays suspended because only the owner
resumes.  `PlacedSafely` is the lemma about placing an entry, at the end of the
plan or over a victim's, that all three ways of filling it cite.

**Argument, under `Benign`.**  `Locking` is inductive by itself: a thread is
inside the API exactly if it owns the mutex, once.  `IInv` adds: no thread twice
in the plan (`Distinct`), each entry describes what the kernel knows
(`Described`), only threads of the plan of the current writer are suspended or
have handles open (`Scoped`), and a handle or suspend count is one exactly for
an entry that says so (`HandlesCounted`, `SuspendCounted`), and what each stage
of the call has established so far (`Staged`).  The last two are needed because
"nothing is left behind" says nothing about the middle of a call, from which
`ResumeNext` has to get back to it one entry at a time.  Each action is treated
once, one conjunct per step.  TLC checked `IInv` as an invariant before it was
proved.

`StackPolicy_proofs` proves, for any number of threads, any stacks and stack
pointers, any page, descriptor and header size, any window limits and any cap:
type correctness, `WindowsInside`, `OverflowWhole`, `NothingWasted` and
`FitsCap`.  Its only assumptions are that the constants are numbers, and the
page, descriptor and window limits positive.

**Argument.**  `AlignDownBounds`, `ClipInside` and `HighInside` say what the
page arithmetic returns; `IncludePrimaryEffect` and `IncludeAuxEffect` what an
admission does to one entry and to the budget, and every step cites these
instead of the definitions.  `IInv` records which entries each stage has left
untouched (`Staged`), that only the exception thread has a second window
(`OneAux`), that a required whole stack stays whole once it is admitted
(`WholeKept`), and that whatever has been refused so far does not fit into what
remains (`Greedy`): the last is `NothingWasted` at every moment, and needs the
budget never to grow.  `FitsCap` compares what was taken from the budget with
what is counted later, two sums over the plan.  `Covered` states both through
one witness, the function of the charges' running totals: an admission moves
the totals from its entry on (`TotalsGrow`), the counting reads them off one by
one.

`StackPriority_proofs` adds `CrashFrameKept` and `PriorityRespected`.  Besides
the above it assumes that each window limit is at least a page
(`WindowsHoldPage`), without which a window might end before the pointer it was
cut at.  `Ordered` is inductive given `IInv`: it says what is left of the budget
when the turn of each priority thread comes (`LeftTold`), and that after it the
thread is whole, or had no room for a page, or nothing is left and nobody else
was admitted (`ExceptionFirst`, `MainNext`).  `WindowHoldsFrame` and `TrimHolds`
are the page arithmetic: a window begins in the page of its stack pointer, and
what a trim leaves is a page or more.

`InprocInit_proofs` proves, for any number of threads and calls, type
correctness, `PopulatedOnce`, `ReturnMeansReady` and `PublishedIsFinal`.  The
invariant ties the status to where the one initializer is (`StatusTells`): while
anybody is before the publication the status is INITIALIZING, so nobody can
claim, return or find the globals complete.  `Filled` says what each of its
steps has left behind.

`PrefixSums_proofs` holds what the next two need of recursion and induction.  The
library's induction theorems have a predicate parameter that the provers cannot
instantiate; `NatInduct` therefore speaks of a *set* of numbers, and follows from
`LeastNat`: a set of numbers that is not empty has a least element.  `Recursion`
says that a function with given first value and given step exists and is the only
one.  On these rest that `PrefixSums` is defined at all (`PrefixSumsDef`), grows
(`PrefixMonotone`), depends on no later entry (`PrefixAgree`) and is additive
(`PrefixConcat`).

`DumpLayout_proofs` proves, for any sizes, lists, caps, user streams and faults,
type correctness, `FileFits`, `OffsetsExact`, `DescriptorsMatchBytes`,
`StreamsInPlace` and `AdmittedIsWritten`.  Its assumption (`LayoutAssumption`) is
that sizes and lists hold numbers, that page, alignment and modulus are positive
and that the largest selected-memory dump is below the modulus.

**Argument.**  `IInv` holds types, a count of streams that agrees with what is
present (`StreamsCounted`), that what has not been admitted yet is empty
(`NothingYet`), that a set of data segments that was dropped is dropped in flag,
count and list (`DataFlag`), that the bytes admitted are the fixed streams, the
directory and the cost of what was admitted so far, kind by kind (`Accounting`),
within the cap of a selected-memory dump (`WithinBudget`), that the last checks
were passed once the layout is made (`GuardPassed`), and that the last stream was
written to its offset (`LastInPlace`).  Each property is then arithmetic
over prefix sums, resting on three lemmas.  `LaidOutIsCharged`: the end of the
laid-out file is what was charged, which links the order of admission to the
quite different order of the file.  `StackRangesDef`: the list of stack ranges
that one loop collects is, up to each thread, what another one counts.  `NoWrap`:
no offset of a selected-memory dump reaches the modulus.

`IndirectScan_proofs` proves, for any process, memory, leftovers and limits,
type correctness, `LimitsKept`, `DescribedOnce`, `WithinReach` and
`ReferencesFollowed`.  Its assumptions are those on
the constants, among them that the regions VirtualQuery reports are disjoint.
`IInv` is the conjunction of: the world is one of those assumed (`Dumped`), types,
which stage has something under way (`Phased`), the open frames lie one below the
other and within the reserve of their seed (`Walk`), the tables of ranges fit
(`Tables`), process ranges are disjoint (`ProcDisjoint`), each planned range so
far is known or was kept out for a reason (`KnownPlan`), and what the scan has
found is sound (`Sound`): within the cap and the hash table, every page taken is
in the visited table, none is there twice, none overlaps a known range.  `Sound`
is a predicate of the record `found` alone, so that one lemma about
`CollectIndirectPage` serves seeds, chains and expansions.

`WithinReach` is about paths through memory.  `Within(layer)`, the pages at most
so many references away, is a recursive function, defined by `Recursion` and
growing with its argument.  `Reached` is inductive given `IInv`: each page
taken, each reference still to be followed and each open frame carries a depth
within which its page is.

`ReferencesFollowed` says that nothing is lost while there is room, of which the
middle of a scan shows nothing: a seed is half followed, a page half expanded.
`Progress` therefore says that whatever has been taken up is *handled*, that is
covered by what was found or still on its way in `refs` or in a frame:
what the crash thread refers to, what the pages before `head` do, and what the
other threads do that had their turn.  A reference is only dropped when it is
covered (`CoverStep`), and only a table that is full ends that.  That the crash thread comes first is a second invariant,
`CrashOnly` and `CrashDone`: until the other threads' turn every page comes from
the crash thread, and then all that refer further have been expanded.

`StreamPasses_proofs` proves, for any set of setters, any calls, any lists and any
changes of them, and threads that end anywhere: type correctness, `CrcVouches` and
`WrittenInPlace` with its parts `CommentKept`, `StreamsKeepPlace` and
`DescriptorsPoint`.  Its assumptions are that sizes are numbers, that some of them are
positive, and that the worlds are made of calls and lists of the right shape
(`WorldsAssumption`); a list may be cyclic, broken or lost.

**Argument.**  `SetterInv` says that a thread between the wait and the release
owns the mutex (`InsideOwns`), hence is alone there (`Alone`); that the text fits,
and so does what a splice is about to leave (`TextFits`: it passed the check when it
began, and nobody else changed the text since); and `CrcVouches`.  What an edit
makes of a text of lines is `EditedDef`, `CutDef` and `KeyLineDef`; that a text is
found in as many leading WCHARs as it has, and one more, is `LeadingWhole`, which
is why a dump that writes the measured size has the whole text and its NUL.  The
dump leaves the setters' part alone (`StepKeeps`), and from the freeze on the
setters do nothing (`FrozenAll`), so that `CommentKept` is decided by the step that
writes the comment (`CommentWritten`).  The types of the write pass need that each
walk yields entries of the list (`WalkDef`), that counting and emitting return
sizes, and one fact that is not a type: the space for names that are given up does
not end before it begins (`NamesEndLater`), or the zeros for it would be of negative
length.

**Argument, of the places.**  A byte of a stream could come from another one in
two ways.  One that lies behind it never writes before its own offset; one that
lies before it may have overrun its space, but was written earlier, so that the
stream wins it back, provided it covers all its space.  A list that changed may not
cover its own; for the module list and the ring it takes that the stream before
them kept within its space.  `PlaceInv` is what of this is inductive: the extents
come in the order of the streams and none lies before its stream (`InOrder`), a
stream written in one step covers its space, and the comment ends before the
modules (`Filled`); and step by step, of a list that is as it was counted,
what has been written of it (`ModulesWritten`, `RingWritten`,
`ThreadNamesWritten`): which pieces, at which running totals of which sizes
(`Places`), how many bytes, and what the descriptors say.  That a counted walk is
the walk that is written, though the two have different limits, is `ModuleSpace`
and `RingSpace`; that the last total is the space the layout gave to the stream
then gives `DescriptorsPoint`, and with `PrefixCover` that the pieces leave no
gap.  `Appended` and `Adds` are all that these proofs use of the file: what a
sequence of extents adds to each quantity.  TLC checked the conjuncts of
`PlaceInv` on the `streams` run before they were proved.

**Only model-checked.**  `EventuallyThawed`, `CallReturns`, `ResolveEnds` and
`SettersReturn` (liveness is out of the prover's reach), and
`ImplementsCommentMap`, which compares an editor on sequences of lines with a map
from names to values.

## 6. Plan

Done: `InprocInit`, `DumpSession` with `StopTheWorld`, `StackPolicy`,
`DumpLayout`, `IndirectScan`, `StreamPasses` with `CommentBuffer`, `CommentIni`,
`CommentMap` and `ListWalks`, and the theorems of section 5, which state every
invariant of the passing runs.  Open, in this order:

1. that each edit of the comment text is a step of `CommentMap`, theorem by theorem
   as far as it does not take liveness;
2. runs of their own for what section 4 lists under "met while modelling": the
   abandoned CommentMutex and the half-covered CRC first;
3. `WriteRegionBytes` page by page, with a block that is unmapped between probe
   and write;
4. the handshake of the stress test with its 120 s timeout.

## 7. Not modelled

System, misc and exception streams and the text of comment stream A copy or
format facts without control flow worth a model.  How a region is judged
dumpable, and the VirtualQuery walks that find data segments and the regions of a
full dump, read a live address space, which is input here.  ThreadInfo and the
context records are straight loops over the frozen plan.  Time stamps, checksums,
versions and the bytes of CodeView records are data.
`examples/minidump_inspect.cpp` reads finished files,
`examples/windbg_show_overflow_stack.cpp` runs inside a debugger, the allocation
tracers and the heap test hook other code, the samples crash on purpose, the
stress test drives the library from outside, `examples/prov_csv_to_tree.py`
converts text.
