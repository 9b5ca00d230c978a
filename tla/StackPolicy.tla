----------------------------- MODULE StackPolicy -----------------------------
(***************************************************************************)
(* Which bytes of which thread stacks go into a selected-memory dump:      *)
(* ApplyThreadStackCapturePolicy cuts a window out of every stack of the   *)
(* thread plan and admits windows under the hard size cap in order of      *)
(* priority; CountStackMemoryRanges then counts what was admitted.         *)
(*                                                                         *)
(* Threads are positions in the thread plan, which holds each thread once  *)
(* (PlanComplete of DumpSession).  Addresses and sizes are in bytes of a   *)
(* scaled address space.                                                   *)
(***************************************************************************)
EXTENDS Integers

CONSTANTS
  ThreadCount,  \* g_ThreadPlanCount
  Page,         \* kIndirectMemoryRangeSize
  Descriptor,   \* sizeof(MINIDUMP_MEMORY_DESCRIPTOR)
  ListHeader,   \* sizeof(ULONG32), the count in front of the descriptors
  kMaxCapturedStackBytes,
  kStackOverflowFullStackThreshold,
  kStackOverflowLiveStackBytes,
  kStackOverflowHighStackBytes,
  Sizes,        \* stack sizes a thread may have; 0 is a stack that could not be read
  Offsets,      \* where in its stack a stack pointer may be
  Spacing,      \* distance between the stacks of two threads
  FixedSizes,   \* fixedDumpBytes: what the other streams take
  HardCaps      \* hardMaxFileSize

ASSUME SizesAssumption ==
  /\ ThreadCount \in Nat
  /\ Sizes \subseteq Nat /\ Offsets \subseteq Nat /\ Spacing \in Nat \ {0}
  /\ FixedSizes \subseteq Nat /\ HardCaps \subseteq Nat

ASSUME UnitsAssumption ==
  /\ Page \in Nat \ {0}
  /\ Descriptor \in Nat \ {0}
  /\ ListHeader \in Nat
  /\ kMaxCapturedStackBytes \in Nat \ {0}
  /\ kStackOverflowFullStackThreshold \in Nat
  /\ kStackOverflowLiveStackBytes \in Nat \ {0}
  /\ kStackOverflowHighStackBytes \in Nat \ {0}

\* A window that begins at the page of a stack pointer reaches beyond it.
ASSUME WindowsHoldPage ==
  /\ kMaxCapturedStackBytes >= Page
  /\ kStackOverflowLiveStackBytes >= Page

VARIABLES
  stack,      \* OriginalStackStart and OriginalStackSize of each thread
  sp,         \* its stack pointer, 0 when its context cannot be read
  exception,  \* position of the exception thread, 0 when it is not in the plan
  oldest,     \* position of the thread created first
  overflow,   \* is the exception code STATUS_STACK_OVERFLOW?
  fixed,      \* fixedDumpBytes
  hardMax,    \* hardMaxFileSize
  entry,      \* windows of each plan entry, and IncludeStack
  remaining,  \* bytes left under the cap
  pc,         \* the step the function is at
  idx,        \* its loop index
  rangeCount, \* CountStackMemoryRanges: ranges so far
  bytesCount  \* and their bytes

inputs == <<stack, sp, exception, oldest, overflow, fixed, hardMax>>
counts == <<rangeCount, bytesCount>>
vars == <<inputs, entry, remaining, pc, idx, counts>>

Positions == 1 .. ThreadCount

\* An address range; NoRange when there is nothing to describe.
NoRange == [start |-> 0, size |-> 0]

\* FindMainThreadId takes the oldest known CreateTime, or the first thread
\* when none is known; creation times are arbitrary, so it may be any thread.
Init ==
  /\ \E size \in [Positions -> Sizes] :
       stack = [t \in Positions |->
                  IF size[t] = 0 THEN NoRange
                  ELSE [start |-> t * Spacing, size |-> size[t]]]
  /\ \E offset \in [Positions -> Offsets \cup {-1}] :
       sp = [t \in Positions |->
               IF stack[t].size = 0 \/ offset[t] = -1 THEN 0
               ELSE stack[t].start + offset[t]]
  /\ exception \in {0} \cup Positions
  /\ oldest \in Positions
  /\ overflow \in BOOLEAN
  /\ fixed \in FixedSizes
  /\ hardMax \in HardCaps
  /\ entry = [t \in Positions |-> [primary |-> stack[t], include |-> FALSE, aux |-> NoRange]]
  /\ remaining = 0
  /\ pc = "enter"
  /\ idx = 1
  /\ rangeCount = 0
  /\ bytesCount = 0

Goto(label) == pc' = label /\ idx' = 1

-----------------------------------------------------------------------------
(***************************************************************************)
(* Windows.                                                                *)
(***************************************************************************)

End(range) == range.start + range.size

Overlap(r, s) == r.start < End(s) /\ s.start < End(r)

AlignDown(address) == address - (address % Page)

\* The later of two addresses, and the earlier.
Later(a, b) == IF a > b THEN a ELSE b
Earlier(a, b) == IF a < b THEN a ELSE b

\* Mutant: the window starts at the page after the stack pointer.
ClipStackWindowUp(whole, pointer, cap) ==
  LET live  == pointer >= whole.start /\ pointer < End(whole)
      start == IF live THEN AlignDown(pointer) + Page ELSE whole.start
      end   == Earlier(End(whole), start + cap)
  IN  IF whole.size = 0 \/ end <= start THEN NoRange
      ELSE [start |-> start, size |-> end - start]

\* Mutant: the cap is not applied to the end of the stack.
ClipStackWindowUncut(whole, pointer, cap) ==
  LET live  == pointer >= whole.start /\ pointer < End(whole)
      start == IF live THEN Later(AlignDown(pointer), whole.start) ELSE whole.start
  IN  IF whole.size = 0 THEN NoRange
      ELSE [start |-> start, size |-> cap]

\* At most cap bytes of a stack, from the page of the stack pointer upwards;
\* from the low end when the pointer is not in the stack.
ClipStackWindow(whole, pointer, cap) ==
  LET live  == pointer >= whole.start /\ pointer < End(whole)
      start == IF live THEN Later(AlignDown(pointer), whole.start) ELSE whole.start
      end   == Earlier(End(whole), start + cap)
  IN  IF whole.size = 0 \/ end <= start THEN NoRange
      ELSE [start |-> start, size |-> end - start]

\* The window near the base of a large overflowed stack; none when it would
\* overlap the live window.
HighWindow(whole, live) ==
  LET start == IF whole.size > kStackOverflowHighStackBytes
               THEN Later(AlignDown(End(whole) - kStackOverflowHighStackBytes), whole.start)
               ELSE whole.start
      high  == [start |-> start, size |-> End(whole) - start]
  IN  IF whole.size = 0 \/ (live.size # 0 /\ Overlap(high, live)) THEN NoRange ELSE high

Overflowed(t) == overflow /\ t = exception

\* A stack that overflowed and is small is wanted whole.
WantedWhole(t) == Overflowed(t) /\ stack[t].size <= kStackOverflowFullStackThreshold

\* The windows of one thread, before any is admitted.
Windows(t) ==
  IF WantedWhole(t)
  THEN [primary |-> stack[t], include |-> FALSE, aux |-> NoRange]
  ELSE LET cap  == IF Overflowed(t) THEN kStackOverflowLiveStackBytes
                                    ELSE kMaxCapturedStackBytes
           live == ClipStackWindow(stack[t], sp[t], cap)
       IN  [primary |-> live, include |-> FALSE,
            aux |-> IF Overflowed(t) THEN HighWindow(stack[t], live) ELSE NoRange]

\* The fixed streams alone exceed the cap: ERROR_FILE_TOO_LARGE.
Refuse ==
  /\ pc = "enter"
  /\ hardMax <= fixed + ListHeader
  /\ Goto("failed")
  /\ UNCHANGED <<inputs, entry, remaining, counts>>

\* Mutant: the fixed streams are not held against the cap.
EnterUnchecked ==
  /\ pc = "enter"
  /\ Goto("window")
  /\ UNCHANGED <<inputs, entry, remaining, counts>>

Enter ==
  /\ pc = "enter"
  /\ hardMax > fixed + ListHeader
  /\ Goto("window")
  /\ UNCHANGED <<inputs, entry, remaining, counts>>

CutWindow ==
  /\ pc = "window"
  /\ idx <= ThreadCount
  /\ entry' = [entry EXCEPT ![idx] = Windows(idx)]
  /\ idx' = idx + 1
  /\ UNCHANGED <<inputs, remaining, pc, counts>>

\* Mutant: the list header is forgotten.
WindowsDoneNoHeader ==
  /\ pc = "window"
  /\ idx > ThreadCount
  /\ remaining' = hardMax - fixed
  /\ Goto(IF exception # 0 THEN "exception" ELSE "main")
  /\ UNCHANGED <<inputs, entry, counts>>

WindowsDone ==
  /\ pc = "window"
  /\ idx > ThreadCount
  /\ remaining' = hardMax - fixed - ListHeader
  /\ Goto(IF exception # 0 THEN "exception" ELSE "main")
  /\ UNCHANGED <<inputs, entry, counts>>

-----------------------------------------------------------------------------
(***************************************************************************)
(* Admission.                                                              *)
(***************************************************************************)

Cost(range) == Descriptor + range.size

\* Mutant: a window that would fill the budget exactly is refused.
FitsStrictly(range) == range.size # 0 /\ Cost(range) < remaining

\* Whole, or not at all.
Fits(range) == range.size # 0 /\ Cost(range) <= remaining

\* What is left of a range that is cut to whole pages of the remaining budget.
Trimmed(range, fromHighEnd) ==
  LET size == AlignDown(remaining - Descriptor)
  IN  [start |-> IF fromHighEnd THEN End(range) - size ELSE range.start, size |-> size]

CanTrim(range) ==
  /\ range.size # 0
  /\ Cost(range) > remaining
  /\ remaining > Descriptor + Page

\* IncludePrimaryStack: a window that is not admitted keeps its bounds but not
\* its IncludeStack.
IncludePrimary(t, allowTrim) ==
  LET window == entry[t].primary
  IN  \/ /\ Fits(window)
         /\ entry' = [entry EXCEPT ![t].include = TRUE]
         /\ remaining' = remaining - Cost(window)
      \/ /\ allowTrim /\ CanTrim(window)
         /\ entry' = [entry EXCEPT ![t].include = TRUE, ![t].primary = Trimmed(window, FALSE)]
         /\ remaining' = 0
      \/ /\ ~Fits(window) /\ ~(allowTrim /\ CanTrim(window))
         /\ UNCHANGED <<entry, remaining>>

\* IncludeAuxStack: a high window that is not admitted is forgotten.
IncludeAux(t) ==
  LET window == entry[t].aux
  IN  \/ /\ Fits(window)
         /\ remaining' = remaining - Cost(window)
         /\ UNCHANGED entry
      \/ /\ CanTrim(window)
         /\ entry' = [entry EXCEPT ![t].aux = Trimmed(window, TRUE)]
         /\ remaining' = 0
      \/ /\ ~Fits(window) /\ ~CanTrim(window)
         /\ entry' = [entry EXCEPT ![t].aux = NoRange]
         /\ UNCHANGED remaining

\* An overflowed stack is small enough to be kept whole, and exists.
RequireFull == WantedWhole(exception) /\ stack[exception].size # 0

\* Mutant: a small overflowed stack may be trimmed like any other.
ExceptionPrimaryTrims ==
  /\ pc = "exception"
  /\ IncludePrimary(exception, TRUE)
  /\ Goto("aux")
  /\ UNCHANGED <<inputs, counts>>

\* Mutant: the exception thread's stack is never trimmed.
ExceptionPrimaryNeverTrims ==
  /\ pc = "exception"
  /\ IncludePrimary(exception, FALSE)
  /\ Goto(IF RequireFull /\ ~entry'[exception].include THEN "failed" ELSE "aux")
  /\ UNCHANGED <<inputs, counts>>

\* First the exception thread's stack: trimmed if need be, except that a small
\* overflowed one fits whole or fails the call.
ExceptionPrimary ==
  /\ pc = "exception"
  /\ IncludePrimary(exception, ~RequireFull)
  /\ Goto(IF RequireFull /\ ~entry'[exception].include THEN "failed" ELSE "aux")
  /\ UNCHANGED <<inputs, counts>>

ExceptionAux ==
  /\ pc = "aux"
  /\ IncludeAux(exception)
  /\ Goto("main")
  /\ UNCHANGED <<inputs, counts>>

\* Then the main thread's.
MainPrimary ==
  /\ pc = "main"
  /\ IF oldest # exception
     THEN IncludePrimary(oldest, TRUE)
     ELSE UNCHANGED <<entry, remaining>>
  /\ Goto("others")
  /\ UNCHANGED <<inputs, counts>>

\* Then the others', in plan order, whole or not at all.
OtherPrimary ==
  /\ pc = "others"
  /\ idx <= ThreadCount
  /\ remaining > Descriptor
  /\ IF idx \notin {exception, oldest}
     THEN IncludePrimary(idx, FALSE)
     ELSE UNCHANGED <<entry, remaining>>
  /\ idx' = idx + 1
  /\ UNCHANGED <<inputs, pc, counts>>

OthersDone ==
  /\ pc = "others"
  /\ idx > ThreadCount \/ remaining <= Descriptor
  /\ Goto("count")
  /\ UNCHANGED <<inputs, entry, remaining, counts>>

-----------------------------------------------------------------------------
(***************************************************************************)
(* CountStackMemoryRanges.                                                 *)
(***************************************************************************)

\* The ranges one entry puts into the MemoryList.
PrimaryKept(t) == entry[t].include /\ entry[t].primary.size # 0
AuxKept(t) == entry[t].aux.size # 0

Count ==
  /\ pc = "count"
  /\ idx <= ThreadCount
  /\ rangeCount' = rangeCount + (IF PrimaryKept(idx) THEN 1 ELSE 0)
                              + (IF AuxKept(idx) THEN 1 ELSE 0)
  /\ bytesCount' = bytesCount + (IF PrimaryKept(idx) THEN entry[idx].primary.size ELSE 0)
                              + entry[idx].aux.size
  /\ idx' = idx + 1
  /\ UNCHANGED <<inputs, entry, remaining, pc>>

CountDone ==
  /\ pc = "count"
  /\ idx > ThreadCount
  /\ Goto("done")
  /\ UNCHANGED <<inputs, entry, remaining, counts>>

Next ==
  \/ Refuse \/ Enter \/ CutWindow \/ WindowsDone
  \/ ExceptionPrimary \/ ExceptionAux \/ MainPrimary
  \/ OtherPrimary \/ OthersDone \/ Count \/ CountDone

Spec == Init /\ [][Next]_vars

-----------------------------------------------------------------------------
(***************************************************************************)
(* Properties.                                                             *)
(***************************************************************************)

Ranges == [start : Nat, size : Nat]

TypeOK ==
  /\ stack \in [Positions -> Ranges]
  /\ sp \in [Positions -> Nat]
  /\ exception \in {0} \cup Positions
  /\ oldest \in Positions
  /\ overflow \in BOOLEAN
  /\ fixed \in Nat
  /\ hardMax \in Nat
  /\ entry \in [Positions -> [primary : Ranges, include : BOOLEAN, aux : Ranges]]
  /\ remaining \in Nat
  /\ pc \in {"enter", "window", "exception", "aux", "main", "others", "count", "done", "failed"}
  /\ idx \in 1 .. ThreadCount + 1
  /\ rangeCount \in Nat
  /\ bytesCount \in Nat

Within(range, whole) ==
  range.size = 0 \/ (whole.start <= range.start /\ End(range) <= End(whole))

\* However a window is cut, aligned and trimmed, it stays inside its thread's
\* stack, and the two windows of an overflowed stack never describe a byte
\* twice (minidump_inproc_threads.cpp:689-763, 788-794).
WindowsInside ==
  \A t \in Positions :
    /\ Within(entry[t].primary, stack[t])
    /\ Within(entry[t].aux, stack[t])
    /\ entry[t].primary.size # 0 /\ AuxKept(t) => ~Overlap(entry[t].primary, entry[t].aux)

\* What CountStackMemoryRanges reports, with descriptors and the streams in
\* front, is within the cap (minidump_inproc.h:40 "production hard cap").
FitsCap ==
  pc = "done" => fixed + ListHeader + rangeCount * Descriptor + bytesCount <= hardMax

\* Budget for all stacks, and what the exception thread's windows took of it.
Budget == hardMax - fixed - ListHeader
TakenByException ==
  IF exception = 0 THEN 0
  ELSE (IF PrimaryKept(exception) THEN Cost(entry[exception].primary) ELSE 0)
     + (IF AuxKept(exception) THEN Cost(entry[exception].aux) ELSE 0)

\* The frame that crashed is in the dump whenever more than one page of stack
\* can be: neither clipping nor trimming may cut the stack pointer off.
CrashFrameKept ==
  LET window == entry[exception].primary
      live   == /\ sp[exception] >= stack[exception].start
                /\ sp[exception] < End(stack[exception])
  IN  pc = "done" /\ exception # 0 /\ Budget > Descriptor + Page =>
        (live => /\ PrimaryKept(exception)
                 /\ window.start <= sp[exception]
                 /\ sp[exception] < End(window))

\* Left to a priority thread when its turn came.
LeftFor(t) == IF t = exception THEN Budget ELSE Budget - TakenByException

KeptWhole(t) == entry[t].include /\ entry[t].primary = Windows(t).primary

\* Exception thread, main thread, others: a stack is kept only if each one that
\* goes before it is kept whole or could not have a page beside its descriptor
\* (minidump_inproc.h:41-43).
PriorityRespected ==
  LET before(t) == {exception} \cup (IF t = exception THEN {} ELSE {oldest})
  IN  pc = "done" =>
        \A t \in Positions : PrimaryKept(t) =>
          \A p \in before(t) \ {0, t} :
            Windows(p).primary.size # 0 =>
              KeptWhole(p) \/ LeftFor(p) <= Descriptor + Page

\* A small stack that overflowed is in the dump from end to end, or there is no
\* dump (minidump_inproc.h:45-46, minidump_inproc_internal.h:172-173).
OverflowWhole ==
  pc = "done" /\ exception # 0 =>
    (RequireFull => PrimaryKept(exception) /\ entry[exception].primary = stack[exception])

\* No stack is left out that still fits into what the cap leaves in the end.
NothingWasted ==
  pc = "done" =>
    \A t \in Positions :
      entry[t].primary.size # 0 /\ ~entry[t].include => Cost(entry[t].primary) > remaining

\* Otherwise the base of an overflowed stack, with the recursion's entry, is in
\* the dump if the whole stack would fit (minidump_inproc_internal.h:174-176:
\* "plus kStackOverflowHighStackBytes (512 KB) near StackBase so the recursion
\* entry / call origin is still observable").
StackBaseKept ==
  pc = "done" /\ exception # 0 =>
    (overflow /\ stack[exception].size > kStackOverflowFullStackThreshold
       /\ 2 * Descriptor + stack[exception].size <= Budget =>
         \E window \in {entry[exception].primary, entry[exception].aux} :
           window.size # 0 /\ End(window) = End(stack[exception]))

=============================================================================
