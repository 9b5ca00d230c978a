----------------------------- MODULE DumpSession -----------------------------
(***************************************************************************)
(* One WriteMiniDumpInproc call, seen from the threads of the process: the *)
(* DumpMutex try-lock, the thread plan that freezes every other thread     *)
(* (BuildThreadPlanAndFreeze), the write pass, and ResumeThreadPlan.       *)
(*                                                                         *)
(* g_ThreadPlan is the function plan, g_ThreadPlanCount is planCount.  The *)
(* kernel's part (thread life, suspend counts, handles to threads, the     *)
(* mutex) is modelled from how the code uses it.  Threads that are not     *)
(* frozen keep running, start, exit and crash between any two steps.       *)
(***************************************************************************)
EXTENDS Integers, FiniteSets

CONSTANTS
  Threads,      \* thread ids
  NoThread,     \* thread id 0: no thread
  kMaxThreads,  \* capacity of g_ThreadPlan
  Writers,      \* the threads that may call WriteMiniDumpInproc
  Late,         \* the threads that are started only while the process runs
  Killable,     \* the threads some TerminateThread may end at any point
  Reentrant,    \* may a fault in the write pass re-enter the API (a vectored handler)?
  MaxSuspend,   \* the kernel's MAXIMUM_SUSPEND_COUNT
  MaxHandles    \* handles to one thread the kernel's quota allows

ASSUME ThreadsAssumption ==
  /\ NoThread \notin Threads
  /\ IsFiniteSet(Threads)
  /\ Writers \subseteq Threads
  /\ Late \subseteq Threads
  /\ Killable \subseteq Threads
  /\ Reentrant \in BOOLEAN

ASSUME CapacityAssumption ==
  /\ kMaxThreads \in Nat /\ kMaxThreads >= 2
  /\ MaxSuspend \in Nat \ {0}
  /\ MaxHandles \in Nat

VARIABLES
  state,      \* life of each thread: "unborn", "live" or "dead"
  suspend,    \* kernel suspend count of each thread
  handles,    \* number of open handles to each thread
  mutex,      \* g_Protected.DumpMutex: a recursive kernel mutex
  intact,     \* what IsProtectedGlobalsIntact() answers
  plan,       \* g_ThreadPlan
  planCount,  \* g_ThreadPlanCount
  moved,      \* history: planned threads that ran since the plan was captured
  pc,         \* where each thread is in the call
  outer,      \* pc of the call a re-entered call interrupted, or "none"
  pref,       \* preferredThreadId of each thread's call
  todo,       \* snapshot entries each thread's call has not opened yet
  idx         \* loop index of each thread's call

kernelVars == <<state, suspend, handles>>
planVars   == <<plan, planCount, moved>>
callVars   == <<pc, outer, pref, todo, idx>>
vars == <<kernelVars, mutex, intact, planVars, callVars>>

Slots == 1 .. kMaxThreads

Entry == [tid : Threads \cup {NoThread}, current : BOOLEAN, handle : BOOLEAN,
          suspended : BOOLEAN]

NewEntry(tid, current, handle) ==
  [tid |-> tid, current |-> current, handle |-> handle, suspended |-> FALSE]

EmptyEntry == NewEntry(NoThread, FALSE, FALSE)

\* No entry past g_ThreadPlanCount is read before ZeroMemory clears it, so the
\* model forgets entries when the count goes back to 0.
EmptyPlan == [i \in Slots |-> EmptyEntry]

\* The plan-building steps, in order, and all steps made while holding the mutex.
Building == {"snapshot", "open", "current", "preferred", "suspend", "capture"}
Inside   == {"check", "emit", "resume", "release"} \cup Building

Running(t) == state[t] = "live" /\ suspend[t] = 0
At(t, label) == Running(t) /\ pc[t] = label
Goto(t, label) == pc' = [pc EXCEPT ![t] = label]

InPlan(tid) == \E i \in 1 .. planCount : plan[i].tid = tid

\* A mutex nobody holds.
Unlocked == [owner |-> NoThread, count |-> 0, abandoned |-> FALSE]

Init ==
  /\ state = [t \in Threads |-> IF t \in Late THEN "unborn" ELSE "live"]
  /\ suspend = [t \in Threads |-> 0]
  /\ handles = [t \in Threads |-> 0]
  /\ mutex = Unlocked
  /\ intact \in BOOLEAN
  /\ plan = EmptyPlan
  /\ planCount = 0
  /\ moved = {}
  /\ pc = [t \in Threads |-> "app"]
  /\ outer = [t \in Threads |-> "none"]
  /\ pref = [t \in Threads |-> NoThread]
  /\ todo = [t \in Threads |-> {}]
  /\ idx = [t \in Threads |-> 1]

-----------------------------------------------------------------------------
(***************************************************************************)
(* The application and the kernel.                                         *)
(***************************************************************************)

\* A thread executes application code: its stack and registers change.  It
\* matters only for a thread some plan describes.
Run(t) ==
  /\ At(t, "app")
  /\ InPlan(t)
  /\ moved' = moved \cup {t}
  /\ UNCHANGED <<kernelVars, mutex, intact, plan, planCount, callVars>>

\* A running thread starts another one.
Spawn(t) ==
  /\ state[t] = "unborn"
  /\ \E s \in Threads : At(s, "app")
  /\ state' = [state EXCEPT ![t] = "live"]
  /\ UNCHANGED <<suspend, handles, mutex, intact, planVars, callVars>>

\* The kernel abandons a mutex whose owner goes away.
Abandon(t) ==
  mutex' = IF mutex.owner = t
           THEN [Unlocked EXCEPT !.abandoned = TRUE]
           ELSE mutex

\* A thread returns from its thread procedure.
Exit(t) ==
  /\ At(t, "app")
  /\ state' = [state EXCEPT ![t] = "dead"]
  /\ Abandon(t)
  /\ UNCHANGED <<suspend, handles, intact, planVars, callVars>>

\* TerminateThread ends a thread wherever it stands, frozen or not.
Kill(t) ==
  /\ t \in Killable
  /\ state[t] = "live"
  /\ state' = [state EXCEPT ![t] = "dead"]
  /\ suspend' = [suspend EXCEPT ![t] = 0]
  /\ Abandon(t)
  /\ UNCHANGED <<handles, intact, planVars, callVars>>

-----------------------------------------------------------------------------
(***************************************************************************)
(* Entry and exit of the call.                                             *)
(***************************************************************************)

\* A thread crashes (p = t), or a dedicated dump thread is handed the crash of
\* p, and calls the API.  p is ExceptionParam->ThreadId; it may be 0 or stale.
Call(t, p) ==
  /\ t \in Writers
  /\ At(t, "app")
  /\ Goto(t, "trylock")
  /\ pref' = [pref EXCEPT ![t] = p]
  /\ UNCHANGED <<kernelVars, mutex, intact, planVars, outer, todo, idx>>

\* Where a call returns to; its locals are gone, unless it interrupted another
\* one of the same thread.
Return(t) ==
  /\ pc' = [pc EXCEPT ![t] = IF outer[t] = "none" THEN "app" ELSE outer[t]]
  /\ outer' = [outer EXCEPT ![t] = "none"]
  /\ pref' = [pref EXCEPT ![t] = IF outer[t] = "none" THEN NoThread ELSE @]
  /\ idx' = [idx EXCEPT ![t] = 1]
  /\ todo' = [todo EXCEPT ![t] = {}]

\* Mutant: no mutual exclusion between threads.
MutexAlwaysFree(t) == ~mutex.abandoned

\* The kernel grants the mutex when it is free or already the caller's own.
MutexFree(t) == mutex.owner \in {NoThread, t} /\ ~mutex.abandoned

\* WaitForSingleObject(dumpMtx, 0) = WAIT_OBJECT_0.
TryLockAcquired(t) ==
  /\ At(t, "trylock")
  /\ MutexFree(t)
  /\ mutex' = [owner |-> t, count |-> mutex.count + 1, abandoned |-> FALSE]
  /\ Goto(t, "check")
  /\ UNCHANGED <<kernelVars, intact, planVars, outer, pref, todo, idx>>

\* WAIT_ABANDONED: the kernel gives us the mutex, the code takes it for a
\* failure and returns ERROR_BUSY without releasing it.
TryLockAbandoned(t) ==
  /\ At(t, "trylock")
  /\ mutex.abandoned
  /\ mutex' = [owner |-> t, count |-> 1, abandoned |-> FALSE]
  /\ Return(t)
  /\ UNCHANGED <<kernelVars, intact, planVars>>

\* WAIT_TIMEOUT: another thread is writing; ERROR_BUSY.
TryLockBusy(t) ==
  /\ At(t, "trylock")
  /\ mutex.owner \notin {NoThread, t}
  /\ Return(t)
  /\ UNCHANGED <<kernelVars, mutex, intact, planVars>>

\* Mutant: an integrity failure returns without releasing the mutex.
CheckIntactReturnsEarly(t) ==
  /\ At(t, "check")
  /\ IF intact
     THEN /\ Goto(t, "snapshot")
          /\ UNCHANGED <<outer, pref, todo, idx>>
     ELSE Return(t)
  /\ UNCHANGED <<kernelVars, mutex, intact, planVars>>

\* The integrity check in front of everything: ERROR_INVALID_DATA or go on.
CheckIntact(t) ==
  /\ At(t, "check")
  /\ Goto(t, IF intact THEN "snapshot" ELSE "resume")
  /\ idx' = [idx EXCEPT ![t] = 1]
  /\ UNCHANGED <<kernelVars, mutex, intact, planVars, outer, pref, todo>>

\* Mutant: the outer __except returns at once, as if nothing were frozen.
FaultReturnsEarly(t) ==
  /\ Running(t)
  /\ pc[t] \in Building \cup {"check", "emit"}
  /\ Return(t)
  /\ UNCHANGED <<kernelVars, mutex, intact, planVars>>

\* Any fault of the implementation lands in the outer __except and goes on to
\* ResumeThreadPlan with whatever the plan holds.
Fault(t) ==
  /\ Running(t)
  /\ pc[t] \in Building \cup {"check", "emit"}
  /\ Goto(t, "resume")
  /\ idx' = [idx EXCEPT ![t] = 1]
  /\ UNCHANGED <<kernelVars, mutex, intact, planVars, outer, pref, todo>>

-----------------------------------------------------------------------------
(***************************************************************************)
(* BuildThreadPlanAndFreeze.                                               *)
(***************************************************************************)

\* One NtQuerySystemInformation snapshot, clamped to kMaxThreads; it may fail.
\* The kernel's order is not specified, so which threads the clamp keeps is
\* not either.
Snapshot(t) ==
  /\ At(t, "snapshot")
  /\ planCount' = 0
  /\ plan' = EmptyPlan
  /\ moved' = {}
  /\ LET live == {s \in Threads : state[s] = "live"}
     IN  \E seen \in SUBSET live :
           /\ \/ seen = {}
              \/ seen = live /\ Cardinality(live) <= kMaxThreads
              \/ Cardinality(live) > kMaxThreads /\ Cardinality(seen) = kMaxThreads
           /\ todo' = [todo EXCEPT ![t] = seen]
  /\ Goto(t, "open")
  /\ UNCHANGED <<kernelVars, mutex, intact, outer, pref, idx>>

\* OpenThread fails for a thread that is gone or at the handle quota, and may
\* fail for any other.
OpenThread(tid, ok) == ok => state[tid] = "live" /\ handles[tid] < MaxHandles

\* Closes the handle of a plan entry, if any, and opens one of another.
Handles(closed, opened) ==
  handles' = [x \in Threads |-> handles[x]
                - (IF closed.handle /\ closed.tid = x THEN 1 ELSE 0)
                + (IF opened.handle /\ opened.tid = x THEN 1 ELSE 0)]

\* Mutant: the writing thread is not recognized in the snapshot.
NeverSelf(t, tid) == FALSE

\* entry.IsCurrent
IsSelf(t, tid) == tid = t

\* Phase 1: records the next snapshot thread and opens it.
OpenNext(t) ==
  /\ At(t, "open")
  /\ planCount < kMaxThreads
  /\ \E tid \in todo[t], ok \in BOOLEAN :
       LET entry == NewEntry(tid, IsSelf(t, tid), ok)
       IN  /\ IF IsSelf(t, tid) THEN ~ok ELSE OpenThread(tid, ok)
           /\ plan' = [plan EXCEPT ![planCount + 1] = entry]
           /\ planCount' = planCount + 1
           /\ Handles(EmptyEntry, entry)
           /\ todo' = [todo EXCEPT ![t] = @ \ {tid}]
  /\ UNCHANGED <<state, suspend, mutex, intact, moved, pc, outer, pref, idx>>

OpenDone(t) ==
  /\ At(t, "open")
  /\ todo[t] = {} \/ planCount >= kMaxThreads
  /\ Goto(t, "current")
  /\ todo' = [todo EXCEPT ![t] = {}]
  /\ UNCHANGED <<kernelVars, mutex, intact, planVars, outer, pref, idx>>

\* Mutant: room for one entry too many, and the victim's handle stays open.
PlaceBeyondCapacity(entry, victim) ==
  /\ plan' = [plan EXCEPT ![planCount + 1] = entry]
  /\ planCount' = planCount + 1
  /\ Handles(EmptyEntry, entry)

\* Mutant: the evicted entry's handle is not closed.
PlaceLeaking(entry, victim) ==
  LET full == planCount >= kMaxThreads
  IN  /\ plan' = [plan EXCEPT ![IF full THEN victim ELSE planCount + 1] = entry]
      /\ planCount' = IF full THEN planCount ELSE planCount + 1
      /\ Handles(EmptyEntry, entry)

\* Puts an entry in a slot: a new one while there is room, otherwise over the
\* victim's, whose handle is closed.
Place(entry, victim) ==
  LET full == planCount >= kMaxThreads
      slot == IF full THEN victim ELSE planCount + 1
  IN  /\ plan' = [plan EXCEPT ![slot] = entry]
      /\ planCount' = IF full THEN planCount ELSE planCount + 1
      /\ Handles(IF full THEN plan[slot] ELSE EmptyEntry, entry)

\* The writing thread is always represented.
EnsureCurrent(t) ==
  /\ At(t, "current")
  /\ IF \E i \in 1 .. planCount : plan[i].current
     THEN UNCHANGED <<plan, planCount, handles>>
     ELSE Place(NewEntry(t, TRUE, FALSE), kMaxThreads)
  /\ Goto(t, "preferred")
  /\ UNCHANGED <<state, suspend, mutex, intact, moved, outer, pref, todo, idx>>

\* Mutant: the last slot is evicted whoever holds it.
LastVictim == kMaxThreads

\* The slot given up for the exception thread; the writing thread keeps its own.
Victim == IF plan[kMaxThreads].current THEN kMaxThreads - 1 ELSE kMaxThreads

\* The exception thread is always represented.
EnsurePreferred(t) ==
  /\ At(t, "preferred")
  /\ IF pref[t] \in {NoThread, t} \/ InPlan(pref[t])
     THEN UNCHANGED <<plan, planCount, handles>>
     ELSE \E ok \in BOOLEAN :
            /\ OpenThread(pref[t], ok)
            /\ Place(NewEntry(pref[t], FALSE, ok), Victim)
  /\ Goto(t, "suspend")
  /\ idx' = [idx EXCEPT ![t] = 1]
  /\ UNCHANGED <<state, suspend, mutex, intact, moved, outer, pref, todo>>

\* Mutant: the loop does not get past a thread it cannot suspend.
SuspendNextStuck(t) ==
  /\ At(t, "suspend")
  /\ idx[t] <= planCount
  /\ LET entry == plan[idx[t]]
     IN  /\ ~entry.current
         /\ entry.handle
         /\ state[entry.tid] = "live"
         /\ suspend' = [suspend EXCEPT ![entry.tid] = @ + 1]
         /\ plan' = [plan EXCEPT ![idx[t]].suspended = TRUE]
  /\ idx' = [idx EXCEPT ![t] = @ + 1]
  /\ UNCHANGED <<state, handles, mutex, intact, planCount, moved, pc, outer, pref, todo>>

\* Phase 2: one SuspendThread, which fails on a thread that has ended or is at
\* the kernel's limit of suspensions.
SuspendNext(t) ==
  /\ At(t, "suspend")
  /\ idx[t] <= planCount
  /\ LET entry == plan[idx[t]]
         freeze == /\ ~entry.current
                   /\ entry.handle
                   /\ state[entry.tid] = "live"
                   /\ suspend[entry.tid] < MaxSuspend
     IN  IF freeze
         THEN /\ suspend' = [suspend EXCEPT ![entry.tid] = @ + 1]
              /\ plan' = [plan EXCEPT ![idx[t]].suspended = TRUE]
         ELSE UNCHANGED <<suspend, plan>>
  /\ idx' = [idx EXCEPT ![t] = @ + 1]
  /\ UNCHANGED <<state, handles, mutex, intact, planCount, moved, pc, outer, pref, todo>>

\* Mutant: the last planned thread is not frozen.
SuspendDoneOffByOne(t) ==
  /\ At(t, "suspend")
  /\ idx[t] >= planCount
  /\ Goto(t, "capture")
  /\ UNCHANGED <<kernelVars, mutex, intact, planVars, outer, pref, todo, idx>>

SuspendDone(t) ==
  /\ At(t, "suspend")
  /\ idx[t] > planCount
  /\ Goto(t, "capture")
  /\ UNCHANGED <<kernelVars, mutex, intact, planVars, outer, pref, todo, idx>>

\* Phase 3: TEB, stack bounds, priority and name of every planned thread.
Capture(t) ==
  /\ At(t, "capture")
  /\ moved' = {}
  /\ Goto(t, "emit")
  /\ UNCHANGED <<kernelVars, mutex, intact, plan, planCount, outer, pref, todo, idx>>

-----------------------------------------------------------------------------
(***************************************************************************)
(* The write pass and the way out.                                         *)
(***************************************************************************)

\* Mutant: the mutex is released with the plan still frozen.
EmitDoneSkipsResume(t) ==
  /\ At(t, "emit")
  /\ Goto(t, "release")
  /\ UNCHANGED <<kernelVars, mutex, intact, planVars, outer, pref, todo, idx>>

\* The write pass ends: every stream written, a budget refused, or a write failed.
EmitDone(t) ==
  /\ At(t, "emit")
  /\ Goto(t, "resume")
  /\ idx' = [idx EXCEPT ![t] = 1]
  /\ UNCHANGED <<kernelVars, mutex, intact, planVars, outer, pref, todo>>

\* A guarded probe faults in the write pass and a vectored handler, which runs
\* before the guard, calls the API again on the same thread.
Reenter(t) ==
  /\ Reentrant
  /\ At(t, "emit")
  /\ outer[t] = "none"
  /\ outer' = [outer EXCEPT ![t] = "emit"]
  /\ Goto(t, "trylock")
  /\ UNCHANGED <<kernelVars, mutex, intact, planVars, pref, todo, idx>>

\* Mutant: the loop does not get past an entry without a handle.
ResumeNextStuck(t) ==
  /\ At(t, "resume")
  /\ idx[t] <= planCount
  /\ LET entry == plan[idx[t]]
     IN  /\ entry.handle
         /\ suspend' = [suspend EXCEPT ![entry.tid] = IF entry.suspended THEN 0 ELSE @]
         /\ plan' = [plan EXCEPT ![idx[t]] = EmptyEntry]
         /\ Handles(entry, EmptyEntry)
  /\ idx' = [idx EXCEPT ![t] = @ + 1]
  /\ UNCHANGED <<state, mutex, intact, planCount, moved, pc, outer, pref, todo>>

\* ResumeThreadPlan, one entry: resume it if frozen, close its handle.
\* ResumeThread does nothing to a thread that has ended.
ResumeNext(t) ==
  /\ At(t, "resume")
  /\ idx[t] <= planCount
  /\ LET entry == plan[idx[t]]
         thaw  == entry.handle /\ entry.suspended /\ state[entry.tid] = "live"
     IN  /\ suspend' = [x \in Threads |->
                          IF thaw /\ x = entry.tid THEN suspend[x] - 1 ELSE suspend[x]]
         /\ plan' = IF entry.handle
                    THEN [plan EXCEPT ![idx[t]].suspended = FALSE, ![idx[t]].handle = FALSE]
                    ELSE plan
         /\ Handles(entry, EmptyEntry)
  /\ idx' = [idx EXCEPT ![t] = @ + 1]
  /\ UNCHANGED <<state, mutex, intact, planCount, moved, pc, outer, pref, todo>>

ResumeDone(t) ==
  /\ At(t, "resume")
  /\ idx[t] > planCount
  /\ planCount' = 0
  /\ plan' = EmptyPlan
  /\ moved' = {}
  /\ Goto(t, "release")
  /\ UNCHANGED <<kernelVars, mutex, intact, outer, pref, todo, idx>>

\* ReleaseMutex, and the call returns.
Release(t) ==
  /\ At(t, "release")
  /\ mutex' = IF mutex.count = 1 THEN Unlocked ELSE [mutex EXCEPT !.count = @ - 1]
  /\ Return(t)
  /\ UNCHANGED <<kernelVars, intact, planVars>>

-----------------------------------------------------------------------------
TryLock(t) == TryLockAcquired(t) \/ TryLockAbandoned(t) \/ TryLockBusy(t)

Build(t) ==
  \/ Snapshot(t) \/ OpenNext(t) \/ OpenDone(t) \/ EnsureCurrent(t)
  \/ EnsurePreferred(t) \/ SuspendNext(t) \/ SuspendDone(t) \/ Capture(t)

Finish(t) == EmitDone(t) \/ ResumeNext(t) \/ ResumeDone(t) \/ Release(t)

\* The steps a call takes by itself, without the application or a fault.
WriterStep(t) == TryLock(t) \/ CheckIntact(t) \/ Build(t) \/ Finish(t)

Environment(t) == Run(t) \/ Spawn(t) \/ Exit(t) \/ Kill(t)

Next ==
  \E t \in Threads :
    \/ Environment(t)
    \/ \E p \in Threads \cup {NoThread} : Call(t, p)
    \/ WriterStep(t)
    \/ Fault(t)
    \/ Reenter(t)

Spec == Init /\ [][Next]_vars

\* A running writer is never blocked: its only wait has a zero timeout, so the
\* system's scheduler alone makes it advance.
FairSpec == Spec /\ \A t \in Threads : WF_vars(WriterStep(t))

-----------------------------------------------------------------------------
(***************************************************************************)
(* Properties.                                                             *)
(***************************************************************************)

TypeOK ==
  /\ state \in [Threads -> {"unborn", "live", "dead"}]
  /\ suspend \in [Threads -> 0 .. MaxSuspend]
  /\ handles \in [Threads -> 0 .. MaxHandles]
  /\ mutex \in [owner : Threads \cup {NoThread}, count : Nat, abandoned : BOOLEAN]
  /\ intact \in BOOLEAN
  /\ plan \in [Slots -> Entry]
  /\ planCount \in 0 .. kMaxThreads
  /\ moved \subseteq Threads
  /\ pc \in [Threads -> {"app", "trylock"} \cup Inside]
  /\ outer \in [Threads -> {"none", "emit"}]
  /\ pref \in [Threads -> Threads \cup {NoThread}]
  /\ todo \in [Threads -> SUBSET Threads]
  /\ idx \in [Threads -> 1 .. kMaxThreads + 1]

\* A live thread somewhere inside the serialized part of the API.
Writing(t) == state[t] = "live" /\ (pc[t] \in Inside \/ outer[t] # "none")

\* The plan and the scratch buffers have no lock of their own: the DumpMutex
\* (minidump_inproc.cpp:680) keeps every second crasher out while one writes.
OneWriter == \A s, t \in Threads : Writing(s) /\ Writing(t) => s = t

\* From the freeze on, the plan holds the writing thread and the exception
\* thread, and no thread twice, whatever the snapshot missed and whatever slot
\* was evicted from a full plan (minidump_inproc_threads.cpp:263-325).
PlanComplete ==
  \A t \in Threads : Writing(t) /\ pc[t] \in {"suspend", "capture", "emit"} =>
    /\ InPlan(t)
    /\ pref[t] # NoThread => InPlan(pref[t])
    /\ \A i, j \in 1 .. planCount : plan[i].tid = plan[j].tid => i = j

\* While streams are written, every planned thread that could be opened and is
\* still alive is suspended and has not moved since its stack was captured:
\* contexts and stack bytes are of one instant (README's consistency model).
FrozenStandsStill ==
  \A t \in Threads : Writing(t) /\ pc[t] = "emit" =>
    \A i \in 1 .. planCount :
      plan[i].handle /\ state[plan[i].tid] = "live" =>
        suspend[plan[i].tid] > 0 /\ plan[i].tid \notin moved

\* The writer never suspends itself, which nobody could undo.
WriterNotFrozen == \A t \in Threads : Writing(t) => suspend[t] = 0

\* Once nobody is inside the API, no thread is left suspended and no thread
\* handle open, whatever path the call took (minidump_inproc.cpp:697: "Always
\* resume/close any threads frozen by the writer, even if it faulted mid-dump").
NothingLeftBehind ==
  (\A t \in Threads : ~Writing(t)) =>
    \A x \in Threads : suspend[x] = 0 /\ handles[x] = 0

\* Nobody holds the DumpMutex from outside the API, so that the next crash can
\* be written (minidump_inproc_util.cpp:100-103: the mutexes "are auto-released
\* if the owning thread terminates abnormally").
MutexFreeWhenIdle ==
  (\A t \in Threads : ~Writing(t)) => mutex.owner = NoThread

\* A crasher is turned away with ERROR_BUSY only while another thread is
\* inside the API (minidump_inproc.cpp:676-684).
BusyMeansWriting ==
  [][\A t \in Threads :
       (pc[t] = "trylock" /\ pc'[t] \notin {"trylock", "check"}) =>
         \E s \in Threads \ {t} : Writing(s)]_vars

\* No thread stays frozen for ever: each is resumed, or was terminated.
EventuallyThawed == \A x \in Threads : []<>(suspend[x] = 0)

\* A call that got the mutex comes back, whatever the other threads do.
CallReturns ==
  \A t \in Threads : pc[t] = "check" ~> pc[t] = "app" \/ state[t] = "dead"

=============================================================================
