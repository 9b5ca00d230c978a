-------------------------- MODULE DumpSession_proofs --------------------------
(***************************************************************************)
(* Proofs about DumpSession, for any threads and any capacity of the plan, *)
(* in two parts.  Whatever is terminated and whatever fault re-enters the  *)
(* API, a dump is exclusive, never freezes its writer, and describes what  *)
(* stands still.  When no writer is terminated and no fault re-enters it,  *)
(* it leaves nothing behind and implements StopTheWorld.  That this needs  *)
(* the condition is TLC's: session_abandoned.cfg and session_reentry.cfg   *)
(* violate two of the properties.                                          *)
(***************************************************************************)
EXTENDS MCDumpSession, TLAPS

\* No thread is planned twice.
Distinct == \A i, j \in 1 .. planCount : plan[i].tid = plan[j].tid => i = j

\* A planned thread that can be frozen: open, and alive.
Freezable(i) == plan[i].handle /\ state[plan[i].tid] = "live"

-----------------------------------------------------------------------------
(***************************************************************************)
(* Whatever happens.  Without Benign a call may end in the middle, by      *)
(* TerminateThread, or be interrupted by another one of its own thread.    *)
(* The plan that it leaves is stale, and resumed by whoever is next.  What *)
(* remains is that there is one writer and that it never freezes itself.   *)
(***************************************************************************)

\* How many calls of a thread have the mutex.
Depth(t) == (IF pc[t] \in Inside THEN 1 ELSE 0) + (IF outer[t] # "none" THEN 1 ELSE 0)
Active(t) == state[t] # "dead" /\ Depth(t) > 0

\* A thread in the API owns the mutex, as often as it will release it.
Exclusive ==
  /\ mutex.abandoned => mutex.owner = NoThread
  /\ \A t \in Threads : Active(t) => mutex.owner = t /\ mutex.count >= Depth(t)

\* The plan, stale or not, claims no handle and no suspension that is not there.
Recorded ==
  \A i \in 1 .. planCount :
    /\ plan[i].tid \in Threads
    /\ plan[i].handle => handles[plan[i].tid] > 0 /\ state[plan[i].tid] # "unborn"
    /\ plan[i].current => ~plan[i].handle
    /\ plan[i].suspended => \/ state[plan[i].tid] = "dead"
                            \/ state[plan[i].tid] = "live" /\ suspend[plan[i].tid] > 0

Filling == {"open", "current", "preferred", "suspend"}

\* A writer that fills the plan has its own entry marked, and each thread once.
MarkedAt(t) ==
  state[t] # "dead" /\ pc[t] \in Filling =>
    \A i \in 1 .. planCount :
      /\ plan[i].tid = t <=> plan[i].current
      /\ pc[t] = "open" => plan[i].tid \notin todo[t]

Marked == \A t \in Threads : MarkedAt(t)

NotFrozen == \A t \in Threads : Active(t) => suspend[t] = 0

Safe == TypeOK /\ Exclusive /\ Distinct /\ Recorded /\ Marked /\ NotFrozen

LEMMA SafeInit == Init => Safe
<1> SUFFICES ASSUME Init PROVE Safe
  OBVIOUS
<1> USE ThreadsAssumption, CapacityAssumption DEF Init
<1>1. EmptyPlan \in [Slots -> Entry]
  BY DEF EmptyPlan, EmptyEntry, NewEntry, Entry
<1>2. Unlocked \in [owner : Threads \cup {NoThread}, count : Nat, abandoned : BOOLEAN]
  BY DEF Unlocked
<1>3. TypeOK
  BY <1>1, <1>2 DEF TypeOK, Inside, Building
<1>4. \A t \in Threads : ~Active(t)
  BY DEF Active, Depth, Inside, Building
<1>5. Exclusive /\ NotFrozen
  BY <1>4 DEF Exclusive, NotFrozen, Unlocked
<1>6. Distinct /\ Recorded /\ Marked
  BY DEF Distinct, Recorded, Marked, MarkedAt
<1> QED
  BY <1>3, <1>5, <1>6 DEF Safe

\* A thread inside is the only one in the API.
LEMMA OneActive ==
  ASSUME Exclusive, NEW t \in Threads, state[t] # "dead", pc[t] \in Inside
  PROVE  /\ mutex.owner = t /\ Active(t)
         /\ \A s \in Threads \ {t} : ~Active(s)
<1>1. Active(t)
  BY DEF Active, Depth
<1> QED
  BY <1>1 DEF Exclusive

\* A step of a thread that stays inside.
LEMMA StillInside ==
  ASSUME TypeOK, Exclusive, NotFrozen,
         NEW t \in Threads, state[t] # "dead", pc[t] \in Inside,
         NEW label \in Inside, pc' = [pc EXCEPT ![t] = label],
         UNCHANGED <<state, mutex, outer>>
  PROVE  /\ pc' \in [Threads -> {"app", "trylock"} \cup Inside]
         /\ Exclusive'
         /\ suspend' = suspend => NotFrozen'
         /\ MarkedAt(t)' => Marked'
<1>1. \A s \in Threads : pc'[s] = IF s = t THEN label ELSE pc[s]
  BY DEF TypeOK
<1>2. \A s \in Threads : Depth(s)' = Depth(s) /\ (Active(s)' <=> Active(s))
  BY <1>1 DEF Depth, Active
<1>3. Exclusive'
  BY <1>2 DEF Exclusive
<1>4. suspend' = suspend => NotFrozen'
  BY <1>2 DEF NotFrozen
<1>5. \A s \in Threads \ {t} : MarkedAt(s)'
  <2> SUFFICES ASSUME NEW s \in Threads \ {t}, state[s] # "dead", pc[s] \in Filling
               PROVE  FALSE
    BY <1>1 DEF MarkedAt
  <2>1. Active(s)
    BY DEF Active, Depth, Filling, Inside, Building
  <2> QED
    BY <2>1, OneActive
<1> QED
  BY <1>1, <1>3, <1>4, <1>5 DEF Marked, TypeOK

\* A step that leaves the plan and the kernel alone.
LEMMA PlanAlone ==
  ASSUME Distinct, Recorded, UNCHANGED <<state, suspend, handles, plan, planCount>>
  PROVE  Distinct' /\ Recorded'
  BY DEF Distinct, Recorded

\* A new entry, at the end of the plan or over another one.
LEMMA PlacedSafely ==
  ASSUME TypeOK, Distinct, Recorded,
         NEW slot \in Slots, slot <= planCount + 1,
         NEW entry \in Entry, entry.tid \in Threads, ~entry.suspended, ~InPlan(entry.tid),
         entry.handle => state[entry.tid] = "live" /\ handles[entry.tid] < MaxHandles,
         entry.current => ~entry.handle,
         plan' = [plan EXCEPT ![slot] = entry],
         planCount' = IF slot > planCount THEN planCount + 1 ELSE planCount,
         Handles(IF slot > planCount THEN EmptyEntry ELSE plan[slot], entry),
         UNCHANGED <<state, suspend>>
  PROVE  /\ plan' \in [Slots -> Entry]
         /\ planCount' \in 0 .. kMaxThreads
         /\ handles' \in [Threads -> 0 .. MaxHandles]
         /\ Distinct' /\ Recorded'
         /\ \A i \in 1 .. planCount' :
              plan'[i] = entry \/ \E j \in 1 .. planCount : plan'[i] = plan[j]
         /\ InPlan(entry.tid)'
         /\ \A x : InPlan(x) /\ (slot <= planCount => plan[slot].tid # x) => InPlan(x)'
<1> USE CapacityAssumption
<1>1. /\ plan \in [Slots -> Entry] /\ planCount \in 0 .. kMaxThreads
      /\ handles \in [Threads -> 0 .. MaxHandles]
      /\ 1 .. planCount \subseteq Slots
  BY DEF TypeOK, Slots
<1>2. plan' \in [Slots -> Entry]
  BY <1>1
<1>3. \A i \in Slots : plan'[i] = IF i = slot THEN entry ELSE plan[i]
  BY <1>1
<1>4. planCount' \in 0 .. kMaxThreads
  BY <1>1 DEF Slots
<1>5. /\ slot \in 1 .. planCount'
      /\ 1 .. planCount' \subseteq Slots
      /\ \A i \in 1 .. planCount' : i # slot => i \in 1 .. planCount
      /\ \A i \in 1 .. planCount : i \in 1 .. planCount'
  BY <1>1, <1>4 DEF Slots
<1>6. \A i \in 1 .. planCount : plan[i].tid # entry.tid
  BY DEF InPlan
<1>7. Distinct'
  BY <1>3, <1>5, <1>6 DEF Distinct
<1> DEFINE closed == IF slot > planCount THEN EmptyEntry ELSE plan[slot]
<1>8. \A x \in Threads :
        handles'[x] = handles[x] - (IF closed.handle /\ closed.tid = x THEN 1 ELSE 0)
                                 + (IF entry.handle /\ entry.tid = x THEN 1 ELSE 0)
  BY DEF Handles
<1>9. closed.handle => /\ slot \in 1 .. planCount /\ closed = plan[slot]
                       /\ closed.tid \in Threads /\ handles[closed.tid] > 0
  BY <1>1 DEF EmptyEntry, NewEntry, Slots, Recorded
<1>10. handles' \in [Threads -> 0 .. MaxHandles]
  <2> HIDE DEF closed
  <2>1. handles' = [x \in Threads |-> handles'[x]]
    BY DEF Handles
  <2>2. ASSUME NEW x \in Threads PROVE handles'[x] \in 0 .. MaxHandles
    <3>1. handles[x] \in 0 .. MaxHandles
      BY <1>1
    <3>2. closed.handle /\ closed.tid = x => handles[x] > 0
      BY <1>9
    <3>3. entry.handle /\ entry.tid = x => handles[x] < MaxHandles
      OBVIOUS
    <3> QED
      BY <1>8, <3>1, <3>2, <3>3
  <2> QED
    BY <2>1, <2>2
<1>11. ASSUME NEW i \in 1 .. planCount', plan'[i].handle
       PROVE  handles'[plan'[i].tid] > 0
  <2>1. CASE i = slot
    <3>1. plan'[i] = entry
      BY <2>1, <1>3, <1>5
    <3>2. ~(closed.handle /\ closed.tid = entry.tid)
      BY <1>6, <1>9
    <3>3. handles[entry.tid] \in 0 .. MaxHandles
      BY <1>1
    <3> HIDE DEF closed
    <3> QED
      BY <1>8, <1>11, <3>1, <3>2, <3>3
  <2>2. CASE i # slot
    <3>1. plan'[i] = plan[i] /\ i \in 1 .. planCount
      BY <2>2, <1>3, <1>5
    <3>2. plan[i].tid \in Threads /\ handles[plan[i].tid] > 0
      BY <3>1, <1>11 DEF Recorded
    <3>3. ~(closed.handle /\ closed.tid = plan[i].tid)
      BY <2>2, <3>1, <1>9 DEF Distinct
    <3>4. handles[plan[i].tid] \in 0 .. MaxHandles
      BY <3>2, <1>1
    <3>5. entry.tid # plan[i].tid
      BY <3>1, <1>6
    <3> HIDE DEF closed
    <3>6. handles'[plan[i].tid] = handles[plan[i].tid]
      BY <1>8, <3>2, <3>3, <3>4, <3>5
    <3> QED
      BY <3>1, <3>2, <3>6
  <2> QED
    BY <2>1, <2>2
<1>12. Recorded'
  <2> SUFFICES ASSUME NEW i \in 1 .. planCount'
               PROVE  /\ plan'[i].tid \in Threads
                      /\ plan'[i].handle => state[plan'[i].tid] # "unborn"
                      /\ plan'[i].current => ~plan'[i].handle
                      /\ plan'[i].suspended => \/ state[plan'[i].tid] = "dead"
                                               \/ /\ state[plan'[i].tid] = "live"
                                                  /\ suspend[plan'[i].tid] > 0
    BY <1>11 DEF Recorded
  <2> HIDE DEF closed
  <2>1. CASE i = slot
    BY <2>1, <1>3, <1>5
  <2>2. CASE i # slot
    <3>1. plan'[i] = plan[i] /\ i \in 1 .. planCount
      BY <2>2, <1>3, <1>5
    <3> QED
      BY <3>1 DEF Recorded
  <2> QED
    BY <2>1, <2>2
<1>13. \A i \in 1 .. planCount' :
         plan'[i] = entry \/ \E j \in 1 .. planCount : plan'[i] = plan[j]
  BY <1>3, <1>5
<1>14. InPlan(entry.tid)'
  BY <1>3, <1>5 DEF InPlan
<1>15. \A x : InPlan(x) /\ (slot <= planCount => plan[slot].tid # x) => InPlan(x)'
  <2> HIDE DEF closed
  <2> QED
    BY <1>3, <1>5 DEF InPlan, Slots
<1> QED
  BY <1>2, <1>4, <1>7, <1>10, <1>12, <1>13, <1>14, <1>15

\* Threads start and end.
LEMMA SafeEnvironment ==
  ASSUME Safe, NEW t \in Threads, Environment(t)
  PROVE  Safe'
<1> USE CapacityAssumption DEF Safe
<1>1. CASE Run(t)
  <2>1. /\ moved' = moved \cup {t}
        /\ UNCHANGED <<state, suspend, handles, mutex, intact, plan, planCount, pc, outer,
                       pref, todo, idx>>
    BY <1>1 DEF Run, kernelVars, callVars
  <2>2. TypeOK'
    BY <2>1 DEF TypeOK
  <2>3. Exclusive' /\ NotFrozen' /\ Marked'
    BY <2>1 DEF Exclusive, NotFrozen, Active, Depth, Marked, MarkedAt
  <2> QED
    BY <2>1, <2>2, <2>3, PlanAlone
<1>2. CASE Spawn(t)
  <2>1. /\ state[t] = "unborn" /\ state' = [state EXCEPT ![t] = "live"]
        /\ UNCHANGED <<suspend, handles, mutex, intact, plan, planCount, moved, pc, outer,
                       pref, todo, idx>>
    BY <1>2 DEF Spawn, planVars, callVars
  <2>2. \A s \in Threads : state'[s] = IF s = t THEN "live" ELSE state[s]
    BY <2>1 DEF TypeOK
  <2>3. TypeOK'
    BY <2>1 DEF TypeOK
  <2>4. \A s \in Threads : (Active(s)' <=> Active(s)) /\ Depth(s)' = Depth(s)
    BY <2>1, <2>2 DEF Active, Depth
  <2>5. Exclusive' /\ NotFrozen'
    BY <2>1, <2>4 DEF Exclusive, NotFrozen
  <2>6. Distinct' /\ Recorded'
    BY <2>1, <2>2 DEF Distinct, Recorded
  <2>7. Marked'
    BY <2>1, <2>2 DEF Marked, MarkedAt
  <2> QED
    BY <2>3, <2>5, <2>6, <2>7
<1>3. CASE Exit(t) \/ Kill(t)
  <2>1. /\ state[t] = "live" /\ state' = [state EXCEPT ![t] = "dead"] /\ Abandon(t)
        /\ suspend' = suspend \/ suspend' = [suspend EXCEPT ![t] = 0]
        /\ UNCHANGED <<handles, intact, plan, planCount, moved, pc, outer, pref, todo, idx>>
    BY <1>3 DEF Exit, Kill, At, Running, planVars, callVars
  <2>2. \A s \in Threads : state'[s] = IF s = t THEN "dead" ELSE state[s]
    BY <2>1 DEF TypeOK
  <2>3. /\ suspend' \in [Threads -> 0 .. MaxSuspend]
        /\ \A s \in Threads \ {t} : suspend'[s] = suspend[s]
    BY <2>1 DEF TypeOK
  <2>4. mutex' \in [owner : Threads \cup {NoThread}, count : Nat, abandoned : BOOLEAN]
    BY Zenon, <2>1 DEF Abandon, Unlocked, TypeOK
  <2>5. TypeOK'
    BY Zenon, <2>1, <2>3, <2>4 DEF TypeOK
  <2>6. \A s \in Threads : (Active(s)' <=> Active(s) /\ s # t) /\ Depth(s)' = Depth(s)
    BY <2>1, <2>2 DEF Active, Depth
  <2>7. Exclusive'
    <3>1. mutex'.abandoned => mutex'.owner = NoThread
      BY <2>1 DEF Abandon, Unlocked, Exclusive
    <3>2. ASSUME NEW s \in Threads, Active(s)'
          PROVE  mutex'.owner = s /\ mutex'.count >= Depth(s)'
      <4>1. mutex.owner = s /\ mutex.count >= Depth(s) /\ s # t
        BY <2>6, <3>2 DEF Exclusive
      <4>2. mutex' = mutex
        BY <2>1, <4>1 DEF Abandon
      <4> QED
        BY <2>6, <4>1, <4>2
    <3> QED
      BY <3>1, <3>2 DEF Exclusive
  <2>8. NotFrozen'
    BY <2>3, <2>6 DEF NotFrozen
  <2>9. Distinct' /\ Recorded'
    BY <2>1, <2>2, <2>3 DEF Distinct, Recorded
  <2>10. Marked'
    BY <2>1, <2>2 DEF Marked, MarkedAt
  <2> QED
    BY <2>5, <2>7, <2>8, <2>9, <2>10
<1> QED
  BY <1>1, <1>2, <1>3 DEF Environment

\* A call begins, here or inside another one, is turned away, or is over.
LEMMA SafeCall ==
  ASSUME Safe, NEW t \in Threads,
         \/ \E p \in Threads \cup {NoThread} : Call(t, p)
         \/ Reenter(t) \/ TryLock(t) \/ Release(t)
  PROVE  Safe'
<1> USE CapacityAssumption, ThreadsAssumption DEF Safe
<1> DEFINE Types == /\ pc' \in [Threads -> {"app", "trylock"} \cup Inside]
                    /\ outer' \in [Threads -> {"none", "emit"}]
                    /\ pref' \in [Threads -> Threads \cup {NoThread}]
                    /\ todo' \in [Threads -> SUBSET Threads]
                    /\ idx' \in [Threads -> 1 .. kMaxThreads + 1]
                    /\ mutex' \in [owner : Threads \cup {NoThread}, count : Nat, abandoned : BOOLEAN]
           Others == \A s \in Threads \ {t} : pc'[s] = pc[s] /\ outer'[s] = outer[s] /\ todo'[s] = todo[s]
\* What is to be shown of each.
<1>1. SUFFICES
        /\ UNCHANGED <<state, suspend, handles, intact, plan, planCount, moved>>
        /\ state[t] = "live" /\ suspend[t] = 0
        /\ Types /\ Others
        /\ pc'[t] \notin Filling
        /\ mutex'.abandoned => mutex'.owner = NoThread
        /\ Depth(t)' > 0 => mutex'.owner = t /\ mutex'.count >= Depth(t)'
        /\ mutex' = mutex \/ mutex.owner \in {NoThread, t}
  <2>1. TypeOK'
    BY <1>1 DEF TypeOK
  <2>2. \A s \in Threads \ {t} : (Active(s)' <=> Active(s)) /\ Depth(s)' = Depth(s)
    BY <1>1 DEF Active, Depth
  <2>3. \A s \in Threads \ {t} : Active(s) => mutex' = mutex
    BY <1>1 DEF Exclusive
  <2>4. Exclusive'
    BY <1>1, <2>2, <2>3 DEF Exclusive, Active
  <2>5. NotFrozen'
    BY <1>1, <2>2 DEF NotFrozen
  <2>6. Distinct' /\ Recorded'
    BY <1>1, PlanAlone
  <2>7. Marked'
    BY <1>1 DEF Marked, MarkedAt
  <2> QED
    BY <2>1, <2>4, <2>5, <2>6, <2>7
<1>2. ASSUME Return(t), At(t, "trylock") \/ At(t, "release")
      PROVE  /\ pc' \in [Threads -> {"app", "trylock"} \cup Inside]
             /\ outer' \in [Threads -> {"none", "emit"}]
             /\ pref' \in [Threads -> Threads \cup {NoThread}]
             /\ todo' \in [Threads -> SUBSET Threads]
             /\ idx' \in [Threads -> 1 .. kMaxThreads + 1]
             /\ Others
             /\ pc'[t] \in {"app", "emit"}
             /\ Depth(t)' = IF outer[t] = "none" THEN 0 ELSE 1
  <2>1. /\ pc'[t] = (IF outer[t] = "none" THEN "app" ELSE outer[t])
        /\ outer'[t] = "none" /\ Others
    BY <1>2 DEF Return, TypeOK
  <2>2. outer[t] \in {"none", "emit"}
    BY DEF TypeOK
  <2>3. /\ pc' \in [Threads -> {"app", "trylock"} \cup Inside]
        /\ outer' \in [Threads -> {"none", "emit"}]
    BY <1>2, <2>2 DEF Return, TypeOK, Inside
  <2>4. /\ pref' \in [Threads -> Threads \cup {NoThread}]
        /\ todo' \in [Threads -> SUBSET Threads]
        /\ idx' \in [Threads -> 1 .. kMaxThreads + 1]
    BY <1>2 DEF Return, TypeOK
  <2>5. Depth(t)' = IF outer[t] = "none" THEN 0 ELSE 1
    BY <2>1, <2>2 DEF Depth, Inside, Building
  <2> QED
    BY <2>1, <2>2, <2>3, <2>4, <2>5
<1>3. At(t, "trylock") => Depth(t) = IF outer[t] = "none" THEN 0 ELSE 1
  BY DEF At, Depth, Inside, Building
<1>4. /\ mutex.owner \in Threads \cup {NoThread} /\ mutex.count \in Nat /\ mutex.abandoned \in BOOLEAN
      /\ mutex \in [owner : Threads \cup {NoThread}, count : Nat, abandoned : BOOLEAN]
      /\ Depth(t) \in 0 .. 2 /\ Depth(t)' \in 0 .. 2
  BY DEF TypeOK, Depth
<1>5. CASE \E p \in Threads \cup {NoThread} : Call(t, p)
  <2>1. PICK p \in Threads \cup {NoThread} : Call(t, p)
    BY <1>5
  <2>2. /\ pc[t] = "app" /\ state[t] = "live" /\ suspend[t] = 0
        /\ pc' = [pc EXCEPT ![t] = "trylock"] /\ pref' = [pref EXCEPT ![t] = p]
        /\ UNCHANGED <<state, suspend, handles, mutex, intact, plan, planCount, moved, outer,
                       todo, idx>>
    BY <2>1 DEF Call, At, Running, Goto, kernelVars, planVars
  <2>3. Types /\ Others /\ pc'[t] = "trylock"
    BY <2>2 DEF TypeOK
  <2>4. Depth(t)' = Depth(t)
    BY <2>2, <2>3 DEF Depth, Inside, Building
  <2> QED
    BY <2>2, <2>3, <2>4 DEF Exclusive, Active, Filling
<1>6. CASE Reenter(t)
  <2>1. /\ pc[t] = "emit" /\ state[t] = "live" /\ suspend[t] = 0 /\ outer[t] = "none"
        /\ pc' = [pc EXCEPT ![t] = "trylock"] /\ outer' = [outer EXCEPT ![t] = "emit"]
        /\ UNCHANGED <<state, suspend, handles, mutex, intact, plan, planCount, moved, pref,
                       todo, idx>>
    BY <1>6 DEF Reenter, At, Running, Goto, kernelVars, planVars
  <2>2. Types /\ Others /\ pc'[t] = "trylock" /\ outer'[t] = "emit"
    BY <2>1 DEF TypeOK
  <2>3. Depth(t)' = 1 /\ Depth(t) = 1
    BY <2>1, <2>2 DEF Depth, Inside, Building
  <2> QED
    BY <2>1, <2>2, <2>3 DEF Exclusive, Active, Filling
<1>7. CASE TryLockAcquired(t)
  <2>1. /\ At(t, "trylock") /\ state[t] = "live" /\ suspend[t] = 0
        /\ mutex.owner \in {NoThread, t}
        /\ mutex' = [owner |-> t, count |-> mutex.count + 1, abandoned |-> FALSE]
        /\ pc' = [pc EXCEPT ![t] = "check"]
        /\ UNCHANGED <<state, suspend, handles, intact, plan, planCount, moved, outer, pref,
                       todo, idx>>
    BY <1>7 DEF TryLockAcquired, MutexFree, At, Running, Goto, kernelVars, planVars
  <2>2. Types /\ Others /\ pc'[t] = "check"
    BY <1>4, <2>1 DEF TypeOK, Inside
  <2>3. Depth(t)' = Depth(t) + 1 /\ "check" \notin Filling
    BY <2>1, <2>2, <1>3 DEF Depth, Inside, Filling
  <2>4. mutex.count >= Depth(t)
    BY <1>4, <2>1 DEF Exclusive, Active
  <2>5. mutex'.owner = t /\ mutex'.count = mutex.count + 1 /\ ~mutex'.abandoned
    BY <2>1
  <2> QED
    BY <1>4, <2>1, <2>2, <2>3, <2>4, <2>5
<1>8. CASE TryLockAbandoned(t)
  <2>1. /\ At(t, "trylock") /\ state[t] = "live" /\ suspend[t] = 0 /\ mutex.abandoned
        /\ mutex' = [owner |-> t, count |-> 1, abandoned |-> FALSE] /\ Return(t)
        /\ UNCHANGED <<state, suspend, handles, intact, plan, planCount, moved>>
    BY <1>8 DEF TryLockAbandoned, At, Running, kernelVars, planVars
  <2>2. mutex.owner = NoThread
    BY <2>1 DEF Exclusive
  <2>3. mutex' \in [owner : Threads \cup {NoThread}, count : Nat, abandoned : BOOLEAN]
    BY <2>1
  <2>4. mutex'.owner = t /\ mutex'.count = 1 /\ ~mutex'.abandoned
    BY <2>1
  <2>5. Depth(t)' \in {0, 1}
    BY <2>1, <1>2
  <2> QED
    BY <1>2, <2>1, <2>2, <2>3, <2>4, <2>5 DEF Filling
<1>9. CASE TryLockBusy(t)
  <2>1. /\ At(t, "trylock") /\ state[t] = "live" /\ suspend[t] = 0
        /\ mutex.owner \notin {NoThread, t} /\ Return(t)
        /\ UNCHANGED <<state, suspend, handles, mutex, intact, plan, planCount, moved>>
    BY <1>9 DEF TryLockBusy, At, Running, kernelVars, planVars
  <2>2. Depth(t) = 0
    BY <1>4, <2>1 DEF Exclusive, Active
  <2>3. Depth(t)' = 0
    BY <1>2, <1>3, <2>1, <2>2
  <2> QED
    BY <1>2, <1>4, <2>1, <2>3 DEF Filling, Exclusive
<1>10. CASE Release(t)
  <2>1. /\ At(t, "release") /\ pc[t] = "release" /\ state[t] = "live" /\ suspend[t] = 0 /\ Return(t)
        /\ mutex' = IF mutex.count = 1 THEN Unlocked ELSE [mutex EXCEPT !.count = @ - 1]
        /\ UNCHANGED <<state, suspend, handles, intact, plan, planCount, moved>>
    BY <1>10 DEF Release, At, Running, kernelVars, planVars
  <2>2. Depth(t) = 1 + (IF outer[t] = "none" THEN 0 ELSE 1)
    BY <2>1 DEF Depth, Inside
  <2>3. mutex.owner = t /\ mutex.count >= Depth(t)
    BY <2>1, <2>2 DEF Exclusive, Active
  <2>4. Depth(t)' = Depth(t) - 1
    BY <1>2, <2>1, <2>2
  <2>5. CASE mutex.count = 1
    <3>1. mutex' = Unlocked
      BY <2>1, <2>5
    <3>2. Depth(t)' = 0
      BY <1>4, <2>2, <2>3, <2>4, <2>5
    <3>3. /\ mutex' \in [owner : Threads \cup {NoThread}, count : Nat, abandoned : BOOLEAN]
          /\ mutex'.owner = NoThread
      BY <3>1 DEF Unlocked
    <3> QED
      BY <1>2, <2>1, <2>3, <3>2, <3>3 DEF Filling
  <2>6. CASE mutex.count # 1
    <3>1. mutex' = [mutex EXCEPT !.count = @ - 1]
      BY <2>1, <2>6
    <3>2. mutex.count \in Nat /\ mutex.count >= 2
      BY <1>4, <2>2, <2>3, <2>6
    <3>3. /\ mutex' \in [owner : Threads \cup {NoThread}, count : Nat, abandoned : BOOLEAN]
          /\ mutex'.owner = t /\ mutex'.count = mutex.count - 1
          /\ mutex'.abandoned = mutex.abandoned
      BY <1>4, <2>3, <3>1, <3>2
    <3>4. ~mutex.abandoned
      BY <2>3 DEF Exclusive
    <3>5. mutex'.count >= Depth(t)'
      BY <1>4, <2>3, <2>4, <3>3
    <3> QED
      BY <1>2, <2>1, <2>3, <3>3, <3>4, <3>5 DEF Filling
  <2> QED
    BY <2>5, <2>6
<1> QED
  BY <1>5, <1>6, <1>7, <1>8, <1>9, <1>10 DEF TryLock

\* The writer goes on and leaves the plan as it is.
LEMMA SafePhase ==
  ASSUME Safe, NEW t \in Threads, state[t] # "dead", pc[t] \in Inside,
         NEW label \in Inside, pc' = [pc EXCEPT ![t] = label],
         idx' = idx \/ idx' = [idx EXCEPT ![t] = 1],
         todo' = todo \/ todo' = [todo EXCEPT ![t] = {}],
         moved' \subseteq moved,
         UNCHANGED <<state, suspend, handles, mutex, intact, plan, planCount, outer, pref>>,
         label \notin Filling \/ (label = "current" /\ pc[t] = "open")
  PROVE  Safe'
<1> USE CapacityAssumption DEF Safe
<1>1. /\ idx' \in [Threads -> 1 .. kMaxThreads + 1]
      /\ todo' \in [Threads -> SUBSET Threads]
      /\ pc'[t] = label
  BY DEF TypeOK
<1>2. MarkedAt(t)'
  <2>1. CASE label \notin Filling
    BY <1>1, <2>1 DEF MarkedAt
  <2>2. CASE label = "current" /\ pc[t] = "open"
    BY <1>1, <2>2 DEF MarkedAt, Marked, Filling
  <2> QED
    BY <2>1, <2>2
<1>3. /\ pc' \in [Threads -> {"app", "trylock"} \cup Inside]
      /\ Exclusive' /\ NotFrozen' /\ Marked'
  BY Zenon, <1>2, StillInside
<1>4. TypeOK'
  BY <1>1, <1>3 DEF TypeOK
<1> QED
  BY <1>3, <1>4, PlanAlone

\* The plan is emptied.
LEMMA SafeEmpty ==
  ASSUME Safe, NEW t \in Threads, Snapshot(t) \/ ResumeDone(t)
  PROVE  Safe'
<1> USE CapacityAssumption DEF Safe
<1>1. PICK label \in Inside :
        /\ state[t] = "live" /\ pc[t] \in Inside
        /\ planCount' = 0 /\ plan' = EmptyPlan /\ moved' = {}
        /\ pc' = [pc EXCEPT ![t] = label]
        /\ UNCHANGED <<state, suspend, handles, mutex, intact, outer, pref, idx>>
  BY DEF Snapshot, ResumeDone, At, Running, Goto, kernelVars, Inside, Building
<1>2. todo' \in [Threads -> SUBSET Threads]
  <2>1. CASE ResumeDone(t)
    BY <2>1 DEF ResumeDone, TypeOK
  <2>2. CASE Snapshot(t)
    <3>1. PICK seen \in SUBSET Threads : todo' = [todo EXCEPT ![t] = seen]
      BY Zenon, <2>2 DEF Snapshot
    <3> QED
      BY <3>1 DEF TypeOK
  <2> QED
    BY <2>1, <2>2
<1>3. plan' \in [Slots -> Entry]
  BY <1>1 DEF EmptyPlan, EmptyEntry, NewEntry, Entry
<1>4. MarkedAt(t)'
  BY <1>1 DEF MarkedAt
<1>5. /\ pc' \in [Threads -> {"app", "trylock"} \cup Inside]
      /\ Exclusive' /\ NotFrozen' /\ Marked'
  BY Zenon, <1>1, <1>4, StillInside
<1>6. TypeOK'
  BY <1>1, <1>2, <1>3, <1>5 DEF TypeOK
<1>7. Distinct' /\ Recorded'
  BY <1>1 DEF Distinct, Recorded
<1> QED
  BY <1>5, <1>6, <1>7

LEMMA SafeOpenNext ==
  ASSUME Safe, NEW t \in Threads, OpenNext(t)
  PROVE  Safe'
<1> USE CapacityAssumption DEF Safe
<1>1. /\ state[t] = "live" /\ pc[t] = "open" /\ planCount < kMaxThreads
      /\ UNCHANGED <<state, suspend, mutex, intact, moved, pc, outer, pref, idx>>
  BY DEF OpenNext, At, Running
<1>2. PICK tid \in todo[t], ok \in BOOLEAN :
        /\ IF IsSelf(t, tid) THEN ~ok ELSE OpenThread(tid, ok)
        /\ plan' = [plan EXCEPT ![planCount + 1] = NewEntry(tid, IsSelf(t, tid), ok)]
        /\ planCount' = planCount + 1
        /\ Handles(EmptyEntry, NewEntry(tid, IsSelf(t, tid), ok))
        /\ todo' = [todo EXCEPT ![t] = @ \ {tid}]
  BY Zenon DEF OpenNext
<1> DEFINE entry == NewEntry(tid, tid = t, ok)
           slot == planCount + 1
<1>3. tid \in Threads
  BY DEF TypeOK
<1>4. /\ entry \in Entry /\ entry.tid = tid /\ ~entry.suspended
      /\ entry.current <=> tid = t
      /\ entry.handle <=> ok
  BY Zenon, <1>3 DEF NewEntry, Entry
<1>5. ok => tid # t /\ state[tid] = "live" /\ handles[tid] < MaxHandles
  BY <1>2 DEF IsSelf, OpenThread
<1>6. /\ \A i \in 1 .. planCount : /\ plan[i].tid = t <=> plan[i].current
                                   /\ plan[i].tid \notin todo[t]
      /\ ~InPlan(tid)
  BY <1>1 DEF Marked, MarkedAt, Filling, InPlan
<1>7. slot \in Slots /\ planCount \in Nat /\ slot > planCount
  BY <1>1 DEF TypeOK, Slots
<1>8. /\ plan' = [plan EXCEPT ![slot] = entry]
      /\ planCount' = planCount + 1
      /\ Handles(EmptyEntry, entry)
  BY <1>2 DEF IsSelf
<1>9. slot <= planCount + 1
  BY <1>7
<1> HIDE DEF entry, slot
<1>10. /\ plan' \in [Slots -> Entry]
       /\ planCount' \in 0 .. kMaxThreads
       /\ handles' \in [Threads -> 0 .. MaxHandles]
       /\ Distinct' /\ Recorded'
       /\ \A i \in 1 .. planCount' :
            plan'[i] = entry \/ \E j \in 1 .. planCount : plan'[i] = plan[j]
  <2>1. entry.tid \in Threads /\ ~InPlan(entry.tid)
    BY <1>3, <1>4, <1>6
  <2>2. /\ entry.handle => state[entry.tid] = "live" /\ handles[entry.tid] < MaxHandles
        /\ entry.current => ~entry.handle
    BY <1>4, <1>5
  <2>3. /\ planCount' = IF slot > planCount THEN planCount + 1 ELSE planCount
        /\ Handles(IF slot > planCount THEN EmptyEntry ELSE plan[slot], entry)
    BY <1>7, <1>8
  <2>4. TypeOK /\ Distinct /\ Recorded /\ UNCHANGED <<state, suspend>>
    BY <1>1
  <2>5. /\ entry \in Entry /\ ~entry.suspended
        /\ slot \in Slots /\ slot <= planCount + 1
        /\ plan' = [plan EXCEPT ![slot] = entry]
    BY <1>4, <1>7, <1>8, <1>9
  <2> HIDE CapacityAssumption DEF Safe
  <2> QED
    BY Zenon, <2>1, <2>2, <2>3, <2>4, <2>5, PlacedSafely
<1>11. todo' \in [Threads -> SUBSET Threads] /\ todo'[t] = todo[t] \ {tid}
  BY <1>2 DEF TypeOK
<1>12. MarkedAt(t)'
  BY <1>1, <1>4, <1>6, <1>10, <1>11 DEF MarkedAt
<1>13. pc' = [pc EXCEPT ![t] = "open"] /\ "open" \in Inside
  BY <1>1 DEF TypeOK, Inside, Building
<1>14. Exclusive' /\ NotFrozen' /\ Marked'
  BY Zenon, <1>1, <1>12, <1>13, StillInside
<1>15. TypeOK'
  BY <1>1, <1>10, <1>11 DEF TypeOK
<1> QED
  BY <1>10, <1>14, <1>15

\* The writer's own entry, and that of the exception thread.
LEMMA SafeEnsure ==
  ASSUME Safe, NEW t \in Threads, EnsureCurrent(t) \/ EnsurePreferred(t)
  PROVE  Safe'
<1> USE CapacityAssumption DEF Safe
<1>1. PICK label \in {"preferred", "suspend"} :
        /\ state[t] = "live" /\ pc[t] \in {"current", "preferred"}
        /\ pc' = [pc EXCEPT ![t] = label]
        /\ idx' = idx \/ idx' = [idx EXCEPT ![t] = 1]
        /\ UNCHANGED <<state, suspend, mutex, intact, moved, outer, pref, todo>>
  BY Zenon DEF EnsureCurrent, EnsurePreferred, At, Running, Goto
<1>2. /\ pc[t] \in Inside /\ pc[t] \in Filling /\ label \in Inside /\ pc'[t] = label
      /\ \A i \in 1 .. planCount : plan[i].tid = t <=> plan[i].current
  BY <1>1 DEF Inside, Building, Filling, Marked, MarkedAt, TypeOK
<1>3. idx' \in [Threads -> 1 .. kMaxThreads + 1]
  BY <1>1 DEF TypeOK
\* What is to be shown of either.
<1>4. SUFFICES
        /\ plan' \in [Slots -> Entry] /\ planCount' \in 0 .. kMaxThreads
        /\ handles' \in [Threads -> 0 .. MaxHandles]
        /\ Distinct' /\ Recorded'
        /\ \A i \in 1 .. planCount' : plan'[i].tid = t <=> plan'[i].current
  <2>1. MarkedAt(t)'
    BY <1>1, <1>2, <1>4 DEF MarkedAt
  <2>2. /\ pc' \in [Threads -> {"app", "trylock"} \cup Inside]
        /\ Exclusive' /\ NotFrozen' /\ Marked'
    BY Zenon, <1>1, <1>2, <2>1, StillInside
  <2>3. TypeOK'
    BY <1>1, <1>3, <1>4, <2>2 DEF TypeOK
  <2> QED
    BY <1>4, <2>2, <2>3
<1>5. CASE UNCHANGED <<plan, planCount, handles>>
  BY <1>1, <1>2, <1>5, PlanAlone DEF TypeOK
<1>6. ASSUME NEW entry \in Entry, NEW victim \in Slots, Place(entry, victim),
             entry.tid \in Threads, ~entry.suspended, ~InPlan(entry.tid),
             entry.handle => state[entry.tid] = "live" /\ handles[entry.tid] < MaxHandles,
             entry.current => ~entry.handle,
             entry.tid = t <=> entry.current
      PROVE  /\ plan' \in [Slots -> Entry] /\ planCount' \in 0 .. kMaxThreads
             /\ handles' \in [Threads -> 0 .. MaxHandles]
             /\ Distinct' /\ Recorded'
             /\ \A i \in 1 .. planCount' : plan'[i].tid = t <=> plan'[i].current
  <2> DEFINE slot == IF planCount >= kMaxThreads THEN victim ELSE planCount + 1
  <2>1. /\ slot \in Slots /\ slot <= planCount + 1
        /\ slot > planCount <=> ~(planCount >= kMaxThreads)
    BY DEF TypeOK, Slots
  <2>2. /\ plan' = [plan EXCEPT ![slot] = entry]
        /\ planCount' = IF slot > planCount THEN planCount + 1 ELSE planCount
        /\ Handles(IF slot > planCount THEN EmptyEntry ELSE plan[slot], entry)
    BY <1>6, <2>1 DEF Place
  <2> HIDE DEF slot
  <2>3. /\ plan' \in [Slots -> Entry] /\ planCount' \in 0 .. kMaxThreads
        /\ handles' \in [Threads -> 0 .. MaxHandles]
        /\ Distinct' /\ Recorded'
        /\ \A i \in 1 .. planCount' :
             plan'[i] = entry \/ \E j \in 1 .. planCount : plan'[i] = plan[j]
    <3>1. TypeOK /\ Distinct /\ Recorded /\ UNCHANGED <<state, suspend>>
      BY <1>1
    <3> HIDE CapacityAssumption DEF Safe
    <3> QED
      BY Zenon, <1>6, <2>1, <2>2, <3>1, PlacedSafely
  <2>4. \A i \in 1 .. planCount' : plan'[i].tid = t <=> plan'[i].current
    BY <1>2, <1>6, <2>3
  <2> QED
    BY <2>3, <2>4
<1>7. kMaxThreads \in Slots /\ Victim \in Slots
  BY DEF Slots, Victim
<1>8. CASE EnsureCurrent(t) /\ ~UNCHANGED <<plan, planCount, handles>>
  <2> DEFINE entry == NewEntry(t, TRUE, FALSE)
  <2>1. Place(entry, kMaxThreads) /\ ~\E i \in 1 .. planCount : plan[i].current
    BY Zenon, <1>8 DEF EnsureCurrent
  <2>2. ~InPlan(t)
    BY <1>2, <2>1 DEF InPlan
  <2>3. /\ entry \in Entry /\ entry.tid = t /\ entry.current
        /\ ~entry.suspended /\ ~entry.handle
    BY DEF NewEntry, Entry
  <2> HIDE DEF entry
  <2> QED
    BY <1>6, <1>7, <2>1, <2>2, <2>3
<1>9. CASE EnsurePreferred(t) /\ ~UNCHANGED <<plan, planCount, handles>>
  <2>1. PICK ok \in BOOLEAN :
          OpenThread(pref[t], ok) /\ Place(NewEntry(pref[t], FALSE, ok), Victim)
    BY Zenon, <1>9 DEF EnsurePreferred
  <2>2. pref[t] \notin {NoThread, t} /\ ~InPlan(pref[t])
    BY Zenon, <1>9 DEF EnsurePreferred
  <2> DEFINE entry == NewEntry(pref[t], FALSE, ok)
  <2>3. pref[t] \in Threads
    BY <2>2 DEF TypeOK
  <2>4. /\ entry \in Entry /\ entry.tid = pref[t] /\ ~entry.suspended /\ ~entry.current
        /\ entry.handle => state[pref[t]] = "live" /\ handles[pref[t]] < MaxHandles
    BY <2>1, <2>3 DEF NewEntry, Entry, OpenThread
  <2>5. Place(entry, Victim)
    BY Zenon, <2>1
  <2> HIDE DEF entry
  <2> QED
    BY Zenon, <1>6, <1>7, <2>2, <2>3, <2>4, <2>5
<1> QED
  BY <1>5, <1>8, <1>9

\* One SuspendThread: never of the writer itself.
LEMMA SafeSuspend ==
  ASSUME Safe, NEW t \in Threads, SuspendNext(t)
  PROVE  Safe'
<1> USE CapacityAssumption DEF Safe
<1> DEFINE i == idx[t]
           x == plan[i].tid
<1>1. /\ state[t] = "live" /\ pc[t] = "suspend" /\ i <= planCount
      /\ idx' = [idx EXCEPT ![t] = @ + 1]
      /\ UNCHANGED <<state, handles, mutex, intact, planCount, moved, pc, outer, pref, todo>>
  BY DEF SuspendNext, At, Running
<1>2. /\ i \in 1 .. planCount /\ i \in Slots /\ planCount \in 0 .. kMaxThreads
      /\ idx' \in [Threads -> 1 .. kMaxThreads + 1]
      /\ plan \in [Slots -> Entry] /\ 1 .. planCount \subseteq Slots
      /\ x \in Threads /\ suspend \in [Threads -> 0 .. MaxSuspend]
  <2>1. /\ planCount \in 0 .. kMaxThreads /\ plan \in [Slots -> Entry]
        /\ suspend \in [Threads -> 0 .. MaxSuspend]
        /\ handles \in [Threads -> 0 .. MaxHandles]
        /\ idx \in [Threads -> 1 .. kMaxThreads + 1]
    BY DEF TypeOK
  <2>2. i \in 1 .. planCount /\ 1 .. planCount \subseteq Slots
    BY <1>1, <2>1 DEF Slots
  <2>3. i + 1 \in 1 .. kMaxThreads + 1
    BY <2>1, <2>2
  <2>4. idx' \in [Threads -> 1 .. kMaxThreads + 1]
    BY <1>1, <2>1, <2>3
  <2>5. x \in Threads
    BY <2>2 DEF Recorded
  <2> QED
    BY <2>1, <2>2, <2>4, <2>5
<1>3. pc' = [pc EXCEPT ![t] = "suspend"] /\ "suspend" \in Inside /\ pc[t] \in Inside
  BY <1>1 DEF TypeOK, Inside, Building
<1>4. CASE UNCHANGED <<suspend, plan>>
  <2>1. MarkedAt(t)'
    BY <1>1, <1>4 DEF MarkedAt, Marked
  <2>2. Exclusive' /\ NotFrozen' /\ Marked'
    BY Zenon, <1>1, <1>3, <1>4, <2>1, StillInside
  <2>3. TypeOK'
    BY <1>1, <1>2, <1>4 DEF TypeOK
  <2> QED
    BY <1>1, <1>4, <2>2, <2>3, PlanAlone
<1>5. CASE ~UNCHANGED <<suspend, plan>>
  <2>1. /\ ~plan[i].current /\ plan[i].handle /\ state[x] = "live" /\ suspend[x] < MaxSuspend
        /\ suspend' = [suspend EXCEPT ![x] = @ + 1]
        /\ plan' = [plan EXCEPT ![i].suspended = TRUE]
    BY <1>5 DEF SuspendNext
  <2>2. x # t
    BY <1>1, <1>2, <2>1 DEF Marked, MarkedAt, Filling
  <2>3. /\ suspend' \in [Threads -> 0 .. MaxSuspend]
        /\ \A y \in Threads : suspend'[y] = IF y = x THEN suspend[y] + 1 ELSE suspend[y]
    BY <1>2, <2>1
  <2>4. plan[i] \in Entry /\ plan' = [plan EXCEPT ![i] = [plan[i] EXCEPT !.suspended = TRUE]]
    BY <1>2, <2>1
  <2>5. /\ [plan[i] EXCEPT !.suspended = TRUE] \in Entry
        /\ [plan[i] EXCEPT !.suspended = TRUE].tid = plan[i].tid
        /\ [plan[i] EXCEPT !.suspended = TRUE].current = plan[i].current
        /\ [plan[i] EXCEPT !.suspended = TRUE].handle = plan[i].handle
    BY Zenon, <2>4 DEF Entry
  <2>6. /\ plan' \in [Slots -> Entry]
        /\ \A j \in Slots \ {i} : plan'[j] = plan[j]
        /\ plan'[i].tid = plan[i].tid /\ plan'[i].current = plan[i].current
        /\ plan'[i].handle = plan[i].handle
    <3>1. plan'[i] = [plan[i] EXCEPT !.suspended = TRUE]
      BY Zenon, <1>2, <2>4
    <3>2. plan' \in [Slots -> Entry] /\ \A j \in Slots \ {i} : plan'[j] = plan[j]
      BY <1>2, <2>4, <2>5
    <3> QED
      BY <2>5, <3>1, <3>2
  <2>7. \A j \in 1 .. planCount : /\ plan'[j].tid = plan[j].tid
                                  /\ plan'[j].current = plan[j].current
                                  /\ plan'[j].handle = plan[j].handle
    BY <1>2, <2>6
  <2>8. TypeOK'
    BY <1>1, <1>2, <2>3, <2>6 DEF TypeOK
  <2>9. Distinct'
    BY <1>1, <2>7 DEF Distinct
  <2>10. Recorded'
    <3> SUFFICES ASSUME NEW j \in 1 .. planCount
                 PROVE  /\ plan'[j].tid \in Threads
                        /\ plan'[j].handle => handles[plan'[j].tid] > 0 /\ state[plan'[j].tid] # "unborn"
                        /\ plan'[j].current => ~plan'[j].handle
                        /\ plan'[j].suspended => \/ state[plan'[j].tid] = "dead"
                                                 \/ /\ state[plan'[j].tid] = "live"
                                                    /\ suspend'[plan'[j].tid] > 0
      BY <1>1 DEF Recorded
    <3>1. /\ plan[j].tid \in Threads /\ (plan[j].handle => handles[plan[j].tid] > 0 /\ state[plan[j].tid] # "unborn")
          /\ plan'[j].tid = plan[j].tid /\ plan'[j].handle = plan[j].handle
          /\ plan'[j].current = plan[j].current /\ (plan[j].current => ~plan[j].handle)
      BY <2>7 DEF Recorded
    <3>2. CASE plan[j].tid = x
      <4>1. suspend[x] \in 0 .. MaxSuspend /\ suspend'[x] = suspend[x] + 1
        BY <1>2, <2>3
      <4> HIDE DEF x, i
      <4> QED
        BY <2>1, <3>1, <3>2, <4>1
    <3>3. CASE plan[j].tid # x
      <4>1. plan'[j] = plan[j] /\ suspend'[plan[j].tid] = suspend[plan[j].tid]
        BY <1>2, <2>3, <2>6, <3>1, <3>3
      <4> QED
        BY <4>1 DEF Recorded
    <3> QED
      BY <3>2, <3>3
  <2>11. MarkedAt(t)'
    BY <1>1, <2>7 DEF MarkedAt, Marked, Filling
  <2>12. Exclusive' /\ Marked'
    BY Zenon, <1>1, <1>3, <2>11, StillInside
  <2>13. NotFrozen'
    <3> SUFFICES ASSUME NEW s \in Threads, Active(s)'
                 PROVE  suspend'[s] = 0
      BY DEF NotFrozen
    <3>1. Active(s)
      BY <1>1 DEF Active, Depth
    <3>2. s = t
      BY <1>1, <1>3, <3>1, OneActive
    <3> QED
      BY <2>2, <2>3, <3>1, <3>2 DEF NotFrozen
  <2> QED
    BY <2>8, <2>9, <2>10, <2>12, <2>13
<1> QED
  BY <1>4, <1>5

\* One entry resumed, of whoever's plan it is.
LEMMA SafeResume ==
  ASSUME Safe, NEW t \in Threads, ResumeNext(t)
  PROVE  Safe'
<1> USE CapacityAssumption DEF Safe
<1> DEFINE i == idx[t]
           x == plan[i].tid
           thaw == plan[i].handle /\ plan[i].suspended /\ state[x] = "live"
<1>1. /\ state[t] = "live" /\ pc[t] = "resume" /\ i <= planCount
      /\ idx' = [idx EXCEPT ![t] = @ + 1]
      /\ UNCHANGED <<state, mutex, intact, planCount, moved, pc, outer, pref, todo>>
  BY DEF ResumeNext, At, Running
<1>2. /\ i \in 1 .. planCount /\ i \in Slots /\ planCount \in 0 .. kMaxThreads
      /\ idx' \in [Threads -> 1 .. kMaxThreads + 1]
      /\ plan \in [Slots -> Entry] /\ 1 .. planCount \subseteq Slots
      /\ x \in Threads /\ suspend \in [Threads -> 0 .. MaxSuspend]
      /\ handles \in [Threads -> 0 .. MaxHandles]
  <2>1. /\ planCount \in 0 .. kMaxThreads /\ plan \in [Slots -> Entry]
        /\ suspend \in [Threads -> 0 .. MaxSuspend]
        /\ handles \in [Threads -> 0 .. MaxHandles]
        /\ idx \in [Threads -> 1 .. kMaxThreads + 1]
    BY DEF TypeOK
  <2>2. i \in 1 .. planCount /\ 1 .. planCount \subseteq Slots
    BY <1>1, <2>1 DEF Slots
  <2>3. i + 1 \in 1 .. kMaxThreads + 1
    BY <2>1, <2>2
  <2>4. idx' \in [Threads -> 1 .. kMaxThreads + 1]
    BY <1>1, <2>1, <2>3
  <2>5. x \in Threads
    BY <2>2 DEF Recorded
  <2> QED
    BY <2>1, <2>2, <2>4, <2>5
<1>3. /\ thaw => suspend[x] > 0
      /\ plan[i].handle => handles[x] > 0
  BY <1>2 DEF Recorded
<1>4. /\ suspend' = [y \in Threads |-> IF thaw /\ y = x THEN suspend[y] - 1 ELSE suspend[y]]
      /\ plan' = IF plan[i].handle
                 THEN [plan EXCEPT ![i].suspended = FALSE, ![i].handle = FALSE]
                 ELSE plan
      /\ handles' = [y \in Threads |-> handles[y]
                       - (IF plan[i].handle /\ x = y THEN 1 ELSE 0)
                       + (IF EmptyEntry.handle /\ EmptyEntry.tid = y THEN 1 ELSE 0)]
  BY DEF ResumeNext, Handles
<1>5. ~EmptyEntry.handle
  BY DEF EmptyEntry, NewEntry
<1>6. /\ suspend' \in [Threads -> 0 .. MaxSuspend]
      /\ \A y \in Threads : y # x => suspend'[y] = suspend[y]
      /\ ~plan[i].handle => suspend' = suspend
  <2>1. \A y \in Threads : suspend[y] \in 0 .. MaxSuspend
    BY <1>2
  <2>2. ~plan[i].handle => suspend' = suspend
    BY <1>2, <1>4
  <2> HIDE DEF x, i, thaw
  <2>3. \A y \in Threads : suspend'[y] \in 0 .. MaxSuspend
    BY <1>3, <1>4, <2>1
  <2> QED
    BY <1>4, <2>2, <2>3
<1>7. /\ handles' \in [Threads -> 0 .. MaxHandles]
      /\ \A y \in Threads : y # x => handles'[y] = handles[y]
      /\ ~plan[i].handle => handles' = handles
  <2>1. \A y \in Threads : handles[y] \in 0 .. MaxHandles
    BY <1>2
  <2> HIDE DEF x, i, thaw
  <2>2. \A y \in Threads : handles'[y] = handles[y] - (IF plan[i].handle /\ x = y THEN 1 ELSE 0)
    BY <1>4, <1>5, <2>1
  <2>3. \A y \in Threads : handles'[y] \in 0 .. MaxHandles
    BY <1>3, <2>1, <2>2
  <2>4. handles' = [y \in Threads |-> handles'[y]] /\ handles = [y \in Threads |-> handles[y]]
    BY <1>2, <1>4
  <2>5. ~plan[i].handle => handles' = handles
    BY <2>1, <2>2, <2>4
  <2> QED
    BY <2>1, <2>2, <2>3, <2>4, <2>5
<1>8. /\ plan' \in [Slots -> Entry]
      /\ \A j \in Slots : /\ plan'[j].tid = plan[j].tid
                          /\ j # i => plan'[j] = plan[j]
      /\ plan[i].handle => ~plan'[i].handle /\ ~plan'[i].suspended
      /\ ~plan[i].handle => plan' = plan
  <2>1. CASE plan[i].handle
    <3> DEFINE cleared == [plan[i] EXCEPT !.suspended = FALSE, !.handle = FALSE]
    <3>1. plan[i] \in Entry
      BY <1>2
    <3>2. plan' = [plan EXCEPT ![i] = cleared]
      BY Zenon, <1>2, <1>4, <2>1
    <3>3. /\ cleared \in Entry /\ cleared.tid = plan[i].tid
          /\ ~cleared.handle /\ ~cleared.suspended
      BY Zenon, <3>1 DEF Entry
    <3> HIDE DEF cleared
    <3>4. \A j \in Slots : plan'[j] = IF j = i THEN cleared ELSE plan[j]
      BY <1>2, <3>2
    <3>5. plan' \in [Slots -> Entry]
      BY <1>2, <3>2, <3>3
    <3> QED
      BY <1>2, <2>1, <3>3, <3>4, <3>5
  <2>2. CASE ~plan[i].handle
    BY <1>2, <1>4, <2>2
  <2> QED
    BY <2>1, <2>2
<1>9. TypeOK'
  BY <1>1, <1>2, <1>6, <1>7, <1>8 DEF TypeOK
<1>10. Distinct'
  BY <1>1, <1>2, <1>8 DEF Distinct
<1>11. Recorded'
  <2> SUFFICES ASSUME NEW j \in 1 .. planCount
               PROVE  /\ plan'[j].tid \in Threads
                      /\ plan'[j].handle => handles'[plan'[j].tid] > 0 /\ state[plan'[j].tid] # "unborn"
                      /\ plan'[j].current => ~plan'[j].handle
                      /\ plan'[j].suspended => \/ state[plan'[j].tid] = "dead"
                                               \/ /\ state[plan'[j].tid] = "live"
                                                  /\ suspend'[plan'[j].tid] > 0
    BY <1>1 DEF Recorded
  <2>1. plan[j].tid \in Threads /\ plan'[j].tid = plan[j].tid
    BY <1>2, <1>8 DEF Recorded
  <2>2. CASE j = i /\ plan[i].handle
    BY <1>8, <2>1, <2>2
  <2>3. CASE j # i
    <3>1. plan'[j] = plan[j] /\ plan[j].tid # x
      BY <1>2, <1>8, <2>3 DEF Distinct
    <3> HIDE DEF x, i, thaw
    <3> QED
      BY <1>6, <1>7, <2>1, <3>1 DEF Recorded
  <2>4. CASE ~plan[i].handle
    BY <1>6, <1>7, <1>8, <2>4 DEF Recorded
  <2> QED
    BY <2>2, <2>3, <2>4
<1>12. pc' = [pc EXCEPT ![t] = "resume"] /\ "resume" \in Inside /\ pc[t] \in Inside
  BY <1>1 DEF TypeOK, Inside, Building
<1>13. MarkedAt(t)'
  BY <1>1 DEF MarkedAt, Filling
<1>14. Exclusive' /\ Marked'
  BY Zenon, <1>1, <1>12, <1>13, StillInside
<1>15. NotFrozen'
  <2> SUFFICES ASSUME NEW s \in Threads, Active(s)'
               PROVE  suspend'[s] = 0
    BY DEF NotFrozen
  <2>1. Active(s) /\ suspend[s] = 0
    BY <1>1 DEF Active, Depth, NotFrozen
  <2>2. CASE s # x
    BY <1>6, <2>1, <2>2
  <2>3. CASE s = x
    <3>1. ~thaw
      BY <1>3, <2>1, <2>3
    <3> HIDE DEF x, i, thaw
    <3> QED
      BY <1>4, <2>1, <3>1
  <2> QED
    BY <2>2, <2>3
<1> QED
  BY <1>9, <1>10, <1>11, <1>14, <1>15

LEMMA SafeStep == Safe /\ [Next]_vars => Safe'
<1> SUFFICES ASSUME Safe, [Next]_vars PROVE Safe'
  OBVIOUS
<1>1. CASE UNCHANGED vars
  <2>1. /\ UNCHANGED <<state, suspend, handles, mutex, intact, plan, planCount, moved>>
        /\ UNCHANGED <<pc, outer, pref, todo, idx>>
    BY <1>1 DEF vars, kernelVars, planVars, callVars
  <2>2. TypeOK' /\ Distinct' /\ Recorded'
    BY <2>1 DEF Safe, TypeOK, Distinct, Recorded
  <2>3. Exclusive' /\ Marked' /\ NotFrozen'
    BY <2>1 DEF Safe, Exclusive, Marked, MarkedAt, NotFrozen, Active, Depth
  <2> QED
    BY <2>2, <2>3 DEF Safe
<1>2. ASSUME NEW t \in Threads,
             \/ Environment(t) \/ \E p \in Threads \cup {NoThread} : Call(t, p)
             \/ WriterStep(t) \/ Fault(t) \/ Reenter(t)
      PROVE  Safe'
  <2>1. CASE Environment(t)
    BY <2>1, SafeEnvironment
  <2>2. CASE \/ \E p \in Threads \cup {NoThread} : Call(t, p)
             \/ Reenter(t) \/ TryLock(t) \/ Release(t)
    BY <2>2, SafeCall
  <2>3. CASE Snapshot(t) \/ ResumeDone(t)
    BY <2>3, SafeEmpty
  <2>4. CASE OpenNext(t)
    BY <2>4, SafeOpenNext
  <2>5. CASE EnsureCurrent(t) \/ EnsurePreferred(t)
    BY <2>5, SafeEnsure
  <2>6. CASE SuspendNext(t)
    BY <2>6, SafeSuspend
  <2>7. CASE ResumeNext(t)
    BY <2>7, SafeResume
  <2>8. CASE CheckIntact(t) \/ OpenDone(t) \/ SuspendDone(t) \/ Capture(t) \/ EmitDone(t) \/ Fault(t)
    <3> DEFINE GoesOn(label) ==
          /\ state[t] # "dead" /\ pc[t] \in Inside
          /\ pc' = [pc EXCEPT ![t] = label]
          /\ idx' = idx \/ idx' = [idx EXCEPT ![t] = 1]
          /\ todo' = todo \/ todo' = [todo EXCEPT ![t] = {}]
          /\ moved' \subseteq moved
          /\ UNCHANGED <<state, suspend, handles, mutex, intact, plan, planCount, outer, pref>>
          /\ label \notin Filling \/ (label = "current" /\ pc[t] = "open")
    <3> USE DEF At, Running, Goto, kernelVars, planVars, Inside, Building, Filling
    <3>1. CheckIntact(t) => GoesOn(IF intact THEN "snapshot" ELSE "resume")
      BY DEF CheckIntact
    <3>2. OpenDone(t) => GoesOn("current")
      BY DEF OpenDone
    <3>3. SuspendDone(t) => GoesOn("capture")
      BY DEF SuspendDone
    <3>4. Capture(t) => GoesOn("emit")
      BY DEF Capture
    <3>5. EmitDone(t) \/ Fault(t) => GoesOn("resume")
      BY DEF EmitDone, Fault
    <3>6. \E label \in {"snapshot", "resume", "current", "capture", "emit"} : GoesOn(label)
      <4> HIDE DEF GoesOn
      <4> QED
        BY <2>8, <3>1, <3>2, <3>3, <3>4, <3>5
    <3>7. \A label \in {"snapshot", "resume", "current", "capture", "emit"} : label \in Inside
      OBVIOUS
    <3> QED
      BY Zenon, <3>6, <3>7, SafePhase
  <2> QED
    BY <1>2, <2>1, <2>2, <2>3, <2>4, <2>5, <2>6, <2>7, <2>8
       DEF WriterStep, Build, Finish
<1> QED
  BY <1>1, <1>2 DEF Next

\* The DumpMutex keeps every second crasher out, and no writer suspends itself,
\* even if writers are terminated in the middle of a dump and faults re-enter the
\* API: no assumption but those on the constants.
THEOREM SafeHolds == Spec => []Safe
  BY SafeInit, SafeStep, PTL DEF Spec

\* The types hold in particular: counts of suspensions and handles never fall
\* below zero, although a plan may be resumed that another call has left.
THEOREM TypeCorrect == Spec => []TypeOK
<1>1. Safe => TypeOK
  BY DEF Safe
<1> QED
  BY <1>1, SafeHolds, PTL

\* One writer at a time, whatever happens (minidump_inproc.cpp:680).
THEOREM OneWriterHolds == Spec => []OneWriter
<1>1. Safe => OneWriter
  <2> SUFFICES ASSUME Safe, NEW s \in Threads, NEW t \in Threads, Writing(s), Writing(t)
               PROVE  s = t
    BY DEF OneWriter
  <2>1. Active(s) /\ Active(t)
    BY DEF Writing, Active, Depth, Inside, Building
  <2> QED
    BY <2>1 DEF Safe, Exclusive
<1> QED
  BY <1>1, SafeHolds, PTL

\* And it is never suspended, by itself or by a plan of another.
THEOREM WriterNotFrozenHolds == Spec => []WriterNotFrozen
<1>1. Safe => WriterNotFrozen
  BY DEF Safe, NotFrozen, WriterNotFrozen, Writing, Active, Depth
<1> QED
  BY <1>1, SafeHolds, PTL

-----------------------------------------------------------------------------
(***************************************************************************)
(* What a live writer can rely on, whoever else was terminated.  A call    *)
(* that is re-entered comes back to an empty plan.                         *)
(***************************************************************************)

StandsAt(t) ==
  state[t] # "dead" =>
    /\ pc[t] \in {"preferred", "suspend", "capture"} => InPlan(t)
    /\ pc[t] \in {"suspend", "capture"} /\ pref[t] # NoThread => InPlan(pref[t])
    /\ pc[t] = "emit" /\ ~Reentrant => InPlan(t) /\ (pref[t] # NoThread => InPlan(pref[t]))
    /\ pc[t] = "suspend" =>
         \A i \in 1 .. planCount : i < idx[t] /\ Freezable(i) => suspend[plan[i].tid] > 0
    /\ pc[t] \in {"capture", "emit"} =>
         \A i \in 1 .. planCount : Freezable(i) => suspend[plan[i].tid] > 0
    /\ pc[t] = "emit" =>
         \A i \in 1 .. planCount : Freezable(i) => plan[i].tid \notin moved
    /\ pc[t] = "release" => planCount = 0

Standing ==
  /\ ~Reentrant => \A t \in Threads : outer[t] = "none"
  /\ \A t \in Threads : StandsAt(t)

LEMMA StandingInit == Init => Standing
  BY DEF Init, Standing, StandsAt

\* It is enough to follow the one that is inside.
LEMMA StandingByOne ==
  ASSUME Safe', Standing, NEW t \in Threads, state'[t] # "dead", pc'[t] \in Inside,
         outer' = outer, StandsAt(t)'
  PROVE  Standing'
<1>1. ASSUME NEW s \in Threads \ {t} PROVE StandsAt(s)'
  <2>1. ~Active(s)'
    <3>1. Active(s)' => mutex'.owner = s
      BY DEF Safe, Exclusive
    <3>2. Active(t)'
      BY DEF Active, Depth
    <3>3. mutex'.owner = t
      BY <3>2 DEF Safe, Exclusive
    <3> QED
      BY <3>1, <3>3
  <2>2. state'[s] = "dead" \/ pc'[s] \notin Inside
    BY <2>1 DEF Active, Depth
  <2> QED
    BY <2>2 DEF StandsAt, Inside, Building
<1> QED
  BY <1>1 DEF Standing

\* The steps of one that is not inside, before or after: it has no part in the
\* plan, and returns to one that is empty, if to any.
LEMMA StandingOutside ==
  ASSUME Safe, Standing, NEW t \in Threads,
         \/ Environment(t) \/ \E p \in Threads \cup {NoThread} : Call(t, p)
         \/ Reenter(t) \/ TryLock(t) \/ Release(t)
  PROVE  Standing'
<1> USE CapacityAssumption, ThreadsAssumption
<1>1. UNCHANGED <<plan, planCount>>
  BY DEF Environment, Run, Spawn, Exit, Kill, Call, Reenter, TryLock, TryLockAcquired,
         TryLockAbandoned, TryLockBusy, Release, planVars
<1>2. \A i \in 1 .. planCount : Freezable(i)' => Freezable(i) /\ plan[i].tid \in Threads
  <2>1. ASSUME NEW i \in 1 .. planCount, Freezable(i)'
        PROVE  Freezable(i) /\ plan[i].tid \in Threads
    <3>1. /\ plan[i].tid \in Threads /\ plan[i].handle
          /\ state[plan[i].tid] # "unborn" /\ state'[plan[i].tid] = "live"
      BY <1>1, <2>1 DEF Freezable, Safe, Recorded
    <3>2. state[plan[i].tid] = "live"
      <4>1. state' = state \/ state' = [state EXCEPT ![t] = "dead"] \/ state[t] = "unborn"
        BY DEF Environment, Run, Spawn, Exit, Kill, Call, Reenter, TryLock, TryLockAcquired,
               TryLockAbandoned, TryLockBusy, Release, kernelVars
      <4>2. state[t] = "unborn" => state' = state \/ state' = [state EXCEPT ![t] = "live"]
        BY DEF Environment, Run, Spawn, Exit, Kill, At, Running, Call, Reenter, TryLock,
               TryLockAcquired, TryLockAbandoned, TryLockBusy, Release, kernelVars
      <4> QED
        BY <3>1, <4>1, <4>2 DEF Safe, TypeOK
    <3> QED
      BY <3>1, <3>2 DEF Freezable
  <2> QED
    BY <2>1
<1>3. \A i \in 1 .. planCount :
        Freezable(i)' /\ suspend[plan[i].tid] > 0 => suspend'[plan[i].tid] > 0
  <2>1. CASE Kill(t)
    <3>1. /\ state' = [state EXCEPT ![t] = "dead"] /\ suspend' = [suspend EXCEPT ![t] = 0]
      BY <2>1 DEF Kill
    <3> QED
      BY <1>1, <1>2, <3>1 DEF Freezable, Safe, TypeOK
  <2>2. CASE ~Kill(t)
    <3>1. suspend' = suspend
      BY <2>2 DEF Environment, Run, Spawn, Exit, Call, Reenter, TryLock, TryLockAcquired,
                  TryLockAbandoned, TryLockBusy, Release, kernelVars
    <3> QED
      BY <3>1
  <2> QED
    BY <2>1, <2>2
<1>4. \A i \in 1 .. planCount :
        Freezable(i)' /\ suspend[plan[i].tid] > 0 /\ plan[i].tid \notin moved
          => plan[i].tid \notin moved'
  <2>1. CASE Run(t)
    <3>1. moved' = moved \cup {t} /\ suspend[t] = 0
      BY <2>1 DEF Run, At, Running
    <3> QED
      BY <3>1
  <2>2. CASE ~Run(t)
    <3>1. moved' = moved
      BY <2>2 DEF Environment, Spawn, Exit, Kill, Call, Reenter, TryLock, TryLockAcquired,
                  TryLockAbandoned, TryLockBusy, Release, planVars
    <3> QED
      BY <3>1
  <2> QED
    BY <2>1, <2>2
\* Where nothing is done to the call itself it stands as it did.
<1>5. ASSUME NEW s \in Threads, state'[s] # "dead" => state[s] # "dead",
             pc'[s] = pc[s], idx'[s] = idx[s], pref'[s] = pref[s]
      PROVE  StandsAt(s)'
  <2>1. StandsAt(s)
    BY DEF Standing
  <2>2. \A x : InPlan(x)' <=> InPlan(x)
    BY <1>1 DEF InPlan
  <2> QED
    BY <1>1, <1>2, <1>3, <1>4, <1>5, <2>1, <2>2 DEF StandsAt
<1>6. CASE Environment(t)
  <2>1. UNCHANGED <<pc, outer, idx, pref>>
    BY <1>6 DEF Environment, Run, Spawn, Exit, Kill, callVars
  <2>2. \A s \in Threads : state'[s] # "dead" => state[s] # "dead"
    BY <1>6 DEF Environment, Run, Spawn, Exit, Kill, kernelVars, Safe, TypeOK
  <2> QED
    BY <1>5, <2>1, <2>2 DEF Standing
<1>7. CASE ~Environment(t)
  <2>1. state' = state
    BY <1>7 DEF Call, Reenter, TryLock, TryLockAcquired, TryLockAbandoned, TryLockBusy,
                Release, kernelVars
  <2>2. \A s \in Threads \ {t} : /\ pc'[s] = pc[s] /\ idx'[s] = idx[s] /\ pref'[s] = pref[s]
                                 /\ outer'[s] = outer[s]
    BY <1>7 DEF Call, Reenter, TryLock, TryLockAcquired, TryLockAbandoned, TryLockBusy, Release,
                Return, Goto, Safe, TypeOK
  <2>3. /\ pc'[t] \in {"app", "trylock", "check"} \/ (pc'[t] = "emit" /\ outer[t] # "none")
        /\ ~Reentrant /\ outer[t] = "none" => outer'[t] = "none"
    <3>1. CASE Return(t)
      <4>1. /\ pc'[t] = (IF outer[t] = "none" THEN "app" ELSE outer[t])
            /\ outer'[t] = "none"
        BY <3>1 DEF Return, Safe, TypeOK
      <4>2. outer[t] \in {"none", "emit"}
        BY DEF Safe, TypeOK
      <4> QED
        BY <4>1, <4>2
    <3>2. CASE ~Return(t)
      BY <1>7, <3>2 DEF Call, Reenter, TryLock, TryLockAcquired, TryLockAbandoned, TryLockBusy,
                        Release, Goto, Safe, TypeOK
    <3> QED
      BY <3>1, <3>2
  <2>4. pc'[t] = "emit" => Reentrant /\ planCount = 0
    <3> SUFFICES ASSUME pc'[t] = "emit" PROVE Reentrant /\ planCount = 0
      OBVIOUS
    <3>1. outer[t] # "none" /\ Reentrant
      BY <2>3 DEF Standing
    <3>2. state[t] = "live"
      BY <1>7 DEF Call, Reenter, TryLock, TryLockAcquired, TryLockAbandoned, TryLockBusy,
                  Release, At, Running
    <3>3. mutex.owner = t /\ ~mutex.abandoned
      <4>1. Active(t)
        BY <3>1, <3>2 DEF Active, Depth
      <4> QED
        BY <4>1 DEF Safe, Exclusive
    <3>4. Release(t)
      BY <1>7, <3>3 DEF Call, Reenter, TryLock, TryLockAcquired, TryLockAbandoned, TryLockBusy,
                        Goto, Safe, TypeOK
    <3>5. pc[t] = "release"
      BY <3>4 DEF Release, At
    <3> QED
      BY <3>1, <3>2, <3>5 DEF Standing, StandsAt
  <2>5. StandsAt(t)'
    BY <1>1, <2>3, <2>4 DEF StandsAt
  <2> QED
    BY <1>5, <2>1, <2>2, <2>3, <2>5 DEF Standing
<1> QED
  BY <1>6, <1>7

\* The plan is filled: the writer and the exception thread are in it.
LEMMA StandingEnsure ==
  ASSUME Safe, Safe', Standing, NEW t \in Threads, EnsureCurrent(t) \/ EnsurePreferred(t)
  PROVE  Standing'
<1> USE CapacityAssumption, ThreadsAssumption
<1>1. /\ state[t] = "live" /\ state' = state /\ outer' = outer /\ pref' = pref /\ suspend' = suspend
      /\ pc[t] \in Filling
      /\ pc[t] = IF EnsureCurrent(t) THEN "current" ELSE "preferred"
  BY Zenon DEF EnsureCurrent, EnsurePreferred, At, Running, Filling
<1>2. \A i \in 1 .. planCount : plan[i].tid = t <=> plan[i].current
  BY <1>1 DEF Safe, Marked, MarkedAt
<1>3. planCount \in 0 .. kMaxThreads /\ plan \in [Slots -> Entry]
  BY DEF Safe, TypeOK
<1>4. ASSUME NEW entry, NEW victim \in Slots, Place(entry, victim)
      PROVE  /\ InPlan(entry.tid)'
             /\ \A x : InPlan(x) /\ plan[victim].tid # x => InPlan(x)'
             /\ \A x : InPlan(x) /\ planCount < kMaxThreads => InPlan(x)'
  <2> DEFINE slot == IF planCount >= kMaxThreads THEN victim ELSE planCount + 1
  <2>1. /\ slot \in Slots /\ plan' = [plan EXCEPT ![slot] = entry]
        /\ planCount' = IF planCount >= kMaxThreads THEN planCount ELSE planCount + 1
    BY <1>3, <1>4 DEF Place, Slots
  <2>2. plan'[slot] = entry /\ \A i \in Slots \ {slot} : plan'[i] = plan[i]
    BY <1>3, <2>1
  <2>3. slot \in 1 .. planCount' /\ \A i \in 1 .. planCount : i \in 1 .. planCount' /\ i \in Slots
    BY <1>3, <2>1 DEF Slots
  <2>4. \A i \in 1 .. planCount : i = slot => i = victim /\ ~(planCount < kMaxThreads)
    BY <1>3
  <2> HIDE DEF slot
  <2> QED
    BY <2>2, <2>3, <2>4 DEF InPlan
<1>5. CASE EnsureCurrent(t)
  <2>1. pc' = [pc EXCEPT ![t] = "preferred"]
    BY <1>5 DEF EnsureCurrent, Goto
  <2>2. pc'[t] = "preferred"
    BY <2>1 DEF Safe, TypeOK
  <2>3. InPlan(t)'
    <3>1. CASE \E i \in 1 .. planCount : plan[i].current
      <4>1. UNCHANGED <<plan, planCount>>
        BY Zenon, <1>5, <3>1 DEF EnsureCurrent
      <4> QED
        BY <1>2, <3>1, <4>1 DEF InPlan
    <3>2. CASE ~\E i \in 1 .. planCount : plan[i].current
      <4>1. Place(NewEntry(t, TRUE, FALSE), kMaxThreads)
        BY Zenon, <1>5, <3>2 DEF EnsureCurrent
      <4>2. NewEntry(t, TRUE, FALSE).tid = t /\ kMaxThreads \in Slots
        BY DEF NewEntry, Slots
      <4>3. InPlan(NewEntry(t, TRUE, FALSE).tid)'
        BY Zenon, <1>4, <4>1, <4>2
      <4> QED
        BY <4>2, <4>3 DEF NewEntry
    <3> QED
      BY <3>1, <3>2
  <2>4. StandsAt(t)'
    BY <2>2, <2>3 DEF StandsAt
  <2> QED
    BY <1>1, <2>2, <2>4, StandingByOne DEF Inside, Building
<1>6. CASE EnsurePreferred(t)
  <2>1. /\ pc[t] = "preferred" /\ pc' = [pc EXCEPT ![t] = "suspend"]
        /\ idx' = [idx EXCEPT ![t] = 1]
    BY <1>6 DEF EnsurePreferred, Goto, At
  <2>2. pc'[t] = "suspend" /\ idx'[t] = 1
    BY <2>1 DEF Safe, TypeOK
  <2>3. InPlan(t)
    BY <1>1, <2>1 DEF Standing, StandsAt
  <2>4. InPlan(t)' /\ (pref[t] # NoThread => InPlan(pref[t])')
    <3>1. CASE pref[t] \in {NoThread, t} \/ InPlan(pref[t])
      <4>1. UNCHANGED <<plan, planCount>>
        BY Zenon, <1>6, <3>1 DEF EnsurePreferred
      <4>2. InPlan(t)' /\ (InPlan(pref[t]) => InPlan(pref[t])')
        BY <1>1, <2>3, <4>1 DEF InPlan
      <4> QED
        BY <1>1, <3>1, <4>2
    <3>2. CASE ~(pref[t] \in {NoThread, t} \/ InPlan(pref[t]))
      <4>1. PICK entry : Place(entry, Victim) /\ entry.tid = pref[t]
        <5>1. PICK ok \in BOOLEAN : Place(NewEntry(pref[t], FALSE, ok), Victim)
          BY Zenon, <1>6, <3>2 DEF EnsurePreferred
        <5>2. NewEntry(pref[t], FALSE, ok).tid = pref[t]
          BY DEF NewEntry
        <5> QED
          BY Zenon, <5>1, <5>2
      <4>2. Victim \in Slots
        BY DEF Victim, Slots
      <4>3. planCount < kMaxThreads \/ plan[Victim].tid # t
        <5> SUFFICES ASSUME ~(planCount < kMaxThreads) PROVE plan[Victim].tid # t
          OBVIOUS
        <5>1. PICK j \in 1 .. planCount : plan[j].tid = t
          BY <2>3 DEF InPlan
        <5>2. planCount = kMaxThreads /\ {kMaxThreads, kMaxThreads - 1} \subseteq 1 .. planCount
          BY <1>3
        <5>3. CASE plan[kMaxThreads].current
          <6>1. plan[kMaxThreads].tid = t /\ Victim = kMaxThreads - 1
            BY <1>2, <5>2, <5>3 DEF Victim
          <6> QED
            BY <5>2, <6>1 DEF Safe, Distinct
        <5>4. CASE ~plan[kMaxThreads].current
          <6>1. Victim = kMaxThreads
            BY <5>4 DEF Victim
          <6> QED
            BY <1>2, <5>2, <5>4, <6>1
        <5> QED
          BY <5>3, <5>4
      <4>4. InPlan(entry.tid)'
        BY <1>4, <4>1, <4>2
      <4>5. InPlan(t)'
        BY <1>4, <2>3, <4>1, <4>2, <4>3
      <4> QED
        BY <1>1, <4>1, <4>4, <4>5
    <3> QED
      BY <3>1, <3>2
  <2>5. planCount' \in 0 .. kMaxThreads
    BY DEF Safe, TypeOK
  <2>6. StandsAt(t)'
    <3>1. \A i \in 1 .. planCount' : ~(i < idx'[t])
      BY <2>2, <2>5
    <3> QED
      BY <1>1, <2>2, <2>4, <3>1 DEF StandsAt
  <2> QED
    BY <1>1, <2>2, <2>6, StandingByOne DEF Inside, Building
<1> QED
  BY <1>5, <1>6

\* Phase 2: what has been passed is suspended, now or since another call.
LEMMA StandingSuspend ==
  ASSUME Safe, Safe', Standing, NEW t \in Threads,
         SuspendNext(t) \/ SuspendDone(t) \/ Capture(t)
  PROVE  Standing'
<1> USE CapacityAssumption
<1>1. /\ state[t] = "live" /\ state' = state /\ outer' = outer /\ pref' = pref
      /\ planCount' = planCount
      /\ planCount \in 0 .. kMaxThreads /\ idx[t] \in 1 .. kMaxThreads + 1
      /\ 1 .. planCount \subseteq Slots
  BY DEF SuspendNext, SuspendDone, Capture, At, Running, kernelVars, planVars, Safe, TypeOK, Slots
<1>2. StandsAt(t)
  BY DEF Standing
<1>3. CASE SuspendNext(t)
  <2> DEFINE k == idx[t]
             x == plan[k].tid
  <2>1. /\ pc[t] = "suspend" /\ pc'[t] = "suspend" /\ idx'[t] = k + 1 /\ k \in 1 .. planCount
        /\ suspend \in [Threads -> 0 .. MaxSuspend] /\ plan \in [Slots -> Entry] /\ x \in Threads
    <3>1. pc' = pc /\ pc[t] = "suspend" /\ idx' = [idx EXCEPT ![t] = @ + 1] /\ k <= planCount
      BY <1>3 DEF SuspendNext, At
    <3>2. k \in 1 .. planCount
      BY <1>1, <3>1
    <3> QED
      BY <3>1, <3>2 DEF Safe, TypeOK, Recorded
  <2>2. /\ \A i \in 1 .. planCount : plan'[i].tid = plan[i].tid /\ plan'[i].handle = plan[i].handle
        /\ \A y \in Threads : suspend'[y] >= suspend[y]
        /\ Freezable(k) => suspend'[x] > 0
    <3>1. CASE UNCHANGED <<suspend, plan>>
      <4>1. ASSUME Freezable(k) PROVE suspend[x] > 0
        <5>1. ~plan[k].current /\ plan[k].handle /\ state[x] = "live"
          BY <2>1, <4>1 DEF Safe, Recorded, Freezable
        <5>2. suspend[x] \in Int
          BY <2>1
        <5>3. CASE suspend[x] < MaxSuspend
          <6>1. suspend' = [suspend EXCEPT ![x] = @ + 1]
            BY <1>3, <5>1, <5>3 DEF SuspendNext
          <6>2. suspend'[x] = suspend[x] + 1
            BY <2>1, <6>1
          <6> HIDE DEF x
          <6> QED
            BY <3>1, <5>2, <6>2
        <5> HIDE DEF x
        <5> QED
          BY <5>2, <5>3
      <4>2. \A y \in Threads : suspend[y] \in Int
        BY <2>1
      <4> QED
        BY <3>1, <4>1, <4>2
    <3>2. CASE ~UNCHANGED <<suspend, plan>>
      <4>1. /\ suspend' = [suspend EXCEPT ![x] = @ + 1]
            /\ plan' = [plan EXCEPT ![k].suspended = TRUE]
        BY <1>3, <3>2 DEF SuspendNext
      <4>2. \A y \in Threads : /\ suspend[y] \in 0 .. MaxSuspend
                                /\ suspend'[y] = IF y = x THEN suspend[y] + 1 ELSE suspend[y]
        BY <2>1, <4>1
      <4>3. \A i \in 1 .. planCount : plan'[i].tid = plan[i].tid /\ plan'[i].handle = plan[i].handle
        <5>1. \A i \in Slots : plan[i] \in Entry
          BY <2>1
        <5>2. \A i \in Slots : plan'[i] = IF i = k THEN [plan[i] EXCEPT !.suspended = TRUE] ELSE plan[i]
          BY Zenon, <1>1, <2>1, <4>1
        <5> QED
          BY Zenon, <1>1, <5>1, <5>2 DEF Entry
      <4> HIDE DEF x, k
      <4>4. suspend'[x] = suspend[x] + 1 /\ suspend[x] \in 0 .. MaxSuspend
        BY <2>1, <4>2
      <4>5. \A y \in Threads : suspend'[y] >= suspend[y]
        BY <4>2
      <4>6. suspend'[x] > 0
        BY <4>4
      <4> QED
        BY <4>3, <4>5, <4>6
    <3> QED
      BY <3>1, <3>2
  <2>3. \A i \in 1 .. planCount : Freezable(i)' <=> Freezable(i)
    BY <1>1, <2>2 DEF Freezable
  <2>4. \A y : InPlan(y)' <=> InPlan(y)
    BY <1>1, <2>2 DEF InPlan
  <2>5. InPlan(t)' /\ (pref[t] # NoThread => InPlan(pref[t])')
    BY <1>1, <1>2, <2>1, <2>4 DEF StandsAt
  <2>6. ASSUME NEW i \in 1 .. planCount, i < k + 1, Freezable(i)
        PROVE  suspend'[plan'[i].tid] > 0
    <3>1. plan'[i].tid = plan[i].tid /\ plan[i].tid \in Threads
      BY <2>2 DEF Safe, Recorded
    <3>2. CASE i = k
      BY <2>2, <2>6, <3>1, <3>2
    <3>3. CASE i < k
      <4>1. suspend[plan[i].tid] > 0
        BY <1>1, <1>2, <2>1, <2>6, <3>3 DEF StandsAt
      <4>2. suspend[plan[i].tid] \in Int /\ suspend'[plan[i].tid] \in Int
        BY <2>1, <3>1 DEF Safe, TypeOK
      <4> QED
        BY <2>2, <3>1, <4>1, <4>2
    <3> QED
      BY <1>1, <2>6, <3>2, <3>3
  <2> HIDE DEF x, k
  <2>7. StandsAt(t)'
    BY <1>1, <2>1, <2>3, <2>5, <2>6 DEF StandsAt
  <2> QED
    BY <1>1, <2>1, <2>7, StandingByOne DEF Inside, Building
<1>4. CASE SuspendDone(t) \/ Capture(t)
  <2> DEFINE label == IF SuspendDone(t) THEN "capture" ELSE "emit"
  <2>1. /\ pc' = [pc EXCEPT ![t] = label]
        /\ pc[t] = IF label = "capture" THEN "suspend" ELSE "capture"
        /\ label = "capture" => idx[t] > planCount
        /\ label = "emit" => moved' = {}
        /\ UNCHANGED <<plan, suspend>>
    BY <1>4 DEF SuspendDone, Capture, At, Goto, kernelVars, planVars
  <2>2. label \in {"capture", "emit"}
    OBVIOUS
  <2> HIDE DEF label
  <2>3. pc'[t] = label
    BY <2>1 DEF Safe, TypeOK
  <2>4. \A y : InPlan(y)' <=> InPlan(y)
    BY <1>1, <2>1 DEF InPlan
  <2>5. \A i \in 1 .. planCount : Freezable(i)' <=> Freezable(i)
    BY <1>1, <2>1 DEF Freezable
  <2>6. \A i \in 1 .. planCount : Freezable(i) => suspend[plan[i].tid] > 0
    <3>1. label = "capture" => \A i \in 1 .. planCount : i < idx[t]
      BY <1>1, <2>1
    <3> QED
      BY <1>1, <1>2, <2>1, <2>2, <3>1 DEF StandsAt
  <2>7. InPlan(t)' /\ (pref[t] # NoThread => InPlan(pref[t])')
    BY <1>1, <1>2, <2>1, <2>2, <2>4 DEF StandsAt
  <2>8. StandsAt(t)'
    BY <1>1, <2>1, <2>2, <2>3, <2>5, <2>6, <2>7 DEF StandsAt
  <2>9. label \in Inside
    BY <2>2 DEF Inside, Building
  <2> QED
    BY <1>1, <2>3, <2>8, <2>9, StandingByOne
<1> QED
  BY <1>3, <1>4

LEMMA StandingStep == Safe /\ Standing /\ [Next]_vars => Standing'
<1> SUFFICES ASSUME Safe, Standing, [Next]_vars PROVE Standing'
  OBVIOUS
<1>1. Safe'
  BY SafeStep
<1>2. CASE UNCHANGED vars
  <2>1. /\ UNCHANGED <<state, suspend, plan, planCount, moved, pc, outer, pref, idx>>
    BY <1>2 DEF vars, kernelVars, planVars, callVars
  <2> QED
    BY <2>1 DEF Standing, StandsAt, InPlan, Freezable
<1>3. ASSUME NEW t \in Threads,
             \/ Environment(t) \/ \E p \in Threads \cup {NoThread} : Call(t, p)
             \/ WriterStep(t) \/ Fault(t) \/ Reenter(t)
      PROVE  Standing'
  <2>1. CASE \/ Environment(t) \/ \E p \in Threads \cup {NoThread} : Call(t, p)
             \/ Reenter(t) \/ TryLock(t) \/ Release(t)
    BY <2>1, StandingOutside
  <2>2. CASE EnsureCurrent(t) \/ EnsurePreferred(t)
    BY <1>1, <2>2, StandingEnsure
  <2>3. CASE SuspendNext(t) \/ SuspendDone(t) \/ Capture(t)
    BY <1>1, <2>3, StandingSuspend
\* Nothing is relied on in the other steps.
  <2>4. CASE \/ CheckIntact(t) \/ Snapshot(t) \/ OpenNext(t) \/ OpenDone(t)
             \/ EmitDone(t) \/ ResumeNext(t) \/ ResumeDone(t) \/ Fault(t)
    <3>1. /\ state[t] = "live" /\ state' = state /\ outer' = outer
      BY <2>4 DEF CheckIntact, Snapshot, OpenNext, OpenDone, EmitDone, ResumeNext, ResumeDone,
                  Fault, At, Running, kernelVars
    <3>2. /\ pc'[t] \in {"snapshot", "resume", "open", "current", "release"}
          /\ pc'[t] = "release" => planCount' = 0
      BY <2>4 DEF CheckIntact, Snapshot, OpenNext, OpenDone, EmitDone, ResumeNext, ResumeDone,
                  Fault, At, Goto, Safe, TypeOK
    <3>3. StandsAt(t)' /\ pc'[t] \in Inside
      BY <3>2 DEF StandsAt, Inside, Building
    <3> QED
      BY <1>1, <3>1, <3>3, StandingByOne
  <2> QED
    BY <1>3, <2>1, <2>2, <2>3, <2>4 DEF WriterStep, Build, Finish
<1> QED
  BY <1>2, <1>3 DEF Next

THEOREM StandingHolds == Spec => [](Safe /\ Standing)
<1>1. Init => Safe /\ Standing
  BY SafeInit, StandingInit
<1>2. Safe /\ Standing /\ [Next]_vars => (Safe /\ Standing)'
  BY SafeStep, StandingStep
<1> QED
  BY <1>1, <1>2, PTL DEF Spec

\* What the write pass describes does not move while it writes, whichever other
\* writers were terminated before and whatever was re-entered.
THEOREM FrozenStandsStillHolds == Spec => []FrozenStandsStill
<1>1. Standing => FrozenStandsStill
  BY DEF Standing, StandsAt, Freezable, FrozenStandsStill, Writing
<1> QED
  BY <1>1, StandingHolds, PTL

\* From the freeze on, the plan has the writer and the exception thread in it, no
\* thread twice, whichever other writers were terminated before.  A call that is
\* re-entered finds an empty plan when it goes on.
THEOREM PlanCompleteHolds ==
  ASSUME ~Reentrant
  PROVE  Spec => []PlanComplete
<1>1. Safe /\ Standing => PlanComplete
  BY DEF Safe, Distinct, Standing, StandsAt, PlanComplete, Writing
<1> QED
  BY <1>1, StandingHolds, PTL

-----------------------------------------------------------------------------
(***************************************************************************)
(* Nothing left behind.  Locking is inductive by itself; IInv is inductive *)
(* given Locking.  Both need Benign.                                       *)
(***************************************************************************)

\* No writer is terminated and no fault re-enters the API.
Benign == ~Reentrant /\ Killable \cap Writers = {}

\* The thread inside the API is the owner of the mutex, once.
Locking ==
  /\ state \in [Threads -> {"unborn", "live", "dead"}]
  /\ pc \in [Threads -> {"app", "trylock"} \cup Inside]
  /\ mutex \in [owner : Threads \cup {NoThread}, count : 0 .. 1, abandoned : {FALSE}]
  /\ mutex.owner = NoThread <=> mutex.count = 0
  /\ outer = [t \in Threads |-> "none"]
  /\ \A t \in Threads : pc[t] \in Inside <=> mutex.owner = t
  /\ \A t \in Threads : pc[t] # "app" => t \in Writers /\ state[t] = "live"

\* An entry names a thread that was alive when it was opened; the writer's own
\* has no handle; what is suspended has one.
Described ==
  \A i \in 1 .. planCount :
    /\ plan[i].tid \in Threads
    /\ plan[i].current <=> plan[i].tid = mutex.owner
    /\ plan[i].current => ~plan[i].handle
    /\ plan[i].suspended => plan[i].handle
    /\ plan[i].handle => state[plan[i].tid] # "unborn"

\* There is a plan only between the snapshot and the end of ResumeThreadPlan.
Scoped ==
  /\ mutex.owner = NoThread => planCount = 0
  /\ \A t \in Threads : pc[t] \in {"check", "snapshot", "release"} => planCount = 0

\* The kernel's handle and suspend counts are the plan's.
Opened(x) == \E i \in 1 .. planCount : plan[i].tid = x /\ plan[i].handle
Held(x)   == \E i \in 1 .. planCount : plan[i].tid = x /\ plan[i].suspended

HandlesCounted == \A x \in Threads : handles[x] = IF Opened(x) THEN 1 ELSE 0
SuspendCounted ==
  \A x \in Threads : suspend[x] = IF Held(x) /\ state[x] = "live" THEN 1 ELSE 0

\* What each phase has achieved so far.
StagedAt(t) ==
  /\ pc[t] = "open" => \A i \in 1 .. planCount : plan[i].tid \notin todo[t]
  /\ pc[t] \in {"open", "current", "preferred"} =>
       \A i \in 1 .. planCount : ~plan[i].suspended
  /\ pc[t] \in {"preferred", "suspend", "capture", "emit"} => InPlan(t)
  /\ pc[t] \in {"suspend", "capture", "emit"} /\ pref[t] # NoThread => InPlan(pref[t])
  /\ pc[t] = "suspend" =>
       \A i \in 1 .. planCount :
         IF i < idx[t] THEN (Freezable(i) => plan[i].suspended) ELSE ~plan[i].suspended
  /\ pc[t] \in {"capture", "emit"} =>
       \A i \in 1 .. planCount : (Freezable(i) => plan[i].suspended)
  /\ pc[t] = "emit" =>
       \A i \in 1 .. planCount : (Freezable(i) => plan[i].tid \notin moved)
  /\ pc[t] = "resume" => \A i \in 1 .. planCount : (i < idx[t] => ~plan[i].handle)

Staged == \A t \in Threads : StagedAt(t)

IInv ==
  /\ TypeOK
  /\ Distinct
  /\ Described
  /\ Scoped
  /\ HandlesCounted
  /\ SuspendCounted
  /\ Staged

-----------------------------------------------------------------------------
(***************************************************************************)
(* The lock.                                                               *)
(***************************************************************************)

LEMMA LockingInit == Init => Locking
  BY ThreadsAssumption DEF Init, Unlocked, Locking, Inside, Building

\* A step of a thread that stays inside, and leaves the mutex alone.
LEMMA StaysInside ==
  ASSUME Locking, NEW t \in Threads, pc[t] \in Inside, NEW label \in Inside,
         Goto(t, label), UNCHANGED <<state, mutex, outer>>
  PROVE  Locking'
<1>1. pc' \in [Threads -> {"app", "trylock"} \cup Inside]
  BY DEF Locking, Goto
<1>2. \A s \in Threads : pc'[s] = IF s = t THEN label ELSE pc[s]
  BY DEF Locking, Goto
<1>3. label # "app" /\ pc[t] # "app"
  BY DEF Inside, Building
<1>4. \A s \in Threads : pc'[s] \in Inside <=> mutex'.owner = s
  BY <1>2 DEF Locking
<1>5. \A s \in Threads : pc'[s] # "app" => s \in Writers /\ state'[s] = "live"
  BY <1>2, <1>3 DEF Locking
<1> QED
  BY Zenon, <1>1, <1>4, <1>5 DEF Locking

\* A thread outside the API ends: the mutex is not its own.
LEMMA EndsOutside ==
  ASSUME Locking, NEW t \in Threads, pc[t] = "app",
         state' = [state EXCEPT ![t] = "dead"], Abandon(t), UNCHANGED <<pc, outer>>
  PROVE  Locking'
<1>1. mutex' = mutex
  BY DEF Abandon, Locking, Inside, Building
<1>2. /\ state' \in [Threads -> {"unborn", "live", "dead"}]
      /\ \A s \in Threads \ {t} : state'[s] = state[s]
  BY DEF Locking
<1>3. \A s \in Threads : pc'[s] # "app" => s \in Writers /\ state'[s] = "live"
  BY <1>2 DEF Locking
<1> QED
  BY Zenon, <1>1, <1>2, <1>3 DEF Locking

\* A call that was turned away, or has nothing left to do.
LEMMA ReturnLabels ==
  ASSUME Locking, NEW t \in Threads, Return(t)
  PROVE  /\ outer' = outer
         /\ pc' \in [Threads -> {"app", "trylock"} \cup Inside]
         /\ \A s \in Threads : pc'[s] = IF s = t THEN "app" ELSE pc[s]
  BY DEF Return, Locking

LEMMA LockingStep ==
  ASSUME Benign, Locking, [Next]_vars
  PROVE  Locking'
<1> USE ThreadsAssumption
<1>1. CASE UNCHANGED vars
  BY Zenon, <1>1 DEF vars, kernelVars, callVars, Locking
<1>2. CASE Next
  <2> SUFFICES ASSUME NEW t \in Threads,
                      \/ Environment(t)
                      \/ \E p \in Threads \cup {NoThread} : Call(t, p)
                      \/ WriterStep(t)
                      \/ Fault(t)
                      \/ Reenter(t)
               PROVE  Locking'
    BY <1>2 DEF Next
  <2>1. CASE Run(t)
    BY Zenon, <2>1 DEF Run, kernelVars, callVars, Locking
  <2>2. CASE Spawn(t)
    BY Zenon, <2>2 DEF Spawn, callVars, Locking
  <2>3. CASE Exit(t)
    BY Zenon, <2>3, EndsOutside DEF Exit, callVars, At
  <2>4. CASE Kill(t)
    <3>1. pc[t] = "app"
      BY <2>4 DEF Kill, Benign, Locking
    <3> QED
      BY Zenon, <2>4, <3>1, EndsOutside DEF Kill, callVars
  <2>5. CASE \E p \in Threads \cup {NoThread} : Call(t, p)
    <3>1. /\ t \in Writers /\ state[t] = "live" /\ pc[t] = "app"
          /\ Goto(t, "trylock") /\ UNCHANGED <<state, mutex, outer>>
      BY <2>5 DEF Call, At, Running, kernelVars
    <3>2. \A s \in Threads : pc'[s] = IF s = t THEN "trylock" ELSE pc[s]
      BY <3>1 DEF Locking, Goto
    <3>3. pc' \in [Threads -> {"app", "trylock"} \cup Inside]
      BY <3>1 DEF Locking, Goto
    <3>4. "app" \notin Inside /\ "trylock" \notin Inside
      BY DEF Inside, Building
    <3>5. \A s \in Threads : pc'[s] \in Inside <=> mutex'.owner = s
      BY <3>1, <3>2, <3>4 DEF Locking
    <3>6. \A s \in Threads : pc'[s] # "app" => s \in Writers /\ state'[s] = "live"
      BY <3>1, <3>2 DEF Locking
    <3> QED
      BY Zenon, <3>1, <3>3, <3>5, <3>6 DEF Locking
  <2>6. CASE TryLockAcquired(t)
    <3>1. /\ state[t] = "live" /\ pc[t] = "trylock" /\ mutex.owner \in {NoThread, t}
          /\ Goto(t, "check") /\ UNCHANGED <<state, outer>>
      BY <2>6 DEF TryLockAcquired, MutexFree, At, Running, kernelVars
    <3>2. /\ "check" \in Inside /\ "trylock" \notin Inside
      BY DEF Inside, Building
    <3>3. mutex.owner = NoThread /\ mutex.count = 0
      BY <3>1, <3>2 DEF Locking
    <3>4. mutex' = [owner |-> t, count |-> 1, abandoned |-> FALSE]
      BY <2>6, <3>3 DEF TryLockAcquired
    <3>5. /\ \A s \in Threads : pc'[s] = IF s = t THEN "check" ELSE pc[s]
          /\ pc' \in [Threads -> {"app", "trylock"} \cup Inside]
      BY <3>1, <3>2 DEF Locking, Goto
    <3>6. \A s \in Threads : pc'[s] \in Inside <=> mutex'.owner = s
      BY <3>2, <3>3, <3>4, <3>5 DEF Locking
    <3>7. \A s \in Threads : pc'[s] # "app" => s \in Writers /\ state'[s] = "live"
      BY <3>1, <3>5 DEF Locking
    <3> QED
      BY <3>1, <3>4, <3>5, <3>6, <3>7 DEF Locking
  <2>7. CASE TryLockAbandoned(t)
    BY Zenon, <2>7 DEF TryLockAbandoned, Locking
  <2>8. CASE TryLockBusy(t)
    <3>1. mutex.owner # t /\ Return(t) /\ UNCHANGED <<state, mutex>>
      BY <2>8 DEF TryLockBusy, kernelVars
    <3>2. "app" \notin Inside
      BY DEF Inside, Building
    <3>3. /\ outer' = outer
          /\ pc' \in [Threads -> {"app", "trylock"} \cup Inside]
          /\ \A s \in Threads : pc'[s] = IF s = t THEN "app" ELSE pc[s]
      BY <3>1, ReturnLabels
    <3>4. \A s \in Threads : pc'[s] \in Inside <=> mutex'.owner = s
      BY <3>1, <3>2, <3>3 DEF Locking
    <3>5. \A s \in Threads : pc'[s] # "app" => s \in Writers /\ state'[s] = "live"
      BY <3>1, <3>3 DEF Locking
    <3> QED
      BY Zenon, <3>1, <3>3, <3>4, <3>5 DEF Locking
  <2>9. CASE Release(t)
    <3>1. /\ pc[t] = "release" /\ Return(t) /\ UNCHANGED state
      BY <2>9 DEF Release, At, kernelVars
    <3>2. "app" \notin Inside /\ "release" \in Inside
      BY DEF Inside, Building
    <3>3. mutex.owner = t /\ mutex.count = 1
      BY <3>1, <3>2 DEF Locking
    <3>4. mutex' = Unlocked
      BY <2>9, <3>3 DEF Release
    <3>5. /\ outer' = outer
          /\ pc' \in [Threads -> {"app", "trylock"} \cup Inside]
          /\ \A s \in Threads : pc'[s] = IF s = t THEN "app" ELSE pc[s]
      BY <3>1, ReturnLabels
    <3>6. \A s \in Threads : pc'[s] \in Inside <=> mutex'.owner = s
      BY <3>2, <3>3, <3>4, <3>5 DEF Locking, Unlocked
    <3>7. \A s \in Threads : pc'[s] # "app" => s \in Writers /\ state'[s] = "live"
      BY <3>1, <3>5 DEF Locking
    <3> QED
      BY <3>1, <3>4, <3>5, <3>6, <3>7 DEF Locking, Unlocked
  <2>10. CASE OpenNext(t) \/ SuspendNext(t) \/ ResumeNext(t)
    <3>1. UNCHANGED <<state, mutex, pc, outer>>
      BY <2>10 DEF OpenNext, SuspendNext, ResumeNext
    <3> QED
      BY Zenon, <3>1 DEF Locking
  <2>11. CASE CheckIntact(t) \/ Snapshot(t) \/ OpenDone(t) \/ EnsureCurrent(t)
              \/ EnsurePreferred(t) \/ SuspendDone(t) \/ Capture(t) \/ EmitDone(t)
              \/ ResumeDone(t) \/ Fault(t)
    <3>1. CASE CheckIntact(t)
      BY <3>1, StaysInside DEF CheckIntact, At, kernelVars, Inside, Building
    <3>2. CASE Snapshot(t)
      BY <3>2, StaysInside DEF Snapshot, At, kernelVars, Inside, Building
    <3>3. CASE OpenDone(t)
      BY <3>3, StaysInside DEF OpenDone, At, kernelVars, Inside, Building
    <3>4. CASE EnsureCurrent(t)
      BY <3>4, StaysInside DEF EnsureCurrent, At, kernelVars, Inside, Building
    <3>5. CASE EnsurePreferred(t)
      BY <3>5, StaysInside DEF EnsurePreferred, At, kernelVars, Inside, Building
    <3>6. CASE SuspendDone(t)
      BY <3>6, StaysInside DEF SuspendDone, At, kernelVars, Inside, Building
    <3>7. CASE Capture(t)
      BY <3>7, StaysInside DEF Capture, At, kernelVars, Inside, Building
    <3>8. CASE EmitDone(t)
      BY <3>8, StaysInside DEF EmitDone, At, kernelVars, Inside, Building
    <3>9. CASE ResumeDone(t)
      BY <3>9, StaysInside DEF ResumeDone, At, kernelVars, Inside, Building
    <3>10. CASE Fault(t)
      BY <3>10, StaysInside DEF Fault, kernelVars, Inside, Building
    <3> QED
      BY <2>11, <3>1, <3>2, <3>3, <3>4, <3>5, <3>6, <3>7, <3>8, <3>9, <3>10
  <2>12. CASE Reenter(t)
    BY <2>12 DEF Reenter, Benign
  <2> QED
    BY <2>1, <2>2, <2>3, <2>4, <2>5, <2>6, <2>7, <2>8, <2>9, <2>10, <2>11, <2>12
       DEF Environment, WriterStep, TryLock, Build, Finish
<1> QED
  BY <1>1, <1>2

\* The mutex is held by the thread inside the API, and by no other.
THEOREM LockingHolds ==
  ASSUME Benign
  PROVE  Spec => []Locking
<1>1. Init => Locking
  BY LockingInit
<1>2. Locking /\ [Next]_vars => Locking'
  BY LockingStep
<1> QED
  BY <1>1, <1>2, PTL DEF Spec

-----------------------------------------------------------------------------
(***************************************************************************)
(* The plan.                                                               *)
(***************************************************************************)

LEMMA IInvInit == Init => IInv
<1> SUFFICES ASSUME Init PROVE IInv
  OBVIOUS
<1> USE ThreadsAssumption, CapacityAssumption DEF Init
<1>1. EmptyPlan \in [Slots -> Entry]
  BY DEF EmptyPlan, EmptyEntry, NewEntry, Entry
<1>2. Unlocked \in [owner : Threads \cup {NoThread}, count : Nat, abandoned : BOOLEAN]
  BY DEF Unlocked
<1>3. TypeOK
  BY <1>1, <1>2 DEF TypeOK, Inside, Building
<1>4. Distinct /\ Described /\ Scoped /\ HandlesCounted /\ SuspendCounted
  BY DEF Distinct, Described, Scoped, HandlesCounted, SuspendCounted, Opened, Held
<1>5. Staged
  BY DEF Staged, StagedAt
<1> QED
  BY <1>3, <1>4, <1>5 DEF IInv

\* While a thread is inside, it owns the mutex and is there alone, also when
\* its step is over and it is still inside.
LEMMA Alone ==
  ASSUME Locking, NEW t \in Threads, pc[t] \in Inside
  PROVE  mutex.owner = t /\ \A s \in Threads \ {t} : pc[s] \notin Inside
  BY DEF Locking

\* So it is enough to follow that thread.
LEMMA StagedByOne ==
  ASSUME NEW t \in Threads, StagedAt(t)', \A s \in Threads \ {t} : pc'[s] \notin Inside
  PROVE  Staged'
<1> SUFFICES ASSUME NEW s \in Threads, s # t PROVE StagedAt(s)'
  BY DEF Staged
<1> QED
  BY DEF StagedAt, Inside, Building

LEMMA ScopedByOne ==
  ASSUME NEW t \in Threads, mutex'.owner = t,
         \A s \in Threads \ {t} : pc'[s] \notin Inside,
         pc'[t] \in {"check", "snapshot", "release"} => planCount' = 0
  PROVE  Scoped'
  BY ThreadsAssumption DEF Scoped, Inside, Building

\* A new entry goes into the plan before anything is frozen: at its end, or
\* over another entry, whose handle is closed.
LEMMA Placing ==
  ASSUME TypeOK, Distinct, Described, HandlesCounted, SuspendCounted,
         \A i \in 1 .. planCount : ~plan[i].suspended,
         NEW slot \in Slots, slot <= planCount + 1,
         NEW entry \in Entry, entry.tid \in Threads, ~entry.suspended,
         entry.current <=> entry.tid = mutex.owner,
         entry.current => ~entry.handle,
         entry.handle => state[entry.tid] = "live" /\ handles[entry.tid] < MaxHandles,
         ~InPlan(entry.tid),
         plan' = [plan EXCEPT ![slot] = entry],
         planCount' = IF slot > planCount THEN planCount + 1 ELSE planCount,
         Handles(IF slot > planCount THEN EmptyEntry ELSE plan[slot], entry),
         UNCHANGED <<state, suspend, mutex>>
  PROVE  /\ plan' \in [Slots -> Entry]
         /\ planCount' \in 0 .. kMaxThreads
         /\ handles' \in [Threads -> 0 .. MaxHandles]
         /\ Distinct' /\ Described' /\ HandlesCounted' /\ SuspendCounted'
         /\ \A i \in 1 .. planCount' : ~plan'[i].suspended
         /\ InPlan(entry.tid)'
         /\ \A x : InPlan(x) /\ (slot <= planCount => plan[slot].tid # x) => InPlan(x)'
<1> USE CapacityAssumption
<1>1. /\ plan \in [Slots -> Entry] /\ planCount \in 0 .. kMaxThreads
      /\ handles \in [Threads -> 0 .. MaxHandles]
      /\ 1 .. planCount \subseteq Slots
  BY DEF TypeOK, Slots
<1>2. plan' \in [Slots -> Entry]
  BY <1>1
<1>3. \A i \in Slots : plan'[i] = IF i = slot THEN entry ELSE plan[i]
  BY <1>1
<1>4. planCount' \in 0 .. kMaxThreads
  BY <1>1 DEF Slots
<1>5. /\ slot \in 1 .. planCount'
      /\ 1 .. planCount' \subseteq Slots
      /\ \A i \in 1 .. planCount' : i # slot => i \in 1 .. planCount
      /\ \A i \in 1 .. planCount : i \in 1 .. planCount'
  BY <1>1, <1>4 DEF Slots
<1>6. \A i \in 1 .. planCount : plan[i].tid # entry.tid
  BY DEF InPlan
<1>7. Distinct'
  BY <1>3, <1>5, <1>6 DEF Distinct
<1>8. Described'
  <2> SUFFICES ASSUME NEW i \in 1 .. planCount'
               PROVE  /\ plan'[i].tid \in Threads
                      /\ plan'[i].current <=> plan'[i].tid = mutex.owner
                      /\ plan'[i].current => ~plan'[i].handle
                      /\ plan'[i].suspended => plan'[i].handle
                      /\ plan'[i].handle => state[plan'[i].tid] # "unborn"
    BY DEF Described
  <2>1. CASE i = slot
    BY <2>1, <1>3, <1>5
  <2>2. CASE i # slot
    BY <2>2, <1>3, <1>5 DEF Described
  <2> QED
    BY <2>1, <2>2
<1>9. \A i \in 1 .. planCount' : ~plan'[i].suspended
  BY <1>3, <1>5
<1>10. SuspendCounted'
  BY <1>9 DEF SuspendCounted, Held
<1>11. \A x \in Threads : handles'[x] = IF Opened(x)' THEN 1 ELSE 0
  <2> DEFINE closed == IF slot > planCount THEN EmptyEntry ELSE plan[slot]
  <2> SUFFICES ASSUME NEW x \in Threads
               PROVE  handles'[x] = IF Opened(x)' THEN 1 ELSE 0
    OBVIOUS
  <2>1. handles'[x] = handles[x] - (IF closed.handle /\ closed.tid = x THEN 1 ELSE 0)
                                + (IF entry.handle /\ entry.tid = x THEN 1 ELSE 0)
    BY DEF Handles
  <2>2. handles[x] = IF Opened(x) THEN 1 ELSE 0
    BY DEF HandlesCounted
  <2>3. CASE entry.tid = x
    <3>1. ~Opened(x)
      BY <2>3, <1>6 DEF Opened
    <3>2. ~(closed.handle /\ closed.tid = x)
      BY <2>3, <1>5, <1>6 DEF EmptyEntry, NewEntry, Slots
    <3>3. Opened(x)' <=> entry.handle
      BY <2>3, <1>3, <1>5, <1>6 DEF Opened
    <3> QED
      BY <2>1, <2>2, <2>3, <3>1, <3>2, <3>3
  <2>4. CASE entry.tid # x /\ slot > planCount
    <3>1. ~closed.handle
      BY <2>4 DEF EmptyEntry, NewEntry
    <3>2. Opened(x)' <=> Opened(x)
      BY <2>4, <1>1, <1>3, <1>5 DEF Opened
    <3> QED
      BY <2>1, <2>2, <2>4, <3>1, <3>2
  <2>5. CASE entry.tid # x /\ ~(slot > planCount)
    <3>1. slot \in 1 .. planCount /\ closed = plan[slot]
      BY <2>5, <1>1 DEF Slots
    <3>2. CASE plan[slot].tid = x
      <4>1. ~Opened(x)'
        BY <3>1, <3>2, <2>5, <1>3, <1>5 DEF Opened, Distinct
      <4>2. Opened(x) <=> plan[slot].handle
        BY <3>1, <3>2 DEF Opened, Distinct
      <4> QED
        BY <2>1, <2>2, <2>5, <3>1, <3>2, <4>1, <4>2
    <3>3. CASE plan[slot].tid # x
      <4>1. Opened(x)' <=> Opened(x)
        BY <3>1, <3>3, <2>5, <1>1, <1>3, <1>5 DEF Opened
      <4> QED
        BY <2>1, <2>2, <2>5, <3>1, <3>3, <4>1
    <3> QED
      BY <3>2, <3>3
  <2> QED
    BY <2>3, <2>4, <2>5, <1>1 DEF TypeOK
<1>12. handles' \in [Threads -> 0 .. MaxHandles]
  <2>1. \A x \in Threads : Opened(x)' => 1 <= MaxHandles
    BY <1>1, <1>3, <1>5 DEF Opened, HandlesCounted
  <2>2. handles' = [x \in Threads |-> handles'[x]]
    BY DEF Handles
  <2>3. \A x \in Threads : handles'[x] \in 0 .. MaxHandles
    BY <1>11, <2>1
  <2> QED
    BY <2>2, <2>3
<1>13. InPlan(entry.tid)'
  BY <1>3, <1>5 DEF InPlan
<1>14. \A x : InPlan(x) /\ (slot <= planCount => plan[slot].tid # x) => InPlan(x)'
  BY <1>3, <1>5 DEF InPlan, Slots
<1> QED
  BY <1>2, <1>4, <1>7, <1>8, <1>9, <1>10, <1>11, <1>12, <1>13, <1>14 DEF HandlesCounted

-----------------------------------------------------------------------------
(***************************************************************************)
(* Steps of the environment, and the ends of a call.                       *)
(***************************************************************************)

LEMMA RunStep ==
  ASSUME Locking, IInv, NEW t \in Threads, Run(t)
  PROVE  IInv'
<1> USE DEF IInv
<1>1. /\ suspend[t] = 0 /\ moved' = moved \cup {t}
      /\ UNCHANGED <<state, suspend, handles, mutex, intact, plan, planCount, pc, outer,
                     pref, todo, idx>>
  BY DEF Run, At, Running, kernelVars, callVars
<1>2. TypeOK'
  BY <1>1 DEF TypeOK
<1>3. Distinct' /\ Described' /\ Scoped' /\ HandlesCounted' /\ SuspendCounted'
  BY <1>1 DEF Distinct, Described, Scoped, HandlesCounted, SuspendCounted, Opened, Held
<1>4. ASSUME NEW s \in Threads, pc[s] = "emit", NEW i \in 1 .. planCount, Freezable(i)
      PROVE  plan[i].tid \notin moved'
  <2>1. plan[i].suspended /\ plan[i].tid \notin moved /\ plan[i].tid \in Threads
    BY <1>4 DEF Staged, StagedAt, Described
  <2>2. Held(plan[i].tid) /\ state[plan[i].tid] = "live"
    BY <1>4, <2>1 DEF Held, Freezable
  <2>3. suspend[plan[i].tid] = 1
    BY <2>1, <2>2 DEF SuspendCounted
  <2> QED
    BY <1>1, <2>1, <2>3
<1>5. Staged'
  BY <1>1, <1>4 DEF Staged, StagedAt, InPlan, Freezable
<1> QED
  BY <1>2, <1>3, <1>5

\* A thread that is started, or ends while nobody holds it, and is not inside
\* the API, is nothing to the plan.
LEMMA LifeStep ==
  ASSUME Locking, IInv, NEW t \in Threads, NEW life \in {"live", "dead"},
         pc[t] = "app" \/ state[t] = "unborn",
         state[t] # "unborn" => life = "dead",
         state' = [state EXCEPT ![t] = life],
         \/ UNCHANGED suspend /\ ~Held(t)
         \/ suspend' = [suspend EXCEPT ![t] = 0] /\ life = "dead",
         UNCHANGED <<handles, mutex, intact, plan, planCount, moved, pc, outer, pref, todo, idx>>
  PROVE  IInv'
<1> USE CapacityAssumption DEF IInv
<1>1. \A x \in Threads : state'[x] = IF x = t THEN life ELSE state[x]
  BY DEF TypeOK
<1>2. TypeOK'
  BY DEF TypeOK
<1>3. Distinct' /\ Scoped' /\ HandlesCounted'
  BY DEF Distinct, Scoped, HandlesCounted, Opened
<1>4. Described'
  BY <1>1 DEF Described
<1>5. SuspendCounted'
  <2> SUFFICES ASSUME NEW x \in Threads
               PROVE  suspend'[x] = IF Held(x) /\ state'[x] = "live" THEN 1 ELSE 0
    BY DEF SuspendCounted, Held
  <2>1. CASE x # t
    BY <2>1, <1>1 DEF SuspendCounted, TypeOK
  <2>2. CASE x = t
    BY <2>2, <1>1 DEF SuspendCounted, TypeOK
  <2> QED
    BY <2>1, <2>2
<1>6. \A i \in 1 .. planCount : Freezable(i)' => Freezable(i)
  BY <1>1 DEF Freezable, Described
<1>7. Staged'
  BY <1>6 DEF Staged, StagedAt, InPlan
<1> QED
  BY <1>2, <1>3, <1>4, <1>5, <1>7

LEMMA EnvironmentStep ==
  ASSUME Benign, Locking, IInv, NEW t \in Threads, Environment(t)
  PROVE  IInv'
<1> USE DEF IInv
<1>1. CASE Run(t)
  BY <1>1, RunStep
<1>2. CASE Spawn(t)
  <2>1. ~Held(t)
    BY <1>2 DEF Spawn, Held, Described
  <2> QED
    BY Zenon, <1>2, <2>1, LifeStep DEF Spawn, planVars, callVars
<1>3. CASE Exit(t)
  <2>1. /\ pc[t] = "app" /\ state[t] = "live" /\ suspend[t] = 0
        /\ state' = [state EXCEPT ![t] = "dead"]
        /\ Abandon(t)
        /\ UNCHANGED <<suspend, handles, intact, plan, planCount, moved, pc, outer, pref,
                       todo, idx>>
    BY <1>3 DEF Exit, At, Running, planVars, callVars
  <2>2. UNCHANGED mutex
    BY <2>1 DEF Locking, Abandon, Inside, Building
  <2>3. ~Held(t)
    BY <2>1 DEF SuspendCounted
  <2> QED
    BY Zenon, <2>1, <2>2, <2>3, LifeStep
<1>4. CASE Kill(t)
  <2>1. /\ pc[t] = "app" /\ state[t] = "live"
        /\ state' = [state EXCEPT ![t] = "dead"]
        /\ suspend' = [suspend EXCEPT ![t] = 0]
        /\ Abandon(t)
        /\ UNCHANGED <<handles, intact, plan, planCount, moved, pc, outer, pref, todo, idx>>
    BY <1>4 DEF Kill, Benign, Locking, planVars, callVars
  <2>2. UNCHANGED mutex
    BY <2>1 DEF Locking, Abandon, Inside, Building
  <2> QED
    BY Zenon, <2>1, <2>2, LifeStep
<1> QED
  BY <1>1, <1>2, <1>3, <1>4 DEF Environment

\* The steps that neither touch the plan nor the counts behind it.
LEMMA PlanUntouched ==
  ASSUME IInv, UNCHANGED <<state, suspend, handles, mutex, plan, planCount>>
  PROVE  Distinct' /\ Described' /\ HandlesCounted' /\ SuspendCounted'
  BY DEF IInv, Distinct, Described, HandlesCounted, SuspendCounted, Opened, Held

\* A thread that is not inside before or after its step.
LEMMA OutsideStep ==
  ASSUME IInv, NEW t \in Threads, NEW label \in {"app", "trylock"},
         pc[t] \in {"app", "trylock"},
         \A s \in Threads : pc'[s] = IF s = t THEN label ELSE pc[s],
         \A s \in Threads \ {t} : pref'[s] = pref[s] /\ todo'[s] = todo[s] /\ idx'[s] = idx[s],
         UNCHANGED <<state, suspend, handles, mutex, plan, planCount, moved>>,
         TypeOK'
  PROVE  IInv'
<1>1. Distinct' /\ Described' /\ HandlesCounted' /\ SuspendCounted'
  BY PlanUntouched
<1>2. Scoped'
  BY DEF IInv, Scoped
<1>3. Staged'
  BY DEF IInv, Staged, StagedAt, InPlan, Freezable
<1> QED
  BY <1>1, <1>2, <1>3 DEF IInv

LEMMA CallStep ==
  ASSUME IInv, NEW t \in Threads, NEW p \in Threads \cup {NoThread}, Call(t, p)
  PROVE  IInv'
<1>1. /\ pc[t] = "app" /\ pc' = [pc EXCEPT ![t] = "trylock"] /\ pref' = [pref EXCEPT ![t] = p]
      /\ UNCHANGED <<state, suspend, handles, mutex, intact, plan, planCount, moved, outer,
                     todo, idx>>
  BY DEF Call, At, Goto, kernelVars, planVars
<1>2. TypeOK /\ pc \in [Threads -> {"app", "trylock"} \cup Inside]
      /\ pref \in [Threads -> Threads \cup {NoThread}]
  BY DEF IInv, TypeOK
<1>3. TypeOK'
  BY <1>1, <1>2 DEF TypeOK
<1> QED
  BY <1>1, <1>2, <1>3, OutsideStep

LEMMA ReturnTypes ==
  ASSUME Locking, TypeOK, NEW t \in Threads, Return(t)
  PROVE  /\ \A s \in Threads : pc'[s] = IF s = t THEN "app" ELSE pc[s]
         /\ \A s \in Threads \ {t} :
               pref'[s] = pref[s] /\ todo'[s] = todo[s] /\ idx'[s] = idx[s]
         /\ pc' \in [Threads -> {"app", "trylock"} \cup Inside]
         /\ outer' \in [Threads -> {"none", "emit"}]
         /\ pref' \in [Threads -> Threads \cup {NoThread}]
         /\ todo' \in [Threads -> SUBSET Threads]
         /\ idx' \in [Threads -> 1 .. kMaxThreads + 1]
  BY CapacityAssumption DEF Return, Locking, TypeOK

LEMMA TryLockStep ==
  ASSUME Locking, IInv, NEW t \in Threads, TryLock(t)
  PROVE  IInv'
<1>1. CASE TryLockAcquired(t)
  <2>1. /\ pc[t] = "trylock" /\ mutex.owner \in {NoThread, t}
        /\ mutex' = [owner |-> t, count |-> mutex.count + 1, abandoned |-> FALSE]
        /\ pc' = [pc EXCEPT ![t] = "check"]
        /\ UNCHANGED <<state, suspend, handles, intact, plan, planCount, moved, outer, pref,
                       todo, idx>>
    BY <1>1 DEF TryLockAcquired, MutexFree, At, Goto, kernelVars, planVars
  <2>2. mutex.owner = NoThread
    BY <2>1 DEF Locking, Inside, Building
  <2>3. planCount = 0
    BY <2>2 DEF IInv, Scoped
  <2>4. \A s \in Threads : pc'[s] = IF s = t THEN "check" ELSE pc[s]
    BY <2>1 DEF IInv, TypeOK
  <2>5. pc' \in [Threads -> {"app", "trylock"} \cup Inside]
    BY <2>1 DEF IInv, TypeOK, Inside
  <2>6. mutex' \in [owner : Threads \cup {NoThread}, count : Nat, abandoned : BOOLEAN]
    BY <2>1 DEF Locking
  <2>7. TypeOK'
    BY <2>1, <2>5, <2>6 DEF IInv, TypeOK
  <2>8. Distinct' /\ Described' /\ HandlesCounted' /\ SuspendCounted'
    BY <2>1, <2>3 DEF IInv, Distinct, Described, HandlesCounted, SuspendCounted, Opened, Held
  <2>9. Scoped'
    BY <2>1, <2>3 DEF Scoped
  <2>10. Staged'
    <3>1. \A s \in Threads : pc[s] \notin Inside
      BY <2>2, ThreadsAssumption DEF Locking
    <3> QED
      BY <2>4, <3>1 DEF Staged, StagedAt, Inside, Building
  <2> QED
    BY <2>7, <2>8, <2>9, <2>10 DEF IInv
<1>2. CASE TryLockAbandoned(t)
  BY Zenon, <1>2 DEF TryLockAbandoned, Locking
<1>3. CASE TryLockBusy(t)
  <2>1. /\ pc[t] = "trylock" /\ Return(t)
        /\ UNCHANGED <<state, suspend, handles, mutex, intact, plan, planCount, moved>>
    BY <1>3 DEF TryLockBusy, At, kernelVars, planVars
  <2>2. TypeOK
    BY DEF IInv
  <2>3. TypeOK'
    BY <2>1, <2>2, ReturnTypes DEF TypeOK
  <2> QED
    BY <2>1, <2>2, <2>3, ReturnTypes, OutsideStep
<1> QED
  BY <1>1, <1>2, <1>3 DEF TryLock

LEMMA ReleaseStep ==
  ASSUME Locking, IInv, NEW t \in Threads, Release(t)
  PROVE  IInv'
<1>1. /\ pc[t] = "release" /\ Return(t)
      /\ UNCHANGED <<state, suspend, handles, intact, plan, planCount, moved>>
  BY DEF Release, At, kernelVars, planVars
<1>2. pc[t] \in Inside
  BY <1>1 DEF Inside
<1>3. mutex.count = 1
  BY <1>2, ThreadsAssumption DEF Locking
<1>4. mutex' = Unlocked
  BY <1>3 DEF Release
<1>5. planCount = 0
  BY <1>1 DEF IInv, Scoped
<1>6. TypeOK
  BY DEF IInv
<1>7. mutex' \in [owner : Threads \cup {NoThread}, count : Nat, abandoned : BOOLEAN]
  BY <1>4 DEF Unlocked
<1>8. TypeOK'
  BY <1>1, <1>6, <1>7, ReturnTypes DEF TypeOK
<1>9. Distinct' /\ Described' /\ Scoped' /\ HandlesCounted' /\ SuspendCounted'
  BY <1>1, <1>5 DEF IInv, Distinct, Described, Scoped, HandlesCounted, SuspendCounted,
                    Opened, Held
<1>10. \A s \in Threads : pc'[s] \notin Inside
  <2>1. \A s \in Threads \ {t} : pc[s] \notin Inside
    BY <1>2, Alone
  <2>2. \A s \in Threads : pc'[s] = IF s = t THEN "app" ELSE pc[s]
    BY <1>1, <1>6, ReturnTypes
  <2> QED
    BY <2>1, <2>2 DEF Inside, Building
<1>11. Staged'
  BY <1>10 DEF Staged, StagedAt, Inside, Building
<1> QED
  BY <1>8, <1>9, <1>11 DEF IInv

-----------------------------------------------------------------------------
(***************************************************************************)
(* Steps of the writer.                                                    *)
(***************************************************************************)

\* The writer goes on to another phase and leaves the plan as it is.
LEMMA PhaseStep ==
  ASSUME Locking, IInv, NEW t \in Threads, pc[t] \in Inside,
         NEW label \in Inside \ {"check", "snapshot", "release"},
         pc' = [pc EXCEPT ![t] = label],
         idx' = idx \/ idx' = [idx EXCEPT ![t] = 1],
         todo' = todo \/ todo' = [todo EXCEPT ![t] = {}],
         moved' \subseteq moved,
         UNCHANGED <<state, suspend, handles, mutex, intact, plan, planCount, outer, pref>>,
         StagedAt(t)'
  PROVE  IInv'
<1> USE CapacityAssumption DEF IInv
<1>1. pc' \in [Threads -> {"app", "trylock"} \cup Inside]
  BY DEF TypeOK
<1>2. /\ idx' \in [Threads -> 1 .. kMaxThreads + 1]
      /\ todo' \in [Threads -> SUBSET Threads]
  BY DEF TypeOK
<1>3. TypeOK'
  BY <1>1, <1>2 DEF TypeOK
<1>4. Distinct' /\ Described' /\ HandlesCounted' /\ SuspendCounted'
  BY PlanUntouched
<1>5. mutex.owner = t /\ \A s \in Threads \ {t} : pc[s] \notin Inside
  BY Alone
<1>6. \A s \in Threads : pc'[s] = IF s = t THEN label ELSE pc[s]
  BY DEF TypeOK
<1>7. Scoped'
  BY <1>5, <1>6, ScopedByOne
<1>8. Staged'
  BY <1>5, <1>6, StagedByOne
<1> QED
  BY <1>3, <1>4, <1>7, <1>8

LEMMA CheckIntactStep ==
  ASSUME Locking, IInv, NEW t \in Threads, CheckIntact(t)
  PROVE  IInv'
<1>1. /\ pc[t] = "check"
      /\ pc' = [pc EXCEPT ![t] = IF intact THEN "snapshot" ELSE "resume"]
      /\ idx' = [idx EXCEPT ![t] = 1]
      /\ UNCHANGED <<state, suspend, handles, mutex, intact, plan, planCount, moved, outer,
                     pref, todo>>
  BY DEF CheckIntact, At, Goto, kernelVars, planVars
<1>2. planCount = 0 /\ TypeOK /\ pc[t] \in Inside
  BY <1>1 DEF IInv, Scoped, Inside
<1>3. pc' \in [Threads -> {"app", "trylock"} \cup Inside]
  BY <1>1, <1>2 DEF TypeOK, Inside, Building
<1>4. idx' \in [Threads -> 1 .. kMaxThreads + 1]
  BY <1>1, <1>2, CapacityAssumption DEF TypeOK
<1>5. TypeOK'
  BY <1>1, <1>2, <1>3, <1>4 DEF TypeOK
<1>6. Distinct' /\ Described' /\ HandlesCounted' /\ SuspendCounted'
  BY <1>1, PlanUntouched
<1>7. mutex.owner = t /\ \A s \in Threads \ {t} : pc[s] \notin Inside
  BY <1>2, Alone
<1>8. /\ pc'[t] \in {"snapshot", "resume"}
      /\ \A s \in Threads \ {t} : pc'[s] = pc[s]
  BY <1>1, <1>2 DEF TypeOK
<1>9. Scoped'
  BY <1>1, <1>2, <1>7, <1>8, ScopedByOne
<1>10. StagedAt(t)'
  BY <1>1, <1>2, <1>8 DEF StagedAt
<1>11. Staged'
  BY <1>7, <1>8, <1>10, StagedByOne
<1> QED
  BY <1>5, <1>6, <1>9, <1>11 DEF IInv

\* A fault may come in any phase; every entry is then still to be resumed.
LEMMA FaultStep ==
  ASSUME Locking, IInv, NEW t \in Threads, Fault(t)
  PROVE  IInv'
<1>1. /\ pc[t] \in Inside /\ pc' = [pc EXCEPT ![t] = "resume"]
      /\ idx' = [idx EXCEPT ![t] = 1]
      /\ UNCHANGED <<state, suspend, handles, mutex, intact, plan, planCount, moved, outer,
                     pref, todo>>
  BY DEF Fault, Goto, kernelVars, planVars, Inside
<1>2. pc'[t] = "resume" /\ idx'[t] = 1
  BY <1>1 DEF IInv, TypeOK
<1>3. StagedAt(t)'
  BY <1>1, <1>2 DEF StagedAt, IInv, TypeOK
<1> QED
  BY Zenon, <1>1, <1>3, PhaseStep DEF Inside

LEMMA EmitDoneStep ==
  ASSUME Locking, IInv, NEW t \in Threads, EmitDone(t)
  PROVE  IInv'
<1>1. /\ pc[t] \in Inside /\ pc' = [pc EXCEPT ![t] = "resume"]
      /\ idx' = [idx EXCEPT ![t] = 1]
      /\ UNCHANGED <<state, suspend, handles, mutex, intact, plan, planCount, moved, outer,
                     pref, todo>>
  BY DEF EmitDone, At, Goto, kernelVars, planVars, Inside
<1>2. pc'[t] = "resume" /\ idx'[t] = 1
  BY <1>1 DEF IInv, TypeOK
<1>3. StagedAt(t)'
  BY <1>1, <1>2 DEF StagedAt, IInv, TypeOK
<1> QED
  BY Zenon, <1>1, <1>3, PhaseStep DEF Inside

LEMMA SnapshotStep ==
  ASSUME Locking, IInv, NEW t \in Threads, Snapshot(t)
  PROVE  IInv'
<1>1. /\ pc[t] = "snapshot" /\ pc' = [pc EXCEPT ![t] = "open"]
      /\ planCount' = 0 /\ plan' = EmptyPlan /\ moved' = {}
      /\ UNCHANGED <<state, suspend, handles, mutex, intact, outer, pref, idx>>
  BY DEF Snapshot, At, Goto, kernelVars
<1>2. PICK seen \in SUBSET Threads : todo' = [todo EXCEPT ![t] = seen]
  BY Zenon DEF Snapshot
<1>3. planCount = 0 /\ TypeOK /\ pc[t] \in Inside
  BY <1>1 DEF IInv, Scoped, Inside, Building
<1>4. plan' \in [Slots -> Entry]
  BY <1>1 DEF EmptyPlan, EmptyEntry, NewEntry, Entry
<1>5. /\ pc' \in [Threads -> {"app", "trylock"} \cup Inside]
      /\ todo' \in [Threads -> SUBSET Threads]
  BY <1>1, <1>2, <1>3 DEF TypeOK, Inside, Building
<1>6. TypeOK'
  BY <1>1, <1>3, <1>4, <1>5, CapacityAssumption DEF TypeOK
<1>7. Distinct' /\ Described' /\ HandlesCounted' /\ SuspendCounted'
  BY <1>1, <1>3 DEF IInv, Distinct, Described, HandlesCounted, SuspendCounted, Opened, Held
<1>8. mutex.owner = t /\ \A s \in Threads \ {t} : pc[s] \notin Inside
  BY <1>3, Alone
<1>9. pc'[t] = "open" /\ \A s \in Threads \ {t} : pc'[s] = pc[s]
  BY <1>1, <1>3 DEF TypeOK
<1>10. Scoped'
  BY <1>1, <1>8, <1>9, ScopedByOne
<1>11. StagedAt(t)'
  BY <1>1, <1>9 DEF StagedAt
<1>12. Staged'
  BY <1>8, <1>9, <1>11, StagedByOne
<1> QED
  BY <1>6, <1>7, <1>10, <1>12 DEF IInv

LEMMA OpenDoneStep ==
  ASSUME Locking, IInv, NEW t \in Threads, OpenDone(t)
  PROVE  IInv'
<1>1. /\ pc[t] = "open" /\ pc' = [pc EXCEPT ![t] = "current"]
      /\ todo' = [todo EXCEPT ![t] = {}]
      /\ UNCHANGED <<state, suspend, handles, mutex, intact, plan, planCount, moved, outer,
                     pref, idx>>
  BY DEF OpenDone, At, Goto, kernelVars, planVars
<1>2. pc'[t] = "current"
  BY <1>1 DEF IInv, TypeOK
<1>3. StagedAt(t)'
  BY <1>1, <1>2 DEF StagedAt, IInv, Staged
<1> QED
  BY Zenon, <1>1, <1>3, PhaseStep DEF Inside, Building

LEMMA SuspendDoneStep ==
  ASSUME Locking, IInv, NEW t \in Threads, SuspendDone(t)
  PROVE  IInv'
<1>1. /\ pc[t] = "suspend" /\ pc' = [pc EXCEPT ![t] = "capture"] /\ idx[t] > planCount
      /\ UNCHANGED <<state, suspend, handles, mutex, intact, plan, planCount, moved, outer,
                     pref, todo, idx>>
  BY DEF SuspendDone, At, Goto, kernelVars, planVars
<1>2. pc'[t] = "capture"
  BY <1>1 DEF IInv, TypeOK
<1>3. \A i \in 1 .. planCount : i < idx[t]
  BY <1>1 DEF IInv, TypeOK
<1>4. StagedAt(t)'
  BY <1>1, <1>2, <1>3 DEF StagedAt, IInv, Staged, InPlan, Freezable
<1> QED
  BY Zenon, <1>1, <1>4, PhaseStep DEF Inside, Building

LEMMA CaptureStep ==
  ASSUME Locking, IInv, NEW t \in Threads, Capture(t)
  PROVE  IInv'
<1>1. /\ pc[t] = "capture" /\ pc' = [pc EXCEPT ![t] = "emit"] /\ moved' = {}
      /\ UNCHANGED <<state, suspend, handles, mutex, intact, plan, planCount, outer,
                     pref, todo, idx>>
  BY DEF Capture, At, Goto, kernelVars
<1>2. pc'[t] = "emit"
  BY <1>1 DEF IInv, TypeOK
<1>3. StagedAt(t)'
  BY <1>1, <1>2 DEF StagedAt, IInv, Staged, InPlan, Freezable
<1> QED
  BY Zenon, <1>1, <1>3, PhaseStep DEF Inside, Building

LEMMA OpenNextStep ==
  ASSUME Locking, IInv, NEW t \in Threads, OpenNext(t)
  PROVE  IInv'
<1> USE CapacityAssumption DEF IInv
<1>1. /\ pc[t] = "open" /\ planCount < kMaxThreads
      /\ UNCHANGED <<state, suspend, mutex, intact, moved, pc, outer, pref, idx>>
  BY DEF OpenNext, At
<1>2. PICK tid \in todo[t], ok \in BOOLEAN :
        /\ IF IsSelf(t, tid) THEN ~ok ELSE OpenThread(tid, ok)
        /\ plan' = [plan EXCEPT ![planCount + 1] = NewEntry(tid, IsSelf(t, tid), ok)]
        /\ planCount' = planCount + 1
        /\ Handles(EmptyEntry, NewEntry(tid, IsSelf(t, tid), ok))
        /\ todo' = [todo EXCEPT ![t] = @ \ {tid}]
  BY Zenon DEF OpenNext
<1> DEFINE entry == NewEntry(tid, tid = t, ok)
           slot == planCount + 1
<1>3. tid \in Threads
  BY DEF TypeOK
<1>4. mutex.owner = t /\ \A s \in Threads \ {t} : pc[s] \notin Inside
  BY <1>1, Alone DEF Inside, Building
<1>5. /\ entry \in Entry /\ entry.tid = tid /\ ~entry.suspended
      /\ entry.current <=> tid = t
      /\ entry.handle <=> ok
  BY Zenon, <1>3 DEF NewEntry, Entry
<1>6. ok => tid # t /\ state[tid] = "live" /\ handles[tid] < MaxHandles
  BY <1>2 DEF IsSelf, OpenThread
<1>7. /\ \A i \in 1 .. planCount : ~plan[i].suspended
      /\ ~InPlan(tid)
  BY <1>1, <1>2 DEF Staged, StagedAt, InPlan
<1>8. slot \in Slots /\ planCount \in Nat
  BY <1>1 DEF TypeOK, Slots
<1>9. /\ plan' = [plan EXCEPT ![slot] = entry]
      /\ planCount' = planCount + 1
      /\ Handles(EmptyEntry, entry)
  BY <1>2 DEF IsSelf
<1> HIDE DEF entry, slot
<1>10. /\ plan' \in [Slots -> Entry]
       /\ planCount' \in 0 .. kMaxThreads
       /\ handles' \in [Threads -> 0 .. MaxHandles]
       /\ Distinct' /\ Described' /\ HandlesCounted' /\ SuspendCounted'
       /\ \A i \in 1 .. planCount' : ~plan'[i].suspended
  <2>1. /\ slot <= planCount + 1 /\ slot > planCount
        /\ planCount' = (IF slot > planCount THEN planCount + 1 ELSE planCount)
        /\ Handles(IF slot > planCount THEN EmptyEntry ELSE plan[slot], entry)
    BY <1>8, <1>9 DEF slot
  <2>2. /\ entry.tid \in Threads /\ (entry.current <=> entry.tid = mutex.owner)
        /\ (entry.current => ~entry.handle)
        /\ (entry.handle => state[entry.tid] = "live" /\ handles[entry.tid] < MaxHandles)
        /\ ~InPlan(entry.tid)
    BY <1>3, <1>4, <1>5, <1>6, <1>7
  <2> QED
    BY Zenon, <1>1, <1>5, <1>7, <1>8, <1>9, <2>1, <2>2, Placing
<1>11. /\ todo' \in [Threads -> SUBSET Threads]
       /\ todo'[t] = todo[t] \ {tid}
  BY <1>2 DEF TypeOK
<1>12. TypeOK'
  BY <1>1, <1>10, <1>11 DEF TypeOK
<1>13. Scoped'
  BY <1>1, <1>4, ScopedByOne
<1>14. \A i \in 1 .. planCount' : plan'[i].tid \notin todo'[t]
  <2>1. \A i \in 1 .. planCount : plan[i].tid \notin todo[t]
    BY <1>1 DEF Staged, StagedAt
  <2>2. \A i \in 1 .. planCount' : plan'[i] = entry \/ (i \in 1 .. planCount /\ plan'[i] = plan[i])
    BY <1>8, <1>9 DEF TypeOK, Slots, slot
  <2> QED
    BY <2>1, <2>2, <1>5, <1>11
<1>15. StagedAt(t)'
  BY <1>1, <1>10, <1>14 DEF StagedAt
<1>16. Staged'
  BY <1>1, <1>4, <1>15, StagedByOne
<1> QED
  BY <1>10, <1>12, <1>13, <1>16

\* An entry placed by one of the two steps that complete the plan.
LEMMA Completing ==
  ASSUME Locking, IInv, NEW t \in Threads, pc[t] \in {"current", "preferred"},
         NEW entry \in Entry, entry.tid \in Threads, ~entry.suspended,
         entry.current <=> entry.tid = t,
         entry.current => ~entry.handle,
         entry.handle => OpenThread(entry.tid, TRUE),
         ~InPlan(entry.tid),
         NEW victim \in Slots, Place(entry, victim),
         UNCHANGED <<state, suspend, mutex>>
  PROVE  /\ plan' \in [Slots -> Entry]
         /\ planCount' \in 0 .. kMaxThreads
         /\ handles' \in [Threads -> 0 .. MaxHandles]
         /\ Distinct' /\ Described' /\ HandlesCounted' /\ SuspendCounted'
         /\ \A i \in 1 .. planCount' : ~plan'[i].suspended
         /\ InPlan(entry.tid)'
         /\ \A x : InPlan(x) /\ (planCount >= kMaxThreads => plan[victim].tid # x) => InPlan(x)'
<1> USE CapacityAssumption DEF IInv
<1> DEFINE slot == IF planCount >= kMaxThreads THEN victim ELSE planCount + 1
<1>1. entry.current <=> entry.tid = mutex.owner
  BY Alone DEF Inside, Building
<1>2. \A i \in 1 .. planCount : ~plan[i].suspended
  BY DEF Staged, StagedAt
<1>3. /\ planCount \in 0 .. kMaxThreads /\ slot \in Slots /\ slot <= planCount + 1
      /\ slot > planCount <=> planCount < kMaxThreads
  BY DEF TypeOK, Slots
<1>4. /\ plan' = [plan EXCEPT ![slot] = entry]
      /\ planCount' = (IF slot > planCount THEN planCount + 1 ELSE planCount)
      /\ Handles(IF slot > planCount THEN EmptyEntry ELSE plan[slot], entry)
  BY <1>3 DEF Place
<1>5. /\ planCount >= kMaxThreads <=> slot <= planCount
      /\ slot <= planCount => slot = victim
  BY <1>3 DEF Slots
<1>6. entry.handle => state[entry.tid] = "live" /\ handles[entry.tid] < MaxHandles
  BY DEF OpenThread
<1> HIDE DEF slot
<1>7. /\ plan' \in [Slots -> Entry]
      /\ planCount' \in 0 .. kMaxThreads
      /\ handles' \in [Threads -> 0 .. MaxHandles]
      /\ Distinct' /\ Described' /\ HandlesCounted' /\ SuspendCounted'
      /\ \A i \in 1 .. planCount' : ~plan'[i].suspended
      /\ InPlan(entry.tid)'
      /\ \A x : InPlan(x) /\ (slot <= planCount => plan[slot].tid # x) => InPlan(x)'
  BY Zenon, <1>1, <1>2, <1>3, <1>4, <1>6, Placing
<1>8. \A x : InPlan(x) /\ (planCount >= kMaxThreads => plan[victim].tid # x) => InPlan(x)'
  BY <1>5, <1>7
<1> QED
  BY <1>7, <1>8

LEMMA EnsureCurrentStep ==
  ASSUME Locking, IInv, NEW t \in Threads, EnsureCurrent(t)
  PROVE  IInv'
<1> USE CapacityAssumption DEF IInv
<1>1. /\ pc[t] = "current" /\ pc' = [pc EXCEPT ![t] = "preferred"]
      /\ UNCHANGED <<state, suspend, mutex, intact, moved, outer, pref, todo, idx>>
  BY DEF EnsureCurrent, At, Goto
<1>2. mutex.owner = t /\ \A s \in Threads \ {t} : pc[s] \notin Inside
  BY <1>1, Alone DEF Inside, Building
<1>3. /\ pc'[t] = "preferred" /\ \A s \in Threads \ {t} : pc'[s] = pc[s]
      /\ pc' \in [Threads -> {"app", "trylock"} \cup Inside]
  BY <1>1 DEF TypeOK, Inside, Building
<1>4. (\E i \in 1 .. planCount : plan[i].current) <=> InPlan(t)
  BY <1>2 DEF Described, InPlan
<1>5. CASE InPlan(t)
  <2>1. UNCHANGED <<plan, planCount, handles>>
    BY Zenon, <1>4, <1>5 DEF EnsureCurrent
  <2>2. StagedAt(t)'
    BY <1>1, <1>3, <1>5, <2>1 DEF Staged, StagedAt, InPlan
  <2> QED
    BY Zenon, <1>1, <2>1, <2>2, PhaseStep DEF Inside, Building
<1>6. CASE ~InPlan(t)
  <2> DEFINE entry == NewEntry(t, TRUE, FALSE)
  <2>1. /\ Place(entry, kMaxThreads) /\ kMaxThreads \in Slots
        /\ entry \in Entry /\ entry.tid = t
        /\ entry.current /\ ~entry.handle /\ ~entry.suspended
    BY <1>4, <1>6 DEF EnsureCurrent, NewEntry, Entry, Slots
  <2> HIDE DEF entry
  <2>2. /\ plan' \in [Slots -> Entry]
        /\ planCount' \in 0 .. kMaxThreads
        /\ handles' \in [Threads -> 0 .. MaxHandles]
        /\ Distinct' /\ Described' /\ HandlesCounted' /\ SuspendCounted'
        /\ \A i \in 1 .. planCount' : ~plan'[i].suspended
        /\ InPlan(t)'
    BY Zenon, <1>1, <1>6, <2>1, Completing
  <2>3. TypeOK'
    BY <1>1, <1>3, <2>2 DEF TypeOK
  <2>4. Scoped'
    BY <1>1, <1>2, <1>3, ScopedByOne
  <2>5. StagedAt(t)'
    BY <1>3, <2>2 DEF StagedAt
  <2>6. Staged'
    BY <1>2, <1>3, <2>5, StagedByOne
  <2> QED
    BY <2>2, <2>3, <2>4, <2>6
<1> QED
  BY <1>5, <1>6

\* The writer's own entry is never the one given up.
LEMMA VictimIsNotSelf ==
  ASSUME Locking, IInv, NEW t \in Threads, pc[t] = "preferred", planCount >= kMaxThreads
  PROVE  plan[Victim].tid # t
<1> USE CapacityAssumption DEF IInv
<1>1. mutex.owner = t
  BY Alone DEF Inside, Building
<1>2. planCount = kMaxThreads /\ kMaxThreads \in 1 .. planCount /\ kMaxThreads - 1 \in 1 .. planCount
  BY DEF TypeOK
<1>3. CASE plan[kMaxThreads].current
  <2>1. plan[kMaxThreads].tid = t
    BY <1>1, <1>2, <1>3 DEF Described
  <2>2. plan[kMaxThreads - 1].tid # t
    BY <1>2, <2>1 DEF Distinct
  <2> QED
    BY <1>3, <2>2 DEF Victim
<1>4. CASE ~plan[kMaxThreads].current
  BY <1>1, <1>2, <1>4 DEF Victim, Described
<1> QED
  BY <1>3, <1>4

LEMMA EnsurePreferredStep ==
  ASSUME Locking, IInv, NEW t \in Threads, EnsurePreferred(t)
  PROVE  IInv'
<1> USE CapacityAssumption DEF IInv
<1>1. /\ pc[t] = "preferred" /\ pc' = [pc EXCEPT ![t] = "suspend"]
      /\ idx' = [idx EXCEPT ![t] = 1]
      /\ UNCHANGED <<state, suspend, mutex, intact, moved, outer, pref, todo>>
  BY DEF EnsurePreferred, At, Goto
<1>2. mutex.owner = t /\ \A s \in Threads \ {t} : pc[s] \notin Inside
  BY <1>1, Alone DEF Inside, Building
<1>3. /\ pc'[t] = "suspend" /\ \A s \in Threads \ {t} : pc'[s] = pc[s]
      /\ pc' \in [Threads -> {"app", "trylock"} \cup Inside]
      /\ idx'[t] = 1 /\ idx' \in [Threads -> 1 .. kMaxThreads + 1]
  BY <1>1 DEF TypeOK, Inside, Building
<1>4. InPlan(t) /\ \A i \in 1 .. planCount : ~plan[i].suspended
  BY <1>1 DEF Staged, StagedAt
<1>5. CASE pref[t] \in {NoThread, t} \/ InPlan(pref[t])
  <2>1. UNCHANGED <<plan, planCount, handles>>
    BY Zenon, <1>5 DEF EnsurePreferred
  <2>2. StagedAt(t)'
    BY <1>1, <1>3, <1>4, <1>5, <2>1 DEF StagedAt, InPlan, TypeOK
  <2> QED
    BY Zenon, <1>1, <2>1, <2>2, PhaseStep DEF Inside, Building
<1>6. CASE pref[t] \notin {NoThread, t} /\ ~InPlan(pref[t])
  <2>1. PICK ok \in BOOLEAN :
          OpenThread(pref[t], ok) /\ Place(NewEntry(pref[t], FALSE, ok), Victim)
    BY Zenon, <1>6 DEF EnsurePreferred
  <2> DEFINE entry == NewEntry(pref[t], FALSE, ok)
  <2>2. /\ pref[t] \in Threads /\ pref[t] # t /\ Victim \in Slots
        /\ Place(entry, Victim)
        /\ entry \in Entry /\ entry.tid = pref[t]
        /\ ~entry.current /\ ~entry.suspended
        /\ entry.handle => OpenThread(entry.tid, TRUE)
    BY <1>6, <2>1 DEF TypeOK, Victim, Slots, NewEntry, Entry, OpenThread
  <2> HIDE DEF entry
  <2>3. /\ plan' \in [Slots -> Entry]
        /\ planCount' \in 0 .. kMaxThreads
        /\ handles' \in [Threads -> 0 .. MaxHandles]
        /\ Distinct' /\ Described' /\ HandlesCounted' /\ SuspendCounted'
        /\ \A i \in 1 .. planCount' : ~plan'[i].suspended
        /\ InPlan(pref[t])'
        /\ InPlan(t) /\ (planCount >= kMaxThreads => plan[Victim].tid # t) => InPlan(t)'
    BY Zenon, <1>1, <1>6, <2>1, <2>2, Completing
  <2>4. InPlan(t)'
    BY <1>1, <1>4, <2>3, VictimIsNotSelf
  <2>5. TypeOK'
    BY <1>1, <1>3, <2>3 DEF TypeOK
  <2>6. Scoped'
    BY <1>1, <1>2, <1>3, ScopedByOne
  <2>7. StagedAt(t)'
    BY <1>3, <2>3, <2>4 DEF StagedAt, TypeOK
  <2>8. Staged'
    BY <1>2, <1>3, <2>7, StagedByOne
  <2> QED
    BY <2>3, <2>5, <2>6, <2>8
<1> QED
  BY <1>5, <1>6

LEMMA SuspendNextStep ==
  ASSUME Locking, IInv, NEW t \in Threads, SuspendNext(t)
  PROVE  IInv'
<1> USE CapacityAssumption DEF IInv
<1> DEFINE k == idx[t]
           tid == plan[k].tid
<1>1. /\ pc[t] = "suspend" /\ k <= planCount /\ idx' = [idx EXCEPT ![t] = @ + 1]
      /\ UNCHANGED <<state, handles, mutex, intact, planCount, moved, pc, outer, pref, todo>>
  BY DEF SuspendNext, At
<1>2. /\ k \in 1 .. planCount /\ 1 .. planCount \subseteq Slots
      /\ planCount \in 0 .. kMaxThreads
      /\ plan \in [Slots -> Entry]
      /\ suspend \in [Threads -> 0 .. MaxSuspend]
  BY <1>1 DEF TypeOK, Slots
<1>3. idx' \in [Threads -> 1 .. kMaxThreads + 1] /\ idx'[t] = k + 1
  BY <1>1, <1>2 DEF TypeOK
<1>4. mutex.owner = t /\ \A s \in Threads \ {t} : pc[s] \notin Inside
  BY <1>1, Alone DEF Inside, Building
<1>5. Scoped'
  BY <1>1, <1>4, ScopedByOne
<1>6. tid \in Threads /\ ~plan[k].suspended
  BY <1>1, <1>2 DEF Described, Staged, StagedAt
<1>7. ~Held(tid) /\ suspend[tid] = 0
  <2>1. ~Held(tid)
    BY <1>2, <1>6 DEF Held, Distinct
  <2> QED
    BY <2>1, <1>6 DEF SuspendCounted
<1>8. plan[k].handle => ~plan[k].current
  BY <1>2 DEF Described
<1>9. CASE Freezable(k)
  <2>1. /\ suspend' = [suspend EXCEPT ![tid] = @ + 1]
        /\ plan' = [plan EXCEPT ![k].suspended = TRUE]
    BY <1>7, <1>8, <1>9 DEF SuspendNext, Freezable
  <2>2. /\ plan' \in [Slots -> Entry]
        /\ \A i \in 1 .. planCount : i # k => plan'[i] = plan[i]
        /\ plan'[k].tid = tid /\ (plan'[k].current <=> plan[k].current)
        /\ (plan'[k].handle <=> plan[k].handle) /\ plan'[k].suspended
    <3>1. plan[k] \in Entry
      BY <1>2
    <3> DEFINE held == [plan[k] EXCEPT !.suspended = TRUE]
    <3>2. /\ held \in Entry /\ held.tid = tid /\ held.suspended
          /\ held.current = plan[k].current /\ held.handle = plan[k].handle
      BY Zenon, <3>1 DEF Entry
    <3>3. plan' = [plan EXCEPT ![k] = held]
      BY <2>1
    <3> HIDE DEF held
    <3> QED
      BY <3>2, <3>3, <1>2
  <2>3. \A x \in Threads : suspend'[x] = IF x = tid THEN 1 ELSE suspend[x]
    BY <1>2, <1>7, <2>1
  <2>4. suspend' \in [Threads -> 0 .. MaxSuspend]
    BY <1>2, <1>6, <1>7, <2>1
  <2>5. TypeOK'
    BY <1>1, <1>3, <2>2, <2>4 DEF TypeOK
  <2>6. Distinct'
    BY <1>1, <1>2, <2>2 DEF Distinct
  <2>7. Described'
    <3> SUFFICES ASSUME NEW i \in 1 .. planCount
                 PROVE  /\ plan'[i].tid \in Threads
                        /\ plan'[i].current <=> plan'[i].tid = mutex.owner
                        /\ plan'[i].current => ~plan'[i].handle
                        /\ plan'[i].suspended => plan'[i].handle
                        /\ plan'[i].handle => state[plan'[i].tid] # "unborn"
      BY <1>1 DEF Described
    <3> QED
      BY <1>2, <1>9, <2>2 DEF Described, Freezable
  <2>8. HandlesCounted'
    BY <1>1, <1>2, <2>2 DEF HandlesCounted, Opened
  <2>9. SuspendCounted'
    <3> SUFFICES ASSUME NEW x \in Threads
                 PROVE  suspend'[x] = IF Held(x)' /\ state[x] = "live" THEN 1 ELSE 0
      BY <1>1 DEF SuspendCounted
    <3>1. CASE x = tid
      BY <3>1, <1>1, <1>2, <1>9, <2>2, <2>3 DEF Held, Freezable
    <3>2. CASE x # tid
      <4>1. Held(x)' <=> Held(x)
        BY <3>2, <1>1, <1>2, <2>2 DEF Held
      <4> QED
        BY <3>2, <4>1, <2>3 DEF SuspendCounted
    <3> QED
      BY <3>1, <3>2
  <2>10. \A i \in 1 .. planCount :
           IF i < k + 1 THEN (Freezable(i)' => plan'[i].suspended) ELSE ~plan'[i].suspended
    <3>1. \A i \in 1 .. planCount :
            IF i < k THEN (Freezable(i) => plan[i].suspended) ELSE ~plan[i].suspended
      BY <1>1 DEF Staged, StagedAt
    <3>2. \A i \in 1 .. planCount : Freezable(i)' <=> Freezable(i)
      BY <1>1, <1>2, <2>2 DEF Freezable
    <3> QED
      BY <3>1, <3>2, <1>2, <2>2
  <2>11. InPlan(t) /\ (pref[t] # NoThread => InPlan(pref[t]))
    BY <1>1 DEF Staged, StagedAt
  <2>12. InPlan(t)' /\ (pref[t] # NoThread => InPlan(pref[t])')
    BY <1>1, <1>2, <2>2, <2>11 DEF InPlan
  <2>13. StagedAt(t)'
    BY <1>1, <1>3, <2>10, <2>12 DEF StagedAt
  <2>14. Staged'
    BY <1>1, <1>4, <2>13, StagedByOne
  <2> QED
    BY <1>5, <2>5, <2>6, <2>7, <2>8, <2>9, <2>14
<1>10. CASE ~Freezable(k)
  <2>1. UNCHANGED <<suspend, plan>>
    BY <1>10 DEF SuspendNext, Freezable
  <2>2. TypeOK'
    BY <1>1, <1>3, <2>1 DEF TypeOK
  <2>3. Distinct' /\ Described' /\ HandlesCounted' /\ SuspendCounted'
    BY <1>1, <2>1, PlanUntouched
  <2>4. \A i \in 1 .. planCount :
          IF i < k + 1 THEN (Freezable(i) => plan[i].suspended) ELSE ~plan[i].suspended
    <3>1. \A i \in 1 .. planCount :
            IF i < k THEN (Freezable(i) => plan[i].suspended) ELSE ~plan[i].suspended
      BY <1>1 DEF Staged, StagedAt
    <3> QED
      BY <3>1, <1>2, <1>10
  <2>5. StagedAt(t)'
    BY <1>1, <1>3, <2>1, <2>4 DEF Staged, StagedAt, InPlan, Freezable
  <2>6. Staged'
    BY <1>1, <1>4, <2>5, StagedByOne
  <2> QED
    BY <1>5, <2>2, <2>3, <2>6
<1> QED
  BY <1>9, <1>10

LEMMA ResumeNextStep ==
  ASSUME Locking, IInv, NEW t \in Threads, ResumeNext(t)
  PROVE  IInv'
<1> USE CapacityAssumption DEF IInv
<1> DEFINE k == idx[t]
           entry == plan[k]
           thaw == entry.handle /\ entry.suspended /\ state[entry.tid] = "live"
<1>1. /\ pc[t] = "resume" /\ k <= planCount /\ idx' = [idx EXCEPT ![t] = @ + 1]
      /\ UNCHANGED <<state, mutex, intact, planCount, moved, pc, outer, pref, todo>>
  BY DEF ResumeNext, At
<1>2. /\ suspend' = [x \in Threads |->
                        IF thaw /\ x = entry.tid THEN suspend[x] - 1 ELSE suspend[x]]
      /\ plan' = IF entry.handle
                 THEN [plan EXCEPT ![k].suspended = FALSE, ![k].handle = FALSE]
                 ELSE plan
      /\ Handles(entry, EmptyEntry)
  BY DEF ResumeNext
<1>3. /\ k \in 1 .. planCount /\ 1 .. planCount \subseteq Slots
      /\ planCount \in 0 .. kMaxThreads
      /\ plan \in [Slots -> Entry]
      /\ suspend \in [Threads -> 0 .. MaxSuspend]
      /\ handles \in [Threads -> 0 .. MaxHandles]
  BY <1>1 DEF TypeOK, Slots
<1>4. idx' \in [Threads -> 1 .. kMaxThreads + 1] /\ idx'[t] = k + 1
  BY <1>1, <1>3 DEF TypeOK
<1>5. mutex.owner = t /\ \A s \in Threads \ {t} : pc[s] \notin Inside
  BY <1>1, Alone DEF Inside, Building
<1>6. Scoped'
  BY <1>1, <1>5, ScopedByOne
<1>7. entry.tid \in Threads /\ (entry.suspended => entry.handle)
  BY <1>3 DEF Described
<1>8. /\ plan' \in [Slots -> Entry]
      /\ \A i \in 1 .. planCount : i # k => plan'[i] = plan[i]
      /\ plan'[k].tid = entry.tid /\ (plan'[k].current <=> entry.current)
      /\ ~plan'[k].suspended /\ ~plan'[k].handle
  <2>1. CASE entry.handle
    <3>1. plan' = [plan EXCEPT ![k] = [tid |-> entry.tid, current |-> entry.current,
                                       handle |-> FALSE, suspended |-> FALSE]]
      BY <2>1, <1>2, <1>3 DEF Entry
    <3> QED
      BY <3>1, <1>3 DEF Entry
  <2>2. CASE ~entry.handle
    BY <2>2, <1>2, <1>3, <1>7
  <2> QED
    BY <2>1, <2>2
<1> HIDE DEF entry
<1>9. Distinct'
  BY <1>1, <1>3, <1>8 DEF Distinct, entry
<1>10. Described'
  <2> SUFFICES ASSUME NEW i \in 1 .. planCount
               PROVE  /\ plan'[i].tid \in Threads
                      /\ plan'[i].current <=> plan'[i].tid = mutex.owner
                      /\ plan'[i].current => ~plan'[i].handle
                      /\ plan'[i].suspended => plan'[i].handle
                      /\ plan'[i].handle => state[plan'[i].tid] # "unborn"
    BY <1>1 DEF Described
  <2>1. CASE i = k
    BY <2>1, <1>3, <1>8 DEF Described, entry
  <2>2. CASE i # k
    BY <2>2, <1>3, <1>8 DEF Described
  <2> QED
    BY <2>1, <2>2
<1>11. ASSUME NEW x \in Threads
       PROVE  handles'[x] = IF Opened(x)' THEN 1 ELSE 0
  <2>1. handles'[x] = handles[x] - (IF entry.handle /\ entry.tid = x THEN 1 ELSE 0)
    BY <1>2, <1>3 DEF Handles, EmptyEntry, NewEntry
  <2>2. handles[x] = IF Opened(x) THEN 1 ELSE 0
    BY DEF HandlesCounted
  <2>3. CASE entry.tid = x
    <3>1. ~Opened(x)'
      BY <2>3, <1>1, <1>3, <1>8 DEF Opened, Distinct, entry
    <3>2. Opened(x) <=> entry.handle
      BY <2>3, <1>3 DEF Opened, Distinct, entry
    <3> QED
      BY <2>1, <2>2, <2>3, <3>1, <3>2
  <2>4. CASE entry.tid # x
    <3>1. Opened(x)' <=> Opened(x)
      BY <2>4, <1>1, <1>3, <1>8 DEF Opened, entry
    <3> QED
      BY <2>1, <2>2, <2>4, <3>1
  <2> QED
    BY <2>3, <2>4
<1>12. ASSUME NEW x \in Threads
       PROVE  suspend'[x] = IF Held(x)' /\ state[x] = "live" THEN 1 ELSE 0
  <2>1. suspend'[x] = IF thaw /\ x = entry.tid THEN suspend[x] - 1 ELSE suspend[x]
    BY <1>2
  <2>2. suspend[x] = IF Held(x) /\ state[x] = "live" THEN 1 ELSE 0
    BY DEF SuspendCounted
  <2>3. CASE entry.tid = x
    <3>1. ~Held(x)'
      BY <2>3, <1>1, <1>3, <1>8 DEF Held, Distinct, entry
    <3>2. Held(x) <=> entry.suspended
      BY <2>3, <1>3 DEF Held, Distinct, entry
    <3> QED
      BY <2>1, <2>2, <2>3, <3>1, <3>2, <1>7
  <2>4. CASE entry.tid # x
    <3>1. Held(x)' <=> Held(x)
      BY <2>4, <1>1, <1>3, <1>8 DEF Held, entry
    <3> QED
      BY <2>1, <2>2, <2>4, <3>1
  <2> QED
    BY <2>3, <2>4
<1>13. HandlesCounted' /\ SuspendCounted'
  BY <1>1, <1>11, <1>12 DEF HandlesCounted, SuspendCounted
<1>14. handles' \in [Threads -> 0 .. MaxHandles]
  <2>1. \A x \in Threads : Opened(x)' => Opened(x)
    BY <1>1, <1>3, <1>8 DEF Opened
  <2>2. \A x \in Threads : handles'[x] \in 0 .. MaxHandles
    BY <2>1, <1>3, <1>11 DEF HandlesCounted
  <2>3. handles' = [x \in Threads |-> handles'[x]]
    BY <1>2 DEF Handles
  <2> QED
    BY <2>2, <2>3
<1>15. suspend' \in [Threads -> 0 .. MaxSuspend]
  <2>1. \A x \in Threads : suspend'[x] \in 0 .. MaxSuspend
    BY <1>12
  <2>2. suspend' = [x \in Threads |-> suspend'[x]]
    BY <1>2
  <2> QED
    BY <2>1, <2>2
<1>16. TypeOK'
  BY <1>1, <1>4, <1>8, <1>14, <1>15 DEF TypeOK
<1>17. \A i \in 1 .. planCount : (i < k + 1 => ~plan'[i].handle)
  BY <1>1, <1>3, <1>8 DEF Staged, StagedAt
<1>18. StagedAt(t)'
  BY <1>1, <1>4, <1>17 DEF StagedAt
<1>19. Staged'
  BY <1>1, <1>5, <1>18, StagedByOne
<1> QED
  BY <1>6, <1>9, <1>10, <1>13, <1>16, <1>19

LEMMA ResumeDoneStep ==
  ASSUME Locking, IInv, NEW t \in Threads, ResumeDone(t)
  PROVE  IInv'
<1>1. /\ pc[t] = "resume" /\ pc' = [pc EXCEPT ![t] = "release"] /\ idx[t] > planCount
      /\ planCount' = 0 /\ plan' = EmptyPlan /\ moved' = {}
      /\ UNCHANGED <<state, suspend, handles, mutex, intact, outer, pref, todo, idx>>
  BY DEF ResumeDone, At, Goto, kernelVars
<1>2. TypeOK /\ pc[t] \in Inside
  BY <1>1 DEF IInv, Inside
<1>3. \A i \in 1 .. planCount : ~plan[i].handle /\ ~plan[i].suspended
  BY <1>1, <1>2 DEF IInv, Staged, StagedAt, Described, TypeOK
<1>4. plan' \in [Slots -> Entry]
  BY <1>1 DEF EmptyPlan, EmptyEntry, NewEntry, Entry
<1>5. pc' \in [Threads -> {"app", "trylock"} \cup Inside]
  BY <1>1, <1>2 DEF TypeOK, Inside
<1>6. TypeOK'
  BY <1>1, <1>2, <1>4, <1>5, CapacityAssumption DEF TypeOK
<1>7. Distinct' /\ Described' /\ HandlesCounted' /\ SuspendCounted'
  BY <1>1, <1>3 DEF IInv, Distinct, Described, HandlesCounted, SuspendCounted, Opened, Held
<1>8. mutex.owner = t /\ \A s \in Threads \ {t} : pc[s] \notin Inside
  BY <1>2, Alone
<1>9. pc'[t] = "release" /\ \A s \in Threads \ {t} : pc'[s] = pc[s]
  BY <1>1, <1>2 DEF TypeOK
<1>10. Scoped'
  BY <1>1, <1>8, <1>9, ScopedByOne
<1>11. StagedAt(t)'
  BY <1>9 DEF StagedAt
<1>12. Staged'
  BY <1>8, <1>9, <1>11, StagedByOne
<1> QED
  BY <1>6, <1>7, <1>10, <1>12 DEF IInv

LEMMA IInvStep ==
  ASSUME Benign, Locking, IInv, [Next]_vars
  PROVE  IInv'
<1>1. CASE UNCHANGED vars
  <2>1. UNCHANGED <<state, suspend, handles, mutex, intact, plan, planCount, moved, pc, outer,
                    pref, todo, idx>>
    BY <1>1 DEF vars, kernelVars, planVars, callVars
  <2>2. Distinct' /\ Described' /\ HandlesCounted' /\ SuspendCounted'
    BY <2>1, PlanUntouched
  <2>3. TypeOK' /\ Scoped'
    BY <2>1 DEF IInv, TypeOK, Scoped
  <2>4. Staged'
    BY <2>1 DEF IInv, Staged, StagedAt, InPlan, Freezable
  <2> QED
    BY <2>2, <2>3, <2>4 DEF IInv
<1>2. CASE Next
  <2> SUFFICES ASSUME NEW t \in Threads,
                      \/ Environment(t)
                      \/ \E p \in Threads \cup {NoThread} : Call(t, p)
                      \/ WriterStep(t)
                      \/ Fault(t)
                      \/ Reenter(t)
               PROVE  IInv'
    BY <1>2 DEF Next
  <2>1. CASE Environment(t)
    BY <2>1, EnvironmentStep
  <2>2. CASE \E p \in Threads \cup {NoThread} : Call(t, p)
    BY <2>2, CallStep
  <2>3. CASE TryLock(t)
    BY <2>3, TryLockStep
  <2>4. CASE CheckIntact(t)
    BY <2>4, CheckIntactStep
  <2>5. CASE Build(t)
    BY <2>5, SnapshotStep, OpenNextStep, OpenDoneStep, EnsureCurrentStep, EnsurePreferredStep,
       SuspendNextStep, SuspendDoneStep, CaptureStep DEF Build
  <2>6. CASE Finish(t)
    BY <2>6, EmitDoneStep, ResumeNextStep, ResumeDoneStep, ReleaseStep DEF Finish
  <2>7. CASE Fault(t)
    BY <2>7, FaultStep
  <2>8. CASE Reenter(t)
    BY <2>8 DEF Reenter, Benign
  <2> QED
    BY <2>1, <2>2, <2>3, <2>4, <2>5, <2>6, <2>7, <2>8 DEF WriterStep
<1> QED
  BY <1>1, <1>2

THEOREM IInvHolds ==
  ASSUME Benign
  PROVE  Spec => [](Locking /\ IInv)
<1>1. Init => Locking /\ IInv
  BY LockingInit, IInvInit
<1>2. Locking /\ IInv /\ [Next]_vars => (Locking /\ IInv)'
  BY LockingStep, IInvStep
<1> QED
  BY <1>1, <1>2, PTL DEF Spec

-----------------------------------------------------------------------------
(***************************************************************************)
(* The results that need it.                                               *)
(***************************************************************************)

\* With nobody inside there is no plan, so no thread is held.
LEMMA IdleMeansNoPlan ==
  ASSUME Locking, IInv, \A t \in Threads : ~Writing(t)
  PROVE  mutex.owner = NoThread /\ planCount = 0
<1>1. \A t \in Threads : pc[t] \notin Inside
  BY DEF Locking, Writing, Inside, Building
<1>2. mutex.owner = NoThread
  BY <1>1 DEF Locking
<1> QED
  BY <1>2 DEF IInv, Scoped

\* No thread stays suspended and no handle open after a call, on any path.
THEOREM NothingLeftBehindHolds ==
  ASSUME Benign
  PROVE  Spec => []NothingLeftBehind
<1>1. Locking /\ IInv => NothingLeftBehind
  <2> SUFFICES ASSUME Locking, IInv, \A t \in Threads : ~Writing(t), NEW x \in Threads
               PROVE  suspend[x] = 0 /\ handles[x] = 0
    BY DEF NothingLeftBehind
  <2>1. ~Held(x) /\ ~Opened(x)
    BY IdleMeansNoPlan DEF Held, Opened
  <2> QED
    BY <2>1 DEF IInv, SuspendCounted, HandlesCounted
<1> QED
  BY <1>1, IInvHolds, PTL

\* The DumpMutex is free whenever nobody is inside the API.
THEOREM MutexFreeWhenIdleHolds ==
  ASSUME Benign
  PROVE  Spec => []MutexFreeWhenIdle
<1>1. Locking /\ IInv => MutexFreeWhenIdle
  BY IdleMeansNoPlan DEF MutexFreeWhenIdle
<1> QED
  BY <1>1, IInvHolds, PTL

\* A thread waits at the try-lock until a step of its own takes it further.
LEMMA TryLockSteps ==
  ASSUME Benign, Locking, Next, NEW t \in Threads, pc[t] = "trylock", pc'[t] # "trylock"
  PROVE  TryLockAcquired(t) \/ TryLockBusy(t)
<1> PICK u \in Threads :
      \/ Environment(u)
      \/ \E p \in Threads \cup {NoThread} : Call(u, p)
      \/ WriterStep(u)
      \/ Fault(u)
      \/ Reenter(u)
  BY DEF Next
<1> DEFINE Moves == pc[u] # "trylock" /\ \E label : pc' = [pc EXCEPT ![u] = label]
<1>1. pc \in [Threads -> {"app", "trylock"} \cup Inside]
  BY DEF Locking
<1>2. ~Moves
  BY <1>1
<1>3. ~(UNCHANGED pc)
  OBVIOUS
<1>4. ~Environment(u)
  BY <1>3 DEF Environment, Run, Spawn, Exit, Kill, callVars
<1>5. ~\E p \in Threads \cup {NoThread} : Call(u, p)
  BY <1>2 DEF Call, At, Goto
<1>6. ~CheckIntact(u)
  BY <1>2 DEF CheckIntact, At, Goto
<1>7. ~Build(u)
  BY Zenon, <1>2, <1>3 DEF Build, Snapshot, OpenNext, OpenDone, EnsureCurrent, EnsurePreferred,
                    SuspendNext, SuspendDone, Capture, At, Goto
<1>8. ~Finish(u)
  BY <1>2, <1>3 DEF Finish, EmitDone, ResumeNext, ResumeDone, Release, Return, At, Goto
<1>9. ~Fault(u) /\ ~Reenter(u)
  BY <1>2 DEF Fault, Reenter, Benign, Building, Goto
<1>10. TryLockAcquired(u) \/ TryLockBusy(u)
  BY Zenon, <1>4, <1>5, <1>6, <1>7, <1>8, <1>9 DEF WriterStep, TryLock, TryLockAbandoned, Locking
<1>11. u = t
  BY <1>1, <1>10 DEF TryLockAcquired, TryLockBusy, Return, Goto
<1> QED
  BY <1>10, <1>11

\* A call is turned away only while another thread is inside the API.
THEOREM BusyMeansWritingHolds ==
  ASSUME Benign
  PROVE  Spec => BusyMeansWriting
<1> DEFINE Turned(t) == pc[t] = "trylock" /\ pc'[t] \notin {"trylock", "check"}
<1>1. Locking /\ [Next]_vars =>
        [\A t \in Threads : Turned(t) => \E s \in Threads \ {t} : Writing(s)]_vars
  <2> SUFFICES ASSUME Locking, Next, NEW t \in Threads, Turned(t)
               PROVE  \E s \in Threads \ {t} : Writing(s)
    OBVIOUS
  <2>1. TryLockAcquired(t) \/ TryLockBusy(t)
    BY TryLockSteps
  <2>2. ~TryLockAcquired(t)
    BY DEF TryLockAcquired, Goto, Locking
  <2>3. mutex.owner \in Threads \ {t}
    BY <2>1, <2>2 DEF TryLockBusy, Locking
  <2>4. pc[mutex.owner] \in Inside
    BY <2>3 DEF Locking
  <2>5. Writing(mutex.owner)
    BY <2>3, <2>4 DEF Writing, Locking, Inside, Building
  <2> QED
    BY <2>3, <2>5
<1> QED
  BY <1>1, LockingHolds, PTL DEF Spec, BusyMeansWriting

-----------------------------------------------------------------------------
(***************************************************************************)
(* DumpSession implements StopTheWorld.                                    *)
(***************************************************************************)

Frozen == {x \in Threads : suspend[x] > 0}

LEMMA WorldInit == Init => World!Init
  BY DEF Init, Unlocked, World!Init

LEMMA WorldStep ==
  ASSUME Benign, Locking, IInv, Locking', IInv', [Next]_vars
  PROVE  [World!Next]_World!vars
<1> USE ThreadsAssumption
<1>1. UNCHANGED <<mutex, suspend>> => UNCHANGED World!vars
  BY DEF World!vars
<1>2. CASE UNCHANGED vars
  BY <1>1, <1>2 DEF vars, kernelVars
<1>3. CASE Next
  <2> SUFFICES ASSUME NEW t \in Threads,
                      \/ Environment(t)
                      \/ \E p \in Threads \cup {NoThread} : Call(t, p)
                      \/ WriterStep(t)
                      \/ Fault(t)
                      \/ Reenter(t)
               PROVE  [World!Next]_World!vars
    BY <1>3 DEF Next
  <2>1. CASE Run(t) \/ Spawn(t)
    BY <1>1, <2>1 DEF Run, Spawn, kernelVars
  <2>2. CASE Exit(t)
    <3>1. UNCHANGED <<mutex, suspend>>
      BY <2>2 DEF Exit, Abandon, At, Locking, Inside, Building
    <3> QED
      BY <1>1, <3>1
  <2>3. CASE Kill(t)
    <3>1. UNCHANGED mutex
      BY <2>3 DEF Kill, Abandon, Benign, Locking, Inside, Building
    <3>2. \A x \in Threads : suspend'[x] = IF x = t THEN 0 ELSE suspend[x]
      BY <2>3 DEF Kill, IInv, TypeOK
    <3>3. Frozen' = Frozen \ {t}
      BY <3>2 DEF Frozen
    <3>4. World!Thaw(t)
      BY <3>1, <3>3 DEF World!Thaw, Frozen
    <3> QED
      BY <3>4 DEF World!Next
  <2>4. CASE \E p \in Threads \cup {NoThread} : Call(t, p)
    BY <1>1, <2>4 DEF Call, kernelVars
  <2>5. CASE TryLockAcquired(t)
    <3>1. mutex.owner = NoThread
      BY <2>5 DEF TryLockAcquired, MutexFree, At, Locking, Inside, Building
    <3>2. mutex'.owner = t /\ UNCHANGED suspend
      BY <2>5 DEF TryLockAcquired, kernelVars
    <3>3. World!Begin(t)
      BY <3>1, <3>2 DEF World!Begin
    <3> QED
      BY <3>3 DEF World!Next
  <2>6. CASE TryLockAbandoned(t)
    BY Zenon, <2>6 DEF TryLockAbandoned, Locking
  <2>7. CASE TryLockBusy(t)
    BY <1>1, <2>7 DEF TryLockBusy, kernelVars
  <2>8. CASE CheckIntact(t) \/ Fault(t) \/ EmitDone(t)
    BY <1>1, <2>8 DEF CheckIntact, Fault, EmitDone, kernelVars
  <2>9. CASE Snapshot(t) \/ OpenDone(t) \/ SuspendDone(t) \/ Capture(t) \/ ResumeDone(t)
    BY <1>1, <2>9 DEF Snapshot, OpenDone, SuspendDone, Capture, ResumeDone, kernelVars
  <2>10. CASE OpenNext(t) \/ EnsureCurrent(t) \/ EnsurePreferred(t)
    BY Zenon, <1>1, <2>10 DEF OpenNext, EnsureCurrent, EnsurePreferred
  <2>11. CASE SuspendNext(t)
    <3> DEFINE tid == plan[idx[t]].tid
    <3>1. UNCHANGED mutex /\ mutex.owner = t /\ idx[t] \in 1 .. planCount
      BY <2>11, Alone DEF SuspendNext, At, Inside, Building, IInv, TypeOK
    <3>2. CASE UNCHANGED suspend
      BY <1>1, <3>1, <3>2
    <3>3. CASE suspend' = [suspend EXCEPT ![tid] = @ + 1] /\ ~plan[idx[t]].current
      <4>1. tid \in Threads /\ tid # t
        BY <3>1, <3>3 DEF IInv, Described
      <4>2. \A x \in Threads : suspend'[x] > 0 <=> x = tid \/ suspend[x] > 0
        BY <3>3, <4>1 DEF IInv, TypeOK
      <4>3. Frozen' = Frozen \cup {tid}
        BY <4>1, <4>2 DEF Frozen
      <4>4. World!Freeze(tid)
        BY <3>1, <4>1, <4>3 DEF World!Freeze, Frozen
      <4> QED
        BY <4>1, <4>4 DEF World!Next, World!Freeze
    <3> QED
      BY <2>11, <3>2, <3>3 DEF SuspendNext
  <2>12. CASE ResumeNext(t)
    <3> DEFINE tid == plan[idx[t]].tid
               thaw == /\ plan[idx[t]].handle /\ plan[idx[t]].suspended
                       /\ state[tid] = "live"
    <3>1. /\ UNCHANGED mutex /\ idx[t] \in 1 .. planCount
          /\ suspend' = [x \in Threads |->
                           IF thaw /\ x = tid THEN suspend[x] - 1 ELSE suspend[x]]
      BY <2>12 DEF ResumeNext, IInv, TypeOK
    <3>2. tid \in Threads
      BY <3>1 DEF IInv, Described
    <3>3. \A x \in Threads : suspend[x] \in {0, 1}
      BY DEF IInv, SuspendCounted
    <3>4. CASE thaw
      <4>1. Frozen' = Frozen \ {tid}
        BY <3>1, <3>2, <3>3, <3>4 DEF Frozen
      <4>2. World!Thaw(tid)
        BY <3>1, <4>1 DEF World!Thaw, Frozen
      <4> QED
        BY <3>2, <4>2 DEF World!Next, World!Thaw
    <3>5. CASE ~thaw
      <4>1. \A x \in Threads : suspend'[x] = suspend[x]
        BY <3>1, <3>5
      <4>2. Frozen' = Frozen
        BY <4>1 DEF Frozen
      <4> QED
        BY <3>1, <4>2 DEF World!vars, Frozen
    <3> QED
      BY <3>4, <3>5
  <2>13. CASE Release(t)
    <3>1. /\ pc[t] = "release" /\ UNCHANGED suspend
          /\ mutex' = IF mutex.count = 1 THEN Unlocked ELSE [mutex EXCEPT !.count = @ - 1]
      BY <2>13 DEF Release, At, kernelVars
    <3>2. mutex.owner = t /\ mutex.count = 1
      BY <3>1 DEF Locking, Inside
    <3>3. mutex'.owner = NoThread
      BY <3>1, <3>2 DEF Unlocked
    <3>4. planCount = 0
      BY <3>1 DEF IInv, Scoped
    <3>5. Frozen = {}
      BY <3>4 DEF Frozen, IInv, SuspendCounted, Held
    <3>6. World!End
      BY <3>1, <3>2, <3>3, <3>5 DEF World!End, Frozen
    <3> QED
      BY <3>6 DEF World!Next
  <2>14. CASE Reenter(t)
    BY <2>14 DEF Reenter, Benign
  <2> QED
    BY <2>1, <2>2, <2>3, <2>4, <2>5, <2>6, <2>7, <2>8, <2>9, <2>10, <2>11, <2>12, <2>13,
       <2>14 DEF Environment, WriterStep, TryLock, Build, Finish
<1> QED
  BY <1>2, <1>3

\* Each dump is one turn of StopTheWorld: stop others one by one, let them all
\* go, only then give up the mutex.
THEOREM Implements ==
  ASSUME Benign
  PROVE  Spec => ImplementsStopTheWorld
<1>1. Init => World!Init
  BY WorldInit
<1>2. Locking /\ IInv /\ (Locking /\ IInv)' /\ [Next]_vars => [World!Next]_World!vars
  BY WorldStep
<1> QED
  BY <1>1, <1>2, IInvHolds, PTL DEF Spec, ImplementsStopTheWorld, World!Spec

===============================================================================
