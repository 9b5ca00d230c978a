--------------------------- MODULE InprocInit_proofs ---------------------------
(***************************************************************************)
(* Proofs about InprocInit, for any number of threads and of calls: one    *)
(* thread populates the globals, whoever returns finds them ready, and     *)
(* nothing changes once they are published.                                *)
(***************************************************************************)
EXTENDS InprocInit, TLAPS

-----------------------------------------------------------------------------
(***************************************************************************)
(* The inductive invariant.                                                *)
(***************************************************************************)

\* One thread at a time populates the globals.
OneInitializer == \A c, d \in Callers : Initializing(c) /\ Initializing(d) => c = d

\* The status says how far the initializer is.
StatusTells ==
  \A c \in Callers :
    /\ Initializing(c) => status = IF pc[c] = "protect" THEN "INITIALIZED" ELSE "INITIALIZING"
    /\ pc[c] = "returned" => status = "INITIALIZED"

\* What the steps so far have filled.
Filled ==
  \A c \in Callers :
    /\ pc[c] \in {"apis", "mutexes", "crc", "publish"} => "NativeSystemInfo" \in set
    /\ pc[c] \in {"mutexes", "crc", "publish"} => "Apis" \in set
    /\ pc[c] = "publish" => crc # <<>>

Complete == status = "INITIALIZED" => {"NativeSystemInfo", "Apis"} \subseteq set /\ crc # <<>>

IInv == TypeOK /\ OneInitializer /\ StatusTells /\ Filled /\ Complete

-----------------------------------------------------------------------------
(***************************************************************************)
(* The order of the steps.                                                 *)
(***************************************************************************)

LEMMA StepsOrdered ==
  /\ ToSet(InitSteps) = {"sysinfo", "apis", "mutexes", "crc", "publish", "protect"}
  /\ InitSteps[1] = "sysinfo"
  /\ NextStep("sysinfo") = "apis"
  /\ NextStep("apis") = "mutexes"
  /\ NextStep("mutexes") = "crc"
  /\ NextStep("crc") = "publish"
  /\ NextStep("publish") = "protect"
  /\ NextStep("protect") = "returned"
<1>1. /\ Len(InitSteps) = 6
      /\ InitSteps[1] = "sysinfo" /\ InitSteps[2] = "apis" /\ InitSteps[3] = "mutexes"
      /\ InitSteps[4] = "crc" /\ InitSteps[5] = "publish" /\ InitSteps[6] = "protect"
  BY DEF InitSteps
<1>2. \A i \in 1 .. 6 : i \in {1, 2, 3, 4, 5, 6}
  OBVIOUS
<1>3. ToSet(InitSteps) = {"sysinfo", "apis", "mutexes", "crc", "publish", "protect"}
  <2>1. DOMAIN InitSteps = 1 .. 6
    BY DEF InitSteps
  <2> QED BY <1>1, <1>2, <2>1 DEF ToSet
<1>4. \A i \in 1 .. 6 : \A j \in 1 .. 6 : InitSteps[i] = InitSteps[j] => i = j
  BY <1>1, <1>2
<1>5. ASSUME NEW i \in 1 .. 6
      PROVE  NextStep(InitSteps[i]) = IF i = 6 THEN "returned" ELSE InitSteps[i + 1]
  <2>1. (CHOOSE j \in 1 .. Len(InitSteps) : InitSteps[j] = InitSteps[i]) = i
    BY <1>1, <1>4
  <2> QED BY <1>1, <2>1 DEF NextStep
<1> QED BY <1>1, <1>3, <1>5

LEMMA InitializingAt ==
  \A c \in Callers :
    Initializing(c) <=> pc[c] \in {"sysinfo", "apis", "mutexes", "crc", "publish", "protect"}
BY StepsOrdered DEF Initializing

-----------------------------------------------------------------------------
(***************************************************************************)
(* Each action keeps the invariant.                                        *)
(***************************************************************************)

LEMMA InitIInv == Init => IInv
<1> SUFFICES ASSUME Init PROVE IInv
  OBVIOUS
<1>1. TypeOK
  <2>1. 0 \in 0 .. MaxCalls
    BY CallsAssumption
  <2> QED BY <2>1, StepsOrdered DEF Init, TypeOK
<1>2. OneInitializer /\ StatusTells /\ Filled /\ Complete
  BY InitializingAt DEF Init, OneInitializer, StatusTells, Filled, Complete
<1> QED BY <1>1, <1>2 DEF IInv

\* A thread that is not initializing goes to a place where it is not either, and
\* all that is published stays.
LEMMA Bystander ==
  ASSUME IInv, NEW c \in Callers, ~Initializing(c),
         NEW label \in {"app", "cas", "returned", "faulted", "guard"},
         Goto(c, label), label = "returned" => status = "INITIALIZED",
         UNCHANGED <<status, set, crc>>
  PROVE  /\ pc' \in [Callers -> {"app", "cas", "returned", "faulted", "guard"} \cup ToSet(InitSteps)]
         /\ (OneInitializer /\ StatusTells /\ Filled /\ Complete)'
<1>1. /\ pc \in [Callers -> {"app", "cas", "returned", "faulted", "guard"} \cup ToSet(InitSteps)]
      /\ pc' = [pc EXCEPT ![c] = label]
  BY DEF IInv, TypeOK, Goto
<1>2. \A d \in Callers : pc'[d] = IF d = c THEN label ELSE pc[d]
  BY <1>1
<1>3. \A d \in Callers : Initializing(d)' <=> d # c /\ Initializing(d)
  BY <1>2, StepsOrdered DEF Initializing
<1>4. OneInitializer'
  BY <1>3 DEF IInv, OneInitializer
<1>5. StatusTells'
  BY <1>2, <1>3 DEF IInv, StatusTells
<1>6. Filled'
  BY <1>2 DEF IInv, Filled
<1>7. Complete'
  BY DEF IInv, Complete
<1> QED BY <1>1, <1>4, <1>5, <1>6, <1>7

\* The initializer goes from one step to the next: nobody has returned then.
LEMMA Initializer ==
  ASSUME IInv, NEW c \in Callers,
         NEW step \in {"sysinfo", "apis", "mutexes", "crc", "publish", "protect"},
         pc[c] = step, Goto(c, NextStep(step)),
         status' = IF step = "publish" THEN "INITIALIZED" ELSE status
  PROVE  /\ pc' \in [Callers -> {"app", "cas", "returned", "faulted", "guard"} \cup ToSet(InitSteps)]
         /\ pc'[c] = NextStep(step)
         /\ \A d \in Callers \ {c} : pc'[d] = pc[d] /\ ~Initializing(d)
         /\ (OneInitializer /\ StatusTells)'
<1>1. /\ pc \in [Callers -> {"app", "cas", "returned", "faulted", "guard"} \cup ToSet(InitSteps)]
      /\ pc' = [pc EXCEPT ![c] = NextStep(step)]
  BY DEF IInv, TypeOK, Goto
<1>2. \A d \in Callers : pc'[d] = IF d = c THEN NextStep(step) ELSE pc[d]
  BY <1>1
<1>3. Initializing(c)
  BY InitializingAt
<1>4. \A d \in Callers \ {c} : ~Initializing(d)
  BY <1>3 DEF IInv, OneInitializer
<1>5. \A d \in Callers : Initializing(d)' => d = c
  BY <1>2, <1>4 DEF Initializing
<1>6. OneInitializer'
  BY <1>5 DEF OneInitializer
<1>7. status = IF step = "protect" THEN "INITIALIZED" ELSE "INITIALIZING"
  BY <1>3 DEF IInv, StatusTells
<1>8. StatusTells'
  <2> SUFFICES ASSUME NEW d \in Callers
               PROVE  /\ Initializing(d)' =>
                           status' = IF pc'[d] = "protect" THEN "INITIALIZED" ELSE "INITIALIZING"
                      /\ pc'[d] = "returned" => status' = "INITIALIZED"
    BY DEF StatusTells
  <2>1. CASE d = c
    <3>1. Initializing(d)' => pc'[d] # "returned"
      BY StepsOrdered DEF Initializing
    <3>2. CASE step = "protect"
      BY <1>2, <1>7, <2>1, <3>1, <3>2, StepsOrdered
    <3>3. CASE step = "publish"
      BY <1>2, <2>1, <3>3, StepsOrdered
    <3>4. CASE step \in {"sysinfo", "apis", "mutexes", "crc"}
      BY <1>2, <1>7, <2>1, <3>4, StepsOrdered
    <3> QED BY <3>2, <3>3, <3>4
  <2>2. CASE d # c
    <3>1. ~Initializing(d)'
      BY <1>5, <2>2
    <3>2. pc[d] = "returned" => status' = "INITIALIZED"
      BY <1>7 DEF IInv, StatusTells
    <3> QED BY <1>2, <2>2, <3>1, <3>2
  <2> QED BY <2>1, <2>2
<1>9. pc' \in [Callers -> {"app", "cas", "returned", "faulted", "guard"} \cup ToSet(InitSteps)]
  <2>1. NextStep(step) \in {"returned"} \cup ToSet(InitSteps)
    BY StepsOrdered
  <2> QED BY <1>1, <2>1
<1> QED BY <1>2, <1>4, <1>6, <1>8, <1>9

\* The one thread that finds nothing initialized starts.
LEMMA ClaimIInv ==
  ASSUME IInv, NEW c \in Callers, Claim(c)
  PROVE  IInv'
<1>1. /\ pc \in [Callers -> {"app", "cas", "returned", "faulted", "guard"} \cup ToSet(InitSteps)]
      /\ pc' = [pc EXCEPT ![c] = "sysinfo"]
  BY StepsOrdered DEF IInv, TypeOK, Claim, Goto
<1>2. \A d \in Callers : pc'[d] = IF d = c THEN "sysinfo" ELSE pc[d]
  BY <1>1
<1>3. \A d \in Callers : ~Initializing(d) /\ pc[d] # "returned"
  BY DEF IInv, StatusTells, Claim, Claimable
<1>4. \A d \in Callers : Initializing(d)' => d = c
  BY <1>2, <1>3 DEF Initializing
<1>5. TypeOK'
  BY <1>1, StepsOrdered DEF IInv, TypeOK, Claim
<1>6. OneInitializer'
  BY <1>4 DEF OneInitializer
<1>7. StatusTells'
  BY <1>2, <1>3, <1>4 DEF StatusTells, Claim
<1>8. Filled' /\ Complete'
  BY <1>2 DEF IInv, Filled, Complete, Claim
<1> QED BY <1>5, <1>6, <1>7, <1>8 DEF IInv

LEMMA PopulateIInv ==
  ASSUME IInv, NEW c \in Callers, SystemInfo(c) \/ ResolveApis(c) \/ CreateMutexes(c)
  PROVE  IInv'
<1>1. PICK step \in {"sysinfo", "apis", "mutexes"} :
        /\ pc[c] = step
        /\ Goto(c, NextStep(step))
        /\ set \subseteq set' /\ set' \subseteq Fields
        /\ step = "sysinfo" => "NativeSystemInfo" \in set'
        /\ step = "apis" => "Apis" \in set'
        /\ UNCHANGED <<status, crc, readonly, calls, dumpMutex, answer>>
  BY DEF IInv, TypeOK, Fields, Populate, SystemInfo, ResolveApis, CreateMutexes
<1>2. /\ pc' \in [Callers -> {"app", "cas", "returned", "faulted", "guard"} \cup ToSet(InitSteps)]
      /\ pc'[c] = NextStep(step)
      /\ \A d \in Callers \ {c} : pc'[d] = pc[d] /\ ~Initializing(d)
      /\ (OneInitializer /\ StatusTells)'
  BY <1>1, Initializer
<1>3. TypeOK'
  BY <1>1, <1>2 DEF IInv, TypeOK
<1>4. Filled'
  BY <1>1, <1>2, StepsOrdered, InitializingAt DEF IInv, Filled
<1>5. Complete'
  BY <1>1 DEF IInv, Complete
<1> QED BY <1>2, <1>3, <1>4, <1>5 DEF IInv

LEMMA StoreCrcIInv ==
  ASSUME IInv, NEW c \in Callers, StoreCrc(c)
  PROVE  IInv'
<1>1. /\ pc[c] = "crc" /\ Goto(c, NextStep("crc"))
      /\ crc' = <<status, set>>
      /\ UNCHANGED <<status, set, readonly, calls, dumpMutex, answer>>
  BY DEF StoreCrc, Covered
<1>2. /\ pc' \in [Callers -> {"app", "cas", "returned", "faulted", "guard"} \cup ToSet(InitSteps)]
      /\ pc'[c] = "publish"
      /\ \A d \in Callers \ {c} : pc'[d] = pc[d] /\ ~Initializing(d)
      /\ (OneInitializer /\ StatusTells)'
  BY <1>1, Initializer, StepsOrdered
<1>3. crc' # <<>> /\ crc'[2] \subseteq Fields
  BY <1>1 DEF IInv, TypeOK
<1>4. TypeOK'
  BY <1>1, <1>2, <1>3 DEF IInv, TypeOK
<1>5. Filled'
  BY <1>1, <1>2, <1>3, InitializingAt DEF IInv, Filled
<1>6. Complete'
  BY <1>1, <1>3 DEF IInv, Complete
<1> QED BY <1>2, <1>4, <1>5, <1>6 DEF IInv

LEMMA PublishIInv ==
  ASSUME IInv, NEW c \in Callers, Publish(c)
  PROVE  IInv'
<1>1. /\ pc[c] = "publish" /\ Goto(c, NextStep("publish"))
      /\ status' = "INITIALIZED"
      /\ UNCHANGED <<set, crc, readonly, calls, dumpMutex, answer>>
  BY DEF Publish
<1>2. /\ pc' \in [Callers -> {"app", "cas", "returned", "faulted", "guard"} \cup ToSet(InitSteps)]
      /\ pc'[c] = "protect"
      /\ \A d \in Callers \ {c} : pc'[d] = pc[d] /\ ~Initializing(d)
      /\ (OneInitializer /\ StatusTells)'
  BY <1>1, Initializer, StepsOrdered
<1>3. TypeOK'
  BY <1>1, <1>2 DEF IInv, TypeOK
<1>4. Filled'
  BY <1>1, <1>2, InitializingAt DEF IInv, Filled
<1>5. Complete'
  BY <1>1 DEF IInv, Filled, Complete
<1> QED BY <1>2, <1>3, <1>4, <1>5 DEF IInv

LEMMA ProtectIInv ==
  ASSUME IInv, NEW c \in Callers, Protect(c)
  PROVE  IInv'
<1>1. /\ pc[c] = "protect" /\ Goto(c, NextStep("protect"))
      /\ readonly' = TRUE
      /\ UNCHANGED <<status, set, crc, calls, dumpMutex, answer>>
  BY DEF Protect
<1>2. /\ pc' \in [Callers -> {"app", "cas", "returned", "faulted", "guard"} \cup ToSet(InitSteps)]
      /\ pc'[c] = "returned"
      /\ \A d \in Callers \ {c} : pc'[d] = pc[d] /\ ~Initializing(d)
      /\ (OneInitializer /\ StatusTells)'
  BY <1>1, Initializer, StepsOrdered
<1>3. TypeOK'
  BY <1>1, <1>2 DEF IInv, TypeOK
<1>4. Filled'
  BY <1>1, <1>2 DEF IInv, Filled
<1>5. Complete'
  BY <1>1 DEF IInv, Complete
<1> QED BY <1>2, <1>3, <1>4, <1>5 DEF IInv

\* All other steps are those of a bystander.
LEMMA BystanderIInv ==
  ASSUME IInv, NEW c \in Callers,
         CallResolve(c) \/ AlreadyDone(c) \/ CasFaults(c) \/ CallWrite(c) \/ Guard(c)
  PROVE  IInv'
<1>1. PICK label \in {"app", "cas", "returned", "faulted", "guard"} :
        /\ Goto(c, label)
        /\ label = "returned" => status = "INITIALIZED"
  BY DEF CallResolve, AlreadyDone, Done, CasFaults, CallWrite, Guard
<1>2. ~Initializing(c) /\ UNCHANGED <<status, set, crc, readonly>>
  BY InitializingAt DEF CallResolve, AlreadyDone, CasFaults, CallWrite, Guard
<1>3. /\ pc' \in [Callers -> {"app", "cas", "returned", "faulted", "guard"} \cup ToSet(InitSteps)]
      /\ (OneInitializer /\ StatusTells /\ Filled /\ Complete)'
  BY <1>1, <1>2, Bystander
<1>4. calls' \in [Callers -> 0 .. MaxCalls]
  <2>1. calls \in [Callers -> 0 .. MaxCalls]
    BY DEF IInv, TypeOK
  <2>2. CASE CallResolve(c)
    <3>1. calls[c] + 1 \in 0 .. MaxCalls
      BY <2>1, <2>2, CallsAssumption DEF CallResolve
    <3> QED BY <2>1, <2>2, <3>1 DEF CallResolve
  <2> QED BY <2>1, <2>2 DEF AlreadyDone, CasFaults, CallWrite, Guard
<1>5. dumpMutex' \in [Callers -> BOOLEAN]
  <2>1. dumpMutex \in [Callers -> BOOLEAN]
    BY DEF IInv, TypeOK
  <2>2. CASE CallWrite(c)
    <3>1. ("DumpMutex" \in set) \in BOOLEAN
      OBVIOUS
    <3>2. dumpMutex' = [dumpMutex EXCEPT ![c] = "DumpMutex" \in set]
      BY <2>2 DEF CallWrite
    <3> QED BY ONLY <2>1, <3>1, <3>2, Zenon
  <2>3. CASE CallResolve(c) \/ AlreadyDone(c) \/ CasFaults(c) \/ Guard(c)
    BY <2>1, <2>3 DEF CallResolve, AlreadyDone, CasFaults, Guard
  <2> QED BY <2>2, <2>3
<1>6. answer' \in [Callers -> {"none", "ERROR_NOT_READY", "ERROR_INVALID_DATA", "accepted"}]
  <2>1. Answer(c) \in {"none", "ERROR_NOT_READY", "ERROR_INVALID_DATA", "accepted"}
    BY DEF Answer
  <2> QED BY <2>1 DEF IInv, TypeOK, CallResolve, AlreadyDone, CasFaults, CallWrite, Guard
<1>7. TypeOK'
  BY <1>2, <1>3, <1>4, <1>5, <1>6 DEF IInv, TypeOK
<1> QED BY <1>3, <1>7 DEF IInv

LEMMA InductiveIInv == IInv /\ [Next]_vars => IInv'
<1> SUFFICES ASSUME IInv, [Next]_vars PROVE IInv'
  OBVIOUS
<1>1. ASSUME NEW c \in Callers, CallResolve(c) \/ Resolve(c) \/ CallWrite(c) \/ Guard(c)
      PROVE  IInv'
  <2>1. CASE Claim(c)
    BY <2>1, ClaimIInv
  <2>2. CASE SystemInfo(c) \/ ResolveApis(c) \/ CreateMutexes(c)
    BY <2>2, PopulateIInv
  <2>3. CASE StoreCrc(c)
    BY <2>3, StoreCrcIInv
  <2>4. CASE Publish(c)
    BY <2>4, PublishIInv
  <2>5. CASE Protect(c)
    BY <2>5, ProtectIInv
  <2>6. CASE CallResolve(c) \/ AlreadyDone(c) \/ CasFaults(c) \/ CallWrite(c) \/ Guard(c)
    BY <2>6, BystanderIInv
  <2> QED BY <1>1, <2>1, <2>2, <2>3, <2>4, <2>5, <2>6 DEF Resolve
<1>2. CASE UNCHANGED vars
  BY <1>2 DEF IInv, TypeOK, OneInitializer, Initializing, StatusTells, Filled, Complete, vars, callVars
<1> QED BY <1>1, <1>2 DEF Next

LEMMA Invariance == Spec => []IInv
<1> QED BY InitIInv, InductiveIInv, PTL DEF Spec

-----------------------------------------------------------------------------
(***************************************************************************)
(* The theorems.                                                           *)
(***************************************************************************)

\* Every variable keeps its type, whoever calls how often.
THEOREM TypeCorrect == Spec => []TypeOK
<1>1. IInv => TypeOK
  BY DEF IInv
<1> QED BY <1>1, Invariance, PTL

\* Any number of threads may race: one of them populates the globals, and they
\* are complete when the status says so (ResolveInprocApis).
THEOREM AlwaysPopulatedOnce == Spec => []PopulatedOnce
<1>1. IInv => PopulatedOnce
  BY DEF IInv, OneInitializer, Complete, PopulatedOnce
<1> QED BY <1>1, Invariance, PTL

\* Nobody returns from ResolveInprocApis before the globals are ready.
THEOREM ReturnAlwaysMeansReady == Spec => []ReturnMeansReady
<1>1. IInv => ReturnMeansReady
  BY DEF IInv, StatusTells, ReturnMeansReady
<1> QED BY <1>1, Invariance, PTL

\* What a crash handler reads after publication never changes any more.
THEOREM PublishedStaysFinal == Spec => PublishedIsFinal
<1>1. IInv /\ [Next]_vars =>
        [status = "INITIALIZED" => UNCHANGED <<status, set, crc>>]_<<status, set, crc>>
  <2> SUFFICES ASSUME IInv, [Next]_vars, status = "INITIALIZED"
               PROVE  UNCHANGED <<status, set, crc>>
    OBVIOUS
  <2>1. ASSUME NEW c \in Callers, CallResolve(c) \/ Resolve(c) \/ CallWrite(c) \/ Guard(c)
        PROVE  UNCHANGED <<status, set, crc>>
    <3>1. pc[c] \notin {"sysinfo", "apis", "mutexes", "crc", "publish"}
      BY InitializingAt DEF IInv, StatusTells
    <3>2. ~Claim(c)
      BY DEF Claim, Claimable
    <3>3. ~SystemInfo(c) /\ ~ResolveApis(c) /\ ~CreateMutexes(c) /\ ~StoreCrc(c) /\ ~Publish(c)
      BY <3>1 DEF SystemInfo, ResolveApis, CreateMutexes, Populate, StoreCrc, Publish
    <3> QED BY <2>1, <3>2, <3>3 DEF Resolve, CallResolve, AlreadyDone, CasFaults, Protect, CallWrite, Guard
  <2> QED BY <2>1 DEF Next, vars
<1>2. Spec => [][Next]_vars
  BY PTL DEF Spec
<1> QED BY <1>1, <1>2, Invariance, PTL DEF PublishedIsFinal
=============================================================================
