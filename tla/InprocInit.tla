----------------------------- MODULE InprocInit -----------------------------
(***************************************************************************)
(* The init-once globals of the library: ResolveInprocApis, called by the  *)
(* load-time constructor and by any thread that wants to, and the guards   *)
(* at the head of WriteMiniDumpInproc that read what it published.         *)
(*                                                                         *)
(* All of it lives in one page, g_Protected, which becomes read-only when  *)
(* initialization ends.  Every field before Crc is under the CRC.          *)
(***************************************************************************)
EXTENDS Naturals, Sequences, SequencesExt

CONSTANTS
  Callers,   \* threads
  MaxCalls   \* bound: calls to ResolveInprocApis each thread makes

ASSUME CallsAssumption == MaxCalls \in Nat \ {0}

VARIABLES
  status,    \* g_Protected.InitStatus
  set,       \* the fields of g_Protected that hold their value
  crc,       \* what g_Protected.Crc was computed over, <<>> before that
  readonly,  \* is the page PAGE_READONLY?
  pc,        \* where each thread is
  calls,     \* ResolveInprocApis calls each thread has begun
  dumpMutex, \* the DumpMutex each WriteMiniDumpInproc call read: set or not
  answer     \* last error of each thread's WriteMiniDumpInproc guards

callVars == <<pc, calls, dumpMutex, answer>>
vars == <<status, set, crc, readonly, callVars>>

Fields == {"NativeSystemInfo", "Apis", "CommentMutex", "DumpMutex"}

\* Mutant: the status is published before the mutexes exist.
EarlyPublishSteps == <<"sysinfo", "apis", "publish", "mutexes", "crc", "protect">>

\* Mutant: the initializer gives up before it publishes.
NoPublishSteps == <<"sysinfo", "apis", "mutexes">>

\* What the one initializer does, in this order.
InitSteps == <<"sysinfo", "apis", "mutexes", "crc", "publish", "protect">>

NextStep(step) ==
  LET i == CHOOSE i \in 1 .. Len(InitSteps) : InitSteps[i] = step
  IN  IF i = Len(InitSteps) THEN "returned" ELSE InitSteps[i + 1]

\* What a CRC over the page reads: all fields, and the status among them.
Covered == <<status, set>>

\* IsProtectedGlobalsIntact()
Intact == crc = Covered

Goto(c, label) == pc' = [pc EXCEPT ![c] = label]

Init ==
  /\ status = "NOT_INITIALIZED"
  /\ set = {}
  /\ crc = <<>>
  /\ readonly = FALSE
  /\ pc = [c \in Callers |-> "app"]
  /\ calls = [c \in Callers |-> 0]
  /\ dumpMutex = [c \in Callers |-> FALSE]
  /\ answer = [c \in Callers |-> "none"]

-----------------------------------------------------------------------------
(***************************************************************************)
(* ResolveInprocApis.                                                      *)
(***************************************************************************)

CallResolve(c) ==
  /\ pc[c] \in {"app", "returned"}
  /\ calls[c] < MaxCalls
  /\ calls' = [calls EXCEPT ![c] = @ + 1]
  /\ Goto(c, "cas")
  /\ UNCHANGED <<status, set, crc, readonly, dumpMutex, answer>>

\* Mutant: a waiting caller takes over an initialization in progress.
ClaimableWhenUnfinished == status # "INITIALIZED"

Claimable == status = "NOT_INITIALIZED"

\* The compare-exchange finds NOT_INITIALIZED: this caller initializes.
Claim(c) ==
  /\ pc[c] = "cas"
  /\ ~readonly
  /\ Claimable
  /\ status' = "INITIALIZING"
  /\ Goto(c, InitSteps[1])
  /\ UNCHANGED <<set, crc, readonly, calls, dumpMutex, answer>>

\* Mutant: a caller returns while another one is still initializing.
DoneWhenClaimed == status # "NOT_INITIALIZED"

Done == status = "INITIALIZED"

\* The compare-exchange finds INITIALIZED.  While it finds INITIALIZING the
\* caller spins: it stays where it is.
AlreadyDone(c) ==
  /\ pc[c] = "cas"
  /\ ~readonly
  /\ Done
  /\ Goto(c, "returned")
  /\ UNCHANGED <<status, set, crc, readonly, calls, dumpMutex, answer>>

\* A locked compare-exchange writes its destination even when it does not
\* match, so on the read-only page it is an access violation.
CasFaults(c) ==
  /\ pc[c] = "cas"
  /\ readonly
  /\ Goto(c, "faulted")
  /\ UNCHANGED <<status, set, crc, readonly, calls, dumpMutex, answer>>

\* The initializer fills a group of fields.  CreateMutexW may fail and leave a
\* null handle; an export that does not exist is a valid null.
Populate(c, step, always, maybe) ==
  /\ pc[c] = step
  /\ \E more \in SUBSET maybe : set' = set \cup always \cup more
  /\ Goto(c, NextStep(step))
  /\ UNCHANGED <<status, crc, readonly, calls, dumpMutex, answer>>

SystemInfo(c) == Populate(c, "sysinfo", {"NativeSystemInfo"}, {})
ResolveApis(c) == Populate(c, "apis", {"Apis"}, {})
CreateMutexes(c) == Populate(c, "mutexes", {}, {"CommentMutex", "DumpMutex"})

\* SetProtectedGlobalsCrc()
StoreCrc(c) ==
  /\ pc[c] = "crc"
  /\ crc' = Covered
  /\ Goto(c, NextStep("crc"))
  /\ UNCHANGED <<status, set, readonly, calls, dumpMutex, answer>>

Publish(c) ==
  /\ pc[c] = "publish"
  /\ status' = "INITIALIZED"
  /\ Goto(c, NextStep("publish"))
  /\ UNCHANGED <<set, crc, readonly, calls, dumpMutex, answer>>

\* ProtectInitGlobals()
Protect(c) ==
  /\ pc[c] = "protect"
  /\ readonly' = TRUE
  /\ Goto(c, NextStep("protect"))
  /\ UNCHANGED <<status, set, crc, calls, dumpMutex, answer>>

Resolve(c) ==
  \/ Claim(c) \/ AlreadyDone(c) \/ CasFaults(c)
  \/ SystemInfo(c) \/ ResolveApis(c) \/ CreateMutexes(c)
  \/ StoreCrc(c) \/ Publish(c) \/ Protect(c)

-----------------------------------------------------------------------------
(***************************************************************************)
(* The guards of WriteMiniDumpInproc.                                      *)
(***************************************************************************)

\* A crash reads the DumpMutex handle.
CallWrite(c) ==
  /\ pc[c] \in {"app", "returned"}
  /\ dumpMutex' = [dumpMutex EXCEPT ![c] = "DumpMutex" \in set]
  /\ answer' = [answer EXCEPT ![c] = "none"]
  /\ Goto(c, "guard")
  /\ UNCHANGED <<status, set, crc, readonly, calls>>

\* Mutant: a null mutex is reported like a busy one.
AnswerBusyOnNull(c) ==
  IF ~dumpMutex[c] THEN "ERROR_BUSY"
  ELSE IF status # "INITIALIZED" THEN "ERROR_NOT_READY"
  ELSE IF ~Intact THEN "ERROR_INVALID_DATA"
  ELSE "accepted"

Answer(c) ==
  IF ~dumpMutex[c] \/ status # "INITIALIZED" THEN "ERROR_NOT_READY"
  ELSE IF ~Intact THEN "ERROR_INVALID_DATA"
  ELSE "accepted"

\* Null mutex, then readiness, then integrity.
Guard(c) ==
  /\ pc[c] = "guard"
  /\ answer' = [answer EXCEPT ![c] = Answer(c)]
  /\ Goto(c, "app")
  /\ UNCHANGED <<status, set, crc, readonly, calls, dumpMutex>>

-----------------------------------------------------------------------------
Next ==
  \E c \in Callers : CallResolve(c) \/ Resolve(c) \/ CallWrite(c) \/ Guard(c)

\* Every thread is scheduled.
Spec == Init /\ [][Next]_vars /\ \A c \in Callers : WF_vars(Resolve(c))

-----------------------------------------------------------------------------
(***************************************************************************)
(* Properties.                                                             *)
(***************************************************************************)

TypeOK ==
  /\ status \in {"NOT_INITIALIZED", "INITIALIZING", "INITIALIZED"}
  /\ set \subseteq Fields
  /\ crc = <<>> \/ crc[2] \subseteq Fields
  /\ readonly \in BOOLEAN
  /\ pc \in [Callers -> {"app", "cas", "returned", "faulted", "guard"}
                          \cup ToSet(InitSteps)]
  /\ calls \in [Callers -> 0 .. MaxCalls]
  /\ dumpMutex \in [Callers -> BOOLEAN]
  /\ answer \in [Callers -> {"none", "ERROR_NOT_READY", "ERROR_INVALID_DATA", "accepted"}]

Initializing(c) == pc[c] \in ToSet(InitSteps)

\* However many threads race to initialize, one populates the globals, and
\* when the status says INITIALIZED all that always gets a value has it and the
\* CRC is stored (minidump_inproc_util.cpp:54-58, 107-108).
PopulatedOnce ==
  /\ \A c, d \in Callers : Initializing(c) /\ Initializing(d) => c = d
  /\ status = "INITIALIZED" => {"NativeSystemInfo", "Apis"} \subseteq set /\ crc # <<>>

\* Once published, no field changes under a crash handler that reads it.
PublishedIsFinal ==
  [][status = "INITIALIZED" => UNCHANGED <<status, set, crc>>]_<<status, set, crc>>

\* Whoever returns from ResolveInprocApis finds the globals ready, also when
\* another thread did the work.
ReturnMeansReady == \A c \in Callers : pc[c] = "returned" => status = "INITIALIZED"

\* No caller spins for ever behind the initializer.
ResolveEnds ==
  \A c \in Callers : pc[c] = "cas" ~> pc[c] \in {"returned", "faulted"}

\* The integrity check holds once initialization is published and nobody has
\* touched the page (minidump_inproc_internal.h:560-563).
PublishedIsIntact == status = "INITIALIZED" => Intact

\* ResolveInprocApis may be called any number of times, from any thread
\* (minidump_inproc.h:81-83, minidump_inproc.cpp:638-640).
RepeatedCallsAreSafe == \A c \in Callers : pc[c] # "faulted"
=============================================================================
