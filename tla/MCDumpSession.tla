---------------------------- MODULE MCDumpSession ----------------------------
(***************************************************************************)
(* DumpSession for TLC, and its refinement of StopTheWorld.                *)
(***************************************************************************)
EXTENDS DumpSession

World == INSTANCE StopTheWorld WITH
  Nobody <- NoThread,
  writer <- mutex.owner,
  frozen <- {x \in Threads : suspend[x] > 0}

\* A dump is one turn of StopTheWorld: the owner of the DumpMutex is the only
\* one who freezes threads, and it releases the mutex with all of them running.
ImplementsStopTheWorld == World!Spec
=============================================================================
