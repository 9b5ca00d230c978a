----------------------------- MODULE StopTheWorld -----------------------------
(***************************************************************************)
(* What a dump call promises to the process: one thread at a time stops    *)
(* the others, and it gives up its turn only when all of them run again.   *)
(***************************************************************************)
CONSTANTS Threads, Nobody

VARIABLES
  writer,  \* the thread whose turn it is, or Nobody
  frozen   \* the threads it holds stopped

vars == <<writer, frozen>>

Init == writer = Nobody /\ frozen = {}

Begin(t) ==
  /\ writer = Nobody
  /\ writer' = t
  /\ UNCHANGED frozen

\* The writer stops another thread.
Freeze(x) ==
  /\ writer \notin {Nobody, x}
  /\ frozen' = frozen \cup {x}
  /\ UNCHANGED writer

\* The writer lets a thread go, or the thread is terminated.
Thaw(x) ==
  /\ frozen' = frozen \ {x}
  /\ UNCHANGED writer

End ==
  /\ writer # Nobody
  /\ frozen = {}
  /\ writer' = Nobody
  /\ UNCHANGED frozen

Next == End \/ \E t \in Threads : Begin(t) \/ Freeze(t) \/ Thaw(t)

Spec == Init /\ [][Next]_vars
=============================================================================
