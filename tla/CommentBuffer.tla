----------------------------- MODULE CommentBuffer -----------------------------
(***************************************************************************)
(* The threads that call SetMiniDumpInprocCommentW and -A: SetCommentIniW  *)
(* edits the one buffer of CommentStreamW in place, under the CommentMutex *)
(* and with a CRC that is checked before and stored after each edit.  A    *)
(* dump does not take that mutex: it suspends the threads wherever they    *)
(* are, and a thread may also be killed there.                             *)
(***************************************************************************)
EXTENDS CommentIni

CONSTANTS
  Setters,   \* threads that set comments
  NoThread,  \* owner of a free mutex
  Names,     \* names of sections and keys
  MaxKills   \* bound: threads that are killed

ASSUME SettersAssumption ==
  /\ NoThread \notin Setters
  /\ Chars \in [Names \cup {"NULL"} -> Nat]

\* What SetMiniDumpInprocCommentW or -A is called with.
Requests ==
  [section : Names \cup {"NULL"}, key : Names \cup {"NULL"}, value : {NoValue} \cup Seq(WChars),
   oper : {"Replace", "Append", "Merge"}, ansi : BOOLEAN]

VARIABLES
  text,   \* g_CommentBufferW
  whole,  \* how many of its leading WCHARs are those of text
  crc,    \* what g_CommentBufferWCrc was computed over
  mutex,  \* the CommentMutex
  pc,     \* where each setter is
  calls,  \* the calls each setter has still to make, the current one first
  answer, \* what its last call returned
  frozen  \* threads a dump has suspended

buffer == <<text, whole, crc>>
setterVars == <<buffer, mutex, pc, calls, answer>>

Whole == kCommentBufferWChars

CommentInit ==
  /\ text = <<>> /\ whole = Whole /\ crc = Covered(<<>>)
  /\ \E exists \in BOOLEAN :
       mutex = [exists |-> exists, owner |-> NoThread, count |-> 0, abandoned |-> FALSE]
  /\ pc = [t \in Setters |-> "idle"]
  /\ answer = [t \in Setters |-> "none"]
  /\ frozen = {}

Running(t, label) == pc[t] = label /\ t \notin frozen
Goto(t, label) == pc' = [pc EXCEPT ![t] = label]
Answers(t, result) == answer' = [answer EXCEPT ![t] = result]

\* The call is over.
Returns(t) == Goto(t, "idle") /\ calls' = [calls EXCEPT ![t] = Tail(@)]

\* A null name is refused at once, and by the ANSI variant a name that does not
\* fit its conversion buffer.
RefusedEarly(call) ==
  \/ "NULL" \in {call.section, call.key}
  \/ call.ansi /\ \E name \in {call.section, call.key} : Chars[name] > kCommentMaxSectionKeyChars

Enter(t) ==
  /\ Running(t, "idle")
  /\ calls[t] # <<>>
  /\ IF RefusedEarly(Head(calls[t]))
     THEN Answers(t, "FALSE") /\ Returns(t)
     ELSE Answers(t, "none") /\ Goto(t, "wait") /\ UNCHANGED calls
  /\ UNCHANGED <<buffer, mutex, frozen>>

\* The wait succeeds, for the owner as well.
Acquire(t) ==
  /\ Running(t, "wait")
  /\ mutex.exists /\ ~mutex.abandoned
  /\ mutex.owner \in {NoThread, t}
  /\ mutex' = [mutex EXCEPT !.owner = t, !.count = @ + 1]
  /\ Goto(t, "verify")
  /\ UNCHANGED <<buffer, calls, answer, frozen>>

\* WAIT_ABANDONED is taken for a failure, although the thread owns the mutex now.
AcquireAbandoned(t) ==
  /\ Running(t, "wait")
  /\ mutex.abandoned
  /\ mutex' = [mutex EXCEPT !.owner = t, !.count = 1, !.abandoned = FALSE]
  /\ Answers(t, "FALSE")
  /\ Returns(t)
  /\ UNCHANGED <<buffer, frozen>>

NoMutex(t) ==
  /\ Running(t, "wait")
  /\ ~mutex.exists
  /\ Answers(t, "FALSE")
  /\ Returns(t)
  /\ UNCHANGED <<buffer, mutex, frozen>>

\* VerifyCommentBufferWCrc.  What lies behind the first torn WCHAR is not known;
\* the check cannot pass if it covers that, and may pass if it does not.
Verdicts ==
  IF whole = Whole THEN {crc = Covered(text)}
  ELSE IF crc.length <= whole THEN BOOLEAN
  ELSE {FALSE}

\* A buffer that fails its check is emptied (ResetCommentBufferW).
Verify(t) ==
  /\ Running(t, "verify")
  /\ \E intact \in Verdicts :
       IF intact THEN UNCHANGED buffer
       ELSE text' = <<>> /\ whole' = Whole /\ crc' = Covered(<<>>)
  /\ Goto(t, "edit")
  /\ UNCHANGED <<mutex, calls, answer, frozen>>

\* CommentIniApply that has nothing to change, or must not.
EditNothing(t) ==
  LET call == Head(calls[t])
  IN  /\ Running(t, "edit")
      /\ whole = Whole
      /\ Refused(text, call) \/ Edited(text, call) = text
      /\ Answers(t, IF Refused(text, call) THEN "FALSE" ELSE "TRUE")
      /\ Goto(t, "release")
      /\ UNCHANGED <<buffer, mutex, calls, frozen>>

\* CommentSplice starts to move and fill the text.
SpliceStarts(t) ==
  LET call == Head(calls[t])
  IN  /\ Running(t, "edit")
      /\ whole = Whole
      /\ ~Refused(text, call) /\ Edited(text, call) # text
      /\ whole' = SpliceAt(text, call)
      /\ Goto(t, "splice")
      /\ UNCHANGED <<text, crc, mutex, calls, answer, frozen>>

SpliceEnds(t) ==
  /\ Running(t, "splice")
  /\ text' = Edited(text, Head(calls[t]))
  /\ whole' = Whole
  /\ Answers(t, "TRUE")
  /\ Goto(t, "crc")
  /\ UNCHANGED <<crc, mutex, calls, frozen>>

StoreCrc(t) ==
  /\ Running(t, "crc")
  /\ crc' = Covered(text)
  /\ Goto(t, "release")
  /\ UNCHANGED <<text, whole, mutex, calls, answer, frozen>>

\* A torn text that passed its check is edited for what it looks like, and gets
\* a CRC that vouches for it.
EditTorn(t) ==
  /\ Running(t, "edit")
  /\ whole # Whole
  /\ \/ UNCHANGED buffer /\ \E result \in {"TRUE", "FALSE"} : Answers(t, result)
     \/ whole' = 0 /\ crc' = Covered(<<>>) /\ text' = text /\ Answers(t, "TRUE")
  /\ Goto(t, "release")
  /\ UNCHANGED <<mutex, calls, frozen>>

\* Mutant: a call that changed nothing does not release the mutex.
ReleaseAfterChange(t) ==
  /\ Running(t, "release")
  /\ mutex' = IF answer[t] = "FALSE" THEN mutex
              ELSE [mutex EXCEPT !.count = @ - 1, !.owner = IF mutex.count = 1 THEN NoThread ELSE @]
  /\ Returns(t)
  /\ UNCHANGED <<buffer, answer, frozen>>

Release(t) ==
  /\ Running(t, "release")
  /\ mutex' = [mutex EXCEPT !.count = @ - 1, !.owner = IF mutex.count = 1 THEN NoThread ELSE @]
  /\ Returns(t)
  /\ UNCHANGED <<buffer, answer, frozen>>

Dead == {t \in Setters : pc[t] = "dead"}

\* The thread ends where it is, unless it is done with all its calls; the kernel
\* marks the mutex if it owned it.
Kill(t) ==
  /\ pc[t] # "dead" /\ t \notin frozen
  /\ calls[t] # <<>> \/ mutex.owner = t
  /\ Cardinality(Dead) < MaxKills
  /\ mutex' = IF mutex.owner = t
              THEN [mutex EXCEPT !.owner = NoThread, !.count = 0, !.abandoned = TRUE]
              ELSE mutex
  /\ Goto(t, "dead")
  /\ UNCHANGED <<buffer, calls, answer, frozen>>

\* What a thread that called does next.
Proceed(t) ==
  \/ Acquire(t) \/ AcquireAbandoned(t) \/ NoMutex(t) \/ Verify(t)
  \/ EditNothing(t) \/ SpliceStarts(t) \/ SpliceEnds(t) \/ StoreCrc(t) \/ EditTorn(t)
  \/ Release(t)

SetterNext == \E t \in Setters : Enter(t) \/ Proceed(t) \/ Kill(t)

-----------------------------------------------------------------------------
(***************************************************************************)
(* What the text means.                                                    *)
(***************************************************************************)

\* The values between the semicolons.
Split(value) ==
  LET cuts == SetToSortSeq({0, Len(value) + 1} \cup {i \in DOMAIN value : value[i] = ";"},
                           LAMBDA a, b : a < b)
  IN  [n \in 1 .. Len(cuts) - 1 |-> SubSeq(value, cuts[n] + 1, cuts[n + 1] - 1)]

NamesOf(kind) == {text[i].name : i \in {j \in DOMAIN text : text[j].kind = kind}}
Entries == {e \in NamesOf("section") \X NamesOf("key") : KeyLine(text, e[1], e[2]) # 0}
Torn == whole # Whole /\ \A t \in Setters : pc[t] # "splice"
=============================================================================
