-------------------------- MODULE StackPolicy_proofs --------------------------
(***************************************************************************)
(* Proofs about StackPolicy, for any plan, any stacks and stack pointers,  *)
(* any cap, and any values of the window limits.                           *)
(***************************************************************************)
EXTENDS StackPolicy, TLAPS

\* The steps after the windows are cut and while, or after, they are admitted.
Admitting == {"exception", "aux", "main", "others", "count", "done"}

Entries == [primary : Ranges, include : BOOLEAN, aux : Ranges]

-----------------------------------------------------------------------------
(***************************************************************************)
(* The inductive invariant.                                                *)
(***************************************************************************)

\* Whoever got past the first check has a budget; there is an exception thread
\* where one is dealt with; nothing is counted before the counting.
Entered ==
  /\ pc \notin {"enter", "failed"} => hardMax > fixed + ListHeader
  /\ pc \in {"exception", "aux"} => exception # 0
  /\ pc \notin {"count", "done", "failed"} => rangeCount = 0 /\ bytesCount = 0

\* An entry nobody has cut, and one nobody has admitted or refused yet.
Untouched(t) == entry[t] = [primary |-> stack[t], include |-> FALSE, aux |-> NoRange]
Pending(t)   == entry[t] = Windows(t)

\* Which entries are still to be dealt with.
Staged ==
  /\ pc = "enter" => \A t \in Positions : Untouched(t)
  /\ pc = "window" => \A t \in Positions : IF t < idx THEN Pending(t) ELSE Untouched(t)
  /\ pc = "exception" => \A t \in Positions : Pending(t)
  /\ pc \in {"aux", "main"} => \A t \in Positions \ {exception} : Pending(t)
  /\ pc = "others" =>
       \A t \in Positions \ {exception, oldest} : t >= idx => Pending(t)

\* Only the exception thread has a high window.
OneAux == \A t \in Positions \ {exception} : entry[t].aux.size = 0

\* OverflowWhole, from the moment it is decided.
WholeKept ==
  pc \in {"aux", "main", "others", "count", "done"} /\ exception # 0 /\ RequireFull =>
    entry[exception].include /\ entry[exception].primary = stack[exception]

\* The entries whose primary window was admitted or refused.
Settled(t) ==
  \/ pc \in {"aux", "main"} /\ t = exception
  \/ pc = "others" /\ (t \in {exception, oldest} \/ t < idx)
  \/ pc \in {"count", "done"}

\* NothingWasted, for the settled ones.
Greedy ==
  \A t \in Positions :
    Settled(t) /\ entry[t].primary.size # 0 /\ ~entry[t].include =>
      Cost(entry[t].primary) > remaining

\* What an admitted thread is charged: a cut high window counts only once
\* IncludeAuxStack has seen it.
Charge(t) ==
  (IF PrimaryKept(t) THEN Cost(entry[t].primary) ELSE 0)
    + (IF pc \notin {"exception", "aux"} /\ AuxKept(t) THEN Cost(entry[t].aux) ELSE 0)

\* The running totals of the charges along the plan.
Totals(acc) ==
  /\ acc \in [0 .. ThreadCount -> Nat]
  /\ acc[0] = 0
  /\ \A t \in Positions : acc[t] = acc[t - 1] + Charge(t)

\* The charges and the rest of the budget are within the budget, and the
\* counting adds up the charges; inductive given IInv.
Covered ==
  pc \in Admitting =>
    \E acc \in [0 .. ThreadCount -> Nat] :
      /\ Totals(acc)
      /\ acc[ThreadCount] + remaining <= Budget
      /\ pc = "count" => rangeCount * Descriptor + bytesCount = acc[idx - 1]
      /\ pc = "done" => rangeCount * Descriptor + bytesCount = acc[ThreadCount]

IInv ==
  TypeOK /\ Entered /\ Staged /\ OneAux /\ WindowsInside /\ WholeKept /\ Greedy

-----------------------------------------------------------------------------
(***************************************************************************)
(* Arithmetic of windows.                                                  *)
(***************************************************************************)

\* Rounding down to a page loses less than a page and stays non-negative.
LEMMA AlignDownBounds ==
  ASSUME NEW a \in Nat
  PROVE  AlignDown(a) \in Nat /\ AlignDown(a) <= a /\ a < AlignDown(a) + Page
<1>1. Page \in Nat \ {0}
  BY UnitsAssumption
<1>2. a % Page \in 0 .. Page - 1
  BY <1>1, SMT
<1>. QED
  BY <1>1, <1>2, SMT DEF AlignDown

\* A clipped window is a range inside the stack it is cut from.
LEMMA ClipInside ==
  ASSUME NEW whole \in Ranges, NEW pointer \in Nat, NEW cap \in Nat
  PROVE  /\ ClipStackWindow(whole, pointer, cap) \in Ranges
         /\ Within(ClipStackWindow(whole, pointer, cap), whole)
<1>1. AlignDown(pointer) \in Nat /\ AlignDown(pointer) <= pointer
  BY AlignDownBounds
<1>. DEFINE live  == pointer >= whole.start /\ pointer < End(whole)
            start == IF live THEN Later(AlignDown(pointer), whole.start) ELSE whole.start
            end   == Earlier(End(whole), start + cap)
<1>2. whole.start \in Nat /\ whole.size \in Nat /\ End(whole) = whole.start + whole.size
  BY SMT DEF Ranges, End
<1>3. start \in Nat /\ whole.start <= start
  BY <1>1, <1>2, SMT DEF Later
<1>4. end \in Nat /\ end <= End(whole)
  BY <1>2, <1>3, SMT DEF Earlier
<1>. HIDE DEF start, end
<1>5. ClipStackWindow(whole, pointer, cap) =
        IF whole.size = 0 \/ end <= start THEN NoRange
        ELSE [start |-> start, size |-> end - start]
  BY Zenon, Zenon DEF ClipStackWindow, start, end
<1>. QED
  BY <1>2, <1>3, <1>4, <1>5, SMT DEF Ranges, Within, End, NoRange

\* The high window is a range inside the stack, apart from the live window.
LEMMA HighInside ==
  ASSUME NEW whole \in Ranges, NEW live \in Ranges
  PROVE  /\ HighWindow(whole, live) \in Ranges
         /\ Within(HighWindow(whole, live), whole)
         /\ live.size # 0 /\ HighWindow(whole, live).size # 0
              => ~Overlap(HighWindow(whole, live), live)
<1>. DEFINE start == IF whole.size > kStackOverflowHighStackBytes
                     THEN Later(AlignDown(End(whole) - kStackOverflowHighStackBytes), whole.start)
                     ELSE whole.start
            high  == [start |-> start, size |-> End(whole) - start]
<1>1. whole.start \in Nat /\ whole.size \in Nat /\ End(whole) = whole.start + whole.size
  BY SMT DEF Ranges, End
<1>2. ASSUME whole.size > kStackOverflowHighStackBytes
      PROVE  /\ AlignDown(End(whole) - kStackOverflowHighStackBytes) \in Nat
             /\ AlignDown(End(whole) - kStackOverflowHighStackBytes) <= End(whole)
  <2>1. /\ End(whole) - kStackOverflowHighStackBytes \in Nat
        /\ End(whole) - kStackOverflowHighStackBytes <= End(whole)
    BY <1>1, <1>2, UnitsAssumption, SMT
  <2>. QED
    BY <2>1, <1>1, AlignDownBounds, SMT
<1>3. start \in Nat /\ whole.start <= start /\ start <= End(whole)
  BY <1>1, <1>2, SMT DEF Later
<1>. HIDE DEF start
<1>4. high \in Ranges /\ Within(high, whole)
  BY <1>1, <1>3, SMT DEF Ranges, Within, End
<1>5. HighWindow(whole, live) =
        IF whole.size = 0 \/ (live.size # 0 /\ Overlap(high, live)) THEN NoRange ELSE high
  BY Zenon, Zenon DEF HighWindow, start, high
<1>6. NoRange \in Ranges /\ NoRange.size = 0
  BY DEF NoRange, Ranges
<1>. HIDE DEF high
<1>. QED
  BY <1>4, <1>5, <1>6 DEF Within

\* What is cut from a stack: two windows of it that do not overlap, the second
\* one only for the exception thread; a stack wanted whole is not cut.
LEMMA WindowsCut ==
  ASSUME TypeOK, NEW t \in Positions
  PROVE  /\ Windows(t) \in Entries
         /\ Windows(t).include = FALSE
         /\ Within(Windows(t).primary, stack[t])
         /\ Within(Windows(t).aux, stack[t])
         /\ Windows(t).primary.size # 0 /\ Windows(t).aux.size # 0
              => ~Overlap(Windows(t).primary, Windows(t).aux)
         /\ t # exception => Windows(t).aux.size = 0
         /\ WantedWhole(t) => Windows(t).primary = stack[t]
<1>1. stack[t] \in Ranges /\ sp[t] \in Nat
  BY DEF TypeOK
<1>2. NoRange \in Ranges /\ NoRange.size = 0
  BY DEF NoRange, Ranges
<1>3. CASE WantedWhole(t)
  <2>1. Windows(t) = [primary |-> stack[t], include |-> FALSE, aux |-> NoRange]
    BY <1>3 DEF Windows
  <2>2. Within(stack[t], stack[t])
    BY <1>1, SMT DEF Within, Ranges, End
  <2>. QED
    BY <1>1, <1>2, <2>1, <2>2 DEF Entries, Within
<1>4. CASE ~WantedWhole(t)
  <2>. DEFINE cap  == IF Overflowed(t) THEN kStackOverflowLiveStackBytes
                                       ELSE kMaxCapturedStackBytes
              live == ClipStackWindow(stack[t], sp[t], cap)
              aux  == IF Overflowed(t) THEN HighWindow(stack[t], live) ELSE NoRange
  <2>1. cap \in Nat
    BY UnitsAssumption
  <2>2. live \in Ranges /\ Within(live, stack[t])
    BY <1>1, <2>1, ClipInside
  <2>3. Windows(t) = [primary |-> live, include |-> FALSE, aux |-> aux]
    BY Zenon, <1>4, Zenon DEF Windows
  <2>. HIDE DEF live
  <2>4. /\ aux \in Ranges /\ Within(aux, stack[t])
        /\ live.size # 0 /\ aux.size # 0 => ~Overlap(aux, live)
    <3>1. CASE Overflowed(t)
      BY <1>1, <2>2, <3>1, HighInside
    <3>2. CASE ~Overflowed(t)
      BY <1>2, <3>2 DEF Within
    <3>. QED
      BY <3>1, <3>2
  <2>5. t # exception => aux.size = 0
    BY <1>2 DEF Overflowed
  <2>. HIDE DEF aux
  <2>6. Overlap(aux, live) <=> Overlap(live, aux)
    BY DEF Overlap
  <2>. QED
    BY <1>4, <2>2, <2>3, <2>4, <2>5, <2>6 DEF Entries
<1>. QED
  BY Zenon, <1>3, <1>4

-----------------------------------------------------------------------------
(***************************************************************************)
(* Admission.                                                              *)
(***************************************************************************)

\* A trimmed range is a part of the range with at least a byte of it, and fits
\* into what remains.
LEMMA TrimmedPart ==
  ASSUME TypeOK, NEW range \in Ranges, NEW high \in BOOLEAN, CanTrim(range)
  PROVE  /\ Trimmed(range, high) \in Ranges
         /\ Trimmed(range, high).size \in Nat \ {0}
         /\ Trimmed(range, high).size <= range.size
         /\ range.start <= Trimmed(range, high).start
         /\ End(Trimmed(range, high)) <= End(range)
         /\ Cost(Trimmed(range, high)) <= remaining
<1>. DEFINE size == AlignDown(remaining - Descriptor)
<1>1. remaining \in Nat /\ Descriptor \in Nat \ {0} /\ Page \in Nat \ {0}
  BY UnitsAssumption DEF TypeOK
<1>2. range.start \in Nat /\ range.size \in Nat /\ End(range) = range.start + range.size
  BY DEF Ranges, End
<1>3. /\ remaining - Descriptor \in Nat
      /\ remaining - Descriptor > Page
      /\ range.size > remaining - Descriptor
  BY <1>1, <1>2, SMT DEF CanTrim, Cost
<1>4. size \in Nat /\ size <= remaining - Descriptor /\ remaining - Descriptor < size + Page
  BY <1>3, AlignDownBounds
<1>. HIDE DEF size
<1>5. size \in Nat \ {0} /\ size <= range.size
  BY <1>1, <1>2, <1>3, <1>4, SMT
<1>6. Trimmed(range, high) =
        [start |-> IF high THEN End(range) - size ELSE range.start, size |-> size]
  BY DEF Trimmed, size
<1>. QED
  BY <1>1, <1>2, <1>4, <1>5, <1>6, SMT DEF Ranges, End, Cost

\* What IncludePrimaryStack does to the entry it is called for, and to the
\* budget; it touches nothing else, and refuses only what does not fit.
LEMMA IncludePrimaryEffect ==
  ASSUME TypeOK, NEW t \in Positions, NEW trim \in BOOLEAN, IncludePrimary(t, trim)
  PROVE  /\ entry' \in [Positions -> Entries]
         /\ remaining' \in Nat /\ remaining' <= remaining
         /\ \A s \in Positions \ {t} : entry'[s] = entry[s]
         /\ entry'[t].aux = entry[t].aux
         /\ entry'[t].primary.start = entry[t].primary.start
         /\ entry'[t].primary.size <= entry[t].primary.size
         /\ ~trim => entry'[t].primary = entry[t].primary
         /\ entry'[t].primary.size # 0 /\ ~entry'[t].include
              => Cost(entry'[t].primary) > remaining'
         /\ entry'[t].include /\ ~entry[t].include
              => Cost(entry'[t].primary) <= remaining - remaining'
<1>. DEFINE window == entry[t].primary
<1>1. /\ entry \in [Positions -> Entries] /\ remaining \in Nat
      /\ Descriptor \in Nat \ {0}
  BY UnitsAssumption DEF TypeOK, Entries
<1>2. /\ window \in Ranges
      /\ window.start \in Nat /\ window.size \in Nat
      /\ entry[t].include \in BOOLEAN /\ entry[t].aux \in Ranges
  BY <1>1 DEF Entries, Ranges
<1>3. CASE /\ Fits(window)
           /\ entry' = [entry EXCEPT ![t].include = TRUE]
           /\ remaining' = remaining - Cost(window)
  <2>1. /\ remaining' \in Nat /\ remaining' <= remaining
        /\ Cost(window) <= remaining - remaining'
    BY <1>1, <1>2, <1>3, SMT DEF Fits, Cost
  <2>2. /\ entry' \in [Positions -> Entries]
        /\ \A s \in Positions \ {t} : entry'[s] = entry[s]
        /\ entry'[t].aux = entry[t].aux
        /\ entry'[t].primary = window
        /\ entry'[t].include = TRUE
    BY Zenon, <1>1, <1>2, <1>3 DEF Entries
  <2>. QED
    BY <1>2, <2>1, <2>2, SMT
<1>4. CASE /\ trim /\ CanTrim(window)
           /\ entry' = [entry EXCEPT ![t].include = TRUE, ![t].primary = Trimmed(window, FALSE)]
           /\ remaining' = 0
  <2>1. /\ Trimmed(window, FALSE) \in Ranges
        /\ Trimmed(window, FALSE).size <= window.size
        /\ Cost(Trimmed(window, FALSE)) <= remaining
    BY Zenon, <1>2, <1>4, TrimmedPart
  <2>2. Trimmed(window, FALSE).start = window.start
    BY DEF Trimmed
  <2>3. /\ entry' \in [Positions -> Entries]
        /\ \A s \in Positions \ {t} : entry'[s] = entry[s]
        /\ entry'[t].aux = entry[t].aux
        /\ entry'[t].primary = Trimmed(window, FALSE)
        /\ entry'[t].include = TRUE
    BY Zenon, <1>1, <1>2, <1>4, <2>1 DEF Entries
  <2>. QED
    <3>1. 0 \in Nat /\ 0 <= remaining /\ remaining - 0 = remaining
      BY <1>1
    <3>. QED
      BY Zenon, <1>4, <2>1, <2>2, <2>3, <3>1, Zenon
<1>5. CASE /\ ~Fits(window) /\ ~(trim /\ CanTrim(window))
           /\ UNCHANGED <<entry, remaining>>
  <2>1. window.size # 0 => Cost(window) > remaining
    BY <1>1, <1>2, <1>5, SMT DEF Fits, Cost
  <2>. QED
    BY <1>1, <1>2, <1>5, <2>1, SMT
<1>. QED
  BY Zenon, <1>3, <1>4, <1>5 DEF IncludePrimary

\* The same of IncludeAuxStack: a part of the high window, or none of it.
LEMMA IncludeAuxEffect ==
  ASSUME TypeOK, NEW t \in Positions, IncludeAux(t)
  PROVE  /\ entry' \in [Positions -> Entries]
         /\ remaining' \in Nat /\ remaining' <= remaining
         /\ \A s \in Positions \ {t} : entry'[s] = entry[s]
         /\ entry'[t].primary = entry[t].primary
         /\ entry'[t].include = entry[t].include
         /\ \/ entry'[t].aux.size = 0
            \/ /\ entry[t].aux.size # 0
               /\ entry[t].aux.start <= entry'[t].aux.start
               /\ End(entry'[t].aux) <= End(entry[t].aux)
               /\ Cost(entry'[t].aux) <= remaining - remaining'
<1>. DEFINE window == entry[t].aux
<1>1. /\ entry \in [Positions -> Entries] /\ remaining \in Nat
      /\ Descriptor \in Nat \ {0}
  BY UnitsAssumption DEF TypeOK, Entries
<1>2. /\ window \in Ranges
      /\ window.start \in Nat /\ window.size \in Nat /\ End(window) \in Nat
      /\ entry[t].include \in BOOLEAN /\ entry[t].primary \in Ranges
  BY <1>1 DEF Entries, Ranges, End
<1>3. CASE /\ Fits(window)
           /\ remaining' = remaining - Cost(window)
           /\ UNCHANGED entry
  <2>1. /\ remaining' \in Nat /\ remaining' <= remaining
        /\ Cost(window) <= remaining - remaining'
    BY <1>1, <1>2, <1>3, SMT DEF Fits, Cost
  <2>. QED
    BY <1>1, <1>2, <1>3, <2>1, SMT DEF Fits
<1>4. CASE /\ CanTrim(window)
           /\ entry' = [entry EXCEPT ![t].aux = Trimmed(window, TRUE)]
           /\ remaining' = 0
  <2>1. /\ Trimmed(window, TRUE) \in Ranges
        /\ window.start <= Trimmed(window, TRUE).start
        /\ End(Trimmed(window, TRUE)) <= End(window)
        /\ Cost(Trimmed(window, TRUE)) <= remaining
    BY Zenon, <1>2, <1>4, TrimmedPart
  <2>2. /\ entry' \in [Positions -> Entries]
        /\ \A s \in Positions \ {t} : entry'[s] = entry[s]
        /\ entry'[t].primary = entry[t].primary
        /\ entry'[t].include = entry[t].include
        /\ entry'[t].aux = Trimmed(window, TRUE)
    BY Zenon, <1>1, <1>2, <1>4, <2>1 DEF Entries
  <2>. QED
    <3>1. 0 \in Nat /\ 0 <= remaining /\ remaining - 0 = remaining
      BY <1>1
    <3>. QED
      BY Zenon, <1>4, <2>1, <2>2, <3>1, Zenon DEF CanTrim
<1>5. CASE /\ ~Fits(window) /\ ~CanTrim(window)
           /\ entry' = [entry EXCEPT ![t].aux = NoRange]
           /\ UNCHANGED remaining
  <2>1. NoRange \in Ranges /\ NoRange.size = 0
    BY DEF NoRange, Ranges
  <2>2. /\ entry' \in [Positions -> Entries]
        /\ \A s \in Positions \ {t} : entry'[s] = entry[s]
        /\ entry'[t].primary = entry[t].primary
        /\ entry'[t].include = entry[t].include
        /\ entry'[t].aux = NoRange
    BY <1>1, <1>2, <1>5, <2>1 DEF Entries
  <2>. QED
    BY <1>1, <1>5, <2>1, <2>2, SMT
<1>. QED
  BY Zenon, <1>3, <1>4, <1>5 DEF IncludeAux


\* Cutting and admitting change no input of the function.
LEMMA InputsFixed ==
  ASSUME UNCHANGED inputs
  PROVE  /\ UNCHANGED <<stack, sp, exception, oldest, overflow, fixed, hardMax>>
         /\ \A t \in Positions : Windows(t)' = Windows(t)
         /\ \A t \in Positions : WantedWhole(t)' = WantedWhole(t)
         /\ RequireFull' = RequireFull
<1>1. UNCHANGED <<stack, sp, exception, oldest, overflow, fixed, hardMax>>
  BY DEF inputs
<1>2. \A t \in Positions : WantedWhole(t)' = WantedWhole(t)
  BY <1>1 DEF WantedWhole, Overflowed
<1>3. RequireFull' = RequireFull
  BY <1>1 DEF RequireFull, WantedWhole, Overflowed
<1>4. \A t \in Positions : Windows(t)' = Windows(t)
  BY Zenon, <1>1, Zenon DEF Windows, WantedWhole, Overflowed
<1>. QED
  BY <1>1, <1>2, <1>3, <1>4

\* Nothing that shrinks the windows of one thread takes them out of its stack
\* or makes them overlap.
LEMMA ShrinkingKeepsInside ==
  ASSUME TypeOK, WindowsInside, UNCHANGED stack, NEW t \in Positions,
         entry' \in [Positions -> Entries],
         \A s \in Positions \ {t} : entry'[s] = entry[s],
         \/ entry'[t].primary.size = 0
         \/ /\ entry[t].primary.size # 0
            /\ entry[t].primary.start <= entry'[t].primary.start
            /\ End(entry'[t].primary) <= End(entry[t].primary),
         \/ entry'[t].aux.size = 0
         \/ /\ entry[t].aux.size # 0
            /\ entry[t].aux.start <= entry'[t].aux.start
            /\ End(entry'[t].aux) <= End(entry[t].aux)
  PROVE  WindowsInside'
<1>. SUFFICES ASSUME NEW s \in Positions
              PROVE  /\ Within(entry'[s].primary, stack[s])
                     /\ Within(entry'[s].aux, stack[s])
                     /\ entry'[s].primary.size # 0 /\ entry'[s].aux.size # 0
                          => ~Overlap(entry'[s].primary, entry'[s].aux)
  BY Zenon, Zenon DEF WindowsInside, AuxKept, Within, Overlap, End
<1>1. /\ Within(entry[s].primary, stack[s])
      /\ Within(entry[s].aux, stack[s])
      /\ entry[s].primary.size # 0 /\ entry[s].aux.size # 0
           => ~Overlap(entry[s].primary, entry[s].aux)
  BY DEF WindowsInside, AuxKept
<1>2. CASE s # t
  BY <1>1, <1>2
<1>3. CASE s = t
  <2>1. /\ entry[t] \in Entries /\ entry'[t] \in Entries /\ stack[t] \in Ranges
    BY DEF TypeOK, Entries
  <2>. DEFINE p == entry[t].primary
              a == entry[t].aux
              q == entry'[t].primary
              b == entry'[t].aux
  <2>2. p \in Ranges /\ a \in Ranges /\ q \in Ranges /\ b \in Ranges
    BY <2>1 DEF Entries
  <2>. HIDE DEF p, a, q, b
  <2>3. /\ q.size = 0 \/ (p.size # 0 /\ p.start <= q.start /\ End(q) <= End(p))
        /\ b.size = 0 \/ (a.size # 0 /\ a.start <= b.start /\ End(b) <= End(a))
    BY DEF p, a, q, b
  <2>4. /\ Within(p, stack[t]) /\ Within(a, stack[t])
        /\ p.size # 0 /\ a.size # 0 => ~Overlap(p, a)
    BY <1>1, <1>3 DEF p, a
  <2>5. Within(q, stack[t])
    BY <2>1, <2>2, <2>3, <2>4, SMT DEF Within, End, Ranges
  <2>6. Within(b, stack[t])
    BY <2>1, <2>2, <2>3, <2>4, SMT DEF Within, End, Ranges
  <2>7. q.size # 0 /\ b.size # 0 => ~Overlap(q, b)
    BY <2>2, <2>3, <2>4, SMT DEF Overlap, End, Ranges
  <2>. QED
    BY <1>3, <2>5, <2>6, <2>7 DEF q, b
<1>. QED
  BY <1>2, <1>3

\* IncludePrimaryStack keeps windows inside their stacks, and high windows the
\* exception thread's.
LEMMA IncludePrimaryKeeps ==
  ASSUME TypeOK, WindowsInside, OneAux, UNCHANGED inputs,
         NEW t \in Positions, NEW trim \in BOOLEAN, IncludePrimary(t, trim)
  PROVE  WindowsInside' /\ OneAux'
<1>1. UNCHANGED <<stack, exception>>
  BY InputsFixed
<1>2. /\ entry' \in [Positions -> Entries]
      /\ \A s \in Positions \ {t} : entry'[s] = entry[s]
      /\ entry'[t].aux = entry[t].aux
      /\ entry'[t].primary.start = entry[t].primary.start
      /\ entry'[t].primary.size <= entry[t].primary.size
  BY IncludePrimaryEffect
<1>3. OneAux'
  BY <1>1, <1>2 DEF OneAux
<1>4. /\ entry[t].primary \in Ranges /\ entry'[t].primary \in Ranges
      /\ entry[t].aux \in Ranges
  BY <1>2 DEF TypeOK, Entries
<1>5. \/ entry'[t].primary.size = 0
      \/ /\ entry[t].primary.size # 0
         /\ entry[t].primary.start <= entry'[t].primary.start
         /\ End(entry'[t].primary) <= End(entry[t].primary)
  BY <1>2, <1>4, SMT DEF End, Ranges
<1>6. \/ entry'[t].aux.size = 0
      \/ /\ entry[t].aux.size # 0
         /\ entry[t].aux.start <= entry'[t].aux.start
         /\ End(entry'[t].aux) <= End(entry[t].aux)
  BY <1>2, <1>4, SMT DEF End, Ranges
<1>7. WindowsInside'
  BY <1>1, <1>2, <1>5, <1>6, ShrinkingKeepsInside
<1>. QED
  BY <1>3, <1>7

\* So does IncludeAuxStack.
LEMMA IncludeAuxKeeps ==
  ASSUME TypeOK, WindowsInside, OneAux, UNCHANGED inputs,
         exception \in Positions, IncludeAux(exception)
  PROVE  WindowsInside' /\ OneAux'
<1>1. UNCHANGED <<stack, exception>>
  BY InputsFixed
<1>2. /\ entry' \in [Positions -> Entries]
      /\ \A s \in Positions \ {exception} : entry'[s] = entry[s]
      /\ entry'[exception].primary = entry[exception].primary
      /\ \/ entry'[exception].aux.size = 0
         \/ /\ entry[exception].aux.size # 0
            /\ entry[exception].aux.start <= entry'[exception].aux.start
            /\ End(entry'[exception].aux) <= End(entry[exception].aux)
  BY IncludeAuxEffect
<1>3. OneAux'
  BY <1>1, <1>2 DEF OneAux
<1>4. entry[exception].primary \in Ranges
  BY DEF TypeOK
<1>5. \/ entry'[exception].primary.size = 0
      \/ /\ entry[exception].primary.size # 0
         /\ entry[exception].primary.start <= entry'[exception].primary.start
         /\ End(entry'[exception].primary) <= End(entry[exception].primary)
  BY <1>2, <1>4, SMT DEF End, Ranges
<1>6. WindowsInside'
  BY <1>1, <1>2, <1>5, ShrinkingKeepsInside
<1>. QED
  BY <1>3, <1>6


-----------------------------------------------------------------------------
(***************************************************************************)
(* The invariant holds initially and is preserved.                         *)
(***************************************************************************)

\* Whatever the plan, the stacks and the cap are, the policy starts in IInv.
LEMMA InitIInv == Init => IInv
<1>. SUFFICES ASSUME Init PROVE IInv
  OBVIOUS
<1>1. ThreadCount \in Nat /\ NoRange \in Ranges /\ NoRange.size = 0
  BY SizesAssumption DEF NoRange, Ranges
<1>2. PICK size \in [Positions -> Sizes] :
        stack = [t \in Positions |->
                  IF size[t] = 0 THEN NoRange
                  ELSE [start |-> t * Spacing, size |-> size[t]]]
  BY DEF Init
<1>3. \A t \in Positions : size[t] \in Nat /\ t * Spacing \in Nat
  <2>1. \A a, b \in Nat : a * b \in Nat
    BY SMT
  <2>2. Spacing \in Nat /\ Positions \subseteq Nat
    BY SizesAssumption DEF Positions
  <2>3. \A t \in Positions : size[t] \in Nat
    BY Zenon, SizesAssumption, <1>2
  <2>. QED
    BY Zenon, <2>1, <2>2, <2>3, Zenon
<1>4. stack \in [Positions -> Ranges]
  BY <1>1, <1>2, <1>3 DEF Ranges
<1>5. PICK offset \in [Positions -> Offsets \cup {-1}] :
        sp = [t \in Positions |->
               IF stack[t].size = 0 \/ offset[t] = -1 THEN 0
               ELSE stack[t].start + offset[t]]
  BY DEF Init
<1>6. sp \in [Positions -> Nat]
  <2>. SUFFICES ASSUME NEW t \in Positions PROVE sp[t] \in Nat
    BY <1>5
  <2>1. stack[t].start \in Nat /\ offset[t] \in Offsets \cup {-1} /\ Offsets \subseteq Nat
    BY <1>4, <1>5, SizesAssumption DEF Ranges
  <2>2. offset[t] = -1 \/ offset[t] \in Nat
    BY Zenon, <2>1
  <2>. QED
    BY <1>5, <2>1, <2>2, SMT
<1>7. entry = [t \in Positions |-> [primary |-> stack[t], include |-> FALSE, aux |-> NoRange]]
  BY DEF Init
<1>8. entry \in [Positions -> Entries]
  BY <1>1, <1>4, <1>7 DEF Entries
<1>9. TypeOK
  BY <1>1, <1>4, <1>6, <1>8, SizesAssumption, SMT DEF Init, TypeOK, Entries
<1>10. Entered /\ Staged /\ WholeKept
  BY <1>7 DEF Init, Entered, Staged, Untouched, WholeKept
<1>11. OneAux
  BY <1>1, <1>7 DEF OneAux
<1>12. WindowsInside
  <2>. SUFFICES ASSUME NEW t \in Positions
                PROVE  /\ Within(entry[t].primary, stack[t])
                       /\ Within(entry[t].aux, stack[t])
                       /\ entry[t].aux.size = 0
    BY DEF WindowsInside, AuxKept
  <2>1. stack[t].start \in Nat /\ stack[t].size \in Nat
    BY <1>4 DEF Ranges
  <2>2. Within(stack[t], stack[t])
    BY <2>1, SMT DEF Within, End
  <2>. QED
    BY <1>1, <1>7, <2>2 DEF Within
<1>13. Greedy
  BY DEF Greedy, Settled, Init
<1>. QED
  BY <1>9, <1>10, <1>11, <1>12, <1>13 DEF IInv


\* No step of the policy or of the counting leaves IInv.
LEMMA NextIInv == IInv /\ [Next]_vars => IInv'
<1>. SUFFICES ASSUME IInv, [Next]_vars PROVE IInv'
  OBVIOUS
<1>. USE DEF IInv
<1>1. ThreadCount \in Nat /\ 1 \in 1 .. ThreadCount + 1
  BY SizesAssumption
<1>2. /\ entry \in [Positions -> Entries]
      /\ remaining \in Nat /\ fixed \in Nat /\ hardMax \in Nat
      /\ ListHeader \in Nat /\ idx \in 1 .. ThreadCount + 1
  BY UnitsAssumption DEF TypeOK, Entries
<1>3. CASE Refuse
  <2>1. /\ UNCHANGED inputs /\ UNCHANGED <<entry, remaining, rangeCount, bytesCount>>
        /\ pc = "enter" /\ pc' = "failed" /\ idx' = 1
    BY <1>3 DEF Refuse, Goto, counts
  <2>2. TypeOK'
    BY <1>1, <2>1, InputsFixed DEF TypeOK
  <2>3. Entered' /\ Staged' /\ WholeKept' /\ Greedy'
    BY <2>1 DEF Entered, Staged, WholeKept, Greedy, Settled
  <2>4. OneAux' /\ WindowsInside'
    BY Zenon, <2>1, InputsFixed, Zenon DEF OneAux, WindowsInside, Within, AuxKept, Overlap, End
  <2>. QED
    BY <2>2, <2>3, <2>4
<1>4. CASE Enter
  <2>1. /\ UNCHANGED inputs /\ UNCHANGED <<entry, remaining, rangeCount, bytesCount>>
        /\ pc = "enter" /\ pc' = "window" /\ idx' = 1 /\ hardMax > fixed + ListHeader
    BY <1>4 DEF Enter, Goto, counts
  <2>2. TypeOK'
    BY <1>1, <2>1, InputsFixed DEF TypeOK
  <2>3. Entered' /\ WholeKept' /\ Greedy'
    BY <2>1, InputsFixed DEF Entered, WholeKept, Greedy, Settled
  <2>4. Staged'
    <3>1. \A t \in Positions : Untouched(t)' /\ ~(t < 1)
      BY <2>1, InputsFixed DEF Staged, Untouched, Positions
    <3>. QED
      BY <2>1, <3>1 DEF Staged
  <2>5. OneAux' /\ WindowsInside'
    BY Zenon, <2>1, InputsFixed, Zenon DEF OneAux, WindowsInside, Within, AuxKept, Overlap, End
  <2>. QED
    BY <2>2, <2>3, <2>4, <2>5
<1>5. CASE CutWindow
  <2>1. /\ UNCHANGED inputs /\ UNCHANGED <<remaining, pc, rangeCount, bytesCount>>
        /\ pc = "window" /\ idx' = idx + 1 /\ idx <= ThreadCount
        /\ entry' = [entry EXCEPT ![idx] = Windows(idx)]
    BY <1>5 DEF CutWindow, counts
  <2>2. idx \in Positions /\ idx + 1 \in 1 .. ThreadCount + 1
    BY <1>1, <1>2, <2>1 DEF Positions
  <2>3. /\ Windows(idx) \in Entries
        /\ Within(Windows(idx).primary, stack[idx])
        /\ Within(Windows(idx).aux, stack[idx])
        /\ Windows(idx).primary.size # 0 /\ Windows(idx).aux.size # 0
             => ~Overlap(Windows(idx).primary, Windows(idx).aux)
        /\ idx # exception => Windows(idx).aux.size = 0
    BY Zenon, <2>2, WindowsCut
  <2>4. /\ entry' \in [Positions -> Entries]
        /\ entry'[idx] = Windows(idx)
        /\ \A t \in Positions \ {idx} : entry'[t] = entry[t]
    BY Zenon, <1>2, <2>1, <2>2, <2>3, Zenon
  <2>5. TypeOK'
    BY <2>1, <2>2, <2>4, InputsFixed DEF TypeOK, Entries
  <2>6. Entered' /\ WholeKept' /\ Greedy'
    BY <2>1, InputsFixed DEF Entered, WholeKept, Greedy, Settled
  <2>7. Staged'
    <3>1. \A t \in Positions : IF t < idx + 1 THEN Pending(t)' ELSE Untouched(t)'
      <4>. SUFFICES ASSUME NEW t \in Positions
                    PROVE  IF t < idx + 1 THEN Pending(t)' ELSE Untouched(t)'
        OBVIOUS
      <4>1. IF t < idx THEN Pending(t) ELSE Untouched(t)
        BY <2>1 DEF Staged
      <4>2. CASE t = idx
        <5>1. t < idx + 1
          BY <1>2, <4>2
        <5>2. entry'[t] = Windows(t)
          BY <2>4, <4>2
        <5>3. Windows(t)' = Windows(t)
          BY <2>1, InputsFixed
        <5>. QED
          BY <5>1, <5>2, <5>3 DEF Pending
      <4>3. CASE t # idx
        <5>1. t < idx + 1 <=> t < idx
          BY <1>2, <4>3 DEF Positions
        <5>. QED
          BY <2>1, <2>4, <4>1, <4>3, <5>1, InputsFixed DEF Pending, Untouched
      <4>. QED
        BY <4>2, <4>3
    <3>. QED
      BY <2>1, <3>1 DEF Staged
  <2>8. OneAux'
    BY <2>1, <2>3, <2>4, InputsFixed DEF OneAux
  <2>9. WindowsInside'
    <3>. SUFFICES ASSUME NEW t \in Positions
                  PROVE  /\ Within(entry'[t].primary, stack[t])
                         /\ Within(entry'[t].aux, stack[t])
                         /\ entry'[t].primary.size # 0 /\ entry'[t].aux.size # 0
                              => ~Overlap(entry'[t].primary, entry'[t].aux)
      BY Zenon, <2>1, InputsFixed, Zenon DEF WindowsInside, AuxKept, Within, Overlap, End
    <3>. QED
      BY Zenon, <2>3, <2>4, Zenon DEF WindowsInside, AuxKept
  <2>. QED
    BY <2>5, <2>6, <2>7, <2>8, <2>9
<1>6. CASE WindowsDone
  <2>1. /\ UNCHANGED inputs /\ UNCHANGED <<entry, rangeCount, bytesCount>>
        /\ pc = "window" /\ idx > ThreadCount /\ idx' = 1
        /\ remaining' = hardMax - fixed - ListHeader
        /\ pc' = IF exception # 0 THEN "exception" ELSE "main"
    BY <1>6 DEF WindowsDone, Goto, counts
  <2>2. remaining' \in Nat
    BY <1>2, <2>1 DEF Entered
  <2>3. TypeOK'
    BY <1>1, <2>1, <2>2, InputsFixed DEF TypeOK
  <2>4. \A t \in Positions : Pending(t)' /\ t # 0
    <3>1. \A t \in Positions : t < idx /\ t # 0
      BY <1>1, <1>2, <2>1 DEF Positions
    <3>. QED
      BY <2>1, <3>1, InputsFixed DEF Staged, Pending
  <2>5. Entered' /\ WholeKept' /\ Greedy'
    BY <2>1, <2>4, InputsFixed DEF Entered, WholeKept, Greedy, Settled
  <2>6. Staged'
    BY <2>1, <2>4 DEF Staged
  <2>7. OneAux' /\ WindowsInside'
    BY Zenon, <2>1, InputsFixed, Zenon DEF OneAux, WindowsInside, Within, AuxKept, Overlap, End
  <2>. QED
    BY <2>3, <2>5, <2>6, <2>7
<1>7. CASE ExceptionPrimary
  <2>1. /\ UNCHANGED inputs /\ UNCHANGED <<rangeCount, bytesCount>>
        /\ pc = "exception" /\ idx' = 1
        /\ IncludePrimary(exception, ~RequireFull)
        /\ pc' = IF RequireFull /\ ~entry'[exception].include THEN "failed" ELSE "aux"
    BY <1>7 DEF ExceptionPrimary, Goto, counts
  <2>2. exception \in Positions /\ (~RequireFull) \in BOOLEAN
    BY <2>1 DEF Entered, TypeOK
  <2>3. /\ entry' \in [Positions -> Entries]
        /\ remaining' \in Nat
        /\ \A s \in Positions \ {exception} : entry'[s] = entry[s]
        /\ RequireFull => entry'[exception].primary = entry[exception].primary
        /\ entry'[exception].primary.size # 0 /\ ~entry'[exception].include
             => Cost(entry'[exception].primary) > remaining'
    BY Zenon, <2>1, <2>2, IncludePrimaryEffect
  <2>4. TypeOK'
    BY <1>1, <2>1, <2>3, InputsFixed DEF TypeOK, Entries
  <2>5. Entered'
    BY <2>1, InputsFixed DEF Entered
  <2>6. Staged'
    BY <2>1, <2>3, InputsFixed DEF Staged, Pending
  <2>7. OneAux' /\ WindowsInside'
    BY Zenon, <2>1, <2>2, IncludePrimaryKeeps
  <2>8. WholeKept'
    <3>1. RequireFull => entry[exception].primary = stack[exception]
      BY Zenon, <2>1, <2>2, WindowsCut DEF Staged, Pending, RequireFull
    <3>. QED
      BY Zenon, <2>1, <2>3, <3>1, InputsFixed DEF WholeKept
  <2>9. Greedy'
    BY <2>1, <2>3, InputsFixed DEF Greedy, Settled, Cost
  <2>. QED
    BY <2>4, <2>5, <2>6, <2>7, <2>8, <2>9
<1>8. CASE ExceptionAux
  <2>1. /\ UNCHANGED inputs /\ UNCHANGED <<rangeCount, bytesCount>>
        /\ pc = "aux" /\ pc' = "main" /\ idx' = 1
        /\ IncludeAux(exception)
    BY <1>8 DEF ExceptionAux, Goto, counts
  <2>2. exception \in Positions
    BY <2>1 DEF Entered, TypeOK
  <2>3. /\ entry' \in [Positions -> Entries]
        /\ remaining' \in Nat /\ remaining' <= remaining
        /\ \A s \in Positions \ {exception} : entry'[s] = entry[s]
        /\ entry'[exception].primary = entry[exception].primary
        /\ entry'[exception].include = entry[exception].include
    BY <2>1, <2>2, IncludeAuxEffect
  <2>4. TypeOK'
    BY <1>1, <2>1, <2>3, InputsFixed DEF TypeOK, Entries
  <2>5. Entered' /\ WholeKept'
    BY <2>1, <2>3, InputsFixed DEF Entered, WholeKept
  <2>6. Staged'
    BY <2>1, <2>3, InputsFixed DEF Staged, Pending
  <2>7. OneAux' /\ WindowsInside'
    BY <2>1, <2>2, IncludeAuxKeeps
  <2>8. Greedy'
    <3>1. entry[exception].primary.size # 0 /\ ~entry[exception].include
            => Cost(entry[exception].primary) > remaining
      BY <2>1, <2>2 DEF Greedy, Settled
    <3>2. entry[exception].primary.size \in Nat /\ Descriptor \in Nat
      BY <1>2, <2>2, UnitsAssumption DEF Entries, Ranges
    <3>3. entry'[exception].primary.size # 0 /\ ~entry'[exception].include
            => Cost(entry'[exception].primary) > remaining'
      BY <1>2, <2>3, <3>1, <3>2, SMT DEF Cost
    <3>. QED
      BY <2>1, <3>3, InputsFixed DEF Greedy, Settled, Cost
  <2>. QED
    BY <2>4, <2>5, <2>6, <2>7, <2>8
<1>9. CASE MainPrimary
  <2>1. /\ UNCHANGED inputs /\ UNCHANGED <<rangeCount, bytesCount>>
        /\ pc = "main" /\ pc' = "others" /\ idx' = 1
    BY <1>9 DEF MainPrimary, Goto, counts
  <2>2. oldest \in Positions
    BY DEF TypeOK
  <2>3. /\ entry' \in [Positions -> Entries]
        /\ remaining' \in Nat /\ remaining' <= remaining
        /\ \A s \in Positions \ {oldest} : entry'[s] = entry[s]
        /\ oldest = exception => entry' = entry
        /\ oldest # exception =>
             (entry'[oldest].primary.size # 0 /\ ~entry'[oldest].include
                => Cost(entry'[oldest].primary) > remaining')
        /\ OneAux' /\ WindowsInside'
    <3>1. CASE oldest # exception
      <4>1. IncludePrimary(oldest, TRUE)
        BY Zenon, <1>9, <3>1 DEF MainPrimary
      <4>. QED
        BY Zenon, <2>1, <2>2, <3>1, <4>1, IncludePrimaryEffect, IncludePrimaryKeeps
    <3>2. CASE oldest = exception
      <4>1. UNCHANGED <<entry, remaining>>
        BY <1>9, <3>2 DEF MainPrimary
      <4>2. OneAux' /\ WindowsInside'
        BY Zenon, <2>1, <4>1, InputsFixed, Zenon DEF OneAux, WindowsInside, Within, AuxKept, Overlap, End
      <4>. QED
        BY <1>2, <3>2, <4>1, <4>2
    <3>. QED
      BY <3>1, <3>2
  <2>4. TypeOK'
    BY <1>1, <2>1, <2>3, InputsFixed DEF TypeOK, Entries
  <2>5. Entered' /\ WholeKept'
    BY <2>1, <2>2, <2>3, InputsFixed DEF Entered, WholeKept, RequireFull, TypeOK
  <2>6. Staged'
    BY <2>1, <2>3, InputsFixed DEF Staged, Pending
  <2>7. Greedy'
    <3>. SUFFICES ASSUME NEW t \in Positions, t \in {exception, oldest} \/ t < 1,
                         entry'[t].primary.size # 0, ~entry'[t].include
                  PROVE  Cost(entry'[t].primary) > remaining'
      BY Zenon, <2>1, InputsFixed, Zenon DEF Greedy, Settled, Cost
    <3>1. t = exception \/ t = oldest
      BY <1>1 DEF Positions
    <3>2. CASE t = oldest /\ oldest # exception
      BY <2>3, <3>2
    <3>3. CASE t = exception
      <4>1. entry'[t] = entry[t]
        BY <2>3, <3>3
      <4>2. Cost(entry[t].primary) > remaining
        BY <2>1, <3>3, <4>1 DEF Greedy, Settled
      <4>3. entry[t].primary.size \in Nat /\ Descriptor \in Nat
        BY <1>2, UnitsAssumption DEF Entries, Ranges
      <4>. QED
        BY <1>2, <2>3, <4>1, <4>2, <4>3, SMT DEF Cost
    <3>. QED
      BY <3>1, <3>2, <3>3
  <2>. QED
    BY <2>3, <2>4, <2>5, <2>6, <2>7
<1>10. CASE OtherPrimary
  <2>1. /\ UNCHANGED inputs /\ UNCHANGED <<pc, rangeCount, bytesCount>>
        /\ pc = "others" /\ idx' = idx + 1 /\ idx <= ThreadCount
    BY <1>10 DEF OtherPrimary, counts
  <2>2. idx \in Positions /\ idx + 1 \in 1 .. ThreadCount + 1
    BY <1>1, <1>2, <2>1 DEF Positions
  <2>3. /\ entry' \in [Positions -> Entries]
        /\ remaining' \in Nat /\ remaining' <= remaining
        /\ \A s \in Positions \ {idx} : entry'[s] = entry[s]
        /\ idx \in {exception, oldest} => entry' = entry
        /\ idx \notin {exception, oldest} =>
             (entry'[idx].primary.size # 0 /\ ~entry'[idx].include
                => Cost(entry'[idx].primary) > remaining')
        /\ OneAux' /\ WindowsInside'
    <3>1. CASE idx \notin {exception, oldest}
      <4>1. IncludePrimary(idx, FALSE)
        BY Zenon, <1>10, <3>1 DEF OtherPrimary
      <4>. QED
        BY Zenon, <2>1, <2>2, <3>1, <4>1, IncludePrimaryEffect, IncludePrimaryKeeps
    <3>2. CASE idx \in {exception, oldest}
      <4>1. UNCHANGED <<entry, remaining>>
        BY <1>10, <3>2 DEF OtherPrimary
      <4>2. OneAux' /\ WindowsInside'
        BY Zenon, <2>1, <4>1, InputsFixed, Zenon DEF OneAux, WindowsInside, Within, AuxKept, Overlap, End
      <4>. QED
        BY <1>2, <3>2, <4>1, <4>2
    <3>. QED
      BY <3>1, <3>2
  <2>4. TypeOK'
    BY <2>1, <2>2, <2>3, InputsFixed DEF TypeOK, Entries
  <2>5. Entered' /\ WholeKept'
    BY <2>1, <2>2, <2>3, InputsFixed DEF Entered, WholeKept, RequireFull, TypeOK
  <2>6. Staged'
    <3>1. \A t \in Positions : t >= idx + 1 => t >= idx /\ t # idx
      BY <1>2 DEF Positions
    <3>2. \A t \in Positions \ {exception, oldest} : t >= idx + 1 => Pending(t)'
      BY <2>1, <2>3, <3>1, InputsFixed DEF Staged, Pending
    <3>. QED
      BY <2>1, <3>2, InputsFixed DEF Staged
  <2>7. Greedy'
    <3>. SUFFICES ASSUME NEW t \in Positions, t \in {exception, oldest} \/ t < idx + 1,
                         entry'[t].primary.size # 0, ~entry'[t].include
                  PROVE  Cost(entry'[t].primary) > remaining'
      BY Zenon, <2>1, InputsFixed, Zenon DEF Greedy, Settled, Cost
    <3>1. t \in {exception, oldest} \/ t < idx \/ t = idx
      BY <1>2 DEF Positions
    <3>2. CASE t = idx /\ idx \notin {exception, oldest}
      BY <2>3, <3>2
    <3>3. CASE t \in {exception, oldest} \/ t < idx
      <4>1. entry'[t] = entry[t]
        BY <1>2, <2>3, <3>3 DEF Positions
      <4>2. Cost(entry[t].primary) > remaining
        BY <2>1, <3>3, <4>1 DEF Greedy, Settled
      <4>3. entry[t].primary.size \in Nat /\ Descriptor \in Nat
        BY <1>2, UnitsAssumption DEF Entries, Ranges
      <4>. QED
        BY <1>2, <2>3, <4>1, <4>2, <4>3, SMT DEF Cost
    <3>. QED
      BY <3>1, <3>2, <3>3
  <2>. QED
    BY <2>3, <2>4, <2>5, <2>6, <2>7
<1>11. CASE OthersDone
  <2>1. /\ UNCHANGED inputs /\ UNCHANGED <<entry, remaining, rangeCount, bytesCount>>
        /\ pc = "others" /\ pc' = "count" /\ idx' = 1
        /\ idx > ThreadCount \/ remaining <= Descriptor
    BY <1>11 DEF OthersDone, Goto, counts
  <2>2. TypeOK'
    BY <1>1, <2>1, InputsFixed DEF TypeOK
  <2>3. Entered' /\ Staged'
    BY <2>1, InputsFixed DEF Entered, Staged
  <2>4. WholeKept'
    BY Zenon, <2>1, InputsFixed DEF WholeKept
  <2>5. OneAux' /\ WindowsInside'
    BY Zenon, <2>1, InputsFixed, Zenon DEF OneAux, WindowsInside, Within, AuxKept, Overlap, End
  <2>6. Greedy'
    <3>. SUFFICES ASSUME NEW t \in Positions,
                         entry[t].primary.size # 0, ~entry[t].include
                  PROVE  Cost(entry[t].primary) > remaining
      BY Zenon, <2>1, InputsFixed, Zenon DEF Greedy, Settled, Cost
    <3>1. CASE idx > ThreadCount
      <4>1. t < idx
        BY <1>1, <1>2, <3>1 DEF Positions
      <4>. QED
        BY <2>1, <4>1 DEF Greedy, Settled
    <3>2. CASE remaining <= Descriptor
      <4>1. entry[t].primary.size \in Nat /\ Descriptor \in Nat
        BY <1>2, UnitsAssumption DEF Entries, Ranges
      <4>. QED
        BY <1>2, <3>2, <4>1, SMT DEF Cost
    <3>. QED
      BY <2>1, <3>1, <3>2
  <2>. QED
    BY <2>2, <2>3, <2>4, <2>5, <2>6
<1>12. CASE Count
  <2>1. /\ UNCHANGED inputs /\ UNCHANGED <<entry, remaining, pc>>
        /\ pc = "count" /\ idx' = idx + 1 /\ idx <= ThreadCount
        /\ rangeCount' = rangeCount + (IF PrimaryKept(idx) THEN 1 ELSE 0)
                                    + (IF AuxKept(idx) THEN 1 ELSE 0)
        /\ bytesCount' = bytesCount + (IF PrimaryKept(idx) THEN entry[idx].primary.size ELSE 0)
                                    + entry[idx].aux.size
    BY <1>12 DEF Count
  <2>2. idx \in Positions /\ idx + 1 \in 1 .. ThreadCount + 1
    BY <1>1, <1>2, <2>1 DEF Positions
  <2>3. rangeCount' \in Nat /\ bytesCount' \in Nat
    <3>1. entry[idx].primary.size \in Nat /\ entry[idx].aux.size \in Nat
      BY <1>2, <2>2 DEF Entries, Ranges
    <3>. QED
      BY <2>1, <3>1 DEF TypeOK
  <2>4. TypeOK'
    BY <2>1, <2>2, <2>3, InputsFixed DEF TypeOK
  <2>5. Entered' /\ Staged' /\ WholeKept'
    BY <2>1, InputsFixed DEF Entered, Staged, WholeKept
  <2>6. OneAux' /\ WindowsInside'
    BY Zenon, <2>1, InputsFixed, Zenon DEF OneAux, WindowsInside, Within, AuxKept, Overlap, End
  <2>7. Greedy'
    BY <2>1, InputsFixed DEF Greedy, Settled, Cost
  <2>. QED
    BY <2>4, <2>5, <2>6, <2>7
<1>13. CASE CountDone
  <2>1. /\ UNCHANGED inputs /\ UNCHANGED <<entry, remaining, rangeCount, bytesCount>>
        /\ pc = "count" /\ pc' = "done" /\ idx' = 1
    BY <1>13 DEF CountDone, Goto, counts
  <2>2. TypeOK'
    BY <1>1, <2>1, InputsFixed DEF TypeOK
  <2>3. Entered' /\ Staged' /\ WholeKept'
    BY <2>1, InputsFixed DEF Entered, Staged, WholeKept
  <2>4. OneAux' /\ WindowsInside'
    BY Zenon, <2>1, InputsFixed, Zenon DEF OneAux, WindowsInside, Within, AuxKept, Overlap, End
  <2>5. Greedy'
    BY <2>1, InputsFixed DEF Greedy, Settled, Cost
  <2>. QED
    BY <2>2, <2>3, <2>4, <2>5
<1>14. CASE UNCHANGED vars
  <2>1. UNCHANGED inputs /\ UNCHANGED <<entry, remaining, pc, idx, rangeCount, bytesCount>>
    BY <1>14 DEF vars, counts
  <2>2. TypeOK' /\ Entered'
    BY <2>1, InputsFixed DEF TypeOK, Entered
  <2>3. Staged' /\ WholeKept'
    <3>1. \A t \in Positions : (Pending(t)' <=> Pending(t)) /\ (Untouched(t)' <=> Untouched(t))
      BY <2>1, InputsFixed DEF Pending, Untouched
    <3>. QED
      BY <2>1, <3>1, InputsFixed DEF Staged, WholeKept
  <2>4. OneAux' /\ WindowsInside'
    BY Zenon, <2>1, InputsFixed, Zenon DEF OneAux, WindowsInside, Within, AuxKept, Overlap, End
  <2>5. Greedy'
    BY Zenon, <2>1, InputsFixed, Zenon DEF Greedy, Settled, Cost
  <2>. QED
    BY <2>2, <2>3, <2>4, <2>5
<1>. QED
  BY <1>3, <1>4, <1>5, <1>6, <1>7, <1>8, <1>9, <1>10, <1>11, <1>12, <1>13, <1>14
     DEF Next


-----------------------------------------------------------------------------
(***************************************************************************)
(* The budget.                                                             *)
(***************************************************************************)

\* A charge is a number of bytes.
LEMMA ChargeNat == TypeOK => \A t \in Positions : Charge(t) \in Nat
<1>. SUFFICES ASSUME TypeOK, NEW t \in Positions PROVE Charge(t) \in Nat
  OBVIOUS
<1>1. entry[t].primary.size \in Nat /\ entry[t].aux.size \in Nat /\ Descriptor \in Nat
  BY UnitsAssumption DEF TypeOK, Ranges
<1>. QED
  BY <1>1, SMT DEF Charge, Cost

\* One charge that grows by d moves the running totals from there on by d.
LEMMA TotalsGrow ==
  ASSUME NEW acc \in [0 .. ThreadCount -> Nat], Totals(acc), TypeOK,
         NEW t \in Positions, NEW d \in Nat,
         Charge(t)' = Charge(t) + d,
         \A s \in Positions \ {t} : Charge(s)' = Charge(s)
  PROVE  \E new \in [0 .. ThreadCount -> Nat] :
           Totals(new)' /\ new[ThreadCount] = acc[ThreadCount] + d
<1>. DEFINE new == [i \in 0 .. ThreadCount |-> IF i >= t THEN acc[i] + d ELSE acc[i]]
<1>1. ThreadCount \in Nat /\ \A s \in Positions : s \in Nat /\ s # 0 /\ s <= ThreadCount
  BY SizesAssumption DEF Positions
<1>2. \A i \in 0 .. ThreadCount : acc[i] \in Nat
  OBVIOUS
<1>3. new \in [0 .. ThreadCount -> Nat]
  BY <1>2
<1>4. new[0] = 0
  BY <1>1, SMT DEF Totals
<1>5. ASSUME NEW s \in Positions PROVE new[s] = new[s - 1] + Charge(s)'
  <2>1. s \in 0 .. ThreadCount /\ s - 1 \in 0 .. ThreadCount
    BY <1>1
  <2>2. acc[s] = acc[s - 1] + Charge(s) /\ Charge(s) \in Nat
    BY ChargeNat DEF Totals
  <2>3. acc[s] \in Nat /\ acc[s - 1] \in Nat
    BY <1>2, <2>1
  <2>4. /\ new[s] = IF s >= t THEN acc[s] + d ELSE acc[s]
        /\ new[s - 1] = IF s - 1 >= t THEN acc[s - 1] + d ELSE acc[s - 1]
    BY <2>1
  <2>. HIDE DEF new
  <2>5. CASE s = t
    BY <1>1, <2>2, <2>3, <2>4, <2>5, SMT
  <2>6. CASE s # t
    <3>1. Charge(s)' = Charge(s)
      BY <2>6
    <3>. QED
      BY <1>1, <2>2, <2>3, <2>4, <2>6, <3>1, SMT
  <2>. QED
    BY <2>5, <2>6
<1>6. Totals(new)'
  BY Zenon, <1>3, <1>4, <1>5, Zenon DEF Totals
<1>7. new[ThreadCount] = acc[ThreadCount] + d
  BY <1>1
<1>. QED
  BY Zenon, <1>3, <1>6, <1>7

\* A step that takes from the budget what it charges one thread.
LEMMA ChargingKeepsCovered ==
  ASSUME TypeOK, TypeOK', Covered, UNCHANGED inputs,
         pc \in Admitting, pc' \in {"aux", "main", "others"},
         NEW t \in Positions, Charge(t) <= Charge(t)',
         Charge(t)' - Charge(t) <= remaining - remaining',
         \A s \in Positions \ {t} : Charge(s)' = Charge(s)
  PROVE  Covered'
<1>1. PICK acc \in [0 .. ThreadCount -> Nat] :
        Totals(acc) /\ acc[ThreadCount] + remaining <= Budget
  BY DEF Covered
<1>2. Charge(t) \in Nat /\ Charge(t)' \in Nat
  <2>1. /\ entry'[t].primary.size \in Nat /\ entry'[t].aux.size \in Nat
        /\ Descriptor \in Nat
    BY Zenon, UnitsAssumption DEF TypeOK, Ranges
  <2>. DEFINE p == IF PrimaryKept(t)' THEN Descriptor + entry'[t].primary.size ELSE 0
              a == IF pc' \notin {"exception", "aux"} /\ AuxKept(t)'
                   THEN Descriptor + entry'[t].aux.size ELSE 0
  <2>2. Charge(t)' = p + a
    BY DEF Charge, Cost
  <2>3. p \in Nat /\ a \in Nat
    BY <2>1
  <2>. HIDE DEF p, a
  <2>. QED
    BY <2>2, <2>3, ChargeNat
<1>3. PICK c \in Nat, e \in Nat : c = Charge(t) /\ e = Charge(t)'
  BY <1>2
<1>4. /\ acc[ThreadCount] \in Nat /\ remaining \in Nat /\ remaining' \in Nat
      /\ Budget' = Budget /\ Budget \in Int
  BY InputsFixed, SizesAssumption, UnitsAssumption DEF Budget, TypeOK
<1>5. e - c \in Nat /\ e = c + (e - c) /\ e - c <= remaining - remaining'
  <2>1. c <= e /\ e - c <= remaining - remaining'
    BY <1>3
  <2>. QED
    BY <1>3, <2>1
<1>6. PICK new \in [0 .. ThreadCount -> Nat] :
        Totals(new)' /\ new[ThreadCount] = acc[ThreadCount] + (e - c)
  <2>1. Charge(t)' = Charge(t) + (e - c)
    BY <1>3, <1>5
  <2>. QED
    BY Zenon, <1>1, <1>5, <2>1, TotalsGrow
<1>7. new[ThreadCount] + remaining' <= Budget'
  <2>1. new[ThreadCount] = acc[ThreadCount] + (e - c)
    BY <1>6
  <2>2. acc[ThreadCount] + remaining <= Budget
    BY <1>1
  <2>3. \A x, y, r, q \in Nat, g \in Int : x + r <= g /\ y <= r - q => (x + y) + q <= g
    BY SMT
  <2>4. (acc[ThreadCount] + (e - c)) + remaining' <= Budget
    BY Zenon, <1>4, <1>5, <2>2, <2>3, Zenon
  <2>. QED
    BY Zenon, <1>4, <2>1, <2>4, Zenon
<1>. QED
  BY Zenon, <1>6, <1>7 DEF Covered

\* IncludePrimaryStack takes from the budget at least what it charges.
LEMMA IncludePrimaryCharges ==
  ASSUME TypeOK, TypeOK', NEW t \in Positions, NEW trim \in BOOLEAN,
         IncludePrimary(t, trim), Pending(t),
         (pc \in {"exception", "aux"} <=> pc' \in {"exception", "aux"})
  PROVE  /\ Charge(t) <= Charge(t)'
         /\ Charge(t)' - Charge(t) <= remaining - remaining'
         /\ \A s \in Positions \ {t} : Charge(s)' = Charge(s)
<1>1. /\ entry' \in [Positions -> Entries]
      /\ remaining' \in Nat /\ remaining' <= remaining
      /\ \A s \in Positions \ {t} : entry'[s] = entry[s]
      /\ entry'[t].aux = entry[t].aux
      /\ entry'[t].include /\ ~entry[t].include
           => Cost(entry'[t].primary) <= remaining - remaining'
  BY IncludePrimaryEffect
<1>2. entry[t].include = FALSE
  BY Zenon, WindowsCut DEF Pending
<1>3. \A s \in Positions \ {t} : Charge(s)' = Charge(s)
  BY <1>1 DEF Charge, PrimaryKept, AuxKept, Cost
<1>4. /\ entry'[t].primary.size \in Nat /\ entry[t].aux.size \in Nat
      /\ Descriptor \in Nat /\ remaining \in Nat
  BY <1>1, UnitsAssumption DEF Entries, Ranges, TypeOK
<1>. DEFINE a == IF pc \notin {"exception", "aux"} /\ AuxKept(t) THEN Cost(entry[t].aux) ELSE 0
            p == IF PrimaryKept(t)' THEN Cost(entry'[t].primary) ELSE 0
<1>5. a \in Nat /\ p \in Nat /\ p <= remaining - remaining'
  BY <1>1, <1>2, <1>4, SMT DEF Cost, PrimaryKept
<1>. DEFINE d == remaining - remaining'
<1>6. PICK x \in Nat, y \in Nat : x = a /\ y = p /\ y <= d
  BY <1>5
<1>7. Charge(t) = x
  BY <1>2, <1>6 DEF Charge, PrimaryKept
<1>8. Charge(t)' = y + x
  BY <1>1, <1>6 DEF Charge, AuxKept, Cost
<1>9. d \in Int
  BY <1>1, <1>4
<1>. HIDE DEF a, p, d
<1>10. x <= y + x /\ (y + x) - x <= d
  BY <1>6, <1>9
<1>. QED
  BY Zenon, <1>3, <1>7, <1>8, <1>10, Zenon DEF d

\* IncludeAuxStack takes from the budget at least what it keeps of the window.
LEMMA IncludeAuxCharges ==
  ASSUME TypeOK, TypeOK', OneAux, UNCHANGED inputs, NEW t \in Positions,
         t = exception, IncludeAux(t), pc = "aux", pc' = "main"
  PROVE  /\ Charge(t) <= Charge(t)'
         /\ Charge(t)' - Charge(t) <= remaining - remaining'
         /\ \A s \in Positions \ {t} : Charge(s)' = Charge(s)
<1>1. /\ entry' \in [Positions -> Entries]
      /\ remaining' \in Nat /\ remaining' <= remaining
      /\ \A s \in Positions \ {t} : entry'[s] = entry[s]
      /\ entry'[t].primary = entry[t].primary
      /\ entry'[t].include = entry[t].include
      /\ entry'[t].aux.size # 0
           => Cost(entry'[t].aux) <= remaining - remaining'
  BY IncludeAuxEffect
<1>2. \A s \in Positions \ {t} : Charge(s)' = Charge(s)
  <2>. SUFFICES ASSUME NEW s \in Positions \ {t} PROVE Charge(s)' = Charge(s)
    OBVIOUS
  <2>1. ~AuxKept(s) /\ ~AuxKept(s)' /\ entry'[s] = entry[s]
    BY <1>1 DEF OneAux, AuxKept
  <2>. QED
    BY <2>1 DEF Charge, PrimaryKept, Cost
<1>3. /\ entry[t].primary.size \in Nat /\ entry'[t].aux.size \in Nat
      /\ Descriptor \in Nat /\ remaining \in Nat
  BY <1>1, UnitsAssumption DEF Entries, Ranges, TypeOK
<1>. DEFINE p == IF PrimaryKept(t) THEN Cost(entry[t].primary) ELSE 0
            a == IF AuxKept(t)' THEN Cost(entry'[t].aux) ELSE 0
            d == remaining - remaining'
<1>4. a \in Nat /\ p \in Nat /\ a <= d
  BY <1>1, <1>3, SMT DEF Cost, AuxKept
<1>5. PICK x \in Nat, y \in Nat : x = p /\ y = a /\ y <= d
  BY <1>4
<1>6. Charge(t) = x
  BY <1>5 DEF Charge
<1>7. Charge(t)' = x + y
  BY <1>1, <1>5 DEF Charge, PrimaryKept, Cost
<1>8. d \in Int
  BY <1>1, <1>3
<1>. HIDE DEF a, p, d
<1>9. x <= x + y /\ (x + y) - x <= d
  BY <1>5, <1>8
<1>. QED
  BY Zenon, <1>2, <1>6, <1>7, <1>9, Zenon DEF d

\* No step spends more of the budget than there is, and none counts a range
\* that was not charged or charges one that is not counted.
LEMMA NextCovered == IInv /\ IInv' /\ Covered /\ [Next]_vars => Covered'
<1>. SUFFICES ASSUME IInv, IInv', Covered, [Next]_vars PROVE Covered'
  OBVIOUS
<1>1. /\ TypeOK /\ TypeOK' /\ Entered /\ Staged /\ OneAux
      /\ ThreadCount \in Nat /\ idx \in 1 .. ThreadCount + 1
      /\ entry \in [Positions -> Entries] /\ Descriptor \in Nat
  BY SizesAssumption, UnitsAssumption DEF IInv, TypeOK, Entries
<1>2. \A acc \in [0 .. ThreadCount -> Nat] :
        Totals(acc) /\ (\A t \in Positions : Charge(t)' = Charge(t)) => Totals(acc)'
  BY Zenon, Zenon DEF Totals
<1>3. CASE Refuse
  BY <1>3 DEF Refuse, Goto, Covered, Admitting
<1>4. CASE Enter
  BY <1>4 DEF Enter, Goto, Covered, Admitting
<1>5. CASE CutWindow
  BY <1>5 DEF CutWindow, Covered, Admitting
<1>6. CASE WindowsDone
  <2>1. /\ UNCHANGED inputs /\ UNCHANGED entry
        /\ pc = "window" /\ idx > ThreadCount
        /\ remaining' = hardMax - fixed - ListHeader
        /\ pc' = IF exception # 0 THEN "exception" ELSE "main"
    BY <1>6 DEF WindowsDone, Goto
  <2>2. \A t \in Positions : Charge(t)' = 0
    <3>. SUFFICES ASSUME NEW t \in Positions PROVE Charge(t)' = 0
      OBVIOUS
    <3>1. Pending(t)
      <4>1. t < idx
        BY <1>1, <2>1 DEF Positions
      <4>. QED
        BY <1>1, <2>1, <4>1 DEF Staged
    <3>2. ~PrimaryKept(t)'
      BY Zenon, <1>1, <2>1, <3>1, WindowsCut DEF Pending, PrimaryKept
    <3>3. pc' \notin {"exception", "aux"} => ~AuxKept(t)'
      BY <1>1, <2>1 DEF OneAux, AuxKept, Positions
    <3>. QED
      BY <3>2, <3>3 DEF Charge
  <2>. DEFINE acc == [i \in 0 .. ThreadCount |-> 0]
  <2>3. acc \in [0 .. ThreadCount -> Nat] /\ acc[0] = 0 /\ acc[ThreadCount] = 0
    BY <1>1
  <2>4. \A t \in Positions : acc[t] = acc[t - 1] + Charge(t)'
    BY <1>1, <2>2 DEF Positions
  <2>5. acc[ThreadCount] + remaining' <= Budget'
    BY <1>1, <2>1, <2>3, InputsFixed, UnitsAssumption, SMT DEF Budget, TypeOK
  <2>. HIDE DEF acc
  <2>6. Totals(acc)'
    BY Zenon, <2>3, <2>4, Zenon DEF Totals
  <2>. QED
    BY Zenon, <2>1, <2>3, <2>5, <2>6 DEF Covered
<1>7. CASE ExceptionPrimary
  <2>1. /\ UNCHANGED inputs /\ pc = "exception" /\ pc' \in {"failed", "aux"}
        /\ IncludePrimary(exception, ~RequireFull)
    BY <1>7 DEF ExceptionPrimary, Goto
  <2>2. /\ exception \in Positions /\ (~RequireFull) \in BOOLEAN
        /\ Pending(exception)
    BY <1>1, <2>1 DEF Entered, Staged, TypeOK
  <2>3. CASE pc' = "failed"
    BY <2>3 DEF Covered, Admitting
  <2>4. CASE pc' = "aux"
    BY Zenon, <1>1, <2>1, <2>2, <2>4, IncludePrimaryCharges, ChargingKeepsCovered DEF Admitting
  <2>. QED
    BY <2>1, <2>3, <2>4
<1>8. CASE ExceptionAux
  <2>1. /\ UNCHANGED inputs /\ pc = "aux" /\ pc' = "main" /\ IncludeAux(exception)
    BY <1>8 DEF ExceptionAux, Goto
  <2>2. PICK t \in Positions : t = exception
    BY <1>1, <2>1 DEF Entered, TypeOK
  <2>3. IncludeAux(t)
    BY <2>1, <2>2
  <2>. QED
    BY <1>1, <2>1, <2>2, <2>3, IncludeAuxCharges, ChargingKeepsCovered DEF Admitting
<1>9. CASE MainPrimary
  <2>1. UNCHANGED inputs /\ pc = "main" /\ pc' = "others" /\ oldest \in Positions
    BY <1>1, <1>9 DEF MainPrimary, Goto, TypeOK
  <2>2. CASE oldest # exception
    <3>1. IncludePrimary(oldest, TRUE) /\ Pending(oldest)
      BY Zenon, <1>1, <1>9, <2>1, <2>2 DEF MainPrimary, Staged
    <3>. QED
      BY Zenon, <1>1, <2>1, <3>1, IncludePrimaryCharges, ChargingKeepsCovered DEF Admitting
  <2>3. CASE oldest = exception
    <3>1. UNCHANGED <<entry, remaining>>
      BY <1>9, <2>3 DEF MainPrimary
    <3>2. \A t \in Positions : Charge(t)' = Charge(t)
      BY <2>1, <3>1 DEF Charge, PrimaryKept, AuxKept, Cost
    <3>3. Budget' = Budget
      BY <2>1, InputsFixed DEF Budget
    <3>. QED
      BY <1>2, <2>1, <3>1, <3>2, <3>3 DEF Covered, Admitting
  <2>. QED
    BY <2>2, <2>3
<1>10. CASE OtherPrimary
  <2>1. UNCHANGED inputs /\ pc = "others" /\ pc' = "others" /\ idx \in Positions
    BY <1>1, <1>10 DEF OtherPrimary, Positions
  <2>2. CASE idx \notin {exception, oldest}
    <3>1. IncludePrimary(idx, FALSE) /\ Pending(idx)
      <4>1. idx >= idx
        BY <1>1
      <4>. QED
        BY Zenon, <1>1, <1>10, <2>1, <2>2, <4>1 DEF OtherPrimary, Staged
    <3>. QED
      BY Zenon, <1>1, <2>1, <3>1, IncludePrimaryCharges, ChargingKeepsCovered DEF Admitting
  <2>3. CASE idx \in {exception, oldest}
    <3>1. UNCHANGED <<entry, remaining>>
      BY <1>10, <2>3 DEF OtherPrimary
    <3>2. \A t \in Positions : Charge(t)' = Charge(t)
      BY <2>1, <3>1 DEF Charge, PrimaryKept, AuxKept, Cost
    <3>3. Budget' = Budget
      BY <2>1, InputsFixed DEF Budget
    <3>. QED
      BY <1>2, <2>1, <3>1, <3>2, <3>3 DEF Covered, Admitting
  <2>. QED
    BY <2>2, <2>3
<1>11. CASE OthersDone
  <2>1. /\ UNCHANGED inputs /\ UNCHANGED <<entry, remaining, rangeCount, bytesCount>>
        /\ pc = "others" /\ pc' = "count" /\ idx' = 1
        /\ rangeCount = 0 /\ bytesCount = 0
    BY <1>1, <1>11 DEF OthersDone, Goto, counts, Entered
  <2>2. \A t \in Positions : Charge(t)' = Charge(t)
    BY <2>1 DEF Charge, PrimaryKept, AuxKept, Cost
  <2>3. Budget' = Budget
    BY <2>1, InputsFixed DEF Budget
  <2>4. PICK acc \in [0 .. ThreadCount -> Nat] :
          Totals(acc) /\ acc[ThreadCount] + remaining <= Budget
    BY <2>1 DEF Covered, Admitting
  <2>5. 0 * Descriptor + 0 = acc[1 - 1]
    BY <1>1, <2>4, SMT DEF Totals
  <2>6. Totals(acc)'
    BY <1>2, <2>2, <2>4
  <2>. QED
    BY Zenon, <2>1, <2>3, <2>4, <2>5, <2>6 DEF Covered
<1>12. CASE Count
  <2>1. /\ UNCHANGED inputs /\ UNCHANGED <<entry, remaining, pc>>
        /\ pc = "count" /\ idx' = idx + 1 /\ idx \in Positions
        /\ rangeCount' = rangeCount + (IF PrimaryKept(idx) THEN 1 ELSE 0)
                                    + (IF AuxKept(idx) THEN 1 ELSE 0)
        /\ bytesCount' = bytesCount + (IF PrimaryKept(idx) THEN entry[idx].primary.size ELSE 0)
                                    + entry[idx].aux.size
    BY <1>1, <1>12 DEF Count, Positions
  <2>2. \A t \in Positions : Charge(t)' = Charge(t)
    BY <2>1 DEF Charge, PrimaryKept, AuxKept, Cost
  <2>3. Budget' = Budget
    BY <2>1, InputsFixed DEF Budget
  <2>4. PICK acc \in [0 .. ThreadCount -> Nat] :
          /\ Totals(acc) /\ acc[ThreadCount] + remaining <= Budget
          /\ rangeCount * Descriptor + bytesCount = acc[idx - 1]
    BY <2>1 DEF Covered, Admitting
  <2>5. Totals(acc)'
    BY <1>2, <2>2, <2>4
  <2>6. rangeCount' * Descriptor + bytesCount' = acc[idx' - 1]
    <3>1. /\ rangeCount \in Nat /\ bytesCount \in Nat
          /\ entry[idx].primary.size \in Nat /\ entry[idx].aux.size \in Nat
      BY Zenon, <1>1, <2>1 DEF TypeOK, Ranges
    <3>2. /\ acc[idx] = acc[idx - 1] + Charge(idx)
          /\ idx' - 1 = idx
      BY <1>1, <2>1, <2>4 DEF Totals
    <3>3. Charge(idx) = (IF PrimaryKept(idx) THEN Cost(entry[idx].primary) ELSE 0)
                      + (IF AuxKept(idx) THEN Cost(entry[idx].aux) ELSE 0)
      BY <2>1 DEF Charge
    <3>4. \A n \in Nat, i, j \in {0, 1} :
            (n + i + j) * Descriptor = n * Descriptor + i * Descriptor + j * Descriptor
      BY <1>1, SMT
    <3>5. \A n \in Nat : n * Descriptor \in Nat
      BY <1>1, SMT
    <3>6. /\ 0 * Descriptor = 0 /\ 1 * Descriptor = Descriptor
      BY <1>1, SMT
    <3>7. ~AuxKept(idx) => entry[idx].aux.size = 0
      BY DEF AuxKept
    <3>8. PICK i \in {0, 1}, j \in {0, 1} :
            /\ i = IF PrimaryKept(idx) THEN 1 ELSE 0
            /\ j = IF AuxKept(idx) THEN 1 ELSE 0
      OBVIOUS
    <3>9. rangeCount' * Descriptor
            = rangeCount * Descriptor + i * Descriptor + j * Descriptor
      BY Zenon, <2>1, <3>1, <3>4, <3>8
    <3>. DEFINE x == IF PrimaryKept(idx) THEN entry[idx].primary.size ELSE 0
                y == entry[idx].aux.size
                u == i * Descriptor
                v == j * Descriptor
                k == rangeCount * Descriptor
    <3>10. /\ x \in Nat /\ y \in Nat /\ u \in Nat /\ v \in Nat /\ k \in Nat
           /\ bytesCount \in Nat /\ acc[idx - 1] \in Int
      BY <1>1, <2>1, <3>1, <3>5, <3>6 DEF Positions
    <3>11. Charge(idx) = (u + x) + (v + y)
      <4>1. u + x = IF PrimaryKept(idx) THEN Cost(entry[idx].primary) ELSE 0
        BY <1>1, <3>1, <3>6, <3>8 DEF Cost
      <4>2. v + y = IF AuxKept(idx) THEN Cost(entry[idx].aux) ELSE 0
        BY <1>1, <3>1, <3>6, <3>7, <3>8 DEF Cost
      <4>. QED
        BY <3>3, <4>1, <4>2
    <3>12. /\ rangeCount' * Descriptor = k + u + v
           /\ bytesCount' = bytesCount + x + y
           /\ k + bytesCount = acc[idx - 1]
      BY <2>1, <2>4, <3>9
    <3>. HIDE DEF x, y, u, v, k
    <3>. QED
      BY <3>2, <3>10, <3>11, <3>12, SMT
  <2>. QED
    BY Zenon, <2>1, <2>3, <2>4, <2>5, <2>6 DEF Covered
<1>13. CASE CountDone
  <2>1. /\ UNCHANGED inputs /\ UNCHANGED <<entry, remaining, rangeCount, bytesCount>>
        /\ pc = "count" /\ pc' = "done" /\ idx > ThreadCount
    BY <1>13 DEF CountDone, Goto, counts
  <2>2. \A t \in Positions : Charge(t)' = Charge(t)
    BY <2>1 DEF Charge, PrimaryKept, AuxKept, Cost
  <2>3. Budget' = Budget
    BY <2>1, InputsFixed DEF Budget
  <2>4. PICK acc \in [0 .. ThreadCount -> Nat] :
          /\ Totals(acc) /\ acc[ThreadCount] + remaining <= Budget
          /\ rangeCount * Descriptor + bytesCount = acc[idx - 1]
    BY <2>1 DEF Covered, Admitting
  <2>5. Totals(acc)' /\ idx - 1 = ThreadCount
    BY <1>1, <1>2, <2>1, <2>2, <2>4
  <2>. QED
    BY Zenon, <2>1, <2>3, <2>4, <2>5 DEF Covered
<1>14. CASE UNCHANGED vars
  <2>1. UNCHANGED inputs /\ UNCHANGED <<entry, remaining, pc, idx, rangeCount, bytesCount>>
    BY <1>14 DEF vars, counts
  <2>2. \A t \in Positions : Charge(t)' = Charge(t)
    BY <2>1 DEF Charge, PrimaryKept, AuxKept, Cost
  <2>3. Budget' = Budget
    BY <2>1, InputsFixed DEF Budget
  <2>. QED
    BY <1>2, <2>1, <2>2, <2>3 DEF Covered
<1>. QED
  BY <1>3, <1>4, <1>5, <1>6, <1>7, <1>8, <1>9, <1>10, <1>11, <1>12, <1>13, <1>14
     DEF Next

-----------------------------------------------------------------------------
(***************************************************************************)
(* Theorems.                                                               *)
(***************************************************************************)

\* Every reachable state of the capture policy satisfies the inductive
\* invariant: the stages of ApplyThreadStackCapturePolicy and what each has
\* settled.
THEOREM Invariance == Spec => []IInv
<1>. QED
  BY InitIInv, NextIInv, PTL DEF Spec

\* Every variable keeps its type: no step of ApplyThreadStackCapturePolicy or
\* its helpers leaves a start, a size or the budget below zero, where the
\* code's unsigned arithmetic would wrap.
THEOREM TypeCorrect == Spec => []TypeOK
<1>1. IInv => TypeOK
  BY DEF IInv
<1>. QED
  BY Invariance, <1>1, PTL

\* Clipping, aligning and trimming keep every window inside its thread's stack
\* and the two windows of an overflowed stack apart.
THEOREM StaysInside == Spec => []WindowsInside
<1>1. IInv => WindowsInside
  BY DEF IInv
<1>. QED
  BY Invariance, <1>1, PTL

\* When the policy succeeds, a small overflowed stack is kept from end to end.
THEOREM KeepsOverflowWhole == Spec => []OverflowWhole
<1>1. IInv => OverflowWhole
  <2>. SUFFICES ASSUME IInv, pc = "done", exception # 0, RequireFull
                PROVE  PrimaryKept(exception) /\ entry[exception].primary = stack[exception]
    BY DEF OverflowWhole
  <2>. QED
    BY DEF IInv, WholeKept, RequireFull, PrimaryKept
<1>. QED
  BY Invariance, <1>1, PTL

\* When the policy succeeds, no window left out would still fit.
THEOREM WastesNothing == Spec => []NothingWasted
<1>1. IInv => NothingWasted
  BY DEF IInv, Greedy, Settled, NothingWasted
<1>. QED
  BY Invariance, <1>1, PTL

\* When the policy succeeds, the ranges CountStackMemoryRanges reports fit, with
\* their descriptors and the streams in front, under hardMaxFileSize.
THEOREM StaysUnderCap == Spec => []FitsCap
<1>1. Init => Covered
  BY DEF Init, Covered, Admitting
<1>2. Spec => []Covered
  BY <1>1, Invariance, NextCovered, PTL DEF Spec
<1>3. IInv /\ Covered => FitsCap
  <2>. SUFFICES ASSUME IInv, Covered, pc = "done"
                PROVE  fixed + ListHeader + rangeCount * Descriptor + bytesCount <= hardMax
    BY DEF FitsCap
  <2>1. PICK acc \in [0 .. ThreadCount -> Nat] :
          /\ acc[ThreadCount] + remaining <= Budget
          /\ rangeCount * Descriptor + bytesCount = acc[ThreadCount]
    BY DEF Covered, Admitting
  <2>2. /\ acc[ThreadCount] \in Nat /\ remaining \in Nat /\ fixed \in Nat
        /\ hardMax \in Nat /\ ListHeader \in Nat /\ Descriptor \in Nat
        /\ rangeCount \in Nat /\ bytesCount \in Nat
    BY SizesAssumption, UnitsAssumption DEF IInv, TypeOK
  <2>3. \A n \in Nat : n * Descriptor \in Nat
    BY <2>2, SMT
  <2>4. PICK k \in Nat : k = rangeCount * Descriptor
    BY <2>2, <2>3
  <2>. QED
    BY <2>1, <2>2, <2>4, SMT DEF Budget
<1>. QED
  BY Invariance, <1>2, <1>3, PTL

=============================================================================
