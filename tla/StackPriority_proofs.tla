-------------------------- MODULE StackPriority_proofs --------------------------
(***************************************************************************)
(* Proofs about StackPolicy, continued: the frame that crashed is kept,    *)
(* and stacks are kept in the order of priority.                           *)
(***************************************************************************)
EXTENDS StackPolicy_proofs

-----------------------------------------------------------------------------
(***************************************************************************)
(* The inductive invariant; inductive given IInv.                          *)
(***************************************************************************)

\* The exception thread's stack, and then the main thread's, was dealt with.
AfterException == pc \in {"aux", "main", "others", "count", "done"} /\ exception # 0
AfterMain      == pc \in {"others", "count", "done"} /\ oldest # exception

\* What is left when a priority thread's turn comes: a trim leaves nothing.
LeftTold ==
  /\ pc = "exception" => remaining = Budget
  /\ pc = "aux" =>
       \/ remaining = 0
       \/ remaining = Budget - (IF PrimaryKept(exception) THEN Cost(entry[exception].primary) ELSE 0)
  /\ pc = "main" => remaining = 0 \/ remaining = Budget - TakenByException

\* None but these threads has its stack kept, and none will.
NoneBut(threads) == remaining = 0 /\ \A t \in Positions \ threads : ~entry[t].include

ExceptionFirst ==
  AfterException /\ Windows(exception).primary.size # 0 =>
    KeptWhole(exception) \/ Budget <= Descriptor + Page \/ NoneBut({exception})

MainNext ==
  AfterMain /\ Windows(oldest).primary.size # 0 =>
    \/ KeptWhole(oldest)
    \/ Budget - TakenByException <= Descriptor + Page
    \/ NoneBut({exception, oldest})

Live(t) == stack[t].start <= sp[t] /\ sp[t] < End(stack[t])
Holds(range, address) == range.start <= address /\ address < End(range)

FrameHeld ==
  AfterException /\ Budget > Descriptor + Page /\ Live(exception) =>
    entry[exception].include /\ Holds(entry[exception].primary, sp[exception])

Ordered == LeftTold /\ ExceptionFirst /\ MainNext /\ FrameHeld

-----------------------------------------------------------------------------
(***************************************************************************)
(* What a window holds, and what an admission leaves of it.                *)
(***************************************************************************)

\* The window of a stack that its pointer is in begins at the pointer's page and
\* reaches beyond the pointer; a stack wanted whole is its own window.
LEMMA WindowHoldsFrame ==
  ASSUME TypeOK, NEW t \in Positions, Live(t)
  PROVE  /\ Windows(t).primary.size # 0
         /\ Holds(Windows(t).primary, sp[t])
         /\ ~WantedWhole(t) => sp[t] < Windows(t).primary.start + Page
<1>1. /\ stack[t] \in Ranges /\ sp[t] \in Nat /\ Page \in Nat \ {0}
      /\ stack[t].start \in Nat /\ stack[t].size \in Nat
  BY UnitsAssumption DEF TypeOK, Ranges
<1>2. stack[t].start <= sp[t] /\ sp[t] < stack[t].start + stack[t].size
  BY DEF Live, End
<1>3. CASE WantedWhole(t)
  <2>1. Windows(t).primary = stack[t]
    BY <1>3, WindowsCut
  <2> QED BY <1>1, <1>2, <1>3, <2>1 DEF Holds, End
<1>4. CASE ~WantedWhole(t)
  <2>1. PICK cap \in Nat : /\ cap >= Page
                           /\ Windows(t).primary = ClipStackWindow(stack[t], sp[t], cap)
    BY <1>4, UnitsAssumption, WindowsHoldPage, Zenon DEF Windows
  <2>2. PICK a \in Nat : a = AlignDown(sp[t]) /\ a <= sp[t] /\ sp[t] < a + Page
    BY <1>1, AlignDownBounds
  <2>3. PICK start \in Nat : /\ start = Later(a, stack[t].start)
                             /\ start <= sp[t] /\ sp[t] < start + Page
    BY <1>1, <1>2, <2>2, SMT DEF Later
  <2>4. PICK end \in Nat : /\ end = Earlier(stack[t].start + stack[t].size, start + cap)
                           /\ sp[t] < end
    BY <1>1, <1>2, <2>1, <2>3, SMT DEF Earlier
  <2>5. Windows(t).primary = [start |-> start, size |-> end - start]
    <3>1. stack[t].size # 0 /\ ~(end <= start)
      BY <1>1, <1>2, <2>3, <2>4, SMT
    <3>2. /\ sp[t] >= stack[t].start /\ sp[t] < End(stack[t])
          /\ start = Later(AlignDown(sp[t]), stack[t].start)
          /\ end = Earlier(End(stack[t]), start + cap)
      BY <1>1, <1>2, <2>2, <2>3, <2>4 DEF End
    <3> QED BY <2>1, <3>1, <3>2 DEF ClipStackWindow
  <2>6. start <= sp[t] /\ sp[t] < start + (end - start) /\ end - start # 0 /\ sp[t] < start + Page
    BY <1>1, <2>3, <2>4, SMT
  <2> QED BY <2>5, <2>6 DEF Holds, End
<1> QED BY <1>3, <1>4

\* IncludePrimaryStack keeps a window whole, or trims it to a page or more and
\* spends the budget on it, or leaves everything as it is.
LEMMA IncludePrimaryOutcome ==
  ASSUME TypeOK, NEW t \in Positions, NEW trim \in BOOLEAN, IncludePrimary(t, trim)
  PROVE  \/ /\ entry[t].primary.size # 0
            /\ entry'[t].include /\ entry'[t].primary = entry[t].primary
            /\ remaining' = remaining - Cost(entry[t].primary)
         \/ /\ trim /\ entry[t].primary.size # 0
            /\ entry'[t].include
            /\ entry'[t].primary.start = entry[t].primary.start
            /\ entry'[t].primary.size >= Page
            /\ remaining' = 0
         \/ /\ UNCHANGED <<entry, remaining>>
            /\ trim /\ entry[t].primary.size # 0 => remaining <= Descriptor + Page
<1> DEFINE window == entry[t].primary
           size == AlignDown(remaining - Descriptor)
<1>1. /\ entry \in [Positions -> Entries] /\ remaining \in Nat
      /\ Descriptor \in Nat \ {0} /\ Page \in Nat \ {0}
      /\ window \in Ranges /\ window.size \in Nat
  BY UnitsAssumption DEF TypeOK, Entries, Ranges
<1>2. CASE /\ Fits(window)
           /\ entry' = [entry EXCEPT ![t].include = TRUE]
           /\ remaining' = remaining - Cost(window)
  BY <1>1, <1>2 DEF Fits, Entries
<1>3. CASE /\ trim /\ CanTrim(window)
           /\ entry' = [entry EXCEPT ![t].include = TRUE, ![t].primary = Trimmed(window, FALSE)]
           /\ remaining' = 0
  <2>1. /\ remaining - Descriptor \in Nat /\ remaining - Descriptor > Page
        /\ window.size # 0
    BY <1>1, <1>3, SMT DEF CanTrim
  <2>2. size \in Nat /\ remaining - Descriptor < size + Page
    BY <2>1, AlignDownBounds
  <2>3. size >= Page
    <3>1. \A a \in Nat, n \in Nat \ {0} :
            a \div n \in Int /\ a - (a % n) = n * (a \div n)
      BY SMT
    <3>2. \A n \in Nat \ {0}, q \in Int : n * q > 0 => n * q >= n
      BY SMT
    <3>3. PICK q \in Int : size = Page * q
      BY <1>1, <2>1, <3>1 DEF AlignDown
    <3>4. size > 0
      BY <1>1, <2>1, <2>2, SMT
    <3> QED BY <1>1, <3>2, <3>3, <3>4
  <2>4. /\ entry'[t].include
        /\ entry'[t].primary = [start |-> window.start, size |-> size]
    BY <1>1, <1>3 DEF Entries, Trimmed
  <2>5. /\ entry'[t].primary.start = window.start
        /\ entry'[t].primary.size = size
    BY <2>4
  <2> HIDE DEF size
  <2> QED BY <1>3, <2>1, <2>3, <2>4, <2>5
<1>4. CASE /\ ~Fits(window) /\ ~(trim /\ CanTrim(window))
           /\ UNCHANGED <<entry, remaining>>
  <2>1. trim /\ window.size # 0 => remaining <= Descriptor + Page
    BY <1>1, <1>4, SMT DEF Fits, CanTrim, Cost
  <2> QED BY <1>4, <2>1
<1> QED BY <1>2, <1>3, <1>4 DEF IncludePrimary

\* IncludeAuxStack keeps a high window whole, or spends the budget on a part of
\* it, or forgets it.
LEMMA IncludeAuxOutcome ==
  ASSUME TypeOK, NEW t \in Positions, IncludeAux(t)
  PROVE  \/ /\ UNCHANGED entry
            /\ entry[t].aux.size # 0 /\ remaining' = remaining - Cost(entry[t].aux)
         \/ remaining' = 0
         \/ entry'[t].aux.size = 0 /\ remaining' = remaining
<1>1. entry \in [Positions -> Entries]
  BY DEF TypeOK, Entries
<1>2. CASE entry' = [entry EXCEPT ![t].aux = NoRange] /\ UNCHANGED remaining
  BY <1>1, <1>2 DEF NoRange, Entries
<1> QED BY <1>2 DEF IncludeAux, Fits

-----------------------------------------------------------------------------
(***************************************************************************)
(* Each step keeps the invariant.                                          *)
(***************************************************************************)

\* What a step that admits nothing keeps.
LEMMA SettledKept ==
  ASSUME UNCHANGED inputs, UNCHANGED <<entry, remaining>>
  PROVE  /\ Budget' = Budget /\ TakenByException' = TakenByException
         /\ \A t \in Positions : KeptWhole(t)' <=> KeptWhole(t)
         /\ \A t \in Positions : Live(t)' <=> Live(t)
         /\ \A threads \in SUBSET Positions : NoneBut(threads)' <=> NoneBut(threads)
<1>1. /\ UNCHANGED <<stack, sp, exception, oldest, overflow, fixed, hardMax>>
      /\ \A t \in Positions : Windows(t)' = Windows(t)
  BY InputsFixed
<1> QED BY <1>1, Zenon DEF Budget, TakenByException, PrimaryKept, AuxKept, Cost, KeptWhole,
                           Live, End, NoneBut

\* Nothing is settled before the first admission.
LEMMA WindowsDoneOrdered ==
  ASSUME IInv, WindowsDone
  PROVE  Ordered'
<1>1. /\ remaining' = Budget /\ UNCHANGED inputs
      /\ pc' = IF exception # 0 THEN "exception" ELSE "main"
  BY DEF WindowsDone, Goto, Budget
<1>2. UNCHANGED exception /\ Budget' = Budget
  BY <1>1, InputsFixed DEF Budget
<1>3. Budget \in Int
  BY SizesAssumption, UnitsAssumption DEF IInv, TypeOK, Budget
<1>4. LeftTold'
  BY <1>1, <1>2, <1>3 DEF LeftTold, TakenByException
<1>5. ~AfterException' /\ ~AfterMain'
  BY <1>1, <1>2 DEF AfterException, AfterMain
<1> QED BY <1>4, <1>5 DEF Ordered, ExceptionFirst, MainNext, FrameHeld

\* A stack trimmed to a page or more still holds its frame.
LEMMA TrimHolds ==
  ASSUME NEW window \in Ranges, NEW part \in Ranges, NEW address \in Nat,
         part.start = window.start, part.size >= Page,
         window.start <= address, address < window.start + Page
  PROVE  Holds(part, address)
BY UnitsAssumption, SMT DEF Holds, End, Ranges

LEMMA ExceptionPrimaryOrdered ==
  ASSUME IInv, Ordered, ExceptionPrimary
  PROVE  Ordered'
<1>1. /\ TypeOK /\ Staged /\ Entered /\ pc = "exception" /\ UNCHANGED inputs
      /\ IncludePrimary(exception, ~RequireFull)
      /\ pc' = IF RequireFull /\ ~entry'[exception].include THEN "failed" ELSE "aux"
  BY DEF IInv, ExceptionPrimary, Goto
<1>2. PICK t \in Positions : t = exception
  BY <1>1 DEF Entered, TypeOK
<1>3. /\ UNCHANGED <<stack, sp, exception, oldest>> /\ Windows(t)' = Windows(t)
      /\ Budget' = Budget
  BY <1>1, InputsFixed DEF Budget
<1>4. /\ entry[t] = Windows(t) /\ ~entry[t].include
      /\ \A s \in Positions \ {t} : ~entry[s].include
  BY <1>1, <1>2, WindowsCut DEF Staged, Pending
<1>5. remaining = Budget
  BY <1>1 DEF Ordered, LeftTold
<1>6. /\ entry' \in [Positions -> Entries]
      /\ \A s \in Positions \ {t} : entry'[s] = entry[s]
  BY <1>1, <1>2, IncludePrimaryEffect
<1>7. \/ /\ entry[t].primary.size # 0
         /\ entry'[t].include /\ entry'[t].primary = entry[t].primary
         /\ remaining' = remaining - Cost(entry[t].primary)
      \/ /\ ~RequireFull /\ entry[t].primary.size # 0
         /\ entry'[t].include
         /\ entry'[t].primary.start = entry[t].primary.start
         /\ entry'[t].primary.size >= Page
         /\ remaining' = 0
      \/ /\ UNCHANGED <<entry, remaining>>
         /\ ~RequireFull /\ entry[t].primary.size # 0 => remaining <= Descriptor + Page
  BY <1>1, <1>2, IncludePrimaryOutcome
<1>8. CASE pc' = "failed"
  BY <1>8 DEF Ordered, LeftTold, ExceptionFirst, MainNext, FrameHeld, AfterException, AfterMain
<1>9. CASE pc' = "aux"
  <2>1. Budget \in Int
    BY SizesAssumption, UnitsAssumption DEF IInv, TypeOK, Budget
  <2>2. LeftTold'
    <3>1. remaining' = 0 \/ remaining' = Budget - (IF PrimaryKept(t)' THEN Cost(entry'[t].primary) ELSE 0)
      BY <1>4, <1>5, <1>7, <2>1 DEF PrimaryKept
    <3> QED BY <1>2, <1>3, <1>9, <3>1 DEF LeftTold, PrimaryKept, Cost
  <2>3. RequireFull => entry'[t].include
    BY <1>1, <1>2, <1>9
  <2>4. ExceptionFirst'
    <3> SUFFICES ASSUME Windows(t).primary.size # 0
                 PROVE  KeptWhole(t)' \/ Budget <= Descriptor + Page \/ NoneBut({t})'
      BY <1>2, <1>3, Zenon DEF ExceptionFirst
    <3>1. entry'[t].include /\ entry'[t].primary = Windows(t).primary => KeptWhole(t)'
      BY <1>3 DEF KeptWhole
    <3>2. remaining' = 0 => NoneBut({t})'
      BY <1>4, <1>6 DEF NoneBut
    <3> QED BY <1>4, <1>5, <1>7, <2>3, <3>1, <3>2
  <2>5. MainNext'
    BY <1>9 DEF MainNext, AfterMain
  <2>6. FrameHeld'
    <3> SUFFICES ASSUME Budget > Descriptor + Page, Live(t)
                 PROVE  entry'[t].include /\ Holds(entry'[t].primary, sp[t])
      BY <1>2, <1>3, Zenon DEF FrameHeld, Live, End
    <3>1. /\ Windows(t).primary.size # 0 /\ Holds(Windows(t).primary, sp[t])
          /\ ~WantedWhole(t) => sp[t] < Windows(t).primary.start + Page
      BY <1>1, WindowHoldsFrame
    <3>2. stack[t].size # 0
      BY <1>1, SMT DEF Live, End, TypeOK, Ranges
    <3>3. WantedWhole(t) => RequireFull
      BY <1>2, <3>2 DEF RequireFull
    <3>4. Budget > Descriptor + Page /\ Descriptor \in Nat /\ Page \in Nat
      BY UnitsAssumption
    <3>5. CASE entry'[t].include /\ entry'[t].primary = entry[t].primary
      BY <1>4, <3>1, <3>5
    <3>6. CASE /\ ~RequireFull /\ entry'[t].include
               /\ entry'[t].primary.start = entry[t].primary.start
               /\ entry'[t].primary.size >= Page
      <4>1. /\ Windows(t).primary \in Ranges /\ entry'[t].primary \in Ranges /\ sp[t] \in Nat
        BY <1>1, <1>6, WindowsCut DEF Entries, TypeOK
      <4>2. Windows(t).primary.start <= sp[t] /\ sp[t] < Windows(t).primary.start + Page
        BY <3>1, <3>3, <3>6 DEF Holds
      <4> QED BY <1>4, <3>6, <4>1, <4>2, TrimHolds
    <3>7. CASE /\ UNCHANGED <<entry, remaining>>
               /\ ~RequireFull /\ entry[t].primary.size # 0 => remaining <= Descriptor + Page
      BY <1>4, <1>5, <2>1, <2>3, <3>1, <3>4, <3>7, SMT
    <3> QED BY <1>7, <3>5, <3>6, <3>7
  <2> QED BY <2>2, <2>4, <2>5, <2>6 DEF Ordered
<1> QED BY <1>1, <1>8, <1>9

\* The high window takes from the budget alone.
LEMMA ExceptionAuxOrdered ==
  ASSUME IInv, Ordered, ExceptionAux
  PROVE  Ordered'
<1>1. /\ TypeOK /\ Staged /\ Entered /\ pc = "aux" /\ pc' = "main" /\ UNCHANGED inputs
      /\ IncludeAux(exception)
  BY DEF IInv, ExceptionAux, Goto
<1>2. PICK t \in Positions : t = exception
  BY <1>1 DEF Entered, TypeOK
<1>3. /\ UNCHANGED <<stack, sp, exception, oldest>> /\ Windows(t)' = Windows(t)
      /\ Budget' = Budget
  BY <1>1, InputsFixed DEF Budget
<1>4. /\ entry' \in [Positions -> Entries]
      /\ remaining' \in Nat /\ remaining' <= remaining
      /\ \A s \in Positions \ {t} : entry'[s] = entry[s]
      /\ entry'[t].primary = entry[t].primary
      /\ entry'[t].include = entry[t].include
  BY <1>1, <1>2, IncludeAuxEffect
<1>5. \/ /\ UNCHANGED entry
         /\ entry[t].aux.size # 0 /\ remaining' = remaining - Cost(entry[t].aux)
      \/ remaining' = 0
      \/ entry'[t].aux.size = 0 /\ remaining' = remaining
  BY <1>1, <1>2, IncludeAuxOutcome
<1>6. remaining \in Nat /\ Budget \in Int
  BY <1>1, SizesAssumption, UnitsAssumption DEF TypeOK, Budget
<1>7. remaining = 0 => remaining' = 0
  BY <1>4, <1>6
<1>8. LeftTold'
  <2> DEFINE p == IF PrimaryKept(t) THEN Cost(entry[t].primary) ELSE 0
             a == IF AuxKept(t)' THEN Cost(entry'[t].aux) ELSE 0
  <2>1. TakenByException' = p + a
    BY <1>2, <1>3, <1>4 DEF TakenByException, PrimaryKept, AuxKept, Cost, Positions
  <2>2. p \in Nat /\ a \in Nat
    <3>1. /\ entry[t].primary.size \in Nat /\ entry'[t].aux.size \in Nat /\ Descriptor \in Nat
      BY <1>1, <1>4, UnitsAssumption DEF TypeOK, Entries, Ranges
    <3> QED BY <3>1 DEF Cost
  <2>3. remaining = 0 \/ remaining = Budget - p
    BY <1>1, <1>2 DEF Ordered, LeftTold
  <2>4. remaining' = 0 \/ remaining' = remaining - a
    <3>1. CASE UNCHANGED entry /\ entry[t].aux.size # 0 /\ remaining' = remaining - Cost(entry[t].aux)
      BY <3>1 DEF AuxKept, Cost
    <3>2. CASE entry'[t].aux.size = 0 /\ remaining' = remaining
      BY <1>6, <3>2 DEF AuxKept
    <3> QED BY <1>5, <3>1, <3>2
  <2> HIDE DEF p, a
  <2>5. remaining' = 0 \/ remaining' = Budget - (p + a)
    BY <1>6, <1>7, <2>2, <2>3, <2>4, SMT
  <2> QED BY <1>1, <1>3, <2>1, <2>5 DEF LeftTold
<1>9. ExceptionFirst'
  <2>1. KeptWhole(t) => KeptWhole(t)'
    BY <1>3, <1>4 DEF KeptWhole
  <2>2. NoneBut({t}) => NoneBut({t})'
    BY <1>4, <1>7 DEF NoneBut
  <2>3. Windows(t).primary.size # 0 => KeptWhole(t) \/ Budget <= Descriptor + Page \/ NoneBut({t})
    BY <1>1, <1>2 DEF Ordered, ExceptionFirst, AfterException, Positions
  <2> QED BY <1>2, <1>3, <2>1, <2>2, <2>3, Zenon DEF ExceptionFirst
<1>10. MainNext'
  BY <1>1 DEF MainNext, AfterMain
<1>11. FrameHeld'
  <2>1. Budget > Descriptor + Page /\ Live(t) => entry[t].include /\ Holds(entry[t].primary, sp[t])
    BY <1>1, <1>2 DEF Ordered, FrameHeld, AfterException, Positions
  <2> QED BY <1>2, <1>3, <1>4, <2>1, Zenon DEF FrameHeld, Live, End
<1> QED BY <1>8, <1>9, <1>10, <1>11 DEF Ordered

\* Once the exception thread is settled, admitting another one changes nothing
\* for it.
LEMMA ExceptionSettled ==
  ASSUME TypeOK, UNCHANGED inputs, AfterException,
         NEW t \in Positions, t # exception, remaining = 0 => ~entry'[t].include,
         \A s \in Positions \ {t} : entry'[s] = entry[s],
         remaining' \in Nat, remaining' <= remaining, ExceptionFirst, FrameHeld
  PROVE  ExceptionFirst' /\ FrameHeld' /\ TakenByException' = TakenByException
<1>1. PICK x \in Positions : x = exception /\ x # t
  BY DEF AfterException, TypeOK
<1>2. /\ UNCHANGED <<stack, sp, exception, oldest>> /\ Windows(x)' = Windows(x)
      /\ Budget' = Budget /\ entry'[x] = entry[x]
  BY <1>1, InputsFixed DEF Budget
<1>3. remaining = 0 => remaining' = 0
  BY DEF TypeOK
<1>4. TakenByException' = TakenByException
  BY <1>1, <1>2 DEF TakenByException, PrimaryKept, AuxKept, Cost
<1>5. KeptWhole(x) => KeptWhole(x)'
  BY <1>2 DEF KeptWhole
<1>6. NoneBut({x}) => NoneBut({x})'
  BY <1>3 DEF NoneBut
<1>7. ExceptionFirst'
  BY <1>1, <1>2, <1>5, <1>6, Zenon DEF ExceptionFirst
<1>8. FrameHeld'
  BY <1>1, <1>2, Zenon DEF FrameHeld, Live, End
<1> QED BY <1>4, <1>7, <1>8

LEMMA MainPrimaryOrdered ==
  ASSUME IInv, Ordered, MainPrimary
  PROVE  Ordered'
<1>1. /\ TypeOK /\ Staged /\ pc = "main" /\ pc' = "others" /\ UNCHANGED inputs
      /\ oldest \in Positions
  BY DEF IInv, TypeOK, MainPrimary, Goto
<1>2. UNCHANGED <<exception, oldest>> /\ Windows(oldest)' = Windows(oldest) /\ Budget' = Budget
  BY <1>1, InputsFixed DEF Budget
<1>3. LeftTold'
  BY <1>1 DEF LeftTold
<1>4. CASE oldest = exception
  <2>1. UNCHANGED <<entry, remaining>>
    BY <1>4 DEF MainPrimary
  <2>2. ExceptionFirst' /\ FrameHeld'
    <3>1. /\ \A t \in Positions : Windows(t)' = Windows(t)
          /\ UNCHANGED sp
      BY <1>1, InputsFixed
    <3>2. AfterException /\ exception \in Positions
      BY <1>1, <1>4, SizesAssumption DEF AfterException, Positions
    <3>3. {exception} \in SUBSET Positions
      BY <3>2
    <3>4. ExceptionFirst /\ FrameHeld
      BY DEF Ordered
    <3> QED BY <1>1, <1>2, <2>1, <3>1, <3>2, <3>3, <3>4, SettledKept, Zenon DEF ExceptionFirst, FrameHeld
  <2>3. MainNext'
    BY <1>2, <1>4 DEF MainNext, AfterMain
  <2> QED BY <1>3, <2>2, <2>3 DEF Ordered
<1>5. CASE oldest # exception
  <2>1. IncludePrimary(oldest, TRUE)
    BY <1>5 DEF MainPrimary
  <2>2. /\ entry' \in [Positions -> Entries]
        /\ remaining' \in Nat /\ remaining' <= remaining
        /\ \A s \in Positions \ {oldest} : entry'[s] = entry[s]
    BY <1>1, <2>1, IncludePrimaryEffect
  <2>3. /\ entry[oldest] = Windows(oldest) /\ ~entry[oldest].include
        /\ \A s \in Positions \ {exception, oldest} : ~entry[s].include
    BY <1>1, <1>5, WindowsCut DEF Staged, Pending
  <2>4. \/ /\ entry[oldest].primary.size # 0
           /\ entry'[oldest].include /\ entry'[oldest].primary = entry[oldest].primary
           /\ remaining' = remaining - Cost(entry[oldest].primary)
        \/ /\ entry'[oldest].include /\ remaining' = 0
        \/ /\ UNCHANGED <<entry, remaining>>
           /\ entry[oldest].primary.size # 0 => remaining <= Descriptor + Page
    BY <1>1, <2>1, IncludePrimaryOutcome
  <2>5. remaining = 0 => ~entry'[oldest].include
    <3> SUFFICES ASSUME remaining = 0 PROVE ~entry'[oldest].include
      OBVIOUS
    <3>1. UNCHANGED entry
      <4>1. ~Fits(entry[oldest].primary) /\ ~CanTrim(entry[oldest].primary)
        BY <1>1, UnitsAssumption, SMT DEF Fits, CanTrim, Cost, TypeOK, Ranges
      <4> QED BY <2>1, <4>1 DEF IncludePrimary
    <3> QED BY <2>3, <3>1
  <2>6. ExceptionFirst' /\ FrameHeld' /\ TakenByException' = TakenByException
    <3>1. CASE exception = 0
      BY <1>2, <3>1 DEF ExceptionFirst, FrameHeld, AfterException, TakenByException
    <3>2. CASE exception # 0
      <4>1. AfterException /\ ExceptionFirst /\ FrameHeld
        BY <1>1, <3>2 DEF AfterException, Ordered
      <4> QED BY <1>1, <1>5, <2>2, <2>5, <4>1, ExceptionSettled
    <3> QED BY <3>1, <3>2
  <2>7. MainNext'
    <3> SUFFICES ASSUME Windows(oldest).primary.size # 0
                 PROVE  \/ KeptWhole(oldest)'
                        \/ Budget - TakenByException <= Descriptor + Page
                        \/ NoneBut({exception, oldest})'
      BY <1>2, <2>6, Zenon DEF MainNext
    <3>1. remaining = 0 \/ remaining = Budget - TakenByException
      BY <1>1 DEF Ordered, LeftTold
    <3>2. entry'[oldest].include /\ entry'[oldest].primary = Windows(oldest).primary => KeptWhole(oldest)'
      BY <1>2 DEF KeptWhole
    <3>3. remaining' = 0 => NoneBut({exception, oldest})'
      BY <1>2, <2>2, <2>3 DEF NoneBut
    <3>4. remaining = 0 => remaining' = 0
      BY <1>1, <2>2 DEF TypeOK
    <3> QED BY <2>3, <2>4, <3>1, <3>2, <3>3, <3>4
  <2> QED BY <1>3, <2>6, <2>7 DEF Ordered
<1> QED BY <1>4, <1>5

\* A step that admits nothing after the main thread keeps everything.
LEMMA IdleOrdered ==
  ASSUME IInv, Ordered, UNCHANGED inputs, UNCHANGED <<entry, remaining>>,
         \/ pc' = pc
         \/ pc \in {"others", "count"} /\ pc' \in {"count", "done"}
  PROVE  Ordered'
<1>1. /\ UNCHANGED <<stack, sp, exception, oldest>>
      /\ \A t \in Positions : Windows(t)' = Windows(t)
      /\ oldest \in Positions /\ exception \in {0} \cup Positions
  BY InputsFixed DEF IInv, TypeOK
<1>2. AfterException' => AfterException /\ exception \in Positions
  BY <1>1 DEF AfterException
<1>3. AfterMain' => AfterMain
  BY <1>1 DEF AfterMain
<1>4. /\ Budget' = Budget /\ TakenByException' = TakenByException
      /\ \A t \in Positions : KeptWhole(t)' <=> KeptWhole(t)
      /\ \A t \in Positions : Live(t)' <=> Live(t)
  BY SettledKept
<1>5. LeftTold'
  BY <1>1, <1>4 DEF Ordered, LeftTold, PrimaryKept, Cost
<1>6. ExceptionFirst'
  <2>1. NoneBut({exception}) => NoneBut({exception})'
    BY <1>1 DEF NoneBut
  <2> QED BY <1>1, <1>2, <1>4, <2>1, Zenon DEF Ordered, ExceptionFirst
<1>7. MainNext'
  <2>1. NoneBut({exception, oldest}) => NoneBut({exception, oldest})'
    BY <1>1 DEF NoneBut
  <2> QED BY <1>1, <1>3, <1>4, <2>1, Zenon DEF Ordered, MainNext
<1>8. FrameHeld'
  BY <1>1, <1>2, <1>4, Zenon DEF Ordered, FrameHeld
<1> QED BY <1>5, <1>6, <1>7, <1>8 DEF Ordered

\* The others are admitted only while there is something left, and take nothing
\* from those before them.
LEMMA OtherPrimaryOrdered ==
  ASSUME IInv, Ordered, OtherPrimary
  PROVE  Ordered'
<1>1. /\ TypeOK /\ pc = "others" /\ pc' = "others" /\ UNCHANGED inputs
      /\ idx \in Positions /\ oldest \in Positions
      /\ remaining \in Nat /\ remaining > Descriptor
  BY DEF IInv, TypeOK, OtherPrimary, Positions
<1>2. UNCHANGED <<exception, oldest>> /\ Windows(oldest)' = Windows(oldest) /\ Budget' = Budget
  BY <1>1, InputsFixed DEF Budget
<1>3. CASE idx \in {exception, oldest}
  <2>1. UNCHANGED <<entry, remaining>>
    BY <1>3 DEF OtherPrimary
  <2> QED BY <1>1, <2>1, IdleOrdered
<1>4. CASE idx \notin {exception, oldest}
  <2>1. IncludePrimary(idx, FALSE)
    BY <1>4 DEF OtherPrimary
  <2>2. /\ remaining' \in Nat /\ remaining' <= remaining
        /\ \A s \in Positions \ {idx} : entry'[s] = entry[s]
    BY <1>1, <2>1, IncludePrimaryEffect
  <2>3. remaining # 0
    BY <1>1, UnitsAssumption, SMT
  <2>4. ExceptionFirst' /\ FrameHeld' /\ TakenByException' = TakenByException
    <3>1. CASE exception = 0
      BY <1>2, <3>1 DEF ExceptionFirst, FrameHeld, AfterException, TakenByException
    <3>2. CASE exception # 0
      <4>1. AfterException /\ ExceptionFirst /\ FrameHeld
        BY <1>1, <3>2 DEF AfterException, Ordered
      <4> QED BY <1>1, <1>4, <2>2, <2>3, <4>1, ExceptionSettled
    <3> QED BY <3>1, <3>2
  <2>5. MainNext'
    <3>1. KeptWhole(oldest) => KeptWhole(oldest)'
      BY <1>1, <1>2, <1>4, <2>2 DEF KeptWhole
    <3>2. ~NoneBut({exception, oldest})
      BY <2>3 DEF NoneBut
    <3>3. AfterMain' => AfterMain
      BY <1>1, <1>2 DEF AfterMain
    <3> QED BY <1>2, <2>4, <3>1, <3>2, <3>3, Zenon DEF Ordered, MainNext
  <2>6. LeftTold'
    BY <1>1 DEF LeftTold
  <2> QED BY <2>4, <2>5, <2>6 DEF Ordered
<1> QED BY <1>3, <1>4

LEMMA NextOrdered == IInv /\ Ordered /\ [Next]_vars => Ordered'
<1> SUFFICES ASSUME IInv, Ordered, [Next]_vars PROVE Ordered'
  OBVIOUS
<1>1. CASE Refuse \/ Enter \/ CutWindow
  <2>1. pc' \in {"failed", "window"}
    BY <1>1 DEF Refuse, Enter, CutWindow, Goto
  <2> QED BY <2>1 DEF Ordered, LeftTold, ExceptionFirst, MainNext, FrameHeld, AfterException, AfterMain
<1>2. CASE WindowsDone
  BY <1>2, WindowsDoneOrdered
<1>3. CASE ExceptionPrimary
  BY <1>3, ExceptionPrimaryOrdered
<1>4. CASE ExceptionAux
  BY <1>4, ExceptionAuxOrdered
<1>5. CASE MainPrimary
  BY <1>5, MainPrimaryOrdered
<1>6. CASE OtherPrimary
  BY <1>6, OtherPrimaryOrdered
<1>7. CASE OthersDone \/ Count \/ CountDone \/ UNCHANGED vars
  <2>1. /\ UNCHANGED inputs /\ UNCHANGED <<entry, remaining>>
        /\ pc' = pc \/ (pc \in {"others", "count"} /\ pc' \in {"count", "done"})
    BY <1>7 DEF OthersDone, Count, CountDone, Goto, vars
  <2> QED BY <2>1, IdleOrdered
<1> QED BY <1>1, <1>2, <1>3, <1>4, <1>5, <1>6, <1>7 DEF Next

LEMMA InitOrdered == Init => Ordered
BY DEF Init, Ordered, LeftTold, ExceptionFirst, MainNext, FrameHeld, AfterException, AfterMain

LEMMA OrderedAlways == Spec => []Ordered
<1> QED BY InitOrdered, NextOrdered, Invariance, PTL DEF Spec

-----------------------------------------------------------------------------
(***************************************************************************)
(* Theorems.                                                               *)
(***************************************************************************)

\* If more than a page of stack can be kept at all, the frame that crashed is in
\* the dump, whatever else competes for the budget (ClipStackWindow,
\* IncludePrimaryStack).
THEOREM KeepsCrashFrame == Spec => []CrashFrameKept
<1>1. IInv /\ Ordered => CrashFrameKept
  <2> SUFFICES ASSUME TypeOK, Ordered, pc = "done", exception # 0,
                      Budget > Descriptor + Page, Live(exception)
               PROVE  /\ PrimaryKept(exception)
                      /\ entry[exception].primary.start <= sp[exception]
                      /\ sp[exception] < End(entry[exception].primary)
    BY Zenon DEF CrashFrameKept, IInv, Live
  <2>1. entry[exception].include /\ Holds(entry[exception].primary, sp[exception])
    BY DEF Ordered, FrameHeld, AfterException
  <2>2. /\ entry[exception].primary \in Ranges /\ sp[exception] \in Nat
    BY DEF TypeOK
  <2> QED BY <2>1, <2>2, SMT DEF Holds, PrimaryKept, End, Ranges
<1> QED BY <1>1, Invariance, OrderedAlways, PTL

\* A stack is kept only if those that go before it are kept whole, or could not
\* have had a page (ApplyThreadStackCapturePolicy).
THEOREM RespectsPriority == Spec => []PriorityRespected
<1>1. IInv /\ Ordered => PriorityRespected
  <2> SUFFICES ASSUME TypeOK, Ordered, pc = "done",
                      NEW t \in Positions, PrimaryKept(t),
                      NEW p \in ({exception} \cup (IF t = exception THEN {} ELSE {oldest})) \ {0, t},
                      Windows(p).primary.size # 0
               PROVE  KeptWhole(p) \/ LeftFor(p) <= Descriptor + Page
    BY Zenon DEF PriorityRespected, IInv
  <2>1. entry[t].include
    BY DEF PrimaryKept
  <2>2. CASE p = exception
    <3>1. AfterException
      BY <2>2 DEF AfterException
    <3>2. KeptWhole(p) \/ Budget <= Descriptor + Page \/ NoneBut({exception})
      BY <2>2, <3>1 DEF Ordered, ExceptionFirst
    <3>3. ~NoneBut({exception})
      BY <2>1, <2>2 DEF NoneBut
    <3> QED BY <2>2, <3>2, <3>3 DEF LeftFor
  <2>3. CASE p # exception
    <3>1. p = oldest /\ t \notin {exception, oldest}
      BY <2>3
    <3>2. AfterMain
      BY <2>3, <3>1 DEF AfterMain
    <3>3. ~NoneBut({exception, oldest})
      BY <2>1, <3>1 DEF NoneBut
    <3> QED BY <2>3, <3>1, <3>2, <3>3 DEF Ordered, MainNext, LeftFor
  <2> QED BY <2>2, <2>3
<1> QED BY <1>1, Invariance, OrderedAlways, PTL
=============================================================================
