---------------------------- MODULE MCIndirectScan ----------------------------
(***************************************************************************)
(* IndirectScan for TLC: pages of four words, two threads, a heap of four  *)
(* pages.  A pointer to the last word of a page straddles.                 *)
(***************************************************************************)
EXTENDS IndirectScan

Range(start, size) == [start |-> start, size |-> size]

Region(start, size, dumpable, image, writable) ==
  [start |-> start, size |-> size, dumpable |-> dumpable, image |-> image,
   writable |-> writable]

\* Two stacks, the PEB and the parameters, a module's code and its data, a heap
\* of three pages and one of one, another module's data, reserved addresses;
\* nothing is mapped from 48 on.
MCRegions ==
  <<Region(4, 8, TRUE, FALSE, TRUE), Region(12, 4, TRUE, FALSE, TRUE),
    Region(16, 4, TRUE, TRUE, FALSE), Region(20, 4, TRUE, TRUE, TRUE),
    Region(24, 12, TRUE, FALSE, TRUE), Region(36, 4, TRUE, FALSE, TRUE),
    Region(40, 4, TRUE, TRUE, TRUE), Region(44, 4, FALSE, FALSE, FALSE)>>

\* What the words of each page may refer to.
CrashStacks == {<<24, 0, 0, 0>>, <<0, 27, 28, 0>>, <<19, 0, 36, 0>>, <<32, 0, 0, 47>>}
OtherStacks == {<<36, 0, 0, 0>>, <<0, 32, 40, 0>>, <<0, 0, 27, 0>>}
Heap1 == {<<0, 0, 0, 0>>, <<28, 12, 0, 0>>, <<30, 32, 36, 0>>, <<35, 0, 28, 0>>, <<4, 36, 0, 40>>}
Heap2 == {<<32, 0, 0, 0>>, <<36, 32, 0, 0>>, <<24, 0, 0, 35>>}
Heap3 == {<<8, 19, 39, 0>>, <<12, 27, 0, 0>>, <<40, 36, 0, 0>>}
Heap4 == {<<0, 0, 0, 0>>, <<20, 40, 28, 0>>}

Words(crash, other, h1, h2, h3, h4) ==
  [a \in 4 .. 11 \cup 24 .. 39 |->
     LET page == CASE a \in 4 .. 7   -> crash [] a \in 8 .. 11  -> other
                   [] a \in 24 .. 27 -> h1    [] a \in 28 .. 31 -> h2
                   [] a \in 32 .. 35 -> h3    [] OTHER          -> h4
     IN  page[(a % 4) + 1]]

MCMemories ==
  {Words(crash, other, h1, h2, h3, h4) :
     crash \in CrashStacks, other \in OtherStacks,
     h1 \in Heap1, h2 \in Heap2, h3 \in Heap3, h4 \in Heap4}

Thread(context, registers, sp, include, stack, aux, teb) ==
  [context |-> context, registers |-> registers, sp |-> sp, include |-> include,
   stack |-> stack, aux |-> aux, teb |-> teb]

Other == Thread(TRUE, <<24>>, 8, TRUE, Range(8, 4), NoRange, Range(44, 2))

\* A live crash thread with a register; one whose stack was cut in two; one
\* without a context, and another thread without one or its stack; no crash
\* thread at all.
Plans ==
  {[threads |-> <<Thread(TRUE, <<32>>, 6, TRUE, Range(4, 4), NoRange, Range(12, 2)), Other>>,
    preferred |-> 1],
   [threads |-> <<Other, Thread(TRUE, <<>>, 4, TRUE, Range(4, 2), Range(6, 2), Range(14, 8))>>,
    preferred |-> 2],
   [threads |-> <<Thread(FALSE, <<>>, 0, TRUE, Range(4, 4), NoRange, NoRange),
                  [Other EXCEPT !.context = FALSE, !.include = FALSE]>>,
    preferred |-> 1],
   [threads |-> <<Other>>, preferred |-> 0]}

World(plan, cap, withProc, withData) ==
  [regions |-> MCRegions, threads |-> plan.threads,
   preferred |-> plan.preferred, peb |-> Range(12, 2), params |-> Range(14, 1),
   paramsReadable |-> withProc, environment |-> Range(13, 3),
   strings |-> <<Range(11, 1), Range(33, 1)>>,
   admitProc |-> withProc, admitData |-> withData, cap |-> cap]

\* Page caps that stop the scan early, late and not at all, or rule it out, with
\* and without process data and data segments in front of it.
MCWorlds ==
  UNION {{World(plan, 2, TRUE, TRUE), World(plan, 4, TRUE, FALSE),
          World(plan, 6, FALSE, TRUE), World(plan, 0, FALSE, FALSE)} :
           plan \in Plans}

\* The tables are empty, or an earlier dump left something in each of them.
MCLeftovers ==
  {[known |-> <<>>, found |-> [pages |-> <<>>, visited |-> {}, cache |-> NoRegion]],
   [known |-> <<Range(28, 4)>>,
    found |-> [pages |-> <<[page |-> 32, layer |-> 1]>>, visited |-> {32, 36},
               cache |-> Region(44, 8, TRUE, FALSE, TRUE)]]}
=============================================================================
