----------------------------- MODULE MCDumpLayout -----------------------------
(***************************************************************************)
(* DumpLayout for TLC: small streams, two threads, a 6-bit cursor.         *)
(***************************************************************************)
EXTENDS DumpLayout

MCSizeOf ==
  [s \in Streams \ {"MemoryList"} |->
     CASE s \in {"ModuleList", "ThreadContexts", "ThreadInfo"} -> 2
       [] OTHER -> 1]

MCWantedSets ==
  {{}, {"Exception", "CommentW"}, {"ThreadInfo", "MemoryInfo"}, Optional}

Stack(primary, aux) == [primary |-> primary, aux |-> aux]

\* Nothing kept, a trimmed stack alone, a high window without a live one, both
\* windows, and two whole stacks.
MCStackShapes ==
  {<<Stack(0, 0), Stack(0, 0)>>, <<Stack(0, 0), Stack(4, 0)>>, <<Stack(0, 2), Stack(0, 0)>>,
   <<Stack(4, 2), Stack(2, 0)>>, <<Stack(8, 0), Stack(6, 0)>>}

MCProcLists == {<<>>, <<1, 3>>}
MCDataLists == {<<>>, <<8>>, <<4, 20>>}
MCFullLists == {<<5>>, <<20, 30>>}
MCUserArrays == {<<>>, <<3>>, <<30, 3>>, <<3, 0, 5, 3>>}
=============================================================================
