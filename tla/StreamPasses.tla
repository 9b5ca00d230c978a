------------------------------ MODULE StreamPasses ------------------------------
(***************************************************************************)
(* The streams that a dump measures first and writes later, beside the     *)
(* threads that go on in between: the text of CommentStreamW, whose size   *)
(* is taken before the other threads are suspended, and the lists that are *)
(* counted once and walked again for each part that is written.  A thread  *)
(* that could not be suspended may change a list between two walks; those  *)
(* that set comments are all suspended.                                    *)
(*                                                                         *)
(* The file is the sequence of the extents that were written, the last one *)
(* on top.  Its offsets begin with CommentStreamW.  Streams that are       *)
(* written from the frozen plan alone, and the memory, are one extent.     *)
(***************************************************************************)
EXTENDS CommentBuffer, ListWalks

CONSTANTS
  Worlds,         \* what is called, and the lists before and after they change
  ThreadListSize, \* of ThreadListStream
  RestSize        \* of all that lies behind the MemoryInfoList

ASSUME WorldsAssumption ==
  /\ {ThreadListSize, RestSize} \subseteq Nat
  /\ Worlds \subseteq [calls : [Setters -> Seq(Requests)], lists : ListStates, later : ListStates,
                     names : Seq(Nat), dump : BOOLEAN]

VARIABLES
  world,     \* the one this is
  lists,     \* the modules, the ring and the regions, as they are now
  disturbed, \* which of them changed since they were counted
  stage,     \* what the dump does next
  measured,  \* what the first walks found
  tables,    \* the offsets that descriptors were given
  cursor,    \* offsets kept between the walks of the module list
  comment,   \* what became of CommentStreamW
  file       \* the extents written

listVars == <<lists, disturbed>>
written == <<tables, cursor, comment, file>>
dumpVars == <<world, listVars, stage, measured, written>>
vars == <<setterVars, frozen, dumpVars>>

\* The lists, with the step that walks each of them for the last time.
LastWalk == [modules |-> "ModuleRecords", ring |-> "UnloadedNames", regions |-> "MemoryInfo"]
Lists == DOMAIN LastWalk

\* The streams in the order of the file.
Physical ==
  <<"CommentW", "ModuleList", "UnloadedModules", "ThreadList", "ThreadNames", "MemoryInfo", "Rest">>

Nothing == [comment |-> 0, text |-> <<>>, modules |-> [count |-> 0, names |-> 0, records |-> 0],
            unloaded |-> [count |-> 0, names |-> 0], regions |-> 0, names |-> <<>>]

Init ==
  /\ CommentInit
  /\ world \in Worlds
  /\ world.dump => mutex.exists
  /\ calls = world.calls
  /\ lists = world.lists
  /\ disturbed = {}
  /\ stage = "measure"
  /\ measured = Nothing
  /\ tables = [modules |-> <<>>, unloaded |-> <<>>, names |-> <<>>]
  /\ cursor = [base |-> 0, stringEnd |-> 0, position |-> 0]
  /\ comment = [result |-> "none", text |-> <<>>, size |-> 0]
  /\ file = <<>>

Stages ==
  <<"measure", "freeze", "count", "CommentW", "CodeViewBase", "ModuleDescriptors", "ModuleNames",
    "ModuleRecords", "UnloadedEntries", "UnloadedNames", "ThreadList", "ThreadNames", "MemoryInfo",
    "Rest", "resume", "done">>

\* Has the dump gone past this step?
Past(step) ==
  SelectInSeq(Stages, LAMBDA s : s = stage) > SelectInSeq(Stages, LAMBDA s : s = step)

\* The dump goes on.
Step(from, to) == stage = from /\ stage' = to /\ UNCHANGED <<setterVars, world>>

-----------------------------------------------------------------------------
(***************************************************************************)
(* Measure, freeze, count.                                                 *)
(***************************************************************************)

\* Where a text ends that somebody is in the middle of moving.
LooseEnds == {whole, TextLength(text), kCommentBufferWChars - 1}

\* CommentStreamWBytes, for a text of so many WCHARs.
CommentStreamWBytes(length) == IF length = 0 THEN 0 ELSE Up((length + 1) * WCHARSize)

MeasureComment ==
  /\ world.dump
  /\ Step("measure", "freeze")
  /\ \E length \in IF whole = Whole THEN {TextLength(text)} ELSE LooseEnds :
       measured' = [measured EXCEPT !.comment = CommentStreamWBytes(length),
                                    !.text = IF whole = Whole THEN text ELSE <<>>]
  /\ UNCHANGED <<frozen, listVars, written>>

\* The plan is built and the other threads are suspended; it holds their names.
Freeze ==
  /\ Step("freeze", "count")
  /\ frozen' = Setters \ Dead
  /\ measured' = [measured EXCEPT
       !.names = [i \in DOMAIN world.names |-> CaptureThreadName(world.names[i])]]
  /\ UNCHANGED <<listVars, written>>

Count ==
  /\ Step("count", "CommentW")
  /\ measured' = [measured EXCEPT
       !.modules  = CountModules(lists.modules),
       !.unloaded = CountUnloadedModules(lists.ring),
       !.regions  = MemoryInfoRanges(lists.regions)]
  /\ UNCHANGED <<frozen, listVars, written>>

Storage(stream) ==
  LET modules == measured.modules
      unloaded == measured.unloaded
      names == ThreadNames(measured.names)
  IN  CASE stream = "CommentW"        -> measured.comment
        [] stream = "ModuleList"      ->
             ULONG32Size + modules.count * ModuleSize + modules.names + modules.records
        [] stream = "UnloadedModules" ->
             IF unloaded.count = 0 THEN 0
             ELSE UnloadedHeader + unloaded.count * UnloadedSize + unloaded.names
        [] stream = "ThreadList"      -> ThreadListSize
        [] stream = "ThreadNames"     ->
             IF names = <<>> THEN 0
             ELSE NamesHeader + Len(names) * NameSize + SumOf(ThreadNameStorage, names)
        [] stream = "MemoryInfo"      -> InfoHeader + measured.regions * InfoSize
        [] stream = "Rest"            -> RestSize

Place(stream) == SelectInSeq(Physical, LAMBDA s : s = stream)
Rva(stream) == Total([i \in 1 .. Place(stream) - 1 |-> Storage(Physical[i])])

-----------------------------------------------------------------------------
(***************************************************************************)
(* Write.                                                                  *)
(***************************************************************************)

Extents(stream, part, at, sizes) ==
  [i \in DOMAIN sizes |->
     [stream |-> stream, part |-> part, i |-> i,
      at |-> at + Total(First(sizes, i - 1)), size |-> sizes[i]]]

\* Some pieces are written from an offset on.
Write(stream, part, at, sizes) == file' = file \o Extents(stream, part, at, sizes)

\* A stream that is one extent.
WriteWhole(stream, from, to) ==
  /\ Step(from, to)
  /\ Write(stream, "whole", Rva(stream), <<Storage(stream)>>)
  /\ UNCHANGED <<frozen, listVars, measured, tables, cursor, comment>>

\* WriteCommentStreamW: a text that fails its check is skipped, one that is
\* longer than it was is cut, with no NUL.
WriteCommentW ==
  /\ Step("CommentW", "CodeViewBase")
  /\ IF measured.comment = 0 THEN UNCHANGED <<comment, file>>
     ELSE \E intact \in Verdicts :
            \E length \in IF whole = Whole THEN {TextLength(text)} ELSE LooseEnds :
              LET content == Smaller((length + 1) * WCHARSize, measured.comment)
              IN  IF ~intact
                  THEN comment' = [comment EXCEPT !.result = "skipped"] /\ UNCHANGED file
                  ELSE /\ comment' = [result |-> "written", size |-> content,
                                      text |-> Leading(text, Smaller(content \div WCHARSize, whole))]
                       /\ Write("CommentW", "text", Rva("CommentW"),
                                <<content, measured.comment - content>>)
  /\ UNCHANGED <<frozen, listVars, measured, tables, cursor>>

ModuleCount == measured.modules.count

\* The count is written.  Without a list that can be read that is all.
ComputeCodeViewBase ==
  /\ Step("CodeViewBase", IF lists.modules.first = Lost THEN "UnloadedEntries" ELSE "ModuleDescriptors")
  /\ cursor' = [cursor EXCEPT !.base = CodeViewBase(lists.modules, Rva("ModuleList"), ModuleCount)]
  /\ Write("ModuleList", "count", Rva("ModuleList"), <<ULONG32Size>>)
  /\ UNCHANGED <<frozen, listVars, measured, tables, comment>>

WriteModuleDescriptors ==
  /\ Step("ModuleDescriptors", "ModuleNames")
  /\ LET rva == Rva("ModuleList")
     IN  /\ tables' = [tables EXCEPT !.modules =
              ModuleDescriptors(lists.modules, rva, ModuleCount, cursor.base)]
         /\ cursor' = [cursor EXCEPT !.stringEnd = CodeViewBase(lists.modules, rva, ModuleCount)]
         /\ Write("ModuleList", "descriptors", rva + ULONG32Size, <<ModuleCount * ModuleSize>>)
  /\ UNCHANGED <<frozen, listVars, measured, comment>>

\* The names are written behind the descriptors, or zeros for them when the list
\* cannot be read any more, and nothing else then.
WriteModuleNames ==
  /\ LET lost == lists.modules.first = Lost
         at == StringRva(Rva("ModuleList"), ModuleCount)
         sizes == IF lost THEN <<cursor.stringEnd - at>> ELSE ModuleStrings(lists.modules, ModuleCount)
     IN  /\ Step("ModuleNames", IF lost THEN "UnloadedEntries" ELSE "ModuleRecords")
         /\ Write("ModuleList", IF lost THEN "zeros" ELSE "name", at, sizes)
         /\ cursor' = [cursor EXCEPT !.position = at + Total(sizes)]
  /\ UNCHANGED <<frozen, listVars, measured, tables, comment>>

\* The records are written where the names ended.
WriteModuleRecords ==
  /\ Step("ModuleRecords", "UnloadedEntries")
  /\ IF lists.modules.first = Lost THEN UNCHANGED file
     ELSE Write("ModuleList", "record", cursor.position, ModuleRecords(lists.modules, ModuleCount))
  /\ UNCHANGED <<frozen, listVars, measured, tables, cursor, comment>>

UnloadedCount == measured.unloaded.count

\* The header and the entries of WriteUnloadedModuleList.
WriteUnloadedEntries ==
  /\ Step("UnloadedEntries", IF UnloadedCount = 0 THEN "ThreadList" ELSE "UnloadedNames")
  /\ IF UnloadedCount = 0 THEN UNCHANGED <<tables, file>>
     ELSE LET walked == UnloadedWalk(lists.ring, UnloadedCount)
              rva == Rva("UnloadedModules")
          IN  /\ tables' = [tables EXCEPT !.unloaded =
                   [i \in DOMAIN walked |->
                      UnloadedStringRva(rva, UnloadedCount) + SumBefore(UnloadedName, walked, i)]]
              /\ Write("UnloadedModules", "entries", rva, <<UnloadedHeader + Len(walked) * UnloadedSize>>)
  /\ UNCHANGED <<frozen, listVars, measured, cursor, comment>>

WriteUnloadedNames ==
  /\ Step("UnloadedNames", "ThreadList")
  /\ LET walked == UnloadedWalk(lists.ring, UnloadedCount)
     IN  Write("UnloadedModules", "name", UnloadedStringRva(Rva("UnloadedModules"), UnloadedCount),
               [i \in DOMAIN walked |-> UnloadedName(walked[i])])
  /\ UNCHANGED <<frozen, listVars, measured, tables, cursor, comment>>

WriteThreadList == WriteWhole("ThreadList", "ThreadList", "ThreadNames")

\* WriteThreadNames reads the frozen plan alone.
WriteThreadNames ==
  /\ Step("ThreadNames", "MemoryInfo")
  /\ LET names == ThreadNames(measured.names)
         rva == Rva("ThreadNames")
         table == NamesHeader + Len(names) * NameSize
     IN  IF names = <<>> THEN UNCHANGED <<tables, file>>
         ELSE /\ tables' = [tables EXCEPT !.names =
                   [i \in DOMAIN names |-> rva + table + SumBefore(ThreadNameStorage, names, i)]]
              /\ file' = file \o Extents("ThreadNames", "entries", rva, <<table>>)
                              \o Extents("ThreadNames", "name", rva + table,
                                         [i \in DOMAIN names |-> ThreadNameStorage(names[i])])
  /\ UNCHANGED <<frozen, listVars, measured, cursor, comment>>

\* The regions that are still there, at most as many as were counted, and zeros
\* for the others.
WriteMemoryInfoList ==
  /\ Step("MemoryInfo", "Rest")
  /\ LET found == Smaller(MemoryInfoRanges(lists.regions), measured.regions)
     IN  Write("MemoryInfo", "info", Rva("MemoryInfo"),
               <<InfoHeader + found * InfoSize, (measured.regions - found) * InfoSize>>)
  /\ UNCHANGED <<frozen, listVars, measured, tables, cursor, comment>>

WriteRest == WriteWhole("Rest", "Rest", "resume")

Resume ==
  /\ Step("resume", "done")
  /\ frozen' = {}
  /\ UNCHANGED <<listVars, measured, written>>

\* A thread that was not suspended changes a list that is still to be walked.
Disturb ==
  /\ Past("count")
  /\ \E l \in Lists \ disturbed :
       /\ ~Past(LastWalk[l])
       /\ world.later[l] # lists[l]
       /\ lists' = [lists EXCEPT ![l] = world.later[l]]
       /\ disturbed' = disturbed \cup {l}
  /\ UNCHANGED <<setterVars, frozen, world, stage, measured, written>>

DumpStep ==
  \/ Freeze \/ Count
  \/ WriteCommentW
  \/ ComputeCodeViewBase \/ WriteModuleDescriptors \/ WriteModuleNames \/ WriteModuleRecords
  \/ WriteUnloadedEntries \/ WriteUnloadedNames
  \/ WriteThreadList \/ WriteThreadNames \/ WriteMemoryInfoList \/ WriteRest
  \/ Resume

Next ==
  \/ SetterNext /\ UNCHANGED dumpVars
  \/ MeasureComment \/ DumpStep \/ Disturb

\* A call that waits or runs goes on while it may, and so does a dump once it has
\* begun.
Fairness ==
  /\ \A t \in Setters : WF_vars(Proceed(t) /\ UNCHANGED dumpVars)
  /\ WF_vars(DumpStep)

Spec == Init /\ [][Next]_vars /\ Fairness

-----------------------------------------------------------------------------
(***************************************************************************)
(* Properties.                                                             *)
(***************************************************************************)

\* The last step of each stream.
LastStep(stream) ==
  CASE stream = "ModuleList"      -> "ModuleRecords"
    [] stream = "UnloadedModules" -> "UnloadedNames"
    [] OTHER                      -> stream

TypeOK ==
  /\ TextLength(text) < kCommentBufferWChars
  /\ whole \in 0 .. Whole
  /\ mutex \in [exists : BOOLEAN, owner : Setters \cup {NoThread}, count : Nat, abandoned : BOOLEAN]
  /\ pc \in [Setters -> {"idle", "wait", "verify", "edit", "splice", "crc", "release", "dead"}]
  /\ answer \in [Setters -> {"none", "TRUE", "FALSE"}]
  /\ frozen \subseteq Setters
  /\ disturbed \subseteq Lists
  /\ stage \in ToSet(Stages)
  /\ measured.modules.count \in 0 .. kMaxModules
  /\ measured.unloaded.count \in 0 .. kMaxUnloadedModules
  /\ comment.result \in {"none", "skipped", "written"}
  /\ \A i \in DOMAIN file : {file[i].at, file[i].size} \subseteq Nat

\* Who wrote the byte that is in the file: nobody if nothing was written there.
Writers(byte) ==
  LET over == {i \in DOMAIN file : byte \in file[i].at .. file[i].at + file[i].size - 1}
  IN  IF over = {} THEN {} ELSE {file[Max(over)].stream}

\* Even if a list grew before it was written, so that its stream ran over its
\* end, the streams that follow it in the file are written later and take their
\* place back; only a ring of unloaded modules that shrank as well leaves a gap.
StreamsKeepPlace ==
  \A stream \in ToSet(Physical) :
    /\ Past(LastStep(stream))
    /\ ~(stream = "UnloadedModules" /\ {"modules", "ring"} \subseteq disturbed)
    => \A byte \in Rva(stream) .. Rva(stream) + Storage(stream) - 1 : Writers(byte) \subseteq {stream}

\* The pieces of one kind that a stream consists of, and where each of them lies.
Pieces(stream, part) ==
  {<<e.i, e.at>> : e \in {f \in ToSet(file) : f.stream = stream /\ f.part = part}}

\* What was written of a stream.
Taken(stream) == Total([j \in DOMAIN file |-> IF file[j].stream = stream THEN file[j].size ELSE 0])

\* A list that stays as it was counted takes exactly the space it was given, and
\* each offset in a descriptor is that of the name or record it stands for.
DescriptorsPoint ==
  /\ Past("ModuleRecords") /\ "modules" \notin disturbed =>
       /\ Pieces("ModuleList", "name") = {<<i, tables.modules[i].name>> : i \in DOMAIN tables.modules}
       /\ \A i \in DOMAIN tables.modules :
            tables.modules[i].record # 0 =>
              <<i, tables.modules[i].record>> \in Pieces("ModuleList", "record")
       /\ Taken("ModuleList") = Storage("ModuleList")
  /\ Past("UnloadedNames") /\ "ring" \notin disturbed =>
       /\ Pieces("UnloadedModules", "name") = {<<i, tables.unloaded[i]>> : i \in DOMAIN tables.unloaded}
       /\ Taken("UnloadedModules") = Storage("UnloadedModules")
  /\ Past("ThreadNames") =>
       /\ Pieces("ThreadNames", "name") = {<<i, tables.names[i]>> : i \in DOMAIN tables.names}
       /\ Taken("ThreadNames") = Storage("ThreadNames")

\* The comment stays out of the dump, although there was one, only if a thread
\* was stopped while it changed it; and a text that nobody changed since it was
\* measured is there as a whole, with its NUL.
CommentKept ==
  /\ Past("CommentW")
  /\ measured.comment > 0
  /\ frozen # {} /\ Dead = {}
  /\ \A t \in Setters : pc[t] \notin {"splice", "crc"}
  => /\ comment.result = "written"
     /\ measured.text = text => /\ comment.text = text
                                /\ comment.size = (TextLength(text) + 1) * WCHARSize

\* What was measured before is still right when it is written, or does no harm
\* (minidump_inproc.cpp:138-139, minidump_inproc_modules.cpp:188-192, 490-492).
WrittenInPlace == StreamsKeepPlace /\ DescriptorsPoint /\ CommentKept

\* A thread got the mutex of one that ended, as WAIT_ABANDONED, and does not know
\* that it owns it.
Forgotten ==
  /\ Dead # {}
  /\ \E t \in Setters : mutex.owner = t /\ (mutex.count > 1 \/ pc[t] \in {"idle", "wait"})

\* A thread that waits for the CommentMutex gets it in the end, whoever ends
\* meanwhile and whoever is suspended for a dump, as long as no thread keeps a
\* mutex that it believes it did not get (minidump_inproc_streams.cpp:654-658).
SettersReturn ==
  \A t \in Setters : pc[t] = "wait" ~> pc[t] # "wait" \/ Forgotten

AllCalls == UNION {{w.calls[t][i] : i \in DOMAIN w.calls[t]} : t \in Setters, w \in Worlds}

\* As much of a value as there is room for, of the ANSI function in whole
\* characters, without carriage returns and with nothing that could be taken for
\* the end of a line or of a value.
Promised(call) ==
  LET fits == {n \in 0 .. Smaller(Len(call.value), kCommentMaxValueChars) :
                 call.ansi /\ n > 0 => call.value[n] # "high surrogate"}
      kept == SelectSeq(SubSeq(call.value, 1, Max(fits)), LAMBDA c : c # "\r")
  IN  [i \in DOMAIN kept |-> Replacement(kept[i])]

CommentPromise ==
  INSTANCE CommentMap WITH
    Calls    <- AllCalls,
    Bad      <- {name \in Names \cup {"NULL"} : name = "NULL" \/ BadName(name)},
    Stored   <- [call \in {c \in AllCalls : c.value # NoValue} |-> Promised(call)],
    Capacity <- kCommentBufferWChars,
    map      <- IF Torn THEN <<>> ELSE [e \in Entries |-> Split(text[KeyLine(text, e[1], e[2])].value)],
    known    <- ~Torn,
    sections <- NamesOf("section"),
    failed   <- Dead # {} \/ ~mutex.exists,
    asked    <- [t \in Setters |-> IF pc[t] \in {"idle", "dead"} THEN <<>> ELSE <<Head(calls[t])>>]

\* Calls take effect one at a time, each as it promises or with a refusal, and
\* nothing that was set is lost, unless a thread ended in the middle of a call
\* (minidump_inproc.h, SetMiniDumpInprocCommentW; minidump_inproc_streams.cpp:643-645).
ImplementsCommentMap == CommentPromise!Spec
=============================================================================
