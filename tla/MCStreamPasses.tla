---------------------------- MODULE MCStreamPasses ----------------------------
(***************************************************************************)
(* StreamPasses for TLC, with small buffers and lists.  Some worlds are    *)
(* about the comments alone, some about comments and a dump, and some      *)
(* about the lists that a dump walks.                                      *)
(***************************************************************************)
EXTENDS StreamPasses

MCNames == {"s", "r", "k", "mm", "", "long"}
MCChars == [name \in MCNames \cup {"NULL"} |->
              CASE name = "" -> 0 [] name = "mm" -> 2 [] name = "long" -> 4 [] OTHER -> 1]

MCLetters == {"a", "b", "high surrogate", "low surrogate"}

Call(section, key, value, oper) ==
  [section |-> section, key |-> key, value |-> value, oper |-> oper, ansi |-> FALSE]
Ansi(call) == [call EXCEPT !.ansi = TRUE]

\* Values that repeat, that are empty, cut, or hold what must be replaced.
Edits ==
  {Call("s", "k", <<"a">>, "Replace"), Call("s", "k", <<"b">>, "Append"),
   Call("s", "k", <<"a">>, "Merge"), Call("s", "k", <<>>, "Replace"),
   Call("s", "k", NoValue, "Replace"), Call("s", "mm", NoValue, "Merge"),
   Call("r", "k", <<"b">>, "Merge"), Call("s", "mm", <<";", "\r", "\n", "a">>, "Append"),
   Ansi(Call("r", "mm", <<"a", "b", "high surrogate", "low surrogate">>, "Replace"))}

Refusals ==
  {Call("", "k", <<"a">>, "Replace"), Call("s", "long", <<"a">>, "Merge"),
   Ansi(Call("long", "k", <<"a">>, "Append")), Call("NULL", "k", <<"a">>, "Replace"),
   Ansi(Call("s", "NULL", NoValue, "Replace"))}

\* Loader lists: entries in a chain, the last leading to the given index.
Module(length, debug) ==
  [header |-> TRUE, chars |-> TRUE, length |-> length, debug |-> debug]
Loaded(modules, last) ==
  [first |-> IF modules = <<>> THEN 0 ELSE 1,
   entries |-> [i \in DOMAIN modules |->
     [header |-> modules[i].header, chars |-> modules[i].chars, length |-> modules[i].length,
      debug |-> modules[i].debug, next |-> IF i = Len(modules) THEN last ELSE i + 1]]]

RSDS(size) == [kind |-> "RSDS", size |-> size]
Other == [kind |-> "other", size |-> 4]
Unreadable == [kind |-> "unreadable", size |-> 4]

Plain == Module(2, <<RSDS(6)>>)
Long  == Module(11, <<Other, RSDS(8)>>)
Blank == [Module(6, <<RSDS(12), Unreadable, RSDS(4)>>) EXCEPT !.chars = FALSE]
NoHeader == [Plain EXCEPT !.header = FALSE]

\* Sound lists, lists that break off, one that leads back into itself.
ModuleLists ==
  {Loaded(<<>>, 0), Loaded(<<Plain>>, 0), Loaded(<<Plain, Blank, Long>>, 0),
   Loaded(<<Long, NoHeader, Plain>>, 0), Loaded(<<Blank, Plain>>, Lost), Loaded(<<Plain, Long>>, 1),
   Loaded(<<Plain, Plain, Long, Plain>>, 0), [Loaded(<<Plain>>, 0) EXCEPT !.first = Lost]}

Slot(base, chars) == [readable |-> TRUE, base |-> base, chars |-> chars]
Rings ==
  {<<>>, <<Slot(FALSE, 0), Slot(TRUE, 1), Slot(TRUE, 5)>>,
   <<Slot(TRUE, 2), [Slot(TRUE, 1) EXCEPT !.readable = FALSE], Slot(FALSE, 0), Slot(TRUE, 1)>>}

State(modules, ring, regions) == [modules |-> modules, ring |-> ring, regions |-> regions]
Still == State(Loaded(<<Plain>>, 0), <<>>, <<1>>)

NoCalls == [t \in Setters |-> <<>>]
Calls1(t, sequence) == [NoCalls EXCEPT ![t] = sequence]

World(called, now, later, names, dump) ==
  [calls |-> called, lists |-> now, later |-> later, names |-> names, dump |-> dump]

\* What meets the text that two edits left.
Thirds ==
  {Call("s", "k", <<"a">>, "Merge"), Call("r", "k", <<"b">>, "Merge"), Call("s", "k", NoValue, "Replace")}

\* One thread, one call after another.
Sequences ==
  {World(Calls1(1, <<a, b, c>>), Still, Still, <<>>, FALSE) : a \in Edits, b \in Edits, c \in Thirds}
    \cup {World(Calls1(1, <<a, b>>), Still, Still, <<>>, FALSE) : a \in Refusals, b \in Edits}

\* Two threads and a dump: they append to one key, delete one while the other
\* makes a section, or are refused in between.
Racing(ones, twos) ==
  World([t \in Setters |-> IF t = 1 THEN ones ELSE twos], Still, Still, <<>>, TRUE)

SetA   == Call("s", "k", <<"a">>, "Replace")
MergeB == Call("s", "k", <<"b">>, "Merge")
Races ==
  {Racing(<<SetA, Call("s", "k", <<"b">>, "Append")>>, <<MergeB>>),
   Racing(<<SetA, Call("s", "k", NoValue, "Replace")>>, <<Call("r", "mm", <<"a">>, "Replace")>>),
   Racing(<<SetA>>, <<Call("s", "long", <<"a">>, "Merge"), MergeB>>)}

\* Each state of the lists when they are counted, with one they change to.
Changed(m, r, n, q) ==
  World(NoCalls, State(m, r, IF r = <<>> THEN <<1, 2>> ELSE <<3, 0, 1>>),
        State(n, q, IF r = <<>> THEN <<1, 2, 1>> ELSE <<1>>), <<2, 0, 9, 1>>, TRUE)

LaterModules == {Loaded(<<Long, Plain>>, 0), Loaded(<<Blank>>, 0), [Loaded(<<Plain>>, 0) EXCEPT !.first = Lost]}
LaterRings == {<<>>, <<Slot(TRUE, 3), Slot(TRUE, 3), Slot(FALSE, 0)>>}

Passes ==
  {Changed(m, <<>>, n, <<>>) : m \in ModuleLists, n \in LaterModules}
    \cup {Changed(m, r, n, q) : m \in {Loaded(<<Plain>>, 0), Loaded(<<Plain, Blank, Long>>, 0)},
            n \in {Loaded(<<Long, Plain>>, 0)}, r \in Rings, q \in LaterRings}

MCWorlds == Sequences \cup Races \cup Passes
=============================================================================
