------------------------------- MODULE CommentMap -------------------------------
(***************************************************************************)
(* What the comment functions promise: a map from section and key to a     *)
(* list of values, changed by one call at a time and never lost, unless a  *)
(* thread is killed in the middle of a call.                               *)
(***************************************************************************)
EXTENDS Integers, FiniteSets, Sequences, SequencesExt, FiniteSetsExt

CONSTANTS
  Setters,   \* threads that call
  Calls,     \* what they may ask for
  Names,     \* names of sections and keys
  NoValue,   \* a NULL value
  Bad,       \* those no section or key may have
  Chars,     \* lengths
  Stored,    \* the value that each call stores
  Capacity   \* WCHARs there is room for

VARIABLES
  map,       \* the values of each entry that is there
  known,     \* or is it anybody's guess what it holds?
  sections,  \* sections that were ever made
  failed,    \* did a thread end in the middle, or could no mutex be made?
  asked,     \* the call each thread is in, if it is in one
  answer     \* its answer, kept until it calls again

mapVars == <<map, known, sections, failed, asked, answer>>

Empty == <<>>
Put(m, entry, values) == [e \in DOMAIN m \cup {entry} |-> IF e = entry THEN values ELSE m[e]]
Without(m, entry) == [e \in DOMAIN m \ {entry} |-> m[e]]

\* What the map takes as [section] and key=value;value lines, with a NUL.
Room(m, made) ==
  1 + MapThenSumSet(LAMBDA s : Chars[s] + 3, made)
    + MapThenSumSet(LAMBDA e : Chars[e[2]] + 1 + FoldSeq(LAMBDA v, sum : Len(v) + 1 + sum, 0, m[e]),
                    DOMAIN m)

After(m, entry, call) ==
  LET new == Stored[call]
  IN  IF entry \notin DOMAIN m THEN Put(m, entry, <<new>>)
      ELSE CASE call.oper = "Replace" -> Put(m, entry, <<new>>)
             [] call.oper = "Append"  -> Put(m, entry, Append(m[entry], new))
             [] call.oper = "Merge"   ->
                  IF m[entry] = << <<>> >> THEN Put(m, entry, <<new>>)
                  ELSE IF new \in ToSet(m[entry]) THEN m
                  ELSE Put(m, entry, Append(m[entry], new))

\* The map a call asks for; a NULL value deletes on Replace and does nothing else.
Asked(call) ==
  LET entry == <<call.section, call.key>>
  IN  IF call.value # NoValue THEN After(map, entry, call)
      ELSE IF call.oper = "Replace" THEN Without(map, entry) ELSE map

AskedSections(call) ==
  IF call.value = NoValue THEN sections ELSE sections \cup {call.section}

BadNames(call) == {call.section, call.key} \cap Bad # {}

Init ==
  /\ map = Empty /\ known = TRUE /\ sections = {} /\ failed \in BOOLEAN
  /\ asked = [t \in Setters |-> <<>>]
  /\ answer = [t \in Setters |-> "none"]

Answers(t, result) == answer' = [answer EXCEPT ![t] = result]
Leaves(t) == asked' = [asked EXCEPT ![t] = <<>>]
Pending(t) == asked[t] # <<>> /\ answer[t] = "none"

Ask(t, call) ==
  /\ asked[t] = <<>>
  /\ asked' = [asked EXCEPT ![t] = <<call>>]
  /\ Answers(t, "none")
  /\ UNCHANGED <<map, known, sections, failed>>

\* A call for a name that cannot be stored may be refused without further ado.
RefuseAtOnce(t, call) ==
  /\ asked[t] = <<>>
  /\ BadNames(call)
  /\ Answers(t, "FALSE")
  /\ UNCHANGED <<map, known, sections, failed, asked>>

Apply(t) ==
  /\ known /\ Pending(t)
  /\ ~BadNames(Head(asked[t]))
  /\ map' = Asked(Head(asked[t]))
  /\ sections' = AskedSections(Head(asked[t]))
  /\ map' # map => Room(map', sections') <= Capacity
  /\ Answers(t, "TRUE")
  /\ UNCHANGED <<known, failed, asked>>

\* A call is refused for its names, or because there is no room.
Refuse(t) ==
  /\ known /\ Pending(t)
  /\ LET call == Head(asked[t])
     IN  BadNames(call) \/ Room(Asked(call), AskedSections(call)) > Capacity
  /\ Answers(t, "FALSE")
  /\ UNCHANGED <<map, known, sections, failed, asked>>

Return(t) ==
  /\ asked[t] # <<>> /\ ~Pending(t)
  /\ Leaves(t)
  /\ UNCHANGED <<map, known, sections, failed, answer>>

\* A call that is not made, which only a failure excuses.
NotReady(t) ==
  /\ failed /\ Pending(t)
  /\ Answers(t, "FALSE") /\ Leaves(t)
  /\ UNCHANGED <<map, known, sections, failed>>

\* What a thread that ends was changing is not known any more.
Kill(t) ==
  /\ failed' = TRUE
  /\ \/ UNCHANGED <<map, known>>
     \/ map' = Empty /\ known' = FALSE
  /\ Leaves(t)
  /\ UNCHANGED <<sections, answer>>

\* A call on a map that is not known.
Blind(t) ==
  /\ ~known /\ Pending(t)
  /\ \E result \in {"TRUE", "FALSE"} : Answers(t, result)
  /\ UNCHANGED <<map, known, sections, failed, asked>>

\* Everything is dropped, which only a failure excuses.
Reset ==
  /\ failed
  /\ map' = Empty /\ known' = TRUE /\ sections' = {}
  /\ UNCHANGED <<failed, asked, answer>>

Next ==
  \/ \E t \in Setters :
       \/ Apply(t) \/ Refuse(t) \/ Return(t) \/ NotReady(t) \/ Kill(t) \/ Blind(t)
       \/ \E call \in Calls : Ask(t, call) \/ RefuseAtOnce(t, call)
  \/ Reset

Spec == Init /\ [][Next]_mapVars
=============================================================================
