-------------------------- MODULE StreamPasses_proofs --------------------------
(***************************************************************************)
(* Proofs about StreamPasses: for every text, every list, every change of  *)
(* a list between two walks, any number of threads that set comments and   *)
(* any of them ending anywhere, the state is well formed, the CRC of the   *)
(* comment vouches for its text, a dump keeps the comment, every stream    *)
(* keeps its place, and every descriptor points at its piece.              *)
(***************************************************************************)
EXTENDS StreamPasses, PrefixSums_proofs, FiniteSetTheorems, TLAPS

-----------------------------------------------------------------------------
(***************************************************************************)
(* The text and one edit of it.                                            *)
(***************************************************************************)

AnyName == Names \cup {"NULL"}
Lines == {Section(n) : n \in AnyName} \cup {Key(n, v) : n \in AnyName, v \in Seq(WChars)}

\* A set of numbers has a least one, which Min finds.
LEMMA MinDef ==
  ASSUME NEW T, T \subseteq Nat, T # {}
  PROVE  Min(T) \in T /\ \A y \in T : Min(T) <= y
<1>1. \E x \in T : \A y \in T : x <= y
  BY Zenon, LeastNat
<1> QED
  BY Zenon, <1>1 DEF Min

LEMMA LineShape ==
  ASSUME NEW line \in Lines
  PROVE  /\ line.kind \in {"section", "key"} /\ line.name \in AnyName
         /\ line.value \in Seq(WChars)
         /\ line.kind = "section" => line.value = <<>>
         /\ line.kind = "key" => line = Key(line.name, line.value)
         /\ line = [kind |-> line.kind, name |-> line.name, value |-> line.value]
         /\ Chars[line.name] \in Nat /\ LineLength(line) \in Nat
         /\ LineLength(line) >= Chars[line.name] + 2 + Len(line.value)
<1>1. \A n \in AnyName : Chars[n] \in Nat
  BY SettersAssumption DEF AnyName
<1>2. CASE line \in {Section(n) : n \in AnyName}
  <2>1. PICK n \in AnyName : line = Section(n)
    BY <1>2
  <2>2. line = [kind |-> "section", name |-> n, value |-> <<>>]
    BY <2>1 DEF Section
  <2>3. <<>> \in Seq(WChars) /\ Len(<<>>) = 0
    OBVIOUS
  <2>4. LineLength(line) = Chars[n] + 3
    BY <2>2 DEF LineLength
  <2> QED
    BY <1>1, <2>2, <2>3, <2>4
<1>3. CASE line \in {Key(n, v) : n \in AnyName, v \in Seq(WChars)}
  <2>1. PICK n \in AnyName, v \in Seq(WChars) : line = Key(n, v)
    BY <1>3
  <2>2. line = [kind |-> "key", name |-> n, value |-> v]
    BY <2>1 DEF Key
  <2>3. Len(v) \in Nat
    OBVIOUS
  <2>4. LineLength(line) = Chars[n] + (2 + Len(v))
    BY <2>2 DEF LineLength
  <2>5. line.kind = "key" /\ line.name = n /\ line.value = v
    BY <2>2
  <2>6. line = Key(line.name, line.value)
    BY <2>1, <2>5
  <2>7. line = [kind |-> line.kind, name |-> line.name, value |-> line.value]
    BY <2>2
  <2>8. Chars[n] \in Nat
    BY <1>1
  <2> QED
    BY <2>3, <2>4, <2>5, <2>6, <2>7, <2>8
<1> QED
  BY <1>2, <1>3 DEF Lines

Lengths(t) == [i \in DOMAIN t |-> LineLength(t[i])]

LEMMA TextLengthDef ==
  ASSUME NEW t \in Seq(Lines)
  PROVE  /\ Lengths(t) \in Seq(Nat) /\ Len(Lengths(t)) = Len(t)
         /\ TextLength(t) = PrefixSums(Lengths(t))[Len(t)] /\ TextLength(t) \in Nat
         /\ TextLength(<<>>) = 0
<1>1. \A i \in 1 .. Len(t) : LineLength(t[i]) \in Nat
  BY LineShape
<1>2. DOMAIN t = 1 .. Len(t) /\ Len(t) \in Nat
  OBVIOUS
<1>3. Lengths(t) \in Seq(Nat) /\ Len(Lengths(t)) = Len(t)
  BY <1>1, <1>2 DEF Lengths
<1>4. TextLength(t) = Total(Lengths(t))
  BY DEF TextLength, Lengths
<1>5. TextLength(<<>>) = 0
  <2>1. TextLength(<<>>) = Total(<<>>)
    <3>1. [i \in DOMAIN <<>> |-> LineLength(<<>>[i])] = <<>>
      OBVIOUS
    <3> QED
      BY <3>1 DEF TextLength
  <2>2. <<>> \in Seq(Nat)
    OBVIOUS
  <2> QED
    BY Zenon, <2>1, <2>2, TotalDef
<1> QED
  BY <1>3, <1>4, <1>5, TotalDef DEF Total

LEMMA CutDef ==
  ASSUME NEW S, NEW s \in Seq(S), NEW n \in Nat
  PROVE  /\ Cut(s, n) \in Seq(S)
         /\ Len(Cut(s, n)) = IF n < Len(s) THEN n ELSE Len(s)
         /\ \A i \in 1 .. Len(Cut(s, n)) : Cut(s, n)[i] = s[i]
         /\ n >= Len(s) => Cut(s, n) = s
<1> DEFINE m == IF n < Len(s) THEN n ELSE Len(s)
<1>1. m \in 0 .. Len(s)
  OBVIOUS
<1>2. Cut(s, n) = SubSeq(s, 1, m)
  BY DEF Cut
<1>3. /\ SubSeq(s, 1, m) \in Seq(S) /\ Len(SubSeq(s, 1, m)) = m
      /\ \A i \in 1 .. m : SubSeq(s, 1, m)[i] = s[i]
  BY <1>1
<1>4. n >= Len(s) => SubSeq(s, 1, m) = s
  OBVIOUS
<1> QED
  BY <1>2, <1>3, <1>4

\* The length of the first lines.
LEMMA CutLength ==
  ASSUME NEW t \in Seq(Lines), NEW n \in 0 .. Len(t)
  PROVE  TextLength(Cut(t, n)) = PrefixSums(Lengths(t))[n]
<1> DEFINE c == Cut(t, n)
<1>1. c \in Seq(Lines) /\ Len(c) = n /\ \A i \in 1 .. n : c[i] = t[i]
  BY CutDef
<1> HIDE DEF c
<1>2. \A i \in 1 .. n : Lengths(c)[i] = Lengths(t)[i]
  BY <1>1 DEF Lengths
<1>3. PrefixSums(Lengths(c))[n] = PrefixSums(Lengths(t))[n]
  <2>1. /\ Lengths(c) \in Seq(Nat) /\ Len(Lengths(c)) = n
        /\ Lengths(t) \in Seq(Nat) /\ n <= Len(Lengths(t)) /\ n \in Nat
    BY <1>1, TextLengthDef
  <2> QED
    BY <1>2, <2>1, PrefixAgree
<1>4. TextLength(c) = PrefixSums(Lengths(c))[n]
  BY <1>1, TextLengthDef
<1> QED
  BY <1>3, <1>4 DEF c

LEMMA CutLengthBounds ==
  ASSUME NEW t \in Seq(Lines), NEW n \in 0 .. Len(t)
  PROVE  /\ TextLength(Cut(t, n)) \in Nat /\ TextLength(Cut(t, n)) <= TextLength(t)
         /\ n # 0 => TextLength(Cut(t, n)) = TextLength(Cut(t, n - 1)) + LineLength(t[n])
<1> DEFINE s == Lengths(t)
<1>1. s \in Seq(Nat) /\ Len(s) = Len(t) /\ TextLength(t) = PrefixSums(s)[Len(s)]
  BY TextLengthDef
<1>2. TextLength(Cut(t, n)) = PrefixSums(s)[n]
  BY CutLength
<1>3. PrefixSums(s)[n] <= PrefixSums(s)[Len(s)]
  BY <1>1, PrefixMonotone
<1>4. PrefixSums(s)[n] \in Nat
  BY Zenon, <1>1, PrefixSumsDef
<1>5. n # 0 => /\ n \in 1 .. Len(s) /\ n - 1 \in 0 .. Len(t) /\ s[n] = LineLength(t[n])
  BY <1>1 DEF Lengths
<1>6. n # 0 => TextLength(Cut(t, n - 1)) = PrefixSums(s)[n - 1]
  BY <1>5, CutLength
<1> HIDE DEF s
<1>7. n # 0 => PrefixSums(s)[n] = PrefixSums(s)[n - 1] + s[n]
  BY <1>1, <1>5, PrefixSumsDef
<1> QED
  BY <1>1, <1>2, <1>3, <1>4, <1>5, <1>6, <1>7

\* A text is found in as many leading WCHARs as it has, and one more.
LEMMA LeadingWhole ==
  ASSUME NEW t \in Seq(Lines)
  PROVE  Leading(t, TextLength(t) + 1) = t
<1> DEFINE n == TextLength(t) + 1
           N == Len(t)
           left(i) == n - TextLength(Cut(t, i - 1)) - Chars[t[i].name] - 1
           line(i) == [t[i] EXCEPT !.value = IF left(i) <= 0 THEN <<>> ELSE Cut(@, left(i))]
           lines == {i \in 1 .. Len(t) : TextLength(Cut(t, i - 1)) < n}
<1>1. N \in Nat /\ TextLength(t) \in Nat
  BY TextLengthDef
<1>2. \A i \in 1 .. N : /\ TextLength(Cut(t, i - 1)) \in Nat
                        /\ TextLength(Cut(t, i - 1)) + LineLength(t[i]) <= TextLength(t)
                        /\ t[i] \in Lines /\ LineLength(t[i]) \in Nat
  <2> TAKE i \in 1 .. N
  <2>1. i \in 0 .. Len(t) /\ i - 1 \in 0 .. Len(t) /\ i # 0 /\ t[i] \in Lines
    BY <1>1
  <2>2. /\ TextLength(Cut(t, i)) <= TextLength(t)
        /\ TextLength(Cut(t, i)) = TextLength(Cut(t, i - 1)) + LineLength(t[i])
        /\ TextLength(Cut(t, i - 1)) \in Nat
    BY <2>1, CutLengthBounds
  <2>3. LineLength(t[i]) \in Nat
    BY Zenon, <2>1, LineShape
  <2> QED
    BY <2>1, <2>2, <2>3
<1>3. lines = 1 .. N
  BY <1>1, <1>2
<1>4. Cardinality(lines) = N
  <2> HIDE DEF lines, N
  <2>1. Cardinality(1 .. N) = IF 1 > N THEN 0 ELSE N - 1 + 1
    BY <1>1, FS_Interval
  <2>2. Cardinality(1 .. N) = N
    BY <1>1, <2>1
  <2> QED
    BY <1>3, <2>2
<1>5. ASSUME NEW i \in 1 .. N
      PROVE  line(i) = t[i]
  <2>1. /\ t[i].value \in Seq(WChars) /\ Chars[t[i].name] \in Nat
        /\ t[i] = [kind |-> t[i].kind, name |-> t[i].name, value |-> t[i].value]
        /\ LineLength(t[i]) >= Chars[t[i].name] + 2 + Len(t[i].value)
    BY Zenon, <1>2, LineShape
  <2>2. Len(t[i].value) \in Nat
    BY <2>1
  <2> DEFINE before == TextLength(Cut(t, i - 1))
             chars == Chars[t[i].name]
             length == LineLength(t[i])
             all == TextLength(t)
             size == Len(t[i].value)
  <2>a. n = all + 1
    OBVIOUS
  <2>b. before \in Nat /\ length \in Nat /\ before + length <= all
    BY <1>2
  <2>c. chars \in Nat /\ length >= chars + 2 + size /\ size \in Nat
    BY <2>1, <2>2
  <2>d. all \in Nat
    BY <1>1
  <2> HIDE DEF n, before, chars, length, all, size
  <2>e. n - before - chars - 1 \in Nat /\ n - before - chars - 1 > size
    BY <2>a, <2>b, <2>c, <2>d
  <2>f. left(i) = n - before - chars - 1
    BY DEF before, chars
  <2> HIDE DEF left
  <2>4. left(i) \in Nat /\ left(i) > Len(t[i].value)
    BY <2>e, <2>f DEF size
  <2>5. Cut(t[i].value, left(i)) = t[i].value
    BY <2>1, <2>2, <2>4, CutDef
  <2>6. ~(left(i) <= 0)
    BY <2>2, <2>4
  <2> QED
    BY <2>1, <2>5, <2>6
<1>6. Leading(t, n) = [i \in 1 .. Cardinality(lines) |-> line(i)]
  BY DEF Leading
<1> HIDE DEF line, lines, n
<1>7. Leading(t, n) = [i \in 1 .. N |-> t[i]]
  BY <1>4, <1>5, <1>6
<1>8. t = [i \in 1 .. N |-> t[i]]
  OBVIOUS
<1> QED
  BY <1>7, <1>8 DEF n

\* Where an entry and its section are found.
LEMMA SectionLineDef ==
  ASSUME NEW t \in Seq(Lines), NEW section
  PROVE  SectionLine(t, section) \in 0 .. Len(t)
<1> DEFINE I == {i \in 1 .. Len(t) : t[i] = Section(section)}
<1>1. SectionLine(t, section) = IF I # {} THEN Min(I) ELSE 0
  BY DEF SectionLine, SelectInSeq
<1>2. I \subseteq 1 .. Len(t) /\ I \subseteq Nat /\ Len(t) \in Nat
  OBVIOUS
<1> HIDE DEF I
<1>3. I # {} => Min(I) \in I
  BY Zenon, <1>2, MinDef
<1>4. CASE I = {}
  BY <1>1, <1>2, <1>4
<1>5. CASE I # {}
  <2>1. SectionLine(t, section) = Min(I)
    BY <1>1, <1>5
  <2>2. Min(I) \in 1 .. Len(t)
    BY Zenon, <1>2, <1>3, <1>5
  <2> QED
    BY <1>2, <2>1, <2>2
<1> QED
  BY <1>4, <1>5

LEMMA BodyEndDef ==
  ASSUME NEW t \in Seq(Lines), NEW header \in 1 .. Len(t)
  PROVE  BodyEnd(t, header) \in header + 1 .. Len(t) + 1
<1> DEFINE I == {i \in header + 1 .. Len(t) : t[i].kind = "section"}
           next == IF I # {} THEN Min(I) ELSE 0
<1>1. BodyEnd(t, header) = IF next = 0 THEN Len(t) + 1 ELSE next
  BY DEF BodyEnd, SelectInSubSeq
<1>2. I \subseteq header + 1 .. Len(t) /\ I \subseteq Nat /\ Len(t) \in Nat
  OBVIOUS
<1> HIDE DEF I
<1>3. I # {} => Min(I) \in I
  BY Zenon, <1>2, MinDef
<1>4. CASE I = {}
  BY <1>1, <1>2, <1>4
<1>5. CASE I # {}
  <2>1. Min(I) \in header + 1 .. Len(t) /\ next = Min(I)
    BY Zenon, <1>2, <1>3, <1>5
  <2> HIDE DEF next
  <2>2. next # 0
    BY <1>2, <2>1
  <2>3. BodyEnd(t, header) = Min(I)
    BY <1>1, <2>1, <2>2
  <2> QED
    BY <1>2, <2>1, <2>3
<1> QED
  BY <1>4, <1>5

LEMMA KeyLineDef ==
  ASSUME NEW t \in Seq(Lines), NEW section, NEW key
  PROVE  /\ KeyLine(t, section, key) \in 0 .. Len(t)
         /\ KeyLine(t, section, key) # 0 =>
              t[KeyLine(t, section, key)].kind = "key" /\ t[KeyLine(t, section, key)].name = key
<1> DEFINE header == SectionLine(t, section)
           I == {i \in header + 1 .. BodyEnd(t, header) - 1 : t[i].kind = "key" /\ t[i].name = key}
           found == IF I # {} THEN Min(I) ELSE 0
<1>1. KeyLine(t, section, key) = IF header = 0 THEN 0 ELSE found
  BY DEF KeyLine, SelectInSubSeq
<1>2. Len(t) \in Nat
  OBVIOUS
<1>3. CASE header = 0
  BY <1>1, <1>2, <1>3
<1>4. CASE header # 0
  <2>1. header \in 1 .. Len(t)
    BY <1>2, <1>4, SectionLineDef
  <2>2. BodyEnd(t, header) \in header + 1 .. Len(t) + 1
    BY <2>1, BodyEndDef
  <2>3. /\ I \subseteq Nat /\ I \subseteq 1 .. Len(t)
        /\ \A i \in I : t[i].kind = "key" /\ t[i].name = key
    BY <1>2, <2>1, <2>2
  <2> HIDE DEF I, header
  <2>4. I # {} => Min(I) \in I
    BY Zenon, <2>3, MinDef
  <2>5. CASE I = {}
    BY <1>1, <1>2, <1>4, <2>5
  <2>6. CASE I # {}
    <3>1. KeyLine(t, section, key) = Min(I)
      BY <1>1, <1>4, <2>6
    <3> DEFINE m == Min(I)
    <3>2. m \in 1 .. Len(t) /\ t[m].kind = "key" /\ t[m].name = key
      BY Zenon, <2>3, <2>4, <2>6
    <3>3. KeyLine(t, section, key) = m
      BY <3>1
    <3> HIDE DEF m
    <3>4. m \in 0 .. Len(t)
      BY <1>2, <3>2
    <3> QED
      BY <3>2, <3>3, <3>4
  <2> QED
    BY <2>5, <2>6
<1> QED
  BY <1>3, <1>4
\* What one edit makes of the text.
LEMMA StoresDef ==
  ASSUME NEW call \in Requests, call.value # NoValue
  PROVE  Stores(call) \in Seq(WChars)
<1> DEFINE max == kCommentMaxValueChars
           c == Converted(call)
           kept == Kept(Cut(c, max), WChars \ {"\r"})
<1>1. call.value \in Seq(WChars) /\ max \in Nat /\ max # 0
  BY CommentLimitsAssumption DEF Requests
<1>2. c \in Seq(WChars)
  <2>1. Cut(call.value, max) \in Seq(WChars) /\ Cut(call.value, max - 1) \in Seq(WChars)
    <3>1. max - 1 \in Nat
      BY <1>1
    <3> QED
      BY <1>1, <3>1, CutDef
  <2>2. c \in {call.value, Cut(call.value, max), Cut(call.value, max - 1)}
    BY Zenon DEF Converted, TruncateMultiByteString
  <2> HIDE DEF c
  <2> QED
    BY <1>1, <2>1, <2>2
<1> HIDE DEF c
<1>3. Cut(c, max) \in Seq(WChars)
  BY <1>1, <1>2, CutDef
<1>4. kept \in Seq(WChars)
  BY <1>3, KeptDef
<1> HIDE DEF kept
<1>5. \A i \in DOMAIN kept : kept[i] \in WChars
  BY <1>4
<1>6. \A d \in WChars : Replacement(d) \in WChars
  <2>1. "return arrow" \in WChars /\ "wide semicolon" \in WChars
    BY DEF WChars
  <2>2. \A d : Replacement(d) \in {"return arrow", "wide semicolon", d}
    BY DEF Replacement
  <2> QED
    BY Zenon, <2>1, <2>2
<1>7. \A i \in DOMAIN kept : Replacement(kept[i]) \in WChars
  BY <1>5, <1>6
<1>8. [i \in DOMAIN kept |-> Replacement(kept[i])] \in Seq(WChars)
  <2>1. DOMAIN kept = 1 .. Len(kept) /\ Len(kept) \in Nat
    BY <1>4
  <2> QED
    BY <1>7, <2>1
<1>9. Stores(call) = [i \in DOMAIN kept |-> Replacement(kept[i])]
  BY DEF Stores, CommentNormalizeValue, c, kept
<1> QED
  BY <1>8, <1>9

LEMMA EditedDef ==
  ASSUME NEW t \in Seq(Lines), NEW call \in Requests
  PROVE  Edited(t, call) \in Seq(Lines)
<1> DEFINE at == KeyLine(t, call.section, call.key)
<1>1. /\ at \in 0 .. Len(t) /\ Len(t) \in Nat
      /\ at # 0 => t[at].kind = "key" /\ t[at].name = call.key
  BY KeyLineDef
<1>2. call.section \in AnyName /\ call.key \in AnyName
  BY DEF Requests, AnyName
<1>3. CASE call.value = NoValue
  <2>1. at # 0 => RemoveAt(t, at) \in Seq(Lines)
    <3> SUFFICES ASSUME at # 0 PROVE RemoveAt(t, at) \in Seq(Lines)
      OBVIOUS
    <3> HIDE DEF at
    <3>1. /\ SubSeq(t, 1, at - 1) \in Seq(Lines) /\ SubSeq(t, at + 1, Len(t)) \in Seq(Lines)
      BY <1>1
    <3> QED
      BY <3>1 DEF RemoveAt
  <2> QED
    BY <1>3, <2>1 DEF Edited
<1>4. CASE call.value # NoValue /\ at = 0
  <2> DEFINE header == SectionLine(t, call.section)
             line == Key(call.key, Stores(call))
  <2>1. Section(call.section) \in Lines /\ line \in Lines
    BY <1>2, <1>4, StoresDef DEF Lines
  <2>2. header \in 0 .. Len(t)
    BY SectionLineDef
  <2>3. header # 0 => BodyEnd(t, header) \in header + 1 .. Len(t) + 1
    BY <1>1, <2>2, BodyEndDef
  <2>4. Edited(t, call) = IF header = 0 THEN t \o <<Section(call.section), line>>
                          ELSE InsertAt(t, BodyEnd(t, header), line)
    BY <1>4 DEF Edited, Insert
  <2> HIDE DEF header, line
  <2>5. CASE header = 0
    <3>1. <<Section(call.section), line>> \in Seq(Lines)
      BY <2>1
    <3> QED
      BY <2>4, <2>5, <3>1
  <2>6. CASE header # 0
    <3> DEFINE e == BodyEnd(t, header)
    <3>1. e \in 1 .. Len(t) + 1
      BY <1>1, <2>2, <2>3, <2>6
    <3> HIDE DEF e
    <3>2. SubSeq(t, 1, e - 1) \in Seq(Lines) /\ SubSeq(t, e, Len(t)) \in Seq(Lines)
      BY <1>1, <3>1
    <3>3. <<line>> \in Seq(Lines)
      BY <2>1
    <3>4. Edited(t, call) = SubSeq(t, 1, e - 1) \o <<line>> \o SubSeq(t, e, Len(t))
      BY Zenon, <2>4, <2>6 DEF InsertAt, e
    <3> QED
      BY <3>2, <3>3, <3>4
  <2> QED
    BY <2>5, <2>6
<1>5. CASE call.value # NoValue /\ at # 0
  <2> DEFINE old == t[at].value
             v == Combine(old, call)
  <2>1. t[at] \in Lines /\ at \in 1 .. Len(t)
    BY <1>1, <1>5
  <2>2. old \in Seq(WChars) /\ t[at] = [kind |-> "key", name |-> call.key, value |-> old]
    BY <1>1, <1>5, <2>1, LineShape
  <2>3. v \in Seq(WChars)
    <3>1. Stores(call) \in Seq(WChars)
      BY <1>5, StoresDef
    <3>2. old \o <<";">> \o Stores(call) \in Seq(WChars)
      <4>1. ";" \in WChars
        BY DEF WChars
      <4>2. \A c \in WChars : <<c>> \in Seq(WChars)
        OBVIOUS
      <4>3. <<";">> \in Seq(WChars)
        BY Zenon, <4>1, <4>2
      <4>4. \A a, b \in Seq(WChars) : a \o b \in Seq(WChars)
        OBVIOUS
      <4>5. old \o <<";">> \in Seq(WChars)
        BY ONLY Zenon, <2>2, <4>3, <4>4
      <4> QED
        BY ONLY Zenon, <3>1, <4>4, <4>5
    <3>3. call.oper \in {"Replace", "Append", "Merge"}
      BY DEF Requests
    <3>4. v \in {Stores(call), old \o <<";">> \o Stores(call), old}
      BY Zenon, <3>3 DEF Combine
    <3> HIDE DEF v, old
    <3> QED
      BY Zenon, <2>2, <3>1, <3>2, <3>4
  <2>4. Edited(t, call) = [t EXCEPT ![at].value = v]
    BY <1>5 DEF Edited
  <2> HIDE DEF old, v
  <2>5. [t[at] EXCEPT !.value = v] = Key(call.key, v)
    BY <2>2 DEF Key
  <2>6. [t EXCEPT ![at].value = v] = [t EXCEPT ![at] = Key(call.key, v)]
    BY Zenon, <2>1, <2>5
  <2>7. Key(call.key, v) \in Lines
    BY <1>2, <2>3 DEF Lines
  <2> HIDE DEF at
  <2> QED
    BY <2>1, <2>4, <2>6, <2>7
<1> QED
  BY <1>3, <1>4, <1>5

\* A splice starts within the text.
LEMMA SpliceInside ==
  ASSUME NEW t \in Seq(Lines), NEW call \in Requests
  PROVE  SpliceAt(t, call) \in 0 .. TextLength(t)
<1> DEFINE at == KeyLine(t, call.section, call.key)
           header == SectionLine(t, call.section)
<1>1. /\ at \in 0 .. Len(t) /\ Len(t) \in Nat
      /\ at # 0 => t[at].kind = "key" /\ t[at].name = call.key
  BY KeyLineDef
<1>2. TextLength(t) \in Nat
  BY TextLengthDef
<1>3. CASE at = 0
  <2> DEFINE n == IF header = 0 THEN Len(t) ELSE BodyEnd(t, header) - 1
  <2>1. header \in 0 .. Len(t)
    BY SectionLineDef
  <2>2. header # 0 => BodyEnd(t, header) \in header + 1 .. Len(t) + 1
    BY <1>1, <2>1, BodyEndDef
  <2>3. n \in 0 .. Len(t)
    <3> HIDE DEF header
    <3> QED
      BY <1>1, <2>1, <2>2
  <2>4. SpliceAt(t, call) = TextLength(Cut(t, n))
    BY <1>3 DEF SpliceAt
  <2> HIDE DEF n
  <2>5. TextLength(Cut(t, n)) \in Nat /\ TextLength(Cut(t, n)) <= TextLength(t)
    BY <2>3, CutLengthBounds
  <2> QED
    BY <1>2, <2>4, <2>5
<1>4. CASE at # 0
  <2> DEFINE size == Len(t[at].value)
             before == TextLength(Cut(t, at - 1))
             chars == Chars[call.key]
             all == TextLength(t)
  <2>1. at \in 1 .. Len(t) /\ at - 1 \in 0 .. Len(t) /\ t[at] \in Lines
    BY <1>1, <1>4
  <2>2. /\ TextLength(Cut(t, at)) <= all
        /\ TextLength(Cut(t, at)) = before + LineLength(t[at])
        /\ before \in Nat
    BY <1>4, <2>1, CutLengthBounds
  <2>3. /\ t[at].value \in Seq(WChars) /\ chars \in Nat /\ LineLength(t[at]) \in Nat
        /\ LineLength(t[at]) >= chars + 2 + size
    BY Zenon, <1>1, <1>4, <2>1, LineShape
  <2>4. size \in Nat
    BY <2>3
  <2>5. SpliceAt(t, call) =
          before + (IF call.value = NoValue THEN 0
                    ELSE chars + 1 + (IF call.oper = "Replace" THEN 0 ELSE size))
    BY <1>4 DEF SpliceAt
  <2> DEFINE length == LineLength(t[at])
  <2>6. all \in Nat /\ before + length <= all /\ length \in Nat /\ length >= chars + 2 + size /\ chars \in Nat
    BY <1>2, <2>2, <2>3
  <2> HIDE DEF size, before, chars, all, length
  <2>7. SpliceAt(t, call) \in 0 .. all
    BY <2>2, <2>4, <2>5, <2>6
  <2> QED
    BY <2>7 DEF all
<1> QED
  BY <1>3, <1>4
-----------------------------------------------------------------------------
(***************************************************************************)
(* The lists.                                                              *)
(***************************************************************************)

Entry == [header : BOOLEAN, chars : BOOLEAN, length : Nat, next : Int,
          debug : Seq([kind : {"RSDS", "other", "unreadable"}, size : Nat])]
RingSlot == [readable : BOOLEAN, base : BOOLEAN, chars : Nat]

LEMMA UpDef ==
  ASSUME NEW size \in Nat
  PROVE  Up(size) \in Nat /\ Up(size) >= size
<1> DEFINE x == size + Alignment - 1
           q == x \div Alignment
<1>1. Alignment \in Nat \ {0} /\ x \in Nat
  BY WalkAssumption
<1>2. x = size + Alignment - 1
  OBVIOUS
<1> HIDE DEF x
<1>3. q \in Nat /\ q * Alignment <= x /\ x < q * Alignment + Alignment
  BY <1>1
<1>4. Up(size) = q * Alignment
  BY DEF Up, x
<1> HIDE DEF q
<1> DEFINE p == q * Alignment
<1>5. p \in Nat
  BY <1>1, <1>3
<1>6. p <= x /\ x < p + Alignment /\ Up(size) = p
  BY <1>3, <1>4
<1> HIDE DEF p
<1> QED
  BY <1>1, <1>2, <1>5, <1>6

\* The first n of a list.
LEMMA FirstDef ==
  ASSUME NEW S, NEW s \in Seq(S), NEW n \in Nat
  PROVE  /\ First(s, n) \in Seq(S)
         /\ Len(First(s, n)) = Smaller(n, Len(s))
         /\ \A i \in 1 .. Len(First(s, n)) : First(s, n)[i] = s[i]
         /\ n >= Len(s) => First(s, n) = s
<1> DEFINE m == Smaller(n, Len(s))
<1>1. m \in 0 .. Len(s) /\ (n >= Len(s) => m = Len(s)) /\ Len(s) \in Nat
  BY DEF Smaller
<1>2. First(s, n) = SubSeq(s, 1, m)
  BY DEF First
<1> HIDE DEF m
<1>3. /\ SubSeq(s, 1, m) \in Seq(S) /\ Len(SubSeq(s, 1, m)) = m
      /\ \A i \in 1 .. m : SubSeq(s, 1, m)[i] = s[i]
  BY <1>1
<1>4. SubSeq(s, 1, Len(s)) = s
  OBVIOUS
<1> QED
  BY <1>1, <1>2, <1>3, <1>4 DEF m

LEMMA StringSizeType == \A bytes \in Nat : MinidumpStringSize(bytes) \in Nat
<1> SUFFICES ASSUME NEW bytes \in Nat PROVE MinidumpStringSize(bytes) \in Nat
  OBVIOUS
<1>1. ULONG32Size \in Nat /\ WCHARSize \in Nat
  BY WalkAssumption
<1>2. ULONG32Size + bytes + WCHARSize \in Nat
  BY <1>1
<1> QED
  BY <1>2, UpDef DEF MinidumpStringSize

LEMMA NameStorageType == \A entry \in Entry : NameStorage(entry) \in Nat
<1> SUFFICES ASSUME NEW entry \in Entry PROVE NameStorage(entry) \in Nat
  OBVIOUS
<1> DEFINE length == Smaller(entry.length, kMaxModuleNameBytes)
           q == length \div WCHARSize
<1>1. WCHARSize \in Nat \ {0} /\ length \in Nat
  BY WalkAssumption DEF Entry, Smaller
<1> HIDE DEF length
<1>2. q \in Nat
  BY <1>1
<1> HIDE DEF q
<1>3. q * WCHARSize \in Nat
  BY <1>1, <1>2
<1>4. SafeModuleNameLength(entry) \in Nat
  BY <1>3 DEF SafeModuleNameLength, q, length
<1> QED
  BY <1>4, StringSizeType DEF NameStorage

LEMMA CodeViewType == \A entry \in Entry : CodeViewSize(entry) \in Nat
<1> SUFFICES ASSUME NEW entry \in Entry PROVE CodeViewSize(entry) \in Nat
  OBVIOUS
<1> DEFINE D == [kind : {"RSDS", "other", "unreadable"}, size : Nat]
           debug == entry.debug
           I == {i \in 1 .. Len(debug) : debug[i].kind = "unreadable"}
           lost == IF I # {} THEN Min(I) ELSE 0
           read == IF lost = 0 THEN debug ELSE First(debug, lost - 1)
           J == {i \in 1 .. Len(read) :
                   read[i].kind = "RSDS" /\ read[i].size >= ULONG32Size
                     /\ read[i].size <= kMaxCodeViewRecordBytes}
           good == IF J # {} THEN Min(J) ELSE 0
<1>1. CodeViewSize(entry) = IF good = 0 THEN 0 ELSE read[good].size
  BY DEF CodeViewSize, SelectInSeq
<1>2. debug \in Seq(D)
  BY DEF Entry
<1> HIDE DEF debug, D
<1>3. lost \in Nat
  BY MinDef
<1> HIDE DEF lost
<1>4. read \in Seq(D)
  <2>1. lost # 0 => First(debug, lost - 1) \in Seq(D)
    BY <1>2, <1>3, FirstDef
  <2> QED
    BY <1>2, <2>1
<1> HIDE DEF read
<1>5. good # 0 => good \in 1 .. Len(read)
  <2>1. J \subseteq Nat /\ J \subseteq 1 .. Len(read)
    OBVIOUS
  <2> HIDE DEF J
  <2> QED
    BY Zenon, <2>1, MinDef
<1> HIDE DEF good
<1>6. good # 0 => read[good] \in D
  BY <1>4, <1>5
<1>7. good # 0 => read[good].size \in Nat
  BY <1>6 DEF D
<1> QED
  BY <1>1, <1>7

LEMMA RecordStorageType == \A entry \in Entry : RecordStorage(entry) \in Nat
  BY CodeViewType, UpDef DEF RecordStorage

LEMMA UnloadedNameType == \A slot \in RingSlot : UnloadedName(slot) \in Nat
<1> SUFFICES ASSUME NEW slot \in RingSlot PROVE UnloadedName(slot) \in Nat
  OBVIOUS
<1> DEFINE n == Smaller(slot.chars, kImageNameChars)
<1>1. WCHARSize \in Nat /\ n \in Nat
  BY WalkAssumption DEF RingSlot, Smaller
<1> HIDE DEF n
<1>2. n * WCHARSize \in Nat
  BY <1>1
<1> QED
  BY <1>2, StringSizeType DEF UnloadedName, n

LEMMA ThreadNameStorageType == \A chars \in Nat : ThreadNameStorage(chars) \in Nat
<1> SUFFICES ASSUME NEW chars \in Nat PROVE ThreadNameStorage(chars) \in Nat
  OBVIOUS
<1>1. WCHARSize \in Nat
  BY WalkAssumption
<1>2. chars * WCHARSize \in Nat
  BY <1>1
<1> QED
  BY <1>2, StringSizeType DEF ThreadNameStorage

LEMMA TotalUpTo ==
  ASSUME NEW f \in Seq(Nat), NEW i \in 0 .. Len(f)
  PROVE  /\ Total([k \in 1 .. i |-> f[k]]) = PrefixSums(f)[i]
         /\ PrefixSums(f)[i] \in Nat /\ PrefixSums(f)[i] <= Total(f)
<1> DEFINE g == [k \in 1 .. i |-> f[k]]
<1>1. Len(f) \in Nat /\ \A k \in 1 .. Len(f) : f[k] \in Nat
  OBVIOUS
<1>2. g \in Seq(Nat) /\ Len(g) = i /\ \A k \in 1 .. i : g[k] = f[k]
  BY <1>1
<1> HIDE DEF g
<1>3. PrefixSums(g)[i] = PrefixSums(f)[i]
  BY <1>1, <1>2, PrefixAgree
<1>4. Total(g) = PrefixSums(f)[i]
  BY <1>2, <1>3 DEF Total
<1>5. PrefixSums(f)[i] \in Nat
  BY PrefixSumsDef
<1>6. PrefixSums(f)[i] <= PrefixSums(f)[Len(f)]
  BY <1>1, PrefixMonotone
<1> QED
  BY <1>4, <1>5, <1>6 DEF g, Total

\* The names of some modules.
NameSizes(s) == [k \in DOMAIN s |-> NameStorage(s[k])]

LEMMA NameSizesDef ==
  ASSUME NEW s \in Seq(Entry)
  PROVE  /\ NameSizes(s) \in Seq(Nat) /\ Len(NameSizes(s)) = Len(s)
         /\ \A i \in 1 .. Len(s) + 1 :
              /\ SumBefore(NameStorage, s, i) = PrefixSums(NameSizes(s))[i - 1]
              /\ SumBefore(NameStorage, s, i) \in Nat
         /\ SumOf(NameStorage, s) = Total(NameSizes(s)) /\ SumOf(NameStorage, s) \in Nat
<1> DEFINE f == NameSizes(s)
<1>1. \A k \in 1 .. Len(s) : NameStorage(s[k]) \in Nat
  BY NameStorageType
<1>2. f \in Seq(Nat) /\ Len(f) = Len(s) /\ Len(s) \in Nat /\ \A k \in 1 .. Len(s) : f[k] = NameStorage(s[k])
  BY <1>1 DEF NameSizes
<1> HIDE DEF f
<1>3. ASSUME NEW i \in 1 .. Len(s) + 1
      PROVE  SumBefore(NameStorage, s, i) = PrefixSums(f)[i - 1] /\ PrefixSums(f)[i - 1] \in Nat
  <2>1. i - 1 \in 0 .. Len(f) /\ 1 .. i - 1 \subseteq 1 .. Len(s)
    BY <1>2
  <2>2. [k \in 1 .. i - 1 |-> NameStorage(s[k])] = [k \in 1 .. i - 1 |-> f[k]]
    BY <1>2, <2>1
  <2>3. SumBefore(NameStorage, s, i) = Total([k \in 1 .. i - 1 |-> f[k]])
    BY <2>2 DEF SumBefore
  <2> QED
    BY <1>2, <2>1, <2>3, TotalUpTo
<1>4. SumOf(NameStorage, s) = PrefixSums(f)[Len(s) + 1 - 1]
  BY <1>2, <1>3 DEF SumOf
<1>5. SumOf(NameStorage, s) = Total(f) /\ Total(f) \in Nat
  BY <1>2, <1>4, TotalDef DEF Total
<1> QED
  BY <1>2, <1>3, <1>5 DEF f

\* Their records.
RecordSizes(s) == [k \in DOMAIN s |-> RecordStorage(s[k])]

LEMMA RecordSizesDef ==
  ASSUME NEW s \in Seq(Entry)
  PROVE  /\ RecordSizes(s) \in Seq(Nat) /\ Len(RecordSizes(s)) = Len(s)
         /\ \A i \in 1 .. Len(s) + 1 :
              /\ SumBefore(RecordStorage, s, i) = PrefixSums(RecordSizes(s))[i - 1]
              /\ SumBefore(RecordStorage, s, i) \in Nat
         /\ SumOf(RecordStorage, s) = Total(RecordSizes(s)) /\ SumOf(RecordStorage, s) \in Nat
<1> DEFINE f == RecordSizes(s)
<1>1. \A k \in 1 .. Len(s) : RecordStorage(s[k]) \in Nat
  BY RecordStorageType
<1>2. f \in Seq(Nat) /\ Len(f) = Len(s) /\ Len(s) \in Nat /\ \A k \in 1 .. Len(s) : f[k] = RecordStorage(s[k])
  BY <1>1 DEF RecordSizes
<1> HIDE DEF f
<1>3. ASSUME NEW i \in 1 .. Len(s) + 1
      PROVE  SumBefore(RecordStorage, s, i) = PrefixSums(f)[i - 1] /\ PrefixSums(f)[i - 1] \in Nat
  <2>1. i - 1 \in 0 .. Len(f) /\ 1 .. i - 1 \subseteq 1 .. Len(s)
    BY <1>2
  <2>2. [k \in 1 .. i - 1 |-> RecordStorage(s[k])] = [k \in 1 .. i - 1 |-> f[k]]
    BY <1>2, <2>1
  <2>3. SumBefore(RecordStorage, s, i) = Total([k \in 1 .. i - 1 |-> f[k]])
    BY <2>2 DEF SumBefore
  <2> QED
    BY <1>2, <2>1, <2>3, TotalUpTo
<1>4. SumOf(RecordStorage, s) = PrefixSums(f)[Len(s) + 1 - 1]
  BY <1>2, <1>3 DEF SumOf
<1>5. SumOf(RecordStorage, s) = Total(f) /\ Total(f) \in Nat
  BY <1>2, <1>4, TotalDef DEF Total
<1> QED
  BY <1>2, <1>3, <1>5 DEF f

\* The names of unloaded modules.
UnloadedSizes(s) == [k \in DOMAIN s |-> UnloadedName(s[k])]

LEMMA UnloadedSizesDef ==
  ASSUME NEW s \in Seq(RingSlot)
  PROVE  /\ UnloadedSizes(s) \in Seq(Nat) /\ Len(UnloadedSizes(s)) = Len(s)
         /\ \A i \in 1 .. Len(s) + 1 :
              /\ SumBefore(UnloadedName, s, i) = PrefixSums(UnloadedSizes(s))[i - 1]
              /\ SumBefore(UnloadedName, s, i) \in Nat
         /\ SumOf(UnloadedName, s) = Total(UnloadedSizes(s)) /\ SumOf(UnloadedName, s) \in Nat
<1> DEFINE f == UnloadedSizes(s)
<1>1. \A k \in 1 .. Len(s) : UnloadedName(s[k]) \in Nat
  BY UnloadedNameType
<1>2. f \in Seq(Nat) /\ Len(f) = Len(s) /\ Len(s) \in Nat /\ \A k \in 1 .. Len(s) : f[k] = UnloadedName(s[k])
  BY <1>1 DEF UnloadedSizes
<1> HIDE DEF f
<1>3. ASSUME NEW i \in 1 .. Len(s) + 1
      PROVE  SumBefore(UnloadedName, s, i) = PrefixSums(f)[i - 1] /\ PrefixSums(f)[i - 1] \in Nat
  <2>1. i - 1 \in 0 .. Len(f) /\ 1 .. i - 1 \subseteq 1 .. Len(s)
    BY <1>2
  <2>2. [k \in 1 .. i - 1 |-> UnloadedName(s[k])] = [k \in 1 .. i - 1 |-> f[k]]
    BY <1>2, <2>1
  <2>3. SumBefore(UnloadedName, s, i) = Total([k \in 1 .. i - 1 |-> f[k]])
    BY <2>2 DEF SumBefore
  <2> QED
    BY <1>2, <2>1, <2>3, TotalUpTo
<1>4. SumOf(UnloadedName, s) = PrefixSums(f)[Len(s) + 1 - 1]
  BY <1>2, <1>3 DEF SumOf
<1>5. SumOf(UnloadedName, s) = Total(f) /\ Total(f) \in Nat
  BY <1>2, <1>4, TotalDef DEF Total
<1> QED
  BY <1>2, <1>3, <1>5 DEF f

\* The names of threads.
ThreadNameSizes(s) == [k \in DOMAIN s |-> ThreadNameStorage(s[k])]

LEMMA ThreadNameSizesDef ==
  ASSUME NEW s \in Seq(Nat)
  PROVE  /\ ThreadNameSizes(s) \in Seq(Nat) /\ Len(ThreadNameSizes(s)) = Len(s)
         /\ \A i \in 1 .. Len(s) + 1 :
              /\ SumBefore(ThreadNameStorage, s, i) = PrefixSums(ThreadNameSizes(s))[i - 1]
              /\ SumBefore(ThreadNameStorage, s, i) \in Nat
         /\ SumOf(ThreadNameStorage, s) = Total(ThreadNameSizes(s)) /\ SumOf(ThreadNameStorage, s) \in Nat
<1> DEFINE f == ThreadNameSizes(s)
<1>1. \A k \in 1 .. Len(s) : ThreadNameStorage(s[k]) \in Nat
  <2>1. \A k \in 1 .. Len(s) : s[k] \in Nat
    OBVIOUS
  <2> QED
    BY Zenon, <2>1, ThreadNameStorageType
<1>2. /\ f \in Seq(Nat) /\ Len(f) = Len(s) /\ Len(s) \in Nat
      /\ \A k \in 1 .. Len(s) : f[k] = ThreadNameStorage(s[k])
  BY <1>1 DEF ThreadNameSizes
<1> HIDE DEF f
<1>3. ASSUME NEW i \in 1 .. Len(s) + 1
      PROVE  SumBefore(ThreadNameStorage, s, i) = PrefixSums(f)[i - 1] /\ PrefixSums(f)[i - 1] \in Nat
  <2>1. i - 1 \in 0 .. Len(f) /\ 1 .. i - 1 \subseteq 1 .. Len(s)
    BY <1>2
  <2>2. [k \in 1 .. i - 1 |-> ThreadNameStorage(s[k])] = [k \in 1 .. i - 1 |-> f[k]]
    BY <1>2, <2>1
  <2>3. SumBefore(ThreadNameStorage, s, i) = Total([k \in 1 .. i - 1 |-> f[k]])
    BY Zenon, <2>2 DEF SumBefore
  <2> QED
    BY <1>2, <2>1, <2>3, TotalUpTo
<1>4. SumOf(ThreadNameStorage, s) = PrefixSums(f)[Len(s) + 1 - 1]
  BY <1>2, <1>3 DEF SumOf
<1>5. SumOf(ThreadNameStorage, s) = Total(f) /\ Total(f) \in Nat
  BY <1>2, <1>4, TotalDef DEF Total
<1> QED
  BY <1>2, <1>3, <1>5 DEF f

\* Those that come before the first of which something is not so.
LEMMA Leaders ==
  ASSUME NEW n \in Nat, NEW D, NEW f
  PROVE  \E m \in 0 .. n : /\ {k \in 1 .. n : \A j \in 1 .. k : f[j] \in D} = 1 .. m
                           /\ \A k \in 1 .. m : f[k] \in D
<1> DEFINE bad == {k \in 1 .. n : f[k] \notin D}
           good == {k \in 1 .. n : \A j \in 1 .. k : f[j] \in D}
<1>1. CASE bad = {}
  <2>1. good = 1 .. n /\ \A k \in 1 .. n : f[k] \in D
    BY <1>1
  <2> QED
    BY <2>1
<1>2. CASE bad # {}
  <2>1. PICK x \in bad : \A y \in bad : x <= y
    <3>1. bad \subseteq Nat
      OBVIOUS
    <3> HIDE DEF bad
    <3> QED
      BY Zenon, <1>2, <3>1, LeastNat
  <2>2. \A k \in 1 .. x - 1 : f[k] \in D
    BY <2>1
  <2>3. good = 1 .. x - 1
    BY <2>1, <2>2
  <2>4. x - 1 \in 0 .. n
    BY <2>1
  <2> QED
    BY <2>2, <2>3, <2>4
<1> QED
  BY <1>1, <1>2

\* A walk passes entries of the list, and no more than it may.
LEMMA WalkDef ==
  ASSUME NEW list \in LoaderList, NEW limit \in Nat
  PROVE  Walk(list, limit) \in Seq(Entry) /\ Len(Walk(list, limit)) <= limit
<1> DEFINE at[k \in 1 .. limit] ==
             LET from == IF k = 1 THEN list.first ELSE at[k - 1]
             IN  IF k = 1 \/ from \notin DOMAIN list.entries THEN from ELSE list.entries[from].next
           seen == {k \in 1 .. limit : \A j \in 1 .. k : at[j] \in DOMAIN list.entries}
<1>1. Walk(list, limit) = [k \in 1 .. Cardinality(seen) |-> list.entries[at[k]]]
  BY DEF Walk
<1> HIDE DEF at
<1>2. PICK m \in 0 .. limit : seen = 1 .. m /\ \A k \in 1 .. m : at[k] \in DOMAIN list.entries
  BY Zenon, Leaders
<1> HIDE DEF seen
<1>3. Cardinality(seen) = m
  <2>1. Cardinality(1 .. m) = IF 1 > m THEN 0 ELSE m - 1 + 1
    BY FS_Interval
  <2> QED
    BY <1>2, <2>1
<1>4. \A k \in 1 .. m : list.entries[at[k]] \in Entry
  <2>1. list.entries \in Seq(Entry)
    BY DEF LoaderList, Entry
  <2> QED
    BY <1>2, <2>1
<1>5. [k \in 1 .. m |-> list.entries[at[k]]] \in Seq(Entry)
  BY <1>4
<1>6. Len([k \in 1 .. m |-> list.entries[at[k]]]) = m
  OBVIOUS
<1> QED
  BY <1>1, <1>3, <1>5, <1>6

Counted == [count : 0 .. kMaxModules, names : Nat, records : Nat]
CountedUnloaded == [count : 0 .. kMaxUnloadedModules, names : Nat]

LEMMA CountModulesType == \A list \in LoaderList : CountModules(list) \in Counted
<1> SUFFICES ASSUME NEW list \in LoaderList PROVE CountModules(list) \in Counted
  OBVIOUS
<1> DEFINE walked == Walk(list, kMaxModules)
           I == {i \in 1 .. Len(walked) : ~walked[i].header}
           lost == IF I # {} THEN Min(I) ELSE 0
           seen == IF lost = 0 THEN walked ELSE First(walked, lost - 1)
<1>1. kMaxModules \in Nat
  BY WalkAssumption
<1>2. walked \in Seq(Entry) /\ Len(walked) <= kMaxModules /\ Len(walked) \in Nat
  BY <1>1, WalkDef
<1>3. CountModules(list) = [count |-> Len(seen), names |-> SumOf(NameStorage, seen),
                            records |-> SumOf(RecordStorage, seen)]
  BY DEF CountModules, SelectInSeq
<1> HIDE DEF walked
<1>4. lost \in Nat
  <2>1. I \subseteq Nat
    OBVIOUS
  <2> HIDE DEF I
  <2> QED
    BY Zenon, <2>1, MinDef
<1> HIDE DEF lost
<1>5. seen \in Seq(Entry) /\ Len(seen) <= Len(walked) /\ Len(seen) \in Nat
  <2>1. lost # 0 => /\ First(walked, lost - 1) \in Seq(Entry)
                    /\ Len(First(walked, lost - 1)) = Smaller(lost - 1, Len(walked))
    BY <1>2, <1>4, FirstDef
  <2>2. seen \in Seq(Entry)
    BY <1>2, <2>1
  <2>3. Len(seen) <= Len(walked)
    BY <1>2, <1>4, <2>1 DEF Smaller
  <2> HIDE DEF seen
  <2> QED
    BY <2>2, <2>3
<1> HIDE DEF seen
<1>6. SumOf(NameStorage, seen) \in Nat /\ SumOf(RecordStorage, seen) \in Nat
  BY <1>5, NameSizesDef, RecordSizesDef
<1>7. Len(seen) \in 0 .. kMaxModules
  BY <1>1, <1>2, <1>5
<1> QED
  BY <1>3, <1>6, <1>7 DEF Counted

LEMMA StringRvaType ==
  \A rva, count \in Nat : /\ count * ModuleSize \in Nat /\ StringRva(rva, count) \in Nat
                          /\ StringRva(rva, count) = rva + ULONG32Size + count * ModuleSize
<1>1. ULONG32Size \in Nat /\ ModuleSize \in Nat
  BY WalkAssumption
<1>2. \A count \in Nat : count * ModuleSize \in Nat
  BY <1>1
<1> QED
  BY <1>1, <1>2 DEF StringRva

\* Where the records begin, when the names of a walk come first.
LEMMA CodeViewBaseDef ==
  ASSUME NEW list \in LoaderList, NEW rva \in Nat, NEW count \in Nat
  PROVE  /\ CodeViewBase(list, rva, count) \in Nat
         /\ CodeViewBase(list, rva, count) >= StringRva(rva, count)
         /\ CodeViewBase(list, rva, count) = StringRva(rva, count) + Total(NameSizes(Walk(list, count)))
<1>1. StringRva(rva, count) \in Nat
  BY StringRvaType
<1>2. /\ SumOf(NameStorage, Walk(list, count)) \in Nat
      /\ SumOf(NameStorage, Walk(list, count)) = Total(NameSizes(Walk(list, count)))
  BY WalkDef, NameSizesDef
<1> QED
  BY <1>1, <1>2 DEF CodeViewBase

LEMMA ModuleStringsType ==
  ASSUME NEW list \in LoaderList, NEW count \in Nat
  PROVE  ModuleStrings(list, count) \in Seq(Nat) /\ Len(ModuleStrings(list, count)) = count
<1> DEFINE walked == Walk(list, count)
<1>1. walked \in Seq(Entry)
  BY WalkDef
<1>2. MinidumpStringSize(0) \in Nat
  BY StringSizeType
<1>3. \A i \in 1 .. Len(walked) : NameStorage(walked[i]) \in Nat
  BY <1>1, NameStorageType
<1>4. ModuleStrings(list, count) =
        [i \in 1 .. count |-> IF i > Len(walked) THEN MinidumpStringSize(0) ELSE NameStorage(walked[i])]
  BY DEF ModuleStrings
<1> HIDE DEF walked
<1>5. Len(walked) \in Nat
  BY <1>1
<1>6. \A i \in 1 .. count :
        (IF i > Len(walked) THEN MinidumpStringSize(0) ELSE NameStorage(walked[i])) \in Nat
  BY <1>2, <1>3, <1>5
<1> QED
  BY <1>4, <1>6

LEMMA ModuleRecordsDef ==
  ASSUME NEW list \in LoaderList, NEW count \in Nat
  PROVE  /\ ModuleRecords(list, count) = RecordSizes(Walk(list, count))
         /\ ModuleRecords(list, count) \in Seq(Nat)
<1> DEFINE walked == Walk(list, count)
<1>1. walked \in Seq(Entry)
  BY WalkDef
<1>2. ModuleRecords(list, count) = [i \in 1 .. Len(walked) |-> RecordStorage(walked[i])]
  BY DEF ModuleRecords
<1> HIDE DEF walked
<1>3. DOMAIN walked = 1 .. Len(walked)
  BY <1>1
<1>4. ModuleRecords(list, count) = RecordSizes(walked)
  BY <1>2, <1>3 DEF RecordSizes
<1> QED
  BY <1>1, <1>4, RecordSizesDef DEF walked

LEMMA UnloadedModulesType ==
  ASSUME NEW ring \in UnloadRing
  PROVE  UnloadedModules(ring) \in Seq(RingSlot) /\ Len(UnloadedModules(ring)) \in 0 .. kMaxUnloadedModules
<1> DEFINE first == First(ring, kMaxUnloadedModules)
<1>1. kMaxUnloadedModules \in Nat /\ ring \in Seq(RingSlot) /\ Len(ring) \in Nat
  BY WalkAssumption DEF UnloadRing, RingSlot
<1>2. first \in Seq(RingSlot) /\ Len(first) <= kMaxUnloadedModules
  <2>1. first \in Seq(RingSlot) /\ Len(first) = Smaller(kMaxUnloadedModules, Len(ring))
    BY <1>1, FirstDef
  <2> QED
    BY <1>1, <2>1 DEF Smaller
<1> HIDE DEF first
<1>3. /\ UnloadedModules(ring) \in Seq(RingSlot)
      /\ Len(UnloadedModules(ring)) <= Len(first)
  BY Zenon, <1>2, KeptDef DEF UnloadedModules, first
<1>4. Len(UnloadedModules(ring)) \in Nat /\ Len(first) \in Nat
  BY <1>2, <1>3
<1> QED
  BY <1>1, <1>2, <1>3, <1>4

LEMMA CountUnloadedType == \A ring \in UnloadRing : CountUnloadedModules(ring) \in CountedUnloaded
<1> SUFFICES ASSUME NEW ring \in UnloadRing PROVE CountUnloadedModules(ring) \in CountedUnloaded
  OBVIOUS
<1> DEFINE valid == UnloadedModules(ring)
<1>1. valid \in Seq(RingSlot) /\ Len(valid) \in 0 .. kMaxUnloadedModules
  BY UnloadedModulesType
<1>2. CountUnloadedModules(ring) = [count |-> Len(valid), names |-> SumOf(UnloadedName, valid)]
  BY DEF CountUnloadedModules
<1> HIDE DEF valid
<1>3. SumOf(UnloadedName, valid) \in Nat
  BY <1>1, UnloadedSizesDef
<1> QED
  BY <1>1, <1>2, <1>3 DEF CountedUnloaded

LEMMA UnloadedWalkType ==
  ASSUME NEW ring \in UnloadRing, NEW count \in Nat
  PROVE  /\ UnloadedWalk(ring, count) \in Seq(RingSlot)
         /\ Len(UnloadedWalk(ring, count)) = Smaller(count, Len(UnloadedModules(ring)))
         /\ count = Len(UnloadedModules(ring)) => UnloadedWalk(ring, count) = UnloadedModules(ring)
<1>1. UnloadedModules(ring) \in Seq(RingSlot)
  BY UnloadedModulesType
<1> QED
  BY <1>1, FirstDef DEF UnloadedWalk

LEMMA MemoryInfoRangesType ==
  ASSUME NEW regions \in Seq(Nat)
  PROVE  MemoryInfoRanges(regions) \in Nat
<1> DEFINE I == {i \in 1 .. Len(regions) : regions[i] = 0}
           bad == IF I # {} THEN Min(I) ELSE 0
<1>1. MemoryInfoRanges(regions) = IF bad = 0 THEN Len(regions) ELSE bad - 1
  BY DEF MemoryInfoRanges, SelectInSeq
<1>2. bad \in Nat /\ Len(regions) \in Nat /\ (bad # 0 => bad - 1 \in Nat)
  <2>1. I \subseteq Nat /\ Len(regions) \in Nat
    OBVIOUS
  <2> HIDE DEF I
  <2>2. bad \in Nat
    BY Zenon, <2>1, MinDef
  <2> HIDE DEF bad
  <2> QED
    BY <2>1, <2>2
<1> QED
  BY Zenon, <1>1, <1>2

LEMMA ThreadNamesType ==
  ASSUME NEW plan \in Seq(Nat)
  PROVE  ThreadNames(plan) \in Seq(Nat)
  BY Zenon, KeptDef DEF ThreadNames

-----------------------------------------------------------------------------
(***************************************************************************)
(* The setters.  The thread that is between the wait and the release owns  *)
(* the mutex, so that it alone is there; what it found when it began to    *)
(* splice is still so when it ends.                                        *)
(***************************************************************************)

Labels == {"idle", "wait", "verify", "edit", "splice", "crc", "release", "dead"}
Inside == {"verify", "edit", "splice", "crc", "release"}

SetterTypes ==
  /\ text \in Seq(Lines)
  /\ whole \in 0 .. Whole
  /\ mutex \in [exists : BOOLEAN, owner : Setters \cup {NoThread}, count : Nat, abandoned : BOOLEAN]
  /\ pc \in [Setters -> Labels]
  /\ calls \in [Setters -> Seq(Requests)]
  /\ answer \in [Setters -> {"none", "TRUE", "FALSE"}]

\* Who is inside owns the mutex.
InsideOwns ==
  /\ \A t \in Setters : pc[t] \in Inside => mutex.owner = t
  /\ mutex.abandoned => mutex.owner = NoThread
  /\ mutex.owner # NoThread => mutex.count > 0
  /\ \A t \in Setters : pc[t] \notin {"idle", "dead"} => calls[t] # <<>>

\* The text fits, and so does the one that a splice is going to leave.
TextFits ==
  /\ Fits(text)
  /\ \A t \in Setters : pc[t] = "splice" => ~Refused(text, Head(calls[t]))

\* The text is torn and its CRC is not its own only where a thread is, or was
\* stopped, in the middle of a change.
CrcVouches ==
  /\ whole # Whole => Dead # {} \/ \E t \in Setters : pc[t] = "splice"
  /\ Dead = {} /\ (\A t \in Setters : pc[t] \notin {"splice", "crc"}) => crc = Covered(text)

SetterInv == SetterTypes /\ InsideOwns /\ TextFits /\ CrcVouches

LEMMA EmptyText == <<>> \in Seq(Lines) /\ TextLength(<<>>) = 0 /\ Fits(<<>>) /\ Whole \in Nat /\ Whole # 0
<1>1. <<>> \in Seq(Lines)
  OBVIOUS
<1>2. TextLength(<<>>) = 0
  BY Zenon, <1>1, TextLengthDef
<1>3. kCommentBufferWChars \in Nat /\ kCommentBufferWChars # 0
  BY CommentLimitsAssumption
<1> QED
  BY <1>1, <1>2, <1>3 DEF Fits, Whole

LEMMA SetterInit == Init => SetterInv
<1> SUFFICES ASSUME Init PROVE SetterInv
  OBVIOUS
<1> USE DEF Init, CommentInit
<1>1. text = <<>> /\ whole = Whole /\ crc = Covered(<<>>) /\ pc = [t \in Setters |-> "idle"]
  OBVIOUS
<1>2. mutex \in [exists : BOOLEAN, owner : Setters \cup {NoThread}, count : Nat, abandoned : BOOLEAN]
      /\ mutex.owner = NoThread
  OBVIOUS
<1>3. calls \in [Setters -> Seq(Requests)]
  BY WorldsAssumption
<1>4. answer \in [Setters -> {"none", "TRUE", "FALSE"}]
  OBVIOUS
<1> USE <1>1
<1>5. SetterTypes
  BY <1>2, <1>3, <1>4, EmptyText DEF SetterTypes, Labels
<1>6. InsideOwns
  BY <1>2 DEF InsideOwns, Inside
<1>7. TextFits
  BY EmptyText DEF TextFits
<1>8. CrcVouches
  BY DEF CrcVouches
<1> QED
  BY <1>5, <1>6, <1>7, <1>8 DEF SetterInv

\* What a step of one thread leaves of the others.
LEMMA Alone ==
  ASSUME SetterInv, NEW t \in Setters, pc[t] \in Inside
  PROVE  /\ mutex.owner = t /\ mutex.count \in Nat /\ mutex.count > 0 /\ ~mutex.abandoned
         /\ \A u \in Setters \ {t} : pc[u] \notin Inside
         /\ calls[t] # <<>> /\ Head(calls[t]) \in Requests
<1> USE DEF SetterInv, SetterTypes, InsideOwns
<1>1. mutex.owner = t /\ t # NoThread
  BY SettersAssumption
<1>2. mutex.count \in Nat /\ mutex.count > 0 /\ ~mutex.abandoned
  BY <1>1
<1>3. \A u \in Setters \ {t} : pc[u] \notin Inside
  BY <1>1
<1>4. calls[t] # <<>> /\ calls[t] \in Seq(Requests)
  BY Zenon DEF Inside
<1>5. Head(calls[t]) \in Requests
  BY <1>4
<1> QED
  BY <1>1, <1>2, <1>3, <1>4, <1>5

LEMMA TextBound ==
  ASSUME SetterInv
  PROVE  /\ text \in Seq(Lines) /\ TextLength(text) \in Nat /\ TextLength(text) < kCommentBufferWChars
         /\ Whole = kCommentBufferWChars /\ Whole \in Nat
<1>1. text \in Seq(Lines) /\ Fits(text)
  BY DEF SetterInv, SetterTypes, TextFits
<1>2. TextLength(text) \in Nat
  BY <1>1, TextLengthDef
<1>3. Whole = kCommentBufferWChars /\ Whole \in Nat
  BY EmptyText DEF Whole
<1>4. TextLength(text) + 1 <= kCommentBufferWChars
  BY <1>1 DEF Fits
<1> QED
  BY <1>1, <1>2, <1>3, <1>4
\* A thread that goes on from a place where it is not dead to another such.
LEMMA Moves ==
  ASSUME SetterInv, NEW t \in Setters, NEW l \in Labels \ {"dead"}, pc[t] # "dead", Goto(t, l)
  PROVE  /\ pc' \in [Setters -> Labels] /\ Dead' = Dead
         /\ pc'[t] = l /\ \A u \in Setters \ {t} : pc'[u] = pc[u]
<1>1. pc \in [Setters -> Labels] /\ pc' = [pc EXCEPT ![t] = l]
  BY DEF SetterInv, SetterTypes, Goto
<1>2. pc' \in [Setters -> Labels] /\ pc'[t] = l /\ \A u \in Setters \ {t} : pc'[u] = pc[u]
  BY <1>1
<1>3. Dead' = Dead
  BY <1>2 DEF Dead
<1> QED
  BY <1>2, <1>3

\* A call that is over is the first of those to make.
LEMMA CallsLeft ==
  ASSUME SetterInv, NEW t \in Setters, calls[t] # <<>>, calls' = [calls EXCEPT ![t] = Tail(@)]
  PROVE  calls' \in [Setters -> Seq(Requests)] /\ \A u \in Setters \ {t} : calls'[u] = calls[u]
<1>1. calls \in [Setters -> Seq(Requests)]
  BY DEF SetterInv, SetterTypes
<1>2. Tail(calls[t]) \in Seq(Requests)
  <2>1. calls[t] \in Seq(Requests)
    BY <1>1
  <2> QED
    BY <2>1
<1> QED
  BY <1>1, <1>2

LEMMA AnswersType ==
  ASSUME SetterInv, NEW t \in Setters, NEW result \in {"none", "TRUE", "FALSE"}, Answers(t, result)
  PROVE  answer' \in [Setters -> {"none", "TRUE", "FALSE"}]
<1>1. answer \in [Setters -> {"none", "TRUE", "FALSE"}]
  BY DEF SetterInv, SetterTypes
<1> QED
  BY <1>1 DEF Answers

\* A step that leaves the buffer alone, by a thread that is not between the
\* start and the end of a change before or after it.
LEMMA BufferKept ==
  ASSUME SetterInv, NEW t \in Setters, pc[t] \notin {"splice", "crc"}, UNCHANGED buffer,
         pc'[t] \notin {"splice", "crc"}, Dead' = Dead,
         \A u \in Setters \ {t} : pc'[u] = pc[u] /\ calls'[u] = calls[u]
  PROVE  TextFits' /\ CrcVouches'
<1>1. text' = text /\ whole' = whole /\ crc' = crc
  BY DEF buffer
<1>2. Fits(text)' /\ Covered(text)' = Covered(text)
  BY <1>1 DEF SetterInv, TextFits, Fits, Covered, TextLength, Leading
<1>3. \A u \in Setters : pc'[u] = "splice" => ~Refused(text, Head(calls[u]))'
  BY <1>1 DEF SetterInv, TextFits
<1>4. TextFits'
  BY <1>1, <1>2, <1>3 DEF TextFits
<1>5. CrcVouches'
  BY <1>1, <1>2 DEF SetterInv, CrcVouches, Whole
<1> QED
  BY <1>4, <1>5

\* What a step makes of the mutex.
Mutexes == [exists : BOOLEAN, owner : Setters \cup {NoThread}, count : Nat, abandoned : BOOLEAN]

LEMMA MutexFields ==
  ASSUME SetterInv, NEW o \in Setters \cup {NoThread}, NEW c \in Nat
  PROVE  /\ [mutex EXCEPT !.owner = o, !.count = c] \in Mutexes
         /\ [mutex EXCEPT !.owner = o, !.count = c].owner = o
         /\ [mutex EXCEPT !.owner = o, !.count = c].count = c
         /\ [mutex EXCEPT !.owner = o, !.count = c].abandoned = mutex.abandoned
         /\ [mutex EXCEPT !.owner = o, !.count = c].exists = mutex.exists
         /\ [mutex EXCEPT !.owner = o, !.count = c, !.abandoned = FALSE] \in Mutexes
         /\ [mutex EXCEPT !.owner = o, !.count = c, !.abandoned = FALSE].owner = o
         /\ [mutex EXCEPT !.owner = o, !.count = c, !.abandoned = FALSE].count = c
         /\ ~[mutex EXCEPT !.owner = o, !.count = c, !.abandoned = FALSE].abandoned
         /\ [mutex EXCEPT !.owner = o, !.count = c, !.abandoned = TRUE] \in Mutexes
         /\ [mutex EXCEPT !.owner = o, !.count = c, !.abandoned = TRUE].owner = o
<1>1. mutex \in Mutexes
  BY DEF SetterInv, SetterTypes, Mutexes
<1> QED
  BY Zenon, <1>1 DEF Mutexes

LEMMA StepWithoutBuffer ==
  ASSUME SetterInv, NEW t \in Setters,
         Enter(t) \/ Acquire(t) \/ AcquireAbandoned(t) \/ NoMutex(t) \/ EditNothing(t) \/ Release(t)
  PROVE  SetterInv'
<1> USE DEF Running, Returns
<1>1. CASE Enter(t)
  <2>1. pc[t] = "idle" /\ calls[t] # <<>> /\ UNCHANGED buffer /\ mutex' = mutex
    BY <1>1 DEF Enter
  <2>2. /\ calls' \in [Setters -> Seq(Requests)]
        /\ \A u \in Setters \ {t} : calls'[u] = calls[u]
        /\ calls'[t] # <<>> \/ Goto(t, "idle")
        /\ Goto(t, "idle") \/ Goto(t, "wait")
    <3>1. CASE RefusedEarly(Head(calls[t]))
      BY <1>1, <2>1, <3>1, CallsLeft DEF Enter
    <3>2. CASE ~RefusedEarly(Head(calls[t]))
      BY <1>1, <2>1, <3>2 DEF Enter, SetterInv, SetterTypes
    <3> QED
      BY <3>1, <3>2
  <2>3. answer' \in [Setters -> {"none", "TRUE", "FALSE"}]
    BY <1>1, AnswersType DEF Enter
  <2>4. /\ pc' \in [Setters -> Labels] /\ Dead' = Dead /\ pc'[t] \in {"idle", "wait"}
        /\ \A u \in Setters \ {t} : pc'[u] = pc[u]
        /\ calls'[t] # <<>> \/ pc'[t] = "idle"
    BY <2>1, <2>2, Moves DEF Labels
  <2>5. SetterTypes'
    BY <2>1, <2>2, <2>3, <2>4 DEF SetterInv, SetterTypes, buffer, Whole
  <2>6. InsideOwns'
    BY Zenon, <2>1, <2>2, <2>4 DEF SetterInv, InsideOwns, Inside
  <2>7. TextFits' /\ CrcVouches'
    BY <2>1, <2>2, <2>4, BufferKept
  <2> QED
    BY <2>5, <2>6, <2>7 DEF SetterInv
<1>2. CASE Acquire(t)
  <2>1. /\ pc[t] = "wait" /\ UNCHANGED <<buffer, calls, answer>> /\ Goto(t, "verify")
        /\ ~mutex.abandoned /\ mutex.owner \in {NoThread, t}
        /\ mutex' = [mutex EXCEPT !.owner = t, !.count = @ + 1]
    BY <1>2 DEF Acquire
  <2>2. /\ pc' \in [Setters -> Labels] /\ Dead' = Dead /\ pc'[t] = "verify"
        /\ \A u \in Setters \ {t} : pc'[u] = pc[u]
    BY <2>1, Moves DEF Labels
  <2>3. /\ mutex' \in [exists : BOOLEAN, owner : Setters \cup {NoThread}, count : Nat, abandoned : BOOLEAN]
        /\ mutex'.owner = t /\ mutex'.count > 0 /\ ~mutex'.abandoned
    <3>1. mutex \in Mutexes
      BY DEF SetterInv, SetterTypes, Mutexes
    <3>2. mutex.count \in Nat /\ mutex.count + 1 \in Nat /\ mutex.count + 1 > 0
      BY <3>1 DEF Mutexes
    <3>3. mutex' = [mutex EXCEPT !.owner = t, !.count = mutex.count + 1]
      BY <2>1, <3>1 DEF Mutexes
    <3>4. mutex' \in Mutexes /\ mutex'.owner = t /\ mutex'.count = mutex.count + 1 /\ ~mutex'.abandoned
      <4>1. t \in Setters \cup {NoThread}
        OBVIOUS
      <4>2. ~mutex.abandoned
        BY <2>1
      <4> DEFINE c == mutex.count + 1
      <4>3. c \in Nat /\ mutex' = [mutex EXCEPT !.owner = t, !.count = c]
        BY <3>2, <3>3
      <4> HIDE DEF c
      <4>4. mutex' \in Mutexes /\ mutex'.owner = t /\ mutex'.count = c /\ ~mutex'.abandoned
        BY ONLY ZenonT(30), <4>1, <4>2, <4>3, SetterInv, MutexFields
      <4> QED
        BY <4>4 DEF c
    <3> QED
      BY <3>2, <3>4 DEF Mutexes
  <2>4. SetterTypes'
    BY <2>1, <2>2, <2>3 DEF SetterInv, SetterTypes, buffer, Whole
  <2>5. \A u \in Setters \ {t} : pc[u] \notin Inside
    BY <2>1, SettersAssumption DEF SetterInv, InsideOwns
  <2>6. InsideOwns'
    BY <2>1, <2>2, <2>3, <2>5 DEF SetterInv, InsideOwns
  <2>7. TextFits' /\ CrcVouches'
    BY <2>1, <2>2, BufferKept
  <2> QED
    BY <2>4, <2>6, <2>7 DEF SetterInv
<1>3. CASE AcquireAbandoned(t)
  <2>1. /\ pc[t] = "wait" /\ UNCHANGED buffer /\ Goto(t, "idle") /\ Answers(t, "FALSE")
        /\ mutex.abandoned /\ calls' = [calls EXCEPT ![t] = Tail(@)]
        /\ mutex' = [mutex EXCEPT !.owner = t, !.count = 1, !.abandoned = FALSE]
    BY <1>3 DEF AcquireAbandoned
  <2>2. /\ pc' \in [Setters -> Labels] /\ Dead' = Dead /\ pc'[t] = "idle"
        /\ \A u \in Setters \ {t} : pc'[u] = pc[u]
    BY <2>1, Moves DEF Labels
  <2>3. /\ mutex' \in [exists : BOOLEAN, owner : Setters \cup {NoThread}, count : Nat, abandoned : BOOLEAN]
        /\ mutex'.owner = t /\ mutex'.count > 0 /\ ~mutex'.abandoned
    <3>1. mutex' \in Mutexes /\ mutex'.owner = t /\ mutex'.count = 1 /\ ~mutex'.abandoned
      <4>1. t \in Setters \cup {NoThread} /\ 1 \in Nat
        OBVIOUS
      <4> QED
        BY ONLY ZenonT(30), <2>1, <4>1, SetterInv, MutexFields
    <3> QED
      BY <3>1 DEF Mutexes
  <2>4. answer' \in [Setters -> {"none", "TRUE", "FALSE"}]
    BY <2>1, AnswersType
  <2>5. calls[t] # <<>>
    BY <2>1 DEF SetterInv, InsideOwns
  <2>6. calls' \in [Setters -> Seq(Requests)] /\ \A u \in Setters \ {t} : calls'[u] = calls[u]
    BY Zenon, <2>1, <2>5, CallsLeft
  <2>7. SetterTypes'
    BY <2>1, <2>2, <2>3, <2>4, <2>6 DEF SetterInv, SetterTypes, buffer, Whole
  <2>8. \A u \in Setters : pc[u] \notin Inside
    BY <2>1, SettersAssumption DEF SetterInv, InsideOwns
  <2>9. InsideOwns'
    BY <2>1, <2>2, <2>3, <2>6, <2>8 DEF SetterInv, InsideOwns, Inside
  <2>10. TextFits' /\ CrcVouches'
    BY <2>1, <2>2, <2>6, BufferKept
  <2> QED
    BY <2>7, <2>9, <2>10 DEF SetterInv
<1>4. CASE NoMutex(t)
  <2>1. /\ pc[t] = "wait" /\ UNCHANGED buffer /\ Goto(t, "idle") /\ Answers(t, "FALSE")
        /\ calls' = [calls EXCEPT ![t] = Tail(@)] /\ mutex' = mutex
    BY <1>4 DEF NoMutex
  <2>2. /\ pc' \in [Setters -> Labels] /\ Dead' = Dead /\ pc'[t] = "idle"
        /\ \A u \in Setters \ {t} : pc'[u] = pc[u]
    BY <2>1, Moves DEF Labels
  <2>3. answer' \in [Setters -> {"none", "TRUE", "FALSE"}]
    BY <2>1, AnswersType
  <2>4. calls[t] # <<>>
    BY <2>1 DEF SetterInv, InsideOwns
  <2>5. calls' \in [Setters -> Seq(Requests)] /\ \A u \in Setters \ {t} : calls'[u] = calls[u]
    BY Zenon, <2>1, <2>4, CallsLeft
  <2>6. SetterTypes'
    BY <2>1, <2>2, <2>3, <2>5 DEF SetterInv, SetterTypes, buffer, Whole
  <2>7. InsideOwns'
    BY Zenon, <2>1, <2>2, <2>5 DEF SetterInv, InsideOwns, Inside
  <2>8. TextFits' /\ CrcVouches'
    BY <2>1, <2>2, <2>5, BufferKept
  <2> QED
    BY <2>6, <2>7, <2>8 DEF SetterInv
<1>5. CASE EditNothing(t)
  <2>1. /\ pc[t] = "edit" /\ UNCHANGED <<buffer, mutex, calls>> /\ Goto(t, "release")
        /\ Answers(t, "TRUE") \/ Answers(t, "FALSE")
    BY <1>5 DEF EditNothing
  <2>2. /\ pc' \in [Setters -> Labels] /\ Dead' = Dead /\ pc'[t] = "release"
        /\ \A u \in Setters \ {t} : pc'[u] = pc[u]
    BY <2>1, Moves DEF Labels
  <2>3. answer' \in [Setters -> {"none", "TRUE", "FALSE"}]
    BY <2>1, AnswersType
  <2>4. SetterTypes'
    BY <2>1, <2>2, <2>3 DEF SetterInv, SetterTypes, buffer, Whole
  <2>5. InsideOwns'
    BY <2>1, <2>2 DEF SetterInv, InsideOwns, Inside
  <2>6. TextFits' /\ CrcVouches'
    BY <2>1, <2>2, BufferKept
  <2> QED
    BY <2>4, <2>5, <2>6 DEF SetterInv
<1>6. CASE Release(t)
  <2>1. /\ pc[t] = "release" /\ UNCHANGED <<buffer, answer>> /\ Goto(t, "idle")
        /\ calls' = [calls EXCEPT ![t] = Tail(@)]
        /\ mutex' = [mutex EXCEPT !.count = @ - 1, !.owner = IF mutex.count = 1 THEN NoThread ELSE @]
    BY <1>6 DEF Release
  <2>2. /\ pc' \in [Setters -> Labels] /\ Dead' = Dead /\ pc'[t] = "idle"
        /\ \A u \in Setters \ {t} : pc'[u] = pc[u]
    BY <2>1, Moves DEF Labels
  <2>3. /\ mutex.owner = t /\ mutex.count \in Nat /\ mutex.count > 0 /\ ~mutex.abandoned
        /\ \A u \in Setters \ {t} : pc[u] \notin Inside
        /\ calls[t] # <<>>
    BY <2>1, Alone DEF Inside
  <2>4. /\ mutex' \in [exists : BOOLEAN, owner : Setters \cup {NoThread}, count : Nat, abandoned : BOOLEAN]
        /\ mutex'.owner # NoThread => mutex'.count > 0
        /\ ~mutex'.abandoned
    <3>1. mutex \in [exists : BOOLEAN, owner : Setters \cup {NoThread}, count : Nat, abandoned : BOOLEAN]
      BY DEF SetterInv, SetterTypes
    <3> DEFINE o == IF mutex.count = 1 THEN NoThread ELSE t
               c == mutex.count - 1
    <3>2. c \in Nat /\ o \in Setters \cup {NoThread} /\ (o # NoThread => c > 0)
      BY <2>3
    <3>3. mutex' = [mutex EXCEPT !.owner = o, !.count = c]
      BY Zenon, <2>1, <2>3, <3>1
    <3> HIDE DEF o, c
    <3>4. mutex' \in Mutexes /\ mutex'.owner = o /\ mutex'.count = c /\ ~mutex'.abandoned
      BY ZenonT(30), <2>3, <3>2, <3>3, MutexFields
    <3> QED
      BY <3>2, <3>4 DEF Mutexes
  <2>5. calls' \in [Setters -> Seq(Requests)] /\ \A u \in Setters \ {t} : calls'[u] = calls[u]
    BY Zenon, <2>1, <2>3, CallsLeft
  <2>6. SetterTypes'
    BY <2>1, <2>2, <2>4, <2>5 DEF SetterInv, SetterTypes, buffer, Whole
  <2>7. InsideOwns'
    BY Zenon, <2>2, <2>3, <2>4, <2>5 DEF SetterInv, InsideOwns, Inside
  <2>8. TextFits' /\ CrcVouches'
    BY <2>1, <2>2, <2>5, BufferKept
  <2> QED
    BY <2>6, <2>7, <2>8 DEF SetterInv
<1> QED
  BY <1>1, <1>2, <1>3, <1>4, <1>5, <1>6

\* A step of the thread that is inside, which keeps the mutex and its calls.
LEMMA StepInside ==
  ASSUME SetterInv, NEW t \in Setters, pc[t] \in Inside, NEW l \in Inside, Goto(t, l),
         UNCHANGED <<mutex, calls>>
  PROVE  /\ InsideOwns' /\ Dead' = Dead
         /\ pc' \in [Setters -> Labels] /\ pc'[t] = l
         /\ \A u \in Setters \ {t} : pc'[u] \notin Inside /\ pc'[u] = pc[u]
<1>1. l \in Labels \ {"dead"} /\ pc[t] # "dead" /\ l \notin {"idle", "dead"} /\ pc[t] \notin {"idle", "dead"}
  BY DEF Inside, Labels
<1>2. /\ pc' \in [Setters -> Labels] /\ Dead' = Dead
      /\ pc'[t] = l /\ \A u \in Setters \ {t} : pc'[u] = pc[u]
  BY <1>1, Moves
<1>3. mutex.owner = t /\ \A u \in Setters \ {t} : pc[u] \notin Inside
  BY Alone
<1>4. InsideOwns'
  BY <1>1, <1>2, <1>3 DEF SetterInv, InsideOwns
<1> QED
  BY <1>2, <1>3, <1>4

LEMMA StepWithBuffer ==
  ASSUME SetterInv, NEW t \in Setters,
         Verify(t) \/ SpliceStarts(t) \/ SpliceEnds(t) \/ StoreCrc(t) \/ EditTorn(t)
  PROVE  SetterInv'
<1> USE DEF Running
<1>1. CASE Verify(t)
  <2>1. pc[t] = "verify" /\ Goto(t, "edit") /\ UNCHANGED <<mutex, calls, answer>>
    BY <1>1 DEF Verify
  <2>2. /\ InsideOwns' /\ Dead' = Dead /\ pc' \in [Setters -> Labels] /\ pc'[t] = "edit"
        /\ \A u \in Setters \ {t} : pc'[u] \notin Inside /\ pc'[u] = pc[u]
    BY <2>1, StepInside DEF Inside
  <2>3. CASE UNCHANGED buffer
    <3>1. SetterTypes'
      BY <2>1, <2>2, <2>3 DEF SetterInv, SetterTypes, buffer, Whole
    <3>2. TextFits' /\ CrcVouches'
      BY <2>1, <2>2, <2>3, BufferKept
    <3> QED
      BY <2>2, <3>1, <3>2 DEF SetterInv
  <2>4. CASE text' = <<>> /\ whole' = Whole /\ crc' = Covered(<<>>)
    <3>1. SetterTypes'
      BY <2>1, <2>2, <2>4, EmptyText DEF SetterInv, SetterTypes, Whole
    <3>2. TextFits'
      BY <2>2, <2>4, EmptyText DEF TextFits, Inside
    <3>3. CrcVouches'
      BY <2>2, <2>4 DEF CrcVouches, Whole
    <3> QED
      BY <2>2, <3>1, <3>2, <3>3 DEF SetterInv
  <2> QED
    BY <1>1, <2>3, <2>4 DEF Verify
<1>2. CASE SpliceStarts(t)
  <2> DEFINE call == Head(calls[t])
  <2>1. /\ pc[t] = "edit" /\ Goto(t, "splice") /\ UNCHANGED <<text, crc, mutex, calls, answer>>
        /\ ~Refused(text, call) /\ whole' = SpliceAt(text, call)
    BY <1>2 DEF SpliceStarts
  <2>2. /\ InsideOwns' /\ Dead' = Dead /\ pc' \in [Setters -> Labels] /\ pc'[t] = "splice"
        /\ \A u \in Setters \ {t} : pc'[u] \notin Inside /\ pc'[u] = pc[u]
    BY <2>1, StepInside DEF Inside
  <2>3. whole' \in 0 .. Whole
    <3>1. call \in Requests
      BY <2>1, Alone DEF Inside
    <3>2. whole' \in 0 .. TextLength(text)
      BY <2>1, <3>1, TextBound, SpliceInside
    <3> QED
      BY <3>2, TextBound
  <2>4. SetterTypes'
    BY <2>1, <2>2, <2>3 DEF SetterInv, SetterTypes, Whole
  <2>5. TextFits'
    <3>1. Fits(text)'
      BY <2>1 DEF SetterInv, TextFits, Fits, TextLength
    <3>2. ~Refused(text, call)'
      BY <2>1
    <3> QED
      BY <2>2, <3>1, <3>2 DEF TextFits, Inside
  <2>6. CrcVouches'
    BY <2>2 DEF CrcVouches
  <2> QED
    BY <2>2, <2>4, <2>5, <2>6 DEF SetterInv
<1>3. CASE SpliceEnds(t)
  <2> DEFINE call == Head(calls[t])
  <2>1. /\ pc[t] = "splice" /\ Goto(t, "crc") /\ UNCHANGED <<crc, mutex, calls>>
        /\ text' = Edited(text, call) /\ whole' = Whole /\ Answers(t, "TRUE")
    BY <1>3 DEF SpliceEnds
  <2>2. /\ InsideOwns' /\ Dead' = Dead /\ pc' \in [Setters -> Labels] /\ pc'[t] = "crc"
        /\ \A u \in Setters \ {t} : pc'[u] \notin Inside /\ pc'[u] = pc[u]
    BY <2>1, StepInside DEF Inside
  <2>3. call \in Requests
    BY <2>1, Alone DEF Inside
  <2>4. text' \in Seq(Lines) /\ Fits(text')
    BY <2>1, <2>3, TextBound, EditedDef DEF SetterInv, TextFits, Refused
  <2>5. answer' \in [Setters -> {"none", "TRUE", "FALSE"}]
    BY <2>1, AnswersType
  <2>6. SetterTypes'
    BY <2>1, <2>2, <2>4, <2>5, EmptyText DEF SetterInv, SetterTypes, Whole
  <2>7. TextFits'
    BY <2>2, <2>4 DEF TextFits, Inside
  <2>8. CrcVouches'
    BY <2>1, <2>2 DEF CrcVouches, Whole
  <2> QED
    BY <2>2, <2>6, <2>7, <2>8 DEF SetterInv
<1>4. CASE StoreCrc(t)
  <2>1. /\ pc[t] = "crc" /\ Goto(t, "release") /\ UNCHANGED <<text, whole, mutex, calls, answer>>
        /\ crc' = Covered(text)
    BY <1>4 DEF StoreCrc
  <2>2. /\ InsideOwns' /\ Dead' = Dead /\ pc' \in [Setters -> Labels] /\ pc'[t] = "release"
        /\ \A u \in Setters \ {t} : pc'[u] \notin Inside /\ pc'[u] = pc[u]
    BY <2>1, StepInside DEF Inside
  <2>3. SetterTypes'
    BY <2>1, <2>2 DEF SetterInv, SetterTypes, Whole
  <2>4. TextFits'
    <3>1. Fits(text)'
      BY <2>1 DEF SetterInv, TextFits, Fits, TextLength
    <3> QED
      BY <2>2, <3>1 DEF TextFits, Inside
  <2>5. CrcVouches'
    <3>1. whole # Whole => Dead # {}
      <4>1. \A u \in Setters : pc[u] # "splice"
        BY <2>1, <2>2 DEF Inside
      <4> QED
        BY <4>1 DEF SetterInv, CrcVouches
    <3>2. crc' = Covered(text)'
      BY <2>1 DEF Covered, TextLength, Leading
    <3> QED
      BY <2>1, <2>2, <3>1, <3>2 DEF CrcVouches, Whole
  <2> QED
    BY <2>2, <2>3, <2>4, <2>5 DEF SetterInv
<1>5. CASE EditTorn(t)
  <2>1. /\ pc[t] = "edit" /\ Goto(t, "release") /\ UNCHANGED <<text, mutex, calls>> /\ whole # Whole
        /\ whole' \in {whole, 0}
        /\ Answers(t, "TRUE") \/ Answers(t, "FALSE")
    BY <1>5 DEF EditTorn, buffer
  <2>2. /\ InsideOwns' /\ Dead' = Dead /\ pc' \in [Setters -> Labels] /\ pc'[t] = "release"
        /\ \A u \in Setters \ {t} : pc'[u] \notin Inside /\ pc'[u] = pc[u]
    BY <2>1, StepInside DEF Inside
  <2>3. answer' \in [Setters -> {"none", "TRUE", "FALSE"}]
    BY <2>1, AnswersType
  <2>4. SetterTypes'
    BY <2>1, <2>2, <2>3, EmptyText DEF SetterInv, SetterTypes, Whole
  <2>5. TextFits'
    <3>1. Fits(text)'
      BY <2>1 DEF SetterInv, TextFits, Fits, TextLength
    <3> QED
      BY <2>2, <3>1 DEF TextFits, Inside
  <2>6. Dead # {}
    <3>1. \A u \in Setters : pc[u] # "splice"
      BY <2>1, <2>2 DEF Inside
    <3> QED
      BY <2>1, <3>1 DEF SetterInv, CrcVouches
  <2>7. CrcVouches'
    BY <2>2, <2>6 DEF CrcVouches
  <2> QED
    BY <2>2, <2>4, <2>5, <2>7 DEF SetterInv
<1> QED
  BY <1>1, <1>2, <1>3, <1>4, <1>5

LEMMA StepKill ==
  ASSUME SetterInv, NEW t \in Setters, Kill(t)
  PROVE  SetterInv' /\ Dead' # {}
<1>1. /\ Goto(t, "dead") /\ UNCHANGED <<text, whole, crc, calls, answer>>
      /\ mutex' = IF mutex.owner = t
                  THEN [mutex EXCEPT !.owner = NoThread, !.count = 0, !.abandoned = TRUE]
                  ELSE mutex
  BY DEF Kill, buffer
<1>2. /\ pc' \in [Setters -> Labels] /\ pc'[t] = "dead"
      /\ \A u \in Setters \ {t} : pc'[u] = pc[u]
  BY <1>1 DEF SetterInv, SetterTypes, Goto, Labels
<1>3. Dead' # {}
  BY <1>2 DEF Dead
<1>4. /\ mutex' \in Mutexes
      /\ mutex.owner = t => mutex'.owner = NoThread
      /\ mutex.owner # t => mutex' = mutex
  <2>1. NoThread \in Setters \cup {NoThread} /\ 0 \in Nat
    OBVIOUS
  <2>2. mutex \in Mutexes
    BY DEF SetterInv, SetterTypes, Mutexes
  <2> QED
    BY Zenon, <1>1, <2>1, <2>2, MutexFields
<1>5. SetterTypes'
  BY <1>1, <1>2, <1>4 DEF SetterInv, SetterTypes, Whole, Mutexes
<1>6. InsideOwns'
  <2>1. CASE mutex.owner = t
    <3>1. \A u \in Setters \ {t} : pc[u] \notin Inside
      BY <2>1 DEF SetterInv, InsideOwns
    <3> QED
      BY <1>1, <1>2, <1>4, <2>1, <3>1 DEF SetterInv, InsideOwns, Inside
  <2>2. CASE mutex.owner # t
    BY <1>1, <1>2, <1>4, <2>2 DEF SetterInv, InsideOwns, Inside
  <2> QED
    BY <2>1, <2>2
<1>7. TextFits'
  <2>1. Fits(text)'
    BY <1>1 DEF SetterInv, TextFits, Fits, TextLength
  <2>2. \A u \in Setters : pc'[u] = "splice" => ~Refused(text, Head(calls[u]))'
    BY <1>1, <1>2 DEF SetterInv, TextFits
  <2> QED
    BY <1>1, <2>1, <2>2 DEF TextFits
<1>8. CrcVouches'
  BY <1>3 DEF CrcVouches
<1> QED
  BY <1>3, <1>5, <1>6, <1>7, <1>8 DEF SetterInv

-----------------------------------------------------------------------------
(***************************************************************************)
(* The layout, and what is written to it.                                  *)
(***************************************************************************)

Streams == {"CommentW", "ModuleList", "UnloadedModules", "ThreadList", "ThreadNames", "MemoryInfo", "Rest"}

Measured ==
  [comment : Nat, text : Seq(Lines), modules : Counted, unloaded : CountedUnloaded,
   regions : Nat, names : Seq(Nat)]

\* Each stream has one place in the order.
LEMMA PlaceDef ==
  /\ Place("CommentW") = 1 /\ Place("ModuleList") = 2 /\ Place("UnloadedModules") = 3
  /\ Place("ThreadList") = 4 /\ Place("ThreadNames") = 5 /\ Place("MemoryInfo") = 6
  /\ Place("Rest") = 7
  /\ Len(Physical) = 7 /\ \A i \in 1 .. 7 : Physical[i] \in Streams /\ Place(Physical[i]) = i
<1>1. /\ Len(Physical) = 7
      /\ Physical[1] = "CommentW" /\ Physical[2] = "ModuleList" /\ Physical[3] = "UnloadedModules"
      /\ Physical[4] = "ThreadList" /\ Physical[5] = "ThreadNames" /\ Physical[6] = "MemoryInfo"
      /\ Physical[7] = "Rest"
  BY DEF Physical
<1>2. \A i \in 1 .. 7 : i \in {1, 2, 3, 4, 5, 6, 7}
  OBVIOUS
<1>3. \A i, j \in 1 .. 7 : Physical[i] = Physical[j] => i = j
  BY <1>1, <1>2
<1>4. ASSUME NEW i \in 1 .. 7
      PROVE  Place(Physical[i]) = i
  <2> DEFINE I == {j \in 1 .. Len(Physical) : Physical[j] = Physical[i]}
  <2>1. I = {i}
    BY <1>1, <1>3
  <2>2. Place(Physical[i]) = IF I # {} THEN Min(I) ELSE 0
    BY DEF Place, SelectInSeq
  <2> HIDE DEF I
  <2>3. Min(I) \in I
    BY <2>1, MinDef
  <2> QED
    BY <2>1, <2>2, <2>3
<1>5. \A i \in 1 .. 7 : Physical[i] \in Streams
  BY <1>1, <1>2 DEF Streams
<1> QED
  BY <1>1, <1>4, <1>5

LEMMA StorageType ==
  ASSUME measured \in Measured, NEW stream \in Streams
  PROVE  Storage(stream) \in Nat
<1>1. /\ measured.comment \in Nat /\ measured.regions \in Nat /\ measured.names \in Seq(Nat)
      /\ measured.modules \in Counted /\ measured.unloaded \in CountedUnloaded
  BY DEF Measured
<1>2. /\ kMaxModules \in Nat /\ kMaxUnloadedModules \in Nat /\ ULONG32Size \in Nat
      /\ ModuleSize \in Nat /\ UnloadedHeader \in Nat /\ UnloadedSize \in Nat /\ NamesHeader \in Nat
      /\ NameSize \in Nat /\ InfoHeader \in Nat /\ InfoSize \in Nat
  BY WalkAssumption
<1>3. ThreadListSize \in Nat /\ RestSize \in Nat
  BY WorldsAssumption
<1>4. \A a, b \in Nat : a * b \in Nat
  OBVIOUS
<1>5. CASE stream = "CommentW"
  BY <1>1, <1>5 DEF Storage
<1>6. CASE stream = "ModuleList"
  <2> DEFINE modules == measured.modules
  <2>1. modules.count \in Nat /\ modules.names \in Nat /\ modules.records \in Nat
    BY SMTT(30), <1>1, <1>2 DEF Counted
  <2>2. modules.count * ModuleSize \in Nat
    BY <1>2, <1>4, <2>1
  <2>3. Storage(stream) = ULONG32Size + modules.count * ModuleSize + modules.names + modules.records
    BY <1>6 DEF Storage
  <2> HIDE DEF modules
  <2> QED
    BY <1>2, <2>1, <2>2, <2>3
<1>7. CASE stream = "UnloadedModules"
  <2> DEFINE unloaded == measured.unloaded
  <2>1. unloaded.count \in Nat /\ unloaded.names \in Nat
    BY <1>1, <1>2 DEF CountedUnloaded
  <2>2. unloaded.count * UnloadedSize \in Nat
    BY <1>2, <1>4, <2>1
  <2>3. Storage(stream) = IF unloaded.count = 0 THEN 0
                          ELSE UnloadedHeader + unloaded.count * UnloadedSize + unloaded.names
    BY <1>7 DEF Storage
  <2> HIDE DEF unloaded
  <2> QED
    BY <1>2, <2>1, <2>2, <2>3
<1>8. CASE stream = "ThreadList"
  BY <1>3, <1>8 DEF Storage
<1>9. CASE stream = "ThreadNames"
  <2> DEFINE names == ThreadNames(measured.names)
  <2>1. names \in Seq(Nat)
    BY <1>1, ThreadNamesType
  <2>2. Len(names) * NameSize \in Nat /\ SumOf(ThreadNameStorage, names) \in Nat
    <3>1. Len(names) \in Nat
      BY <2>1
    <3> QED
      BY <1>2, <1>4, <2>1, <3>1, ThreadNameSizesDef
  <2>3. Storage(stream) = IF names = <<>> THEN 0
                          ELSE NamesHeader + Len(names) * NameSize + SumOf(ThreadNameStorage, names)
    BY <1>9 DEF Storage
  <2> HIDE DEF names
  <2> QED
    BY <1>2, <2>2, <2>3
<1>10. CASE stream = "MemoryInfo"
  <2>1. measured.regions * InfoSize \in Nat
    BY <1>1, <1>2, <1>4
  <2>2. Storage(stream) = InfoHeader + measured.regions * InfoSize
    BY <1>10 DEF Storage
  <2> QED
    BY <1>2, <2>1, <2>2
<1>11. CASE stream = "Rest"
  BY <1>3, <1>11 DEF Storage
<1> QED
  BY <1>5, <1>6, <1>7, <1>8, <1>9, <1>10, <1>11 DEF Streams

\* The streams lie one behind the other.
StorageSizes == [i \in 1 .. 7 |-> Storage(Physical[i])]

LEMMA RvaDef ==
  ASSUME measured \in Measured
  PROVE  /\ StorageSizes \in Seq(Nat) /\ Len(StorageSizes) = 7
         /\ \A i \in 1 .. 7 : /\ Rva(Physical[i]) = PrefixSums(StorageSizes)[i - 1]
                              /\ Rva(Physical[i]) \in Nat
                              /\ StorageSizes[i] = Storage(Physical[i])
         /\ \A i \in 1 .. 6 : Rva(Physical[i + 1]) = Rva(Physical[i]) + Storage(Physical[i])
         /\ \A stream \in Streams : Rva(stream) \in Nat
<1>1. \A i \in 1 .. 7 : Storage(Physical[i]) \in Nat
  BY StorageType, PlaceDef
<1>2. StorageSizes \in Seq(Nat) /\ Len(StorageSizes) = 7
  BY <1>1 DEF StorageSizes
<1>3. \A i \in 1 .. 7 : StorageSizes[i] = Storage(Physical[i])
  BY DEF StorageSizes
<1>4. ASSUME NEW i \in 1 .. 7
      PROVE  Rva(Physical[i]) = PrefixSums(StorageSizes)[i - 1] /\ Rva(Physical[i]) \in Nat
  <2>1. Place(Physical[i]) = i
    BY PlaceDef
  <2>2. Rva(Physical[i]) = Total([k \in 1 .. i - 1 |-> Storage(Physical[k])])
    BY <2>1 DEF Rva
  <2>3. [k \in 1 .. i - 1 |-> Storage(Physical[k])] = [k \in 1 .. i - 1 |-> StorageSizes[k]]
    BY <1>3
  <2>4. i - 1 \in 0 .. Len(StorageSizes)
    BY <1>2
  <2> QED
    BY SMTT(30), <1>2, <2>2, <2>3, <2>4, TotalUpTo
<1>5. ASSUME NEW i \in 1 .. 6
      PROVE  Rva(Physical[i + 1]) = Rva(Physical[i]) + Storage(Physical[i])
  <2>1. i + 1 \in 1 .. 7 /\ i \in 1 .. 7 /\ i \in 1 .. Len(StorageSizes) /\ i + 1 - 1 = i
    BY <1>2
  <2>2. PrefixSums(StorageSizes)[i] = PrefixSums(StorageSizes)[i - 1] + StorageSizes[i]
    BY Zenon, <1>2, <2>1, PrefixSumsDef
  <2>3. Rva(Physical[i + 1]) = PrefixSums(StorageSizes)[i]
    BY SMTT(30), <1>4, <2>1
  <2> QED
    BY Zenon, <1>3, <1>4, <2>1, <2>2, <2>3
<1>6. \A stream \in Streams : \E i \in 1 .. 7 : stream = Physical[i]
  <2>1. /\ Physical[1] = "CommentW" /\ Physical[2] = "ModuleList" /\ Physical[3] = "UnloadedModules"
        /\ Physical[4] = "ThreadList" /\ Physical[5] = "ThreadNames" /\ Physical[6] = "MemoryInfo"
        /\ Physical[7] = "Rest"
    BY DEF Physical
  <2>2. {1, 2, 3, 4, 5, 6, 7} \subseteq 1 .. 7
    OBVIOUS
  <2> QED
    BY <2>1, <2>2 DEF Streams
<1> QED
  BY Zenon, <1>2, <1>3, <1>4, <1>5, <1>6

Parts == {"whole", "text", "count", "descriptors", "zeros", "name", "record", "entries", "info"}
Extent == [stream : Streams, part : Parts, i : Nat, at : Nat, size : Nat]

LEMMA ExtentsDef ==
  ASSUME NEW stream \in Streams, NEW part \in Parts, NEW at \in Nat, NEW sizes \in Seq(Nat)
  PROVE  /\ Extents(stream, part, at, sizes) \in Seq(Extent)
         /\ Len(Extents(stream, part, at, sizes)) = Len(sizes)
         /\ \A i \in 1 .. Len(sizes) :
              Extents(stream, part, at, sizes)[i] =
                [stream |-> stream, part |-> part, i |-> i,
                 at |-> at + PrefixSums(sizes)[i - 1], size |-> sizes[i]]
<1> DEFINE e(i) == [stream |-> stream, part |-> part, i |-> i,
                    at |-> at + PrefixSums(sizes)[i - 1], size |-> sizes[i]]
<1>1. Len(sizes) \in Nat /\ DOMAIN sizes = 1 .. Len(sizes)
  OBVIOUS
<1>2. ASSUME NEW i \in 1 .. Len(sizes)
      PROVE  Total(First(sizes, i - 1)) = PrefixSums(sizes)[i - 1] /\ PrefixSums(sizes)[i - 1] \in Nat
  <2> DEFINE f == First(sizes, i - 1)
  <2>1. i - 1 \in Nat /\ i - 1 <= Len(sizes) /\ i - 1 \in 0 .. Len(sizes)
    BY <1>1
  <2>2. f \in Seq(Nat) /\ Len(f) = i - 1 /\ \A k \in 1 .. i - 1 : f[k] = sizes[k]
    <3>1. f \in Seq(Nat) /\ Len(f) = Smaller(i - 1, Len(sizes)) /\ \A k \in 1 .. Len(f) : f[k] = sizes[k]
      BY <2>1, FirstDef
    <3> HIDE DEF f
    <3>2. Len(f) = i - 1
      BY <1>1, <2>1, <3>1 DEF Smaller
    <3> QED
      BY <3>1, <3>2
  <2> HIDE DEF f
  <2>3. PrefixSums(f)[i - 1] = PrefixSums(sizes)[i - 1]
    <3> DEFINE n == i - 1
    <3>1. n \in Nat /\ n <= Len(sizes) /\ n <= Len(f) /\ \A k \in 1 .. n : f[k] = sizes[k]
      BY <2>1, <2>2
    <3> HIDE DEF n
    <3>2. PrefixSums(f)[n] = PrefixSums(sizes)[n]
      BY Zenon, <2>2, <3>1, PrefixAgree
    <3> QED
      BY <3>2 DEF n
  <2>4. Total(f) = PrefixSums(sizes)[i - 1]
    BY <2>2, <2>3 DEF Total
  <2> QED
    BY Zenon, <2>1, <2>4, PrefixSumsDef DEF f
<1>3. Extents(stream, part, at, sizes) = [i \in 1 .. Len(sizes) |-> e(i)]
  BY <1>1, <1>2 DEF Extents
<1>4. \A i \in 1 .. Len(sizes) : e(i) \in Extent
  <2> TAKE i \in 1 .. Len(sizes)
  <2>1. at + PrefixSums(sizes)[i - 1] \in Nat /\ sizes[i] \in Nat /\ i \in Nat
    BY <1>2
  <2> QED
    BY <2>1 DEF Extent
<1> HIDE DEF e
<1>5. [i \in 1 .. Len(sizes) |-> e(i)] \in Seq(Extent) /\ Len([i \in 1 .. Len(sizes) |-> e(i)]) = Len(sizes)
  BY <1>1, <1>4
<1> QED
  BY Zenon, <1>3, <1>5 DEF e

LEMMA WriteType ==
  ASSUME file \in Seq(Extent), NEW stream \in Streams, NEW part \in Parts, NEW at \in Nat,
         NEW sizes \in Seq(Nat), Write(stream, part, at, sizes)
  PROVE  file' \in Seq(Extent)
<1>1. Extents(stream, part, at, sizes) \in Seq(Extent)
  BY Zenon, ExtentsDef
<1>2. file' = file \o Extents(stream, part, at, sizes)
  BY DEF Write
<1> HIDE DEF Extent
<1> QED
  BY <1>1, <1>2

-----------------------------------------------------------------------------
(***************************************************************************)
(* The dump, step by step.                                                 *)
(***************************************************************************)

StageNames ==
  {"measure", "freeze", "count", "CommentW", "CodeViewBase",
   "ModuleDescriptors", "ModuleNames", "ModuleRecords", "UnloadedEntries", "UnloadedNames",
   "ThreadList", "ThreadNames", "MemoryInfo", "Rest", "resume",
   "done"}

\* The number of a step.
At(step) == SelectInSeq(Stages, LAMBDA s : s = step)

LEMMA StagesDef ==
  /\ ToSet(Stages) = StageNames
  /\ At("measure") = 1 /\ At("freeze") = 2 /\ At("count") = 3
  /\ At("CommentW") = 4 /\ At("CodeViewBase") = 5 /\ At("ModuleDescriptors") = 6
  /\ At("ModuleNames") = 7 /\ At("ModuleRecords") = 8 /\ At("UnloadedEntries") = 9
  /\ At("UnloadedNames") = 10 /\ At("ThreadList") = 11 /\ At("ThreadNames") = 12
  /\ At("MemoryInfo") = 13 /\ At("Rest") = 14 /\ At("resume") = 15
  /\ At("done") = 16
<1>1. /\ Len(Stages) = 16 /\ DOMAIN Stages = 1 .. 16
      /\ Stages[1] = "measure" /\ Stages[2] = "freeze" /\ Stages[3] = "count"
      /\ Stages[4] = "CommentW" /\ Stages[5] = "CodeViewBase" /\ Stages[6] = "ModuleDescriptors"
      /\ Stages[7] = "ModuleNames" /\ Stages[8] = "ModuleRecords" /\ Stages[9] = "UnloadedEntries"
      /\ Stages[10] = "UnloadedNames" /\ Stages[11] = "ThreadList" /\ Stages[12] = "ThreadNames"
      /\ Stages[13] = "MemoryInfo" /\ Stages[14] = "Rest" /\ Stages[15] = "resume"
      /\ Stages[16] = "done"
  BY DEF Stages
<1>2. \A i \in 1 .. 16 : i \in {1, 2, 3, 4, 5, 6, 7, 8, 9, 10, 11, 12, 13, 14, 15, 16}
  OBVIOUS
<1>3. {1, 2, 3, 4, 5, 6, 7, 8, 9, 10, 11, 12, 13, 14, 15, 16} \subseteq 1 .. 16
  OBVIOUS
<1>4. \A i, j \in 1 .. 16 : Stages[i] = Stages[j] => i = j
  BY <1>1, <1>2
<1>5. ASSUME NEW i \in 1 .. 16
      PROVE  At(Stages[i]) = i
  <2> DEFINE I == {j \in 1 .. Len(Stages) : Stages[j] = Stages[i]}
  <2>1. I = {i}
    BY <1>1, <1>4
  <2>2. At(Stages[i]) = IF I # {} THEN Min(I) ELSE 0
    BY DEF At, SelectInSeq
  <2> HIDE DEF I
  <2>3. Min(I) \in I
    BY <2>1, MinDef
  <2> QED
    BY <2>1, <2>2, <2>3
<1>6. ToSet(Stages) = StageNames
  <2>1. ToSet(Stages) = {Stages[i] : i \in 1 .. 16}
    BY <1>1 DEF ToSet
  <2>2. \A s \in StageNames : \E i \in 1 .. 16 : s = Stages[i]
    BY <1>1, <1>3 DEF StageNames
  <2>3. \A i \in 1 .. 16 : Stages[i] \in StageNames
    BY <1>1, <1>2 DEF StageNames
  <2> QED
    BY <2>1, <2>2, <2>3
<1>7. \A i \in 1 .. 16 : At(Stages[i]) = i
  BY <1>5
<1> QED
  BY <1>1, <1>3, <1>6, <1>7

\* The dump is past the steps before the one that is next.
LEMMA PastDef ==
  /\ \A step : Past(step) <=> At(stage) > At(step)
  /\ \A step : Past(step)' <=> At(stage') > At(step)
  BY DEF Past, At, SelectInSeq

DumpTypes ==
  /\ frozen \subseteq Setters
  /\ world \in Worlds /\ lists \in ListStates /\ disturbed \subseteq Lists
  /\ stage \in StageNames
  /\ measured \in Measured
  /\ cursor \in [base : Nat, stringEnd : Nat, position : Nat]
  /\ comment = [result |-> comment.result, text |-> comment.text, size |-> comment.size]
  /\ comment.result \in {"none", "skipped", "written"}
  /\ file \in Seq(Extent)

\* The names are over where the descriptors said.
NamesEndLater == stage = "ModuleNames" => cursor.stringEnd >= StringRva(Rva("ModuleList"), ModuleCount)

LEMMA Same ==
  ASSUME measured' = measured
  PROVE  /\ \A stream : Storage(stream)' = Storage(stream) /\ Rva(stream)' = Rva(stream)
         /\ ModuleCount' = ModuleCount /\ UnloadedCount' = UnloadedCount
<1>1. \A stream : Storage(stream)' = Storage(stream)
  BY DEF Storage
<1>2. \A stream : Rva(stream)' = Rva(stream)
  BY Zenon, <1>1 DEF Rva
<1> QED
  BY <1>1, <1>2 DEF ModuleCount, UnloadedCount

LEMMA CountsType ==
  ASSUME measured \in Measured
  PROVE  /\ ModuleCount \in Nat /\ ModuleCount \in 0 .. kMaxModules
         /\ UnloadedCount \in Nat /\ UnloadedCount \in 0 .. kMaxUnloadedModules
         /\ measured.comment \in Nat /\ measured.text \in Seq(Lines)
         /\ measured.regions \in Nat /\ measured.names \in Seq(Nat)
<1>1. kMaxModules \in Nat /\ kMaxUnloadedModules \in Nat
  BY WalkAssumption
<1>2. measured.modules \in Counted /\ measured.unloaded \in CountedUnloaded
  BY DEF Measured
<1> QED
  BY <1>1, <1>2 DEF Measured, Counted, CountedUnloaded, ModuleCount, UnloadedCount

LEMMA DumpInit == Init => DumpTypes /\ NamesEndLater
<1> SUFFICES ASSUME Init PROVE DumpTypes /\ NamesEndLater
  OBVIOUS
<1>1. /\ frozen = {} /\ world \in Worlds /\ lists = world.lists /\ disturbed = {} /\ stage = "measure"
      /\ measured = Nothing /\ cursor = [base |-> 0, stringEnd |-> 0, position |-> 0]
      /\ comment = [result |-> "none", text |-> <<>>, size |-> 0] /\ file = <<>>
  BY DEF Init, CommentInit
<1>2. lists \in ListStates
  BY <1>1, WorldsAssumption
<1>3. Nothing \in Measured
  <2>1. 0 \in 0 .. kMaxModules /\ 0 \in 0 .. kMaxUnloadedModules
    BY WalkAssumption
  <2>2. <<>> \in Seq(Lines) /\ <<>> \in Seq(Nat)
    OBVIOUS
  <2> QED
    BY <2>1, <2>2 DEF Nothing, Measured, Counted, CountedUnloaded
<1>4. stage \in StageNames /\ file \in Seq(Extent)
  BY <1>1 DEF StageNames
<1> QED
  BY <1>1, <1>2, <1>3, <1>4 DEF DumpTypes, NamesEndLater

\* What every step of the dump leaves alone.
LEMMA StepKeeps ==
  ASSUME SetterInv, NEW from, NEW to, Step(from, to)
  PROVE  /\ SetterInv' /\ Dead' = Dead /\ stage = from /\ stage' = to /\ world' = world
         /\ text' = text /\ pc' = pc /\ whole' = whole /\ crc' = crc
<1>1. /\ stage = from /\ stage' = to /\ world' = world
      /\ text' = text /\ whole' = whole /\ crc' = crc /\ mutex' = mutex /\ pc' = pc /\ calls' = calls
      /\ answer' = answer
  BY DEF Step, setterVars, buffer
<1>2. Dead' = Dead
  BY <1>1 DEF Dead
<1>3. SetterTypes'
  BY <1>1 DEF SetterInv, SetterTypes, Whole
<1>4. InsideOwns'
  BY <1>1 DEF SetterInv, InsideOwns
<1>5. Fits(text)' /\ Covered(text)' = Covered(text)
  BY <1>1 DEF SetterInv, TextFits, Fits, Covered, TextLength, Leading
<1>6. TextFits'
  BY <1>1, <1>5 DEF SetterInv, TextFits
<1>7. CrcVouches'
  BY <1>1, <1>2, <1>5 DEF SetterInv, CrcVouches, Whole
<1> QED
  BY <1>1, <1>2, <1>3, <1>4, <1>6, <1>7 DEF SetterInv

\* What a text of so many WCHARs is measured as.
LEMMA MeasuredComment ==
  ASSUME NEW length \in Nat
  PROVE  /\ CommentStreamWBytes(length) \in Nat
         /\ CommentStreamWBytes(length) = 0 \/ CommentStreamWBytes(length) >= (length + 1) * WCHARSize
         /\ (length + 1) * WCHARSize \in Nat /\ (length + 1) * WCHARSize >= WCHARSize
<1> DEFINE size == (length + 1) * WCHARSize
<1>1. WCHARSize \in Nat \ {0}
  BY WalkAssumption
<1>2. size \in Nat /\ size >= WCHARSize
  <2>1. length * WCHARSize \in Nat
    BY <1>1
  <2>2. size = length * WCHARSize + WCHARSize
    BY <1>1
  <2> HIDE DEF size
  <2> QED
    BY <1>1, <2>1, <2>2
<1>3. CommentStreamWBytes(length) = IF length = 0 THEN 0 ELSE Up(size)
  BY DEF CommentStreamWBytes
<1> HIDE DEF size
<1>4. Up(size) \in Nat /\ Up(size) >= size
  BY <1>2, UpDef
<1>5. CommentStreamWBytes(length) \in Nat
  BY <1>3, <1>4
<1>6. CommentStreamWBytes(length) = 0 \/ CommentStreamWBytes(length) >= size
  BY <1>3, <1>4
<1> QED
  BY <1>2, <1>5, <1>6 DEF size

\* The text of a comment that was measured fits the space, unless there is none.
CommentHasRoom ==
  stage # "measure" =>
    measured.comment = 0 \/ measured.comment >= (TextLength(measured.text) + 1) * WCHARSize

LEMMA MeasureKeeps ==
  ASSUME SetterInv, DumpTypes, MeasureComment
  PROVE  DumpTypes' /\ NamesEndLater' /\ CommentHasRoom' /\ SetterInv' /\ Dead' = Dead
         /\ frozen' = frozen /\ stage = "measure" /\ stage' = "freeze"
<1>1. /\ Step("measure", "freeze") /\ UNCHANGED <<frozen, listVars, written>>
  BY DEF MeasureComment
<1>2. /\ SetterInv' /\ Dead' = Dead /\ stage = "measure" /\ stage' = "freeze" /\ world' = world
  BY <1>1, StepKeeps
<1>3. text \in Seq(Lines) /\ TextLength(text) \in Nat /\ whole \in Nat /\ kCommentBufferWChars \in Nat \ {0}
  BY TextBound, EmptyText DEF SetterInv, SetterTypes, Whole
<1>4. PICK length \in IF whole = Whole THEN {TextLength(text)} ELSE LooseEnds :
        measured' = [measured EXCEPT !.comment = CommentStreamWBytes(length),
                                     !.text = IF whole = Whole THEN text ELSE <<>>]
  BY Zenon DEF MeasureComment
<1>5. length \in Nat
  BY <1>3, <1>4 DEF LooseEnds
<1> DEFINE t == IF whole = Whole THEN text ELSE <<>>
<1>6. t \in Seq(Lines) /\ (whole = Whole => length = TextLength(t)) /\ (whole # Whole => TextLength(t) = 0)
  BY <1>3, <1>4, EmptyText
<1>7. CommentStreamWBytes(length) \in Nat
  BY <1>5, MeasuredComment
<1>8. /\ measured' \in Measured /\ measured'.comment = CommentStreamWBytes(length) /\ measured'.text = t
  BY Zenon, <1>4, <1>6, <1>7 DEF DumpTypes, Measured
<1>9. DumpTypes'
  BY <1>1, <1>2, <1>8 DEF DumpTypes, listVars, written, StageNames
<1>10. CommentHasRoom'
  <2>1. CommentStreamWBytes(length) = 0 \/ CommentStreamWBytes(length) >= (length + 1) * WCHARSize
    BY <1>5, MeasuredComment
  <2>2. (length + 1) * WCHARSize >= (TextLength(t) + 1) * WCHARSize
    <3> HIDE DEF t
    <3>1. /\ (length + 1) * WCHARSize \in Nat /\ (length + 1) * WCHARSize >= WCHARSize /\ WCHARSize \in Nat
      BY Zenon, <1>5, MeasuredComment, WalkAssumption
    <3>2. CASE whole = Whole
      BY <1>6, <3>1, <3>2
    <3>3. CASE whole # Whole
      <4>1. (TextLength(t) + 1) * WCHARSize = WCHARSize
        BY <1>6, <3>1, <3>3
      <4> QED
        BY <3>1, <4>1
    <3> QED
      BY <3>2, <3>3
  <2>3. (TextLength(measured.text) + 1)' = TextLength(t) + 1
    BY <1>8 DEF TextLength
  <2>4. (length + 1) * WCHARSize \in Nat /\ (TextLength(t) + 1) * WCHARSize \in Int
    <3> HIDE DEF t
    <3>1. TextLength(t) \in Nat
      BY <1>6, TextLengthDef
    <3> QED
      BY SMTT(30), <1>5, <3>1, MeasuredComment, WalkAssumption
  <2> DEFINE a == (length + 1) * WCHARSize
             b == (TextLength(t) + 1) * WCHARSize
             m == CommentStreamWBytes(length)
  <2>5. (measured.comment = 0 \/ measured.comment >= (TextLength(measured.text) + 1) * WCHARSize)'
          <=> m = 0 \/ m >= b
    BY <1>8, <2>3
  <2>6. a \in Int /\ b \in Int /\ m \in Int /\ (m = 0 \/ m >= a) /\ a >= b
    BY <1>7, <2>1, <2>2, <2>4
  <2> HIDE DEF a, b, m, t
  <2> QED
    BY <2>5, <2>6 DEF CommentHasRoom
<1>11. frozen' = frozen /\ NamesEndLater'
  BY <1>1, <1>2 DEF NamesEndLater
<1> QED
  BY <1>2, <1>9, <1>10, <1>11

LEMMA SmallerDef ==
  ASSUME NEW a \in Nat, NEW b \in Nat
  PROVE  /\ Smaller(a, b) \in Nat /\ Smaller(a, b) <= a /\ Smaller(a, b) <= b
         /\ b - Smaller(a, b) \in Nat
  BY DEF Smaller

LEMMA FreezeKeeps ==
  ASSUME SetterInv, DumpTypes, Freeze
  PROVE  /\ DumpTypes' /\ NamesEndLater' /\ SetterInv' /\ stage = "freeze" /\ stage' = "count"
         /\ frozen' = Setters \ Dead' /\ (CommentHasRoom => CommentHasRoom')
<1>1. /\ Step("freeze", "count") /\ UNCHANGED <<listVars, written>> /\ frozen' = Setters \ Dead
      /\ measured' = [measured EXCEPT
           !.names = [i \in DOMAIN world.names |-> CaptureThreadName(world.names[i])]]
  BY DEF Freeze
<1>2. /\ SetterInv' /\ Dead' = Dead /\ stage = "freeze" /\ stage' = "count" /\ world' = world
  BY <1>1, StepKeeps
<1>3. [i \in DOMAIN world.names |-> CaptureThreadName(world.names[i])] \in Seq(Nat)
  <2>1. world.names \in Seq(Nat)
    BY WorldsAssumption DEF DumpTypes
  <2>2. \A i \in DOMAIN world.names : CaptureThreadName(world.names[i]) \in Nat
    BY <2>1 DEF CaptureThreadName
  <2> DEFINE s == world.names
  <2>3. s \in Seq(Nat) /\ \A i \in DOMAIN s : CaptureThreadName(s[i]) \in Nat
    BY <2>1, <2>2
  <2> HIDE DEF s
  <2>4. [i \in DOMAIN s |-> CaptureThreadName(s[i])] \in Seq(Nat)
    BY <2>3
  <2> QED
    BY <2>4 DEF s
<1>4. /\ measured' \in Measured
      /\ measured'.comment = measured.comment /\ measured'.text = measured.text
  BY Zenon, <1>1, <1>3 DEF DumpTypes, Measured
<1>5. DumpTypes'
  BY <1>1, <1>2, <1>4 DEF DumpTypes, listVars, written, StageNames
<1>6. CommentHasRoom => CommentHasRoom'
  BY <1>2, <1>4 DEF CommentHasRoom, TextLength
<1> QED
  BY <1>1, <1>2, <1>5, <1>6 DEF NamesEndLater

LEMMA CountKeeps ==
  ASSUME SetterInv, DumpTypes, Count
  PROVE  /\ DumpTypes' /\ NamesEndLater' /\ SetterInv' /\ Dead' = Dead /\ frozen' = frozen
         /\ stage = "count" /\ stage' = "CommentW" /\ (CommentHasRoom => CommentHasRoom')
<1>1. /\ Step("count", "CommentW") /\ UNCHANGED <<frozen, listVars, written>>
      /\ measured' = [measured EXCEPT !.modules  = CountModules(lists.modules),
                                      !.unloaded = CountUnloadedModules(lists.ring),
                                      !.regions  = MemoryInfoRanges(lists.regions)]
  BY DEF Count
<1>2. /\ SetterInv' /\ Dead' = Dead /\ stage = "count" /\ stage' = "CommentW" /\ world' = world
  BY <1>1, StepKeeps
<1>3. lists.modules \in LoaderList /\ lists.ring \in UnloadRing /\ lists.regions \in Seq(Nat)
  BY DEF DumpTypes, ListStates
<1>4. /\ CountModules(lists.modules) \in Counted
      /\ CountUnloadedModules(lists.ring) \in CountedUnloaded
      /\ MemoryInfoRanges(lists.regions) \in Nat
  BY <1>3, CountModulesType, CountUnloadedType, MemoryInfoRangesType
<1>5. /\ measured' \in Measured
      /\ measured'.comment = measured.comment /\ measured'.text = measured.text
  BY Zenon, <1>1, <1>4 DEF DumpTypes, Measured
<1>6. DumpTypes'
  BY <1>1, <1>2, <1>5 DEF DumpTypes, listVars, written, StageNames
<1>7. CommentHasRoom => CommentHasRoom'
  BY <1>2, <1>5 DEF CommentHasRoom, TextLength
<1> QED
  BY <1>1, <1>2, <1>6, <1>7 DEF NamesEndLater

\* The types of what the write pass writes.
LEMMA Written ==
  ASSUME DumpTypes
  PROVE  /\ file \in Seq(Extent) /\ measured \in Measured
         /\ \A stream \in Streams : Rva(stream) \in Nat /\ Storage(stream) \in Nat
         /\ lists.modules \in LoaderList /\ lists.ring \in UnloadRing /\ lists.regions \in Seq(Nat)
         /\ cursor.base \in Nat /\ cursor.stringEnd \in Nat /\ cursor.position \in Nat
<1>1. file \in Seq(Extent) /\ measured \in Measured
  BY DEF DumpTypes
<1>2. \A stream \in Streams : Rva(stream) \in Nat /\ Storage(stream) \in Nat
  BY <1>1, RvaDef, StorageType
<1> QED
  BY <1>1, <1>2 DEF DumpTypes, ListStates

LEMMA Writes ==
  ASSUME DumpTypes, NEW stream \in Streams, NEW part \in Parts, NEW at \in Nat,
         NEW sizes \in Seq(Nat), Write(stream, part, at, sizes)
  PROVE  file' \in Seq(Extent)
  BY WriteType DEF DumpTypes

LEMMA WriteWholeKeeps ==
  ASSUME SetterInv, DumpTypes, NEW stream \in Streams, NEW from, NEW to \in StageNames \ {"ModuleNames"},
         WriteWhole(stream, from, to)
  PROVE  DumpTypes' /\ NamesEndLater'
<1>1. /\ Step(from, to) /\ Write(stream, "whole", Rva(stream), <<Storage(stream)>>)
      /\ UNCHANGED <<frozen, listVars, measured, tables, cursor, comment>>
  BY DEF WriteWhole
<1>2. stage' = to /\ world' = world
  BY <1>1, StepKeeps
<1>3. Rva(stream) \in Nat /\ <<Storage(stream)>> \in Seq(Nat) /\ "whole" \in Parts
  BY Written DEF Parts
<1>4. file' \in Seq(Extent)
  BY Zenon, <1>1, <1>3, Writes
<1> QED
  BY <1>1, <1>2, <1>4 DEF DumpTypes, listVars, NamesEndLater

LEMMA WriteCommentKeeps ==
  ASSUME SetterInv, DumpTypes, WriteCommentW
  PROVE  DumpTypes' /\ NamesEndLater'
<1>1. /\ Step("CommentW", "CodeViewBase")
      /\ UNCHANGED <<frozen, listVars, measured, tables, cursor>>
  BY DEF WriteCommentW
<1>2. stage' = "CodeViewBase" /\ world' = world
  BY <1>1, StepKeeps
<1>3. /\ comment' = [result |-> comment'.result, text |-> comment'.text, size |-> comment'.size]
      /\ comment'.result \in {"none", "skipped", "written"}
      /\ file' \in Seq(Extent)
  <2>1. CASE UNCHANGED <<comment, file>>
    BY <2>1 DEF DumpTypes
  <2>2. CASE comment' = [comment EXCEPT !.result = "skipped"] /\ UNCHANGED file
    <3>1. comment' = [result |-> "skipped", text |-> comment.text, size |-> comment.size]
      BY <2>2 DEF DumpTypes
    <3> QED
      BY <2>2, <3>1 DEF DumpTypes
  <2>3. CASE measured.comment # 0 /\ \E length \in IF whole = Whole THEN {TextLength(text)} ELSE LooseEnds :
               LET content == Smaller((length + 1) * WCHARSize, measured.comment)
               IN  /\ comment' = [result |-> "written", size |-> content,
                                  text |-> Leading(text, Smaller(content \div WCHARSize, whole))]
                   /\ Write("CommentW", "text", Rva("CommentW"), <<content, measured.comment - content>>)
    <3>1. PICK length \in IF whole = Whole THEN {TextLength(text)} ELSE LooseEnds :
               LET content == Smaller((length + 1) * WCHARSize, measured.comment)
               IN  /\ comment' = [result |-> "written", size |-> content,
                                  text |-> Leading(text, Smaller(content \div WCHARSize, whole))]
                   /\ Write("CommentW", "text", Rva("CommentW"), <<content, measured.comment - content>>)
      BY <2>3
    <3> DEFINE content == Smaller((length + 1) * WCHARSize, measured.comment)
    <3>2. length \in Nat
      BY TextBound, EmptyText DEF LooseEnds, SetterInv, SetterTypes, Whole
    <3>3. content \in Nat /\ measured.comment - content \in Nat
      <4> DEFINE a == (length + 1) * WCHARSize
      <4>1. a \in Nat /\ measured.comment \in Nat
        BY Zenon, <3>2, MeasuredComment, Written, CountsType
      <4>2. content = Smaller(a, measured.comment)
        OBVIOUS
      <4> HIDE DEF a, content
      <4> QED
        BY Zenon, <4>1, <4>2, SmallerDef
    <3>4. /\ comment' = [result |-> "written", size |-> content,
                         text |-> Leading(text, Smaller(content \div WCHARSize, whole))]
          /\ Write("CommentW", "text", Rva("CommentW"), <<content, measured.comment - content>>)
      BY <3>1
    <3> HIDE DEF content
    <3>5. <<content, measured.comment - content>> \in Seq(Nat)
      BY <3>3
    <3>6. "CommentW" \in Streams /\ "text" \in Parts
      BY DEF Streams, Parts
    <3>7. file' \in Seq(Extent)
      BY Zenon, <3>4, <3>5, <3>6, Writes, Written
    <3> QED
      BY <3>4, <3>7
  <2> QED
    BY <2>1, <2>2, <2>3 DEF WriteCommentW
<1> QED
  BY <1>1, <1>2, <1>3 DEF DumpTypes, listVars, NamesEndLater, StageNames

LEMMA CodeViewBaseKeeps ==
  ASSUME SetterInv, DumpTypes, ComputeCodeViewBase
  PROVE  DumpTypes' /\ NamesEndLater'
<1> DEFINE to == IF lists.modules.first = Lost THEN "UnloadedEntries" ELSE "ModuleDescriptors"
<1>1. /\ Step("CodeViewBase", to)
      /\ cursor' = [cursor EXCEPT !.base = CodeViewBase(lists.modules, Rva("ModuleList"), ModuleCount)]
      /\ Write("ModuleList", "count", Rva("ModuleList"), <<ULONG32Size>>)
      /\ UNCHANGED <<frozen, listVars, measured, tables, comment>>
  BY DEF ComputeCodeViewBase
<1>2. stage' = to /\ world' = world
  BY <1>1, StepKeeps
<1>3. /\ "ModuleList" \in Streams /\ "count" \in Parts /\ <<ULONG32Size>> \in Seq(Nat)
      /\ to \in StageNames /\ to # "ModuleNames"
  BY WalkAssumption DEF Streams, Parts, StageNames
<1>4. file' \in Seq(Extent)
  BY Zenon, <1>1, <1>3, Writes, Written
<1>5. cursor' \in [base : Nat, stringEnd : Nat, position : Nat]
  <2>1. CodeViewBase(lists.modules, Rva("ModuleList"), ModuleCount) \in Nat
    BY Zenon, <1>3, Written, CountsType, CodeViewBaseDef
  <2> QED
    BY <1>1, <2>1 DEF DumpTypes
<1> QED
  BY <1>1, <1>2, <1>3, <1>4, <1>5 DEF DumpTypes, listVars, NamesEndLater

LEMMA DescriptorsKeep ==
  ASSUME SetterInv, DumpTypes, WriteModuleDescriptors
  PROVE  DumpTypes' /\ NamesEndLater'
<1> DEFINE rva == Rva("ModuleList")
<1>1. /\ Step("ModuleDescriptors", "ModuleNames")
      /\ cursor' = [cursor EXCEPT !.stringEnd = CodeViewBase(lists.modules, rva, ModuleCount)]
      /\ Write("ModuleList", "descriptors", rva + ULONG32Size, <<ModuleCount * ModuleSize>>)
      /\ UNCHANGED <<frozen, listVars, measured, comment>>
  BY DEF WriteModuleDescriptors
<1>2. stage' = "ModuleNames" /\ world' = world
  BY <1>1, StepKeeps
<1>3. "ModuleList" \in Streams /\ "descriptors" \in Parts /\ "ModuleNames" \in StageNames
  BY DEF Streams, Parts, StageNames
<1>4. rva \in Nat /\ ModuleCount \in Nat /\ ULONG32Size \in Nat
  BY <1>3, Written, CountsType, WalkAssumption
<1>5. rva + ULONG32Size \in Nat /\ <<ModuleCount * ModuleSize>> \in Seq(Nat)
  <2>1. ModuleCount * ModuleSize \in Nat
    BY Zenon, <1>4, StringRvaType
  <2> HIDE DEF rva
  <2> QED
    BY <1>4, <2>1
<1>6. file' \in Seq(Extent)
  BY Zenon, <1>1, <1>3, <1>5, Writes
<1>7. /\ CodeViewBase(lists.modules, rva, ModuleCount) \in Nat
      /\ CodeViewBase(lists.modules, rva, ModuleCount) >= StringRva(rva, ModuleCount)
  BY Zenon, <1>4, Written, CodeViewBaseDef
<1>8. /\ cursor' \in [base : Nat, stringEnd : Nat, position : Nat]
      /\ cursor'.stringEnd >= StringRva(rva, ModuleCount)
  BY <1>1, <1>7 DEF DumpTypes
<1>9. DumpTypes'
  BY <1>1, <1>2, <1>3, <1>6, <1>8 DEF DumpTypes, listVars
<1>10. Rva("ModuleList")' = rva /\ ModuleCount' = ModuleCount
  BY <1>1, Same
<1> QED
  BY <1>8, <1>9, <1>10 DEF NamesEndLater, StringRva

LEMMA NamesKeep ==
  ASSUME SetterInv, DumpTypes, NamesEndLater, WriteModuleNames
  PROVE  DumpTypes' /\ NamesEndLater'
<1> DEFINE lost == lists.modules.first = Lost
           at == StringRva(Rva("ModuleList"), ModuleCount)
           sizes == IF lost THEN <<cursor.stringEnd - at>> ELSE ModuleStrings(lists.modules, ModuleCount)
           to == IF lost THEN "UnloadedEntries" ELSE "ModuleRecords"
           part == IF lost THEN "zeros" ELSE "name"
<1>1. /\ Step("ModuleNames", to) /\ Write("ModuleList", part, at, sizes)
      /\ cursor' = [cursor EXCEPT !.position = at + Total(sizes)]
      /\ UNCHANGED <<frozen, listVars, measured, tables, comment>>
  BY DEF WriteModuleNames
<1>2. stage = "ModuleNames" /\ stage' = to /\ world' = world
  BY <1>1, StepKeeps
<1>3. /\ "ModuleList" \in Streams /\ part \in Parts /\ to \in StageNames /\ to # "ModuleNames"
  BY DEF Streams, Parts, StageNames
<1>4. at \in Nat /\ ModuleCount \in Nat
  BY Zenon, <1>3, Written, CountsType, StringRvaType
<1>5. sizes \in Seq(Nat)
  <2>1. cursor.stringEnd >= at /\ cursor.stringEnd \in Nat
    BY <1>2, Written DEF NamesEndLater
  <2> HIDE DEF at
  <2>2. <<cursor.stringEnd - at>> \in Seq(Nat)
    BY <1>4, <2>1
  <2>3. ModuleStrings(lists.modules, ModuleCount) \in Seq(Nat)
    BY <1>4, Written, ModuleStringsType
  <2> QED
    BY <2>2, <2>3
<1>6. file' \in Seq(Extent)
  BY Zenon, <1>1, <1>3, <1>4, <1>5, Writes
<1> HIDE DEF at, sizes, to, part
<1>7. cursor' \in [base : Nat, stringEnd : Nat, position : Nat]
  <2>1. Total(sizes) \in Nat
    BY <1>5, TotalDef
  <2>2. at + Total(sizes) \in Nat
    BY <1>4, <2>1
  <2> QED
    BY <1>1, <2>2 DEF DumpTypes
<1> QED
  BY <1>1, <1>2, <1>3, <1>6, <1>7 DEF DumpTypes, listVars, NamesEndLater

LEMMA RecordsKeep ==
  ASSUME SetterInv, DumpTypes, WriteModuleRecords
  PROVE  DumpTypes' /\ NamesEndLater'
<1>1. /\ Step("ModuleRecords", "UnloadedEntries")
      /\ UNCHANGED <<frozen, listVars, measured, tables, cursor, comment>>
  BY DEF WriteModuleRecords
<1>2. stage' = "UnloadedEntries" /\ world' = world
  BY <1>1, StepKeeps
<1>3. "ModuleList" \in Streams /\ "record" \in Parts /\ "UnloadedEntries" \in StageNames
  BY DEF Streams, Parts, StageNames
<1>4. file' \in Seq(Extent)
  <2>1. CASE UNCHANGED file
    BY <2>1 DEF DumpTypes
  <2>2. CASE Write("ModuleList", "record", cursor.position, ModuleRecords(lists.modules, ModuleCount))
    <3>1. ModuleRecords(lists.modules, ModuleCount) \in Seq(Nat)
      BY Zenon, Written, CountsType, ModuleRecordsDef
    <3> QED
      BY <1>3, <2>2, <3>1, Writes, Written
  <2> QED
    BY <2>1, <2>2 DEF WriteModuleRecords
<1> QED
  BY <1>1, <1>2, <1>3, <1>4 DEF DumpTypes, listVars, NamesEndLater

LEMMA UnloadedSizesType ==
  ASSUME DumpTypes
  PROVE  LET walked == UnloadedWalk(lists.ring, UnloadedCount)
         IN  /\ walked \in Seq(RingSlot) /\ Len(walked) \in Nat
             /\ <<UnloadedHeader + Len(walked) * UnloadedSize>> \in Seq(Nat)
             /\ [i \in DOMAIN walked |-> UnloadedName(walked[i])] = UnloadedSizes(walked)
             /\ UnloadedSizes(walked) \in Seq(Nat)
             /\ UnloadedStringRva(Rva("UnloadedModules"), UnloadedCount) \in Nat
             /\ Rva("UnloadedModules") \in Nat
<1> DEFINE walked == UnloadedWalk(lists.ring, UnloadedCount)
<1>1. walked \in Seq(RingSlot)
  BY Zenon, Written, CountsType, UnloadedWalkType
<1> HIDE DEF walked
<1>2. UnloadedHeader \in Nat /\ UnloadedSize \in Nat /\ Len(walked) \in Nat /\ UnloadedCount \in Nat
  BY <1>1, Written, CountsType, WalkAssumption
<1>3. UnloadedHeader + Len(walked) * UnloadedSize \in Nat
  <2>1. Len(walked) * UnloadedSize \in Nat
    BY <1>2
  <2> QED
    BY <1>2, <2>1
<1>4. Rva("UnloadedModules") \in Nat
  BY Written DEF Streams
<1>5. UnloadedStringRva(Rva("UnloadedModules"), UnloadedCount) \in Nat
  <2>1. UnloadedCount * UnloadedSize \in Nat
    BY <1>2
  <2> QED
    BY <1>2, <1>4, <2>1 DEF UnloadedStringRva
<1>6. [i \in DOMAIN walked |-> UnloadedName(walked[i])] = UnloadedSizes(walked)
  BY DEF UnloadedSizes
<1>7. UnloadedSizes(walked) \in Seq(Nat)
  BY <1>1, UnloadedSizesDef
<1>8. <<UnloadedHeader + Len(walked) * UnloadedSize>> \in Seq(Nat)
  BY <1>3
<1> QED
  BY <1>1, <1>2, <1>4, <1>5, <1>6, <1>7, <1>8 DEF walked

LEMMA EntriesKeep ==
  ASSUME SetterInv, DumpTypes, WriteUnloadedEntries
  PROVE  DumpTypes' /\ NamesEndLater'
<1> DEFINE to == IF UnloadedCount = 0 THEN "ThreadList" ELSE "UnloadedNames"
           walked == UnloadedWalk(lists.ring, UnloadedCount)
<1>1. /\ Step("UnloadedEntries", to)
      /\ UNCHANGED <<frozen, listVars, measured, cursor, comment>>
  BY DEF WriteUnloadedEntries
<1>2. stage' = to /\ world' = world
  BY <1>1, StepKeeps
<1>3. /\ "UnloadedModules" \in Streams /\ "entries" \in Parts
      /\ to \in StageNames /\ to # "ModuleNames"
  BY DEF Streams, Parts, StageNames
<1>4. file' \in Seq(Extent)
  <2>1. CASE UNCHANGED file
    BY <2>1 DEF DumpTypes
  <2>2. CASE Write("UnloadedModules", "entries", Rva("UnloadedModules"),
                   <<UnloadedHeader + Len(walked) * UnloadedSize>>)
    <3>1. <<UnloadedHeader + Len(walked) * UnloadedSize>> \in Seq(Nat) /\ Rva("UnloadedModules") \in Nat
      BY UnloadedSizesType
    <3> QED
      BY Zenon, <1>3, <2>2, <3>1, Writes
  <2> QED
    BY <2>1, <2>2 DEF WriteUnloadedEntries
<1> QED
  BY <1>1, <1>2, <1>3, <1>4 DEF DumpTypes, listVars, NamesEndLater

LEMMA UnloadedNamesKeep ==
  ASSUME SetterInv, DumpTypes, WriteUnloadedNames
  PROVE  DumpTypes' /\ NamesEndLater'
<1> DEFINE walked == UnloadedWalk(lists.ring, UnloadedCount)
<1>1. /\ Step("UnloadedNames", "ThreadList")
      /\ Write("UnloadedModules", "name", UnloadedStringRva(Rva("UnloadedModules"), UnloadedCount),
               [i \in DOMAIN walked |-> UnloadedName(walked[i])])
      /\ UNCHANGED <<frozen, listVars, measured, tables, cursor, comment>>
  BY DEF WriteUnloadedNames
<1>2. stage' = "ThreadList" /\ world' = world
  BY <1>1, StepKeeps
<1>3. "UnloadedModules" \in Streams /\ "name" \in Parts /\ "ThreadList" \in StageNames
  BY DEF Streams, Parts, StageNames
<1>4. file' \in Seq(Extent)
  <2>1. /\ [i \in DOMAIN walked |-> UnloadedName(walked[i])] \in Seq(Nat)
        /\ UnloadedStringRva(Rva("UnloadedModules"), UnloadedCount) \in Nat
    BY UnloadedSizesType
  <2> HIDE DEF walked
  <2> QED
    BY <1>1, <1>3, <2>1, Writes
<1> QED
  BY <1>1, <1>2, <1>3, <1>4 DEF DumpTypes, listVars, NamesEndLater

LEMMA ThreadTableType ==
  ASSUME DumpTypes
  PROVE  LET names == ThreadNames(measured.names)
             table == NamesHeader + Len(names) * NameSize
         IN  /\ names \in Seq(Nat) /\ table \in Nat
             /\ [i \in DOMAIN names |-> ThreadNameStorage(names[i])] = ThreadNameSizes(names)
             /\ ThreadNameSizes(names) \in Seq(Nat)
             /\ Rva("ThreadNames") \in Nat /\ Rva("ThreadNames") + table \in Nat
<1> DEFINE names == ThreadNames(measured.names)
           table == NamesHeader + Len(names) * NameSize
<1>1. names \in Seq(Nat)
  BY Written, CountsType, ThreadNamesType
<1>2. Rva("ThreadNames") \in Nat
  BY Written DEF Streams
<1> HIDE DEF names
<1>3. table \in Nat
  <2>1. NamesHeader \in Nat /\ NameSize \in Nat /\ Len(names) \in Nat
    BY <1>1, WalkAssumption
  <2>2. Len(names) * NameSize \in Nat
    BY <2>1
  <2> QED
    BY <2>1, <2>2
<1>4. [i \in DOMAIN names |-> ThreadNameStorage(names[i])] = ThreadNameSizes(names)
  BY DEF ThreadNameSizes
<1>5. ThreadNameSizes(names) \in Seq(Nat)
  BY <1>1, ThreadNameSizesDef
<1> HIDE DEF table
<1>6. Rva("ThreadNames") + table \in Nat
  BY <1>2, <1>3
<1> QED
  BY <1>1, <1>2, <1>3, <1>4, <1>5, <1>6 DEF names, table

LEMMA ThreadNamesKeep ==
  ASSUME SetterInv, DumpTypes, WriteThreadNames
  PROVE  DumpTypes' /\ NamesEndLater'
<1> DEFINE names == ThreadNames(measured.names)
           rva == Rva("ThreadNames")
           table == NamesHeader + Len(names) * NameSize
<1>1. /\ Step("ThreadNames", "MemoryInfo")
      /\ UNCHANGED <<frozen, listVars, measured, cursor, comment>>
  BY DEF WriteThreadNames
<1>2. stage' = "MemoryInfo" /\ world' = world
  BY <1>1, StepKeeps
<1>3. "ThreadNames" \in Streams /\ "name" \in Parts /\ "entries" \in Parts /\ "MemoryInfo" \in StageNames
  BY DEF Streams, Parts, StageNames
<1>4. file' \in Seq(Extent)
  <2>1. CASE UNCHANGED file
    BY <2>1 DEF DumpTypes
  <2>2. CASE file' = file \o Extents("ThreadNames", "entries", rva, <<table>>)
                          \o Extents("ThreadNames", "name", rva + table,
                                     [i \in DOMAIN names |-> ThreadNameStorage(names[i])])
    <3>1. /\ table \in Nat /\ rva \in Nat /\ rva + table \in Nat
          /\ [i \in DOMAIN names |-> ThreadNameStorage(names[i])] \in Seq(Nat)
      BY ThreadTableType
    <3> DEFINE s == [i \in DOMAIN names |-> ThreadNameStorage(names[i])]
               e == Extents("ThreadNames", "entries", rva, <<table>>)
               f == Extents("ThreadNames", "name", rva + table, s)
    <3> HIDE DEF table, rva, s
    <3>2. <<table>> \in Seq(Nat) /\ s \in Seq(Nat)
      BY <3>1 DEF s
    <3>3. e \in Seq(Extent) /\ f \in Seq(Extent)
      BY Zenon, <1>3, <3>1, <3>2, ExtentsDef
    <3>4. file \in Seq(Extent) /\ file' = file \o e \o f
      BY <2>2, Written DEF s, table, rva
    <3> HIDE DEF e, f, Extent
    <3> QED
      BY <3>3, <3>4
  <2> QED
    BY Zenon, <2>1, <2>2 DEF WriteThreadNames
<1> QED
  BY <1>1, <1>2, <1>3, <1>4 DEF DumpTypes, listVars, NamesEndLater

LEMMA MemoryInfoKeeps ==
  ASSUME SetterInv, DumpTypes, WriteMemoryInfoList
  PROVE  DumpTypes' /\ NamesEndLater'
<1> DEFINE found == Smaller(MemoryInfoRanges(lists.regions), measured.regions)
           sizes == <<InfoHeader + found * InfoSize, (measured.regions - found) * InfoSize>>
<1>1. /\ Step("MemoryInfo", "Rest") /\ Write("MemoryInfo", "info", Rva("MemoryInfo"), sizes)
      /\ UNCHANGED <<frozen, listVars, measured, tables, cursor, comment>>
  BY DEF WriteMemoryInfoList
<1>2. stage' = "Rest" /\ world' = world
  BY <1>1, StepKeeps
<1>3. "MemoryInfo" \in Streams /\ "info" \in Parts /\ "Rest" \in StageNames
  BY DEF Streams, Parts, StageNames
<1>4. sizes \in Seq(Nat)
  <2>1. found \in Nat /\ measured.regions - found \in Nat
    BY Zenon, Written, CountsType, MemoryInfoRangesType, SmallerDef
  <2> DEFINE left == measured.regions - found
  <2>2. left \in Nat /\ InfoHeader \in Nat /\ InfoSize \in Nat
    BY <2>1, WalkAssumption
  <2>3. sizes = <<InfoHeader + found * InfoSize, left * InfoSize>>
    OBVIOUS
  <2> HIDE DEF found, left, sizes
  <2>4. found * InfoSize \in Nat /\ left * InfoSize \in Nat
    BY <2>1, <2>2
  <2>5. InfoHeader + found * InfoSize \in Nat
    BY <2>2, <2>4
  <2> QED
    BY <2>3, <2>4, <2>5
<1>5. file' \in Seq(Extent)
  BY Zenon, <1>1, <1>3, <1>4, Writes, Written
<1> QED
  BY <1>1, <1>2, <1>3, <1>5 DEF DumpTypes, listVars, NamesEndLater

LEMMA ResumeKeeps ==
  ASSUME SetterInv, DumpTypes, Resume
  PROVE  DumpTypes' /\ NamesEndLater'
<1>1. Step("resume", "done") /\ frozen' = {} /\ UNCHANGED <<listVars, measured, written>>
  BY DEF Resume
<1>2. stage' = "done" /\ world' = world
  BY <1>1, StepKeeps
<1> QED
  BY <1>1, <1>2 DEF DumpTypes, listVars, written, NamesEndLater, StageNames

LEMMA DisturbKeeps ==
  ASSUME SetterInv, DumpTypes, NamesEndLater, Disturb
  PROVE  /\ DumpTypes' /\ NamesEndLater' /\ SetterInv' /\ Dead' = Dead /\ frozen' = frozen
         /\ text' = text /\ pc' = pc
         /\ stage' = stage /\ measured' = measured /\ comment' = comment
<1>1. UNCHANGED <<setterVars, frozen, world, stage, measured, written>>
  BY DEF Disturb
<1>2. PICK l \in Lists \ disturbed :
        lists' = [lists EXCEPT ![l] = world.later[l]] /\ disturbed' = disturbed \cup {l}
  BY Zenon DEF Disturb
<1>3. world.later \in ListStates /\ lists \in ListStates
  BY WorldsAssumption DEF DumpTypes
<1>4. l \in {"modules", "ring", "regions"}
  BY <1>2 DEF Lists, LastWalk
<1>5. lists' \in ListStates
  BY <1>2, <1>3, <1>4 DEF ListStates
<1>6. DumpTypes'
  BY <1>1, <1>2, <1>5 DEF DumpTypes, written
<1>7. Rva("ModuleList")' = Rva("ModuleList") /\ ModuleCount' = ModuleCount
  BY <1>1, Same
<1>8. NamesEndLater'
  BY <1>1, <1>7 DEF NamesEndLater, written, StringRva
<1>9. /\ SetterInv' /\ Dead' = Dead /\ text' = text /\ pc' = pc
  <2>1. Step(stage, stage)
    BY <1>1 DEF Step
  <2> QED
    BY <2>1, StepKeeps
<1> QED
  BY <1>1, <1>6, <1>8, <1>9 DEF written

\* One step of the dump that writes.
WriteStep ==
  \/ WriteCommentW \/ ComputeCodeViewBase \/ WriteModuleDescriptors \/ WriteModuleNames
  \/ WriteModuleRecords \/ WriteUnloadedEntries \/ WriteUnloadedNames \/ WriteThreadList
  \/ WriteThreadNames \/ WriteMemoryInfoList \/ WriteRest

LEMMA WriteStepKeeps ==
  ASSUME SetterInv, DumpTypes, NamesEndLater, WriteStep
  PROVE  DumpTypes' /\ NamesEndLater'
<1>1. CASE WriteThreadList
  BY <1>1, WriteWholeKeeps DEF WriteThreadList, Streams, StageNames
<1>2. CASE WriteRest
  BY <1>2, WriteWholeKeeps DEF WriteRest, Streams, StageNames
<1> QED
  BY <1>1, <1>2, WriteCommentKeeps, CodeViewBaseKeeps, DescriptorsKeep, NamesKeep, RecordsKeep,
     EntriesKeep, UnloadedNamesKeep, ThreadNamesKeep, MemoryInfoKeeps DEF WriteStep

LEMMA WriteStepFrame ==
  ASSUME SetterInv, WriteStep
  PROVE  /\ SetterInv' /\ Dead' = Dead /\ frozen' = frozen /\ measured' = measured
         /\ lists' = lists /\ disturbed' = disturbed /\ text' = text /\ pc' = pc
         /\ WriteCommentW \/ comment' = comment
<1>1. \E from, to : Step(from, to)
  BY Zenon DEF WriteStep, WriteCommentW, ComputeCodeViewBase, WriteModuleDescriptors, WriteModuleNames,
     WriteModuleRecords, WriteUnloadedEntries, WriteUnloadedNames, WriteThreadList, WriteThreadNames,
     WriteMemoryInfoList, WriteRest, WriteWhole
<1>2. frozen' = frozen /\ measured' = measured /\ UNCHANGED listVars
  BY Zenon DEF WriteStep, WriteCommentW, ComputeCodeViewBase, WriteModuleDescriptors, WriteModuleNames,
     WriteModuleRecords, WriteUnloadedEntries, WriteUnloadedNames, WriteThreadList, WriteThreadNames,
     WriteMemoryInfoList, WriteRest, WriteWhole
<1>3. WriteCommentW \/ comment' = comment
  BY Zenon DEF WriteStep, ComputeCodeViewBase, WriteModuleDescriptors, WriteModuleNames,
     WriteModuleRecords, WriteUnloadedEntries, WriteUnloadedNames, WriteThreadList, WriteThreadNames,
     WriteMemoryInfoList, WriteRest, WriteWhole
<1> QED
  BY <1>1, <1>2, <1>3, StepKeeps DEF listVars

LEMMA WriteStepStages ==
  ASSUME WriteStep, ~WriteCommentW
  PROVE  stage \notin {"measure", "freeze", "count", "CommentW"} /\ stage' # "measure"
<1> USE DEF Step, WriteWhole
<1>1. CASE ComputeCodeViewBase
  BY <1>1 DEF ComputeCodeViewBase
<1>2. CASE WriteModuleDescriptors
  BY <1>2 DEF WriteModuleDescriptors
<1>3. CASE WriteModuleNames
  BY <1>3 DEF WriteModuleNames
<1>4. CASE WriteModuleRecords
  BY <1>4 DEF WriteModuleRecords
<1>5. CASE WriteUnloadedEntries
  BY <1>5 DEF WriteUnloadedEntries
<1>6. CASE WriteUnloadedNames
  BY <1>6 DEF WriteUnloadedNames
<1>7. CASE WriteThreadList \/ WriteRest
  BY <1>7 DEF WriteThreadList, WriteRest
<1>8. CASE WriteThreadNames
  BY <1>8 DEF WriteThreadNames
<1>9. CASE WriteMemoryInfoList
  BY <1>9 DEF WriteMemoryInfoList
<1> QED
  BY <1>1, <1>2, <1>3, <1>4, <1>5, <1>6, <1>7, <1>8, <1>9 DEF WriteStep

\* A setter that does something is not suspended.
LEMMA SetterKeeps ==
  ASSUME SetterInv, SetterNext
  PROVE  /\ SetterInv' /\ Dead \subseteq Dead' /\ frozen' = frozen
         /\ \E t \in Setters : t \notin frozen
<1>1. PICK t \in Setters : Enter(t) \/ Proceed(t) \/ Kill(t)
  BY DEF SetterNext
<1>2. SetterInv'
  BY <1>1, StepWithoutBuffer, StepWithBuffer, StepKill DEF Proceed
<1>3. t \notin frozen /\ frozen' = frozen
  BY <1>1 DEF Enter, Proceed, Kill, Acquire, AcquireAbandoned, NoMutex, Verify, EditNothing, SpliceStarts,
     SpliceEnds, StoreCrc, EditTorn, Release, Running
<1>4. pc[t] # "dead" /\ \E l \in Labels : pc' = [pc EXCEPT ![t] = l]
  <2>1. CASE Kill(t)
    BY <2>1 DEF Kill, Goto, Labels
  <2>2. CASE Enter(t)
    <3>1. pc[t] # "dead" /\ (Goto(t, "idle") \/ Goto(t, "wait"))
      BY <2>2 DEF Enter, Running, Returns
    <3> QED
      BY <3>1 DEF Goto, Labels
  <2>3. CASE Proceed(t)
    <3>1. pc[t] # "dead"
      BY <2>3 DEF Proceed, Acquire, AcquireAbandoned, NoMutex, Verify, EditNothing, SpliceStarts,
         SpliceEnds, StoreCrc, EditTorn, Release, Running
    <3>2. \E l \in {"idle", "verify", "edit", "splice", "crc", "release"} : Goto(t, l)
      BY <2>3 DEF Proceed, Acquire, AcquireAbandoned, NoMutex, Verify, EditNothing, SpliceStarts,
         SpliceEnds, StoreCrc, EditTorn, Release, Returns
    <3> QED
      BY Zenon, <3>1, <3>2 DEF Goto, Labels
  <2> QED
    BY <1>1, <2>1, <2>2, <2>3
<1>5. Dead \subseteq Dead'
  <2>1. pc \in [Setters -> Labels]
    BY DEF SetterInv, SetterTypes
  <2> QED
    BY <1>4, <2>1 DEF Dead
<1> QED
  BY <1>2, <1>3, <1>5

-----------------------------------------------------------------------------
(***************************************************************************)
(* The comment in the dump.                                                *)
(***************************************************************************)

\* A dump that suspended threads suspended all, unless one had ended.
FrozenAll == frozen # {} /\ Dead = {} => frozen = Setters

Inv == SetterInv /\ DumpTypes /\ NamesEndLater /\ FrozenAll /\ CommentHasRoom /\ CommentKept

LEMMA PastComment ==
  ASSUME DumpTypes
  PROVE  Past("CommentW") <=> stage \notin {"measure", "freeze", "count", "CommentW"}
  BY StagesDef, PastDef DEF DumpTypes, StageNames

\* The write of a comment nobody is in the middle of changing.
LEMMA CommentWritten ==
  ASSUME Inv, WriteCommentW
  PROVE  CommentKept'
<1> SUFFICES ASSUME measured.comment > 0, frozen # {}, Dead = {},
                    \A t \in Setters : pc[t] \notin {"splice", "crc"}
             PROVE  /\ comment'.result = "written"
                    /\ measured.text = text => /\ comment'.text = text
                                               /\ comment'.size = (TextLength(text) + 1) * WCHARSize
  <2>1. WriteStep
    BY DEF WriteStep
  <2>2. /\ Dead' = Dead /\ frozen' = frozen /\ measured' = measured /\ text' = text /\ pc' = pc
    BY <2>1, WriteStepFrame DEF Inv
  <2>3. ((TextLength(text) + 1) * WCHARSize)' = (TextLength(text) + 1) * WCHARSize
    BY <2>2 DEF TextLength
  <2> QED
    BY <2>2, <2>3 DEF CommentKept
<1>1. whole = Whole /\ crc = Covered(text)
  BY DEF Inv, SetterInv, CrcVouches
<1>2. Verdicts = {TRUE}
  BY Zenon, <1>1 DEF Verdicts
<1> DEFINE size == (TextLength(text) + 1) * WCHARSize
           content == Smaller(size, measured.comment)
<1>3. /\ text \in Seq(Lines) /\ TextLength(text) \in Nat /\ TextLength(text) < kCommentBufferWChars
      /\ Whole = kCommentBufferWChars /\ Whole \in Nat
  BY TextBound DEF Inv
<1>4. comment' = [result |-> "written", size |-> content,
                  text |-> Leading(text, Smaller(content \div WCHARSize, whole))]
  <2>1. measured.comment # 0
    OBVIOUS
  <2>2. \E intact \in {TRUE} : \E length \in {TextLength(text)} :
          LET c == Smaller((length + 1) * WCHARSize, measured.comment)
          IN  IF ~intact
              THEN comment' = [comment EXCEPT !.result = "skipped"] /\ UNCHANGED file
              ELSE /\ comment' = [result |-> "written", size |-> c,
                                  text |-> Leading(text, Smaller(c \div WCHARSize, whole))]
                   /\ Write("CommentW", "text", Rva("CommentW"), <<c, measured.comment - c>>)
    BY <1>1, <1>2, <2>1 DEF WriteCommentW
  <2> QED
    BY <2>2
<1>5. ASSUME measured.text = text
      PROVE  content = size /\ Smaller(content \div WCHARSize, whole) = TextLength(text) + 1
  <2>1. size \in Nat /\ measured.comment \in Nat /\ WCHARSize \in Nat \ {0}
    BY Zenon, <1>3, MeasuredComment, Written, CountsType, WalkAssumption DEF Inv
  <2>2. measured.comment >= size
    <3>1. stage # "measure"
      BY StepKeeps DEF WriteCommentW, Inv
    <3> QED
      BY <1>5, <3>1, <2>1 DEF Inv, CommentHasRoom
  <2>3. content = size
    <3> HIDE DEF size
    <3> QED
      BY <2>1, <2>2 DEF Smaller
  <2>4. size \div WCHARSize = TextLength(text) + 1
    <3> DEFINE n == TextLength(text) + 1
    <3>1. n \in Nat
      BY <1>3
    <3>2. size = n * WCHARSize
      OBVIOUS
    <3> HIDE DEF n, size
    <3>3. (n * WCHARSize) \div WCHARSize = n
      BY <2>1, <3>1
    <3> QED
      BY <3>2, <3>3 DEF n
  <2>5. Smaller(TextLength(text) + 1, whole) = TextLength(text) + 1
    BY <1>1, <1>3 DEF Smaller
  <2> HIDE DEF content, size
  <2> QED
    BY <2>3, <2>4, <2>5
<1> HIDE DEF content
<1>6. measured.text = text => comment'.text = text /\ comment'.size = size
  BY <1>3, <1>4, <1>5, LeadingWhole
<1> QED
  BY <1>4, <1>6

LEMMA InvInit == Init => Inv
<1> SUFFICES ASSUME Init PROVE Inv
  OBVIOUS
<1>1. frozen = {} /\ stage = "measure"
  BY DEF Init, CommentInit
<1>2. FrozenAll /\ CommentHasRoom
  BY <1>1 DEF FrozenAll, CommentHasRoom
<1>3. DumpTypes /\ NamesEndLater
  BY DumpInit
<1>4. CommentKept
  BY <1>1 DEF CommentKept
<1> QED
  BY <1>2, <1>3, <1>4, SetterInit DEF Inv

\* The invariant does not hang on what a step leaves alone.
LEMMA CommentFrame ==
  ASSUME Inv, DumpTypes', stage # "measure" /\ (Past("CommentW")' => Past("CommentW")),
         Dead' = Dead, frozen' \in {frozen, {}}, measured' = measured, text' = text, pc' = pc,
         comment' = comment, stage' # "measure"
  PROVE  FrozenAll' /\ CommentHasRoom' /\ CommentKept'
<1>1. TextLength(text)' = TextLength(text) /\ TextLength(measured.text)' = TextLength(measured.text)
  BY DEF TextLength
<1>2. FrozenAll'
  BY DEF Inv, FrozenAll
<1>3. CommentHasRoom'
  BY <1>1 DEF Inv, CommentHasRoom
<1>4. CommentKept'
  BY <1>1 DEF Inv, CommentKept
<1> QED
  BY <1>2, <1>3, <1>4

LEMMA InvNext == Inv /\ [Next]_vars => Inv'
<1> SUFFICES ASSUME Inv, [Next]_vars PROVE Inv'
  OBVIOUS
<1>0. SetterInv /\ DumpTypes /\ NamesEndLater
  BY DEF Inv
<1>1. CASE SetterNext /\ UNCHANGED dumpVars
  <2>1. SetterInv' /\ Dead \subseteq Dead' /\ frozen' = frozen /\ \E t \in Setters : t \notin frozen
    BY <1>0, <1>1, SetterKeeps
  <2>2. /\ UNCHANGED <<world, lists, disturbed, stage, measured, tables, cursor, comment, file>>
    BY <1>1 DEF dumpVars, listVars, written
  <2>3. DumpTypes'
    BY <1>0, <2>1, <2>2 DEF DumpTypes
  <2>4. NamesEndLater'
    BY <1>0, <2>2, Same DEF NamesEndLater, StringRva
  <2>5. ~(frozen' # {} /\ Dead' = {})
    BY <2>1 DEF Inv, FrozenAll
  <2>6. FrozenAll' /\ CommentKept'
    BY <2>5 DEF FrozenAll, CommentKept
  <2>7. CommentHasRoom'
    BY <2>2 DEF Inv, CommentHasRoom, TextLength
  <2> QED
    BY <2>1, <2>3, <2>4, <2>6, <2>7 DEF Inv
<1>2. CASE MeasureComment
  <2>1. /\ DumpTypes' /\ NamesEndLater' /\ CommentHasRoom' /\ SetterInv' /\ Dead' = Dead
        /\ frozen' = frozen /\ stage' = "freeze"
    BY <1>0, <1>2, MeasureKeeps
  <2>2. ~Past("CommentW")'
    BY <2>1, StagesDef, PastDef
  <2>3. FrozenAll' /\ CommentKept'
    BY <2>1, <2>2 DEF Inv, FrozenAll, CommentKept
  <2> QED
    BY <2>1, <2>3 DEF Inv
<1>3. CASE Freeze
  <2>1. /\ DumpTypes' /\ NamesEndLater' /\ SetterInv' /\ stage' = "count" /\ frozen' = Setters \ Dead'
        /\ CommentHasRoom'
    BY <1>0, <1>3, FreezeKeeps DEF Inv
  <2>2. ~Past("CommentW")'
    BY <2>1, StagesDef, PastDef
  <2>3. FrozenAll' /\ CommentKept'
    BY <2>1, <2>2 DEF FrozenAll, CommentKept
  <2> QED
    BY <2>1, <2>3 DEF Inv
<1>4. CASE Count
  <2>1. /\ DumpTypes' /\ NamesEndLater' /\ CommentHasRoom' /\ SetterInv' /\ Dead' = Dead
        /\ frozen' = frozen /\ stage' = "CommentW"
    BY <1>0, <1>4, CountKeeps DEF Inv
  <2>2. ~Past("CommentW")'
    BY <2>1, StagesDef, PastDef
  <2>3. FrozenAll' /\ CommentKept'
    BY <2>1, <2>2 DEF Inv, FrozenAll, CommentKept
  <2> QED
    BY <2>1, <2>3 DEF Inv
<1>5. CASE WriteStep
  <2>1. DumpTypes' /\ NamesEndLater'
    BY <1>0, <1>5, WriteStepKeeps
  <2>2. /\ SetterInv' /\ Dead' = Dead /\ frozen' = frozen /\ measured' = measured
        /\ text' = text /\ pc' = pc /\ (WriteCommentW \/ comment' = comment)
    BY <1>0, <1>5, WriteStepFrame
  <2>3. CASE WriteCommentW
    <3>1. FrozenAll' /\ CommentHasRoom'
      <4>1. stage # "measure"
        BY <1>0, <2>3, StepKeeps DEF WriteCommentW
      <4> QED
        BY <2>2, <4>1 DEF Inv, FrozenAll, CommentHasRoom, TextLength
    <3> QED
      BY <2>1, <2>2, <2>3, <3>1, CommentWritten DEF Inv
  <2>4. CASE ~WriteCommentW
    <3>1. stage \notin {"measure", "freeze", "count", "CommentW"} /\ stage' # "measure"
      BY <1>5, <2>4, WriteStepStages
    <3>2. FrozenAll' /\ CommentHasRoom' /\ CommentKept'
      BY <1>0, <2>1, <2>2, <2>4, <3>1, PastComment, CommentFrame
    <3> QED
      BY <2>1, <2>2, <3>2 DEF Inv
  <2> QED
    BY <2>3, <2>4
<1>6. CASE Resume
  <2>1. DumpTypes' /\ NamesEndLater'
    BY <1>0, <1>6, ResumeKeeps
  <2>2. /\ Step("resume", "done") /\ frozen' = {} /\ measured' = measured /\ comment' = comment
    BY <1>6 DEF Resume, written
  <2>3. /\ SetterInv' /\ Dead' = Dead /\ text' = text /\ pc' = pc /\ stage = "resume" /\ stage' = "done"
    BY <1>0, <2>2, StepKeeps
  <2>4. FrozenAll' /\ CommentHasRoom' /\ CommentKept'
    BY <1>0, <2>1, <2>2, <2>3, PastComment, CommentFrame
  <2> QED
    BY <2>1, <2>3, <2>4 DEF Inv
<1>7. CASE Disturb
  <2>1. /\ DumpTypes' /\ NamesEndLater' /\ SetterInv' /\ Dead' = Dead /\ frozen' = frozen
        /\ text' = text /\ pc' = pc /\ stage' = stage /\ measured' = measured /\ comment' = comment
    BY <1>0, <1>7, DisturbKeeps
  <2>2. stage # "measure"
    BY <1>7, StagesDef, PastDef DEF Disturb
  <2>3. Past("CommentW")' <=> Past("CommentW")
    BY <2>1, PastDef
  <2>4. FrozenAll' /\ CommentHasRoom' /\ CommentKept'
    BY <2>1, <2>2, <2>3, CommentFrame
  <2> QED
    BY <2>1, <2>4 DEF Inv
<1>8. CASE UNCHANGED vars
  <2>1. /\ UNCHANGED <<text, whole, crc, mutex, pc, calls, answer, frozen>>
        /\ UNCHANGED <<world, lists, disturbed, stage, measured, tables, cursor, comment, file>>
    BY <1>8 DEF vars, setterVars, buffer, dumpVars, listVars, written
  <2>2. SetterInv' /\ Dead' = Dead
    <3>1. Step(stage, stage)
      BY <2>1 DEF Step, setterVars, buffer
    <3> QED
      BY <1>0, <3>1, StepKeeps
  <2>3. DumpTypes'
    BY <1>0, <2>1 DEF DumpTypes
  <2>4. NamesEndLater'
    BY <1>0, <2>1, Same DEF NamesEndLater, StringRva
  <2>5. FrozenAll' /\ CommentHasRoom' /\ CommentKept'
    <3>1. Past("CommentW")' <=> Past("CommentW")
      BY <2>1, PastDef
    <3> QED
      BY <2>1, <2>2, <3>1 DEF Inv, FrozenAll, CommentHasRoom, CommentKept, TextLength
  <2> QED
    BY <2>2, <2>3, <2>4, <2>5 DEF Inv
<1> QED
  BY <1>1, <1>2, <1>3, <1>4, <1>5, <1>6, <1>7, <1>8 DEF Next, DumpStep, WriteStep

\* The invariant of the setters, the types, and the comment that is kept.
THEOREM Invariant == Spec => []Inv
  BY InvInit, InvNext, PTL DEF Spec

LEMMA TypeOKHolds == Inv => TypeOK
<1> SUFFICES ASSUME Inv PROVE TypeOK
  OBVIOUS
<1>1. TextLength(text) < kCommentBufferWChars
  BY TextBound DEF Inv
<1>2. /\ measured.modules.count \in 0 .. kMaxModules
      /\ measured.unloaded.count \in 0 .. kMaxUnloadedModules
  BY CountsType DEF Inv, DumpTypes, ModuleCount, UnloadedCount
<1>3. \A i \in DOMAIN file : {file[i].at, file[i].size} \subseteq Nat
  <2>1. file \in Seq(Extent)
    BY DEF Inv, DumpTypes
  <2>2. \A i \in DOMAIN file : file[i] \in Extent
    BY <2>1
  <2>3. \A e \in Extent : {e.at, e.size} \subseteq Nat
    BY DEF Extent
  <2> QED
    BY <2>2, <2>3
<1>4. /\ whole \in 0 .. Whole
      /\ mutex \in [exists : BOOLEAN, owner : Setters \cup {NoThread}, count : Nat, abandoned : BOOLEAN]
      /\ pc \in [Setters -> {"idle", "wait", "verify", "edit", "splice", "crc", "release", "dead"}]
      /\ answer \in [Setters -> {"none", "TRUE", "FALSE"}]
  BY DEF Inv, SetterInv, SetterTypes, Labels
<1>5. /\ frozen \subseteq Setters /\ disturbed \subseteq Lists /\ stage \in ToSet(Stages)
      /\ comment.result \in {"none", "skipped", "written"}
  BY Zenon, StagesDef DEF Inv, DumpTypes
<1> QED
  BY <1>1, <1>2, <1>3, <1>4, <1>5 DEF TypeOK

\* The buffer never holds more than it has room for, a full one refuses, the
\* mutex, the counts and every extent of the file are well formed, whatever is
\* set, walked and changed (minidump_inproc_streams.cpp:250-257, 298-469,
\* minidump_inproc_modules.cpp:9-65, minidump_inproc.cpp:130-192, 517-605).
THEOREM TypesHold == Spec => []TypeOK
<1>1. Inv => TypeOK
  BY TypeOKHolds
<1> QED
  BY Invariant, <1>1, PTL

\* The text is torn, or has a CRC that is not its own, only where a thread is in
\* the middle of a change, or after one ended: what a setter or the dump rejects
\* was left half edited (minidump_inproc_streams.cpp:237-246, 263-268).
THEOREM CrcVouchesHolds == Spec => []CrcVouches
<1>1. Inv => CrcVouches
  BY DEF Inv, SetterInv
<1> QED
  BY Invariant, <1>1, PTL

\* A dump that suspended threads, none of which it stopped in the middle of a
\* change, writes the comment; and it is all there if nobody changed it since it
\* was measured, although that was before they were suspended
\* (minidump_inproc.cpp:135-152, minidump_inproc_streams.cpp:691-728).
THEOREM CommentKeptHolds == Spec => []CommentKept
<1>1. Inv => CommentKept
  BY DEF Inv
<1> QED
  BY Invariant, <1>1, PTL

-----------------------------------------------------------------------------
(***************************************************************************)
(* The bytes of the file.                                                  *)
(***************************************************************************)

\* A set of indices has a greatest one, which Max finds.
LEMMA MaxDef ==
  ASSUME NEW n \in Nat, NEW T, T \subseteq 1 .. n, T # {}
  PROVE  Max(T) \in T /\ \A y \in T : y <= Max(T)
<1> DEFINE D == {d \in Nat : \E x \in T : d = n - x}
<1>1. D \subseteq Nat /\ D # {}
  <2>1. PICK x \in T : TRUE
    BY Zenon
  <2>2. n - x \in D
    BY <2>1
  <2> QED
    BY Zenon, <2>2
<1>2. PICK d \in D : \A y \in D : d <= y
  <2> HIDE DEF D
  <2> QED
    BY Zenon, <1>1, LeastNat
<1>3. PICK x \in T : d = n - x
  BY <1>2
<1>4. \A y \in T : n - y \in D /\ y \in Nat /\ x \in Nat
  OBVIOUS
<1> HIDE DEF D
<1>5. \A y \in T : x >= y
  BY <1>2, <1>3, <1>4
<1>6. Max(T) \in T /\ \A y \in T : Max(T) >= y
  BY Zenon, <1>5 DEF Max
<1> QED
  BY <1>6

\* What a file holds of one stream, and whether it holds some bytes.
PiecesIn(f, stream, part) ==
  {<<e.i, e.at>> : e \in {d \in ToSet(f) : d.stream = stream /\ d.part = part}}
SizesIn(f, stream) == [j \in DOMAIN f |-> IF f[j].stream = stream THEN f[j].size ELSE 0]
TakenIn(f, stream) == Total(SizesIn(f, stream))
CoveredIn(f, stream, from, to) ==
  \A byte \in from .. to - 1 :
    \E j \in DOMAIN f : f[j].stream = stream /\ byte \in f[j].at .. f[j].at + f[j].size - 1
EndsIn(f, stream, limit) == \A j \in DOMAIN f : f[j].stream = stream => f[j].at + f[j].size <= limit

\* The streams are written in their order, none before its offset.
InOrder(f, place) ==
  /\ \A j \in DOMAIN f : f[j].at >= Rva(f[j].stream) /\ Place(f[j].stream) <= place
  /\ \A j, k \in DOMAIN f : j < k => Place(f[j].stream) <= Place(f[k].stream)

\* Where a list of pieces lies that are written from an offset on.
Places(at, sizes) == {<<i, at + PrefixSums(sizes)[i - 1]>> : i \in DOMAIN sizes}

\* One of them.
Piece(stream, part, at, sizes, i) ==
  [stream |-> stream, part |-> part, i |-> i, at |-> at + PrefixSums(sizes)[i - 1], size |-> sizes[i]]

LEMMA PieceFields ==
  ASSUME NEW stream, NEW part, NEW at, NEW sizes, NEW i
  PROVE  /\ Piece(stream, part, at, sizes, i).stream = stream
         /\ Piece(stream, part, at, sizes, i).part = part
         /\ Piece(stream, part, at, sizes, i).i = i
         /\ Piece(stream, part, at, sizes, i).at = at + PrefixSums(sizes)[i - 1]
         /\ Piece(stream, part, at, sizes, i).size = sizes[i]
  BY DEF Piece

\* A file to which a list of pieces was added.
Appended(f, stream, part, at, sizes, g) ==
  /\ g \in Seq(Extent) /\ Len(g) = Len(f) + Len(sizes) /\ Len(f) \in Nat /\ Len(sizes) \in Nat
  /\ DOMAIN g = 1 .. Len(g) /\ DOMAIN f = 1 .. Len(f) /\ DOMAIN sizes = 1 .. Len(sizes)
  /\ \A j \in 1 .. Len(f) : g[j] = f[j] /\ f[j] \in Extent
  /\ \A i \in 1 .. Len(sizes) : g[Len(f) + i] = Piece(stream, part, at, sizes, i)
  /\ \A j \in 1 .. Len(g) : j \in 1 .. Len(f) \/ \E i \in 1 .. Len(sizes) : j = Len(f) + i

LEMMA AppendDef ==
  ASSUME NEW f \in Seq(Extent), NEW stream \in Streams, NEW part \in Parts, NEW at \in Nat,
         NEW sizes \in Seq(Nat)
  PROVE  Appended(f, stream, part, at, sizes, f \o Extents(stream, part, at, sizes))
<1> DEFINE e == Extents(stream, part, at, sizes)
           g == f \o e
<1>1. e \in Seq(Extent) /\ Len(e) = Len(sizes)
  BY Zenon, ExtentsDef
<1>2. \A i \in 1 .. Len(sizes) : e[i] = Piece(stream, part, at, sizes, i)
  BY Zenon, ExtentsDef DEF Piece
<1> HIDE DEF e
<1>3. /\ g \in Seq(Extent) /\ Len(g) = Len(f) + Len(e)
      /\ \A i \in 1 .. Len(f) + Len(e) : g[i] = IF i <= Len(f) THEN f[i] ELSE e[i - Len(f)]
  BY Zenon, <1>1, ConcatProperties
<1> HIDE DEF g
<1>4. /\ Len(f) \in Nat /\ Len(sizes) \in Nat
      /\ DOMAIN g = 1 .. Len(g) /\ DOMAIN f = 1 .. Len(f) /\ DOMAIN sizes = 1 .. Len(sizes)
  BY <1>3
<1>5. \A j \in 1 .. Len(f) : g[j] = f[j] /\ f[j] \in Extent
  BY <1>1, <1>3, <1>4
<1>6. \A i \in 1 .. Len(sizes) : g[Len(f) + i] = e[i]
  <2> TAKE i \in 1 .. Len(sizes)
  <2>1. Len(f) + i \in 1 .. Len(f) + Len(e) /\ ~(Len(f) + i <= Len(f)) /\ Len(f) + i - Len(f) = i
    BY <1>1, <1>4
  <2> QED
    BY <1>3, <2>1
<1>7. \A j \in 1 .. Len(g) : j \in 1 .. Len(f) \/ \E i \in 1 .. Len(sizes) : j = Len(f) + i
  <2> TAKE j \in 1 .. Len(g)
  <2>1. CASE j > Len(f)
    <3>1. j - Len(f) \in 1 .. Len(sizes) /\ j = Len(f) + (j - Len(f))
      BY <1>1, <1>3, <1>4, <2>1
    <3> QED
      BY Zenon, <3>1
  <2> QED
    BY <1>3, <1>4, <2>1
<1>8. Appended(f, stream, part, at, sizes, g)
  BY Zenon, <1>1, <1>2, <1>3, <1>4, <1>5, <1>6, <1>7 DEF Appended
<1> QED
  BY <1>8 DEF g, e

\* Each extent lies between the first offset and the end of all.
LEMMA PieceInside ==
  ASSUME NEW sizes \in Seq(Nat), NEW i \in 1 .. Len(sizes)
  PROVE  /\ PrefixSums(sizes)[i - 1] \in Nat /\ sizes[i] \in Nat
         /\ PrefixSums(sizes)[i - 1] + sizes[i] <= Total(sizes)
<1>1. i \in 0 .. Len(sizes) /\ i - 1 \in 0 .. Len(sizes) /\ Len(sizes) \in i .. Len(sizes)
  OBVIOUS
<1>2. /\ PrefixSums(sizes) \in [0 .. Len(sizes) -> Nat]
      /\ PrefixSums(sizes)[i] = PrefixSums(sizes)[i - 1] + sizes[i]
  BY PrefixSumsDef
<1>3. PrefixSums(sizes)[i] <= PrefixSums(sizes)[Len(sizes)]
  BY <1>1, PrefixMonotone
<1> QED
  BY <1>1, <1>2, <1>3 DEF Total

\* What a file holds when pieces were added.
Adds(f, stream, part, at, sizes, g) ==
  ToSet(g) = ToSet(f) \cup {Piece(stream, part, at, sizes, i) : i \in DOMAIN sizes}

LEMMA AppendAdds ==
  ASSUME NEW f \in Seq(Extent), NEW stream, NEW part, NEW at, NEW sizes \in Seq(Nat), NEW g,
         Appended(f, stream, part, at, sizes, g)
  PROVE  Adds(f, stream, part, at, sizes, g)
<1>1. /\ g \in Seq(Extent) /\ Len(g) = Len(f) + Len(sizes) /\ Len(f) \in Nat /\ Len(sizes) \in Nat
      /\ DOMAIN g = 1 .. Len(g) /\ DOMAIN f = 1 .. Len(f) /\ DOMAIN sizes = 1 .. Len(sizes)
      /\ \A j \in 1 .. Len(f) : g[j] = f[j] /\ f[j] \in Extent
      /\ \A i \in 1 .. Len(sizes) : g[Len(f) + i] = Piece(stream, part, at, sizes, i)
      /\ \A j \in 1 .. Len(g) : j \in 1 .. Len(f) \/ \E i \in 1 .. Len(sizes) : j = Len(f) + i
  BY Zenon DEF Appended
<1>2. ToSet(f) = {f[j] : j \in 1 .. Len(f)} /\ ToSet(g) = {g[j] : j \in 1 .. Len(g)}
  BY <1>1 DEF ToSet
<1>3. ToSet(g) = ToSet(f) \cup {Piece(stream, part, at, sizes, i) : i \in 1 .. Len(sizes)}
  <2>1. \A d \in ToSet(g) : d \in ToSet(f) \cup {Piece(stream, part, at, sizes, i) : i \in 1 .. Len(sizes)}
    BY <1>1, <1>2
  <2>2. \A d \in ToSet(f) : d \in ToSet(g)
    BY <1>1, <1>2
  <2>3. \A i \in 1 .. Len(sizes) : Piece(stream, part, at, sizes, i) \in ToSet(g)
    <3> TAKE i \in 1 .. Len(sizes)
    <3>1. Len(f) + i \in 1 .. Len(g)
      BY <1>1
    <3> QED
      BY Zenon, <1>1, <1>2, <3>1
  <2> QED
    BY <2>1, <2>2, <2>3
<1> QED
  BY <1>1, <1>3 DEF Adds

LEMMA OwnPieces ==
  ASSUME NEW f, NEW stream, NEW part, NEW at, NEW sizes, NEW g, Adds(f, stream, part, at, sizes, g)
  PROVE  PiecesIn(g, stream, part) = PiecesIn(f, stream, part) \cup Places(at, sizes)
<1>3. ToSet(g) = ToSet(f) \cup {Piece(stream, part, at, sizes, i) : i \in DOMAIN sizes}
  BY DEF Adds
<1>4. \A i : Piece(stream, part, at, sizes, i).stream = stream /\ Piece(stream, part, at, sizes, i).part = part /\ Piece(stream, part, at, sizes, i).i = i
             /\ Piece(stream, part, at, sizes, i).at = at + PrefixSums(sizes)[i - 1]
  BY PieceFields
<1>11. \A q \in PiecesIn(g, stream, part) : q \in PiecesIn(f, stream, part) \cup Places(at, sizes)
  BY <1>3, <1>4 DEF PiecesIn, Places
<1>12. PiecesIn(f, stream, part) \subseteq PiecesIn(g, stream, part)
  BY <1>3 DEF PiecesIn
<1>13. Places(at, sizes) \subseteq PiecesIn(g, stream, part)
  BY <1>3, <1>4 DEF PiecesIn, Places
<1> QED
  BY <1>11, <1>12, <1>13

LEMMA OtherPieces ==
  ASSUME NEW f, NEW stream, NEW part, NEW at, NEW sizes, NEW g, Adds(f, stream, part, at, sizes, g),
         NEW x, NEW p, x # stream \/ p # part
  PROVE  PiecesIn(g, x, p) = PiecesIn(f, x, p)
<1>1. ToSet(g) = ToSet(f) \cup {Piece(stream, part, at, sizes, i) : i \in DOMAIN sizes}
  BY DEF Adds
<1>2. \A i : Piece(stream, part, at, sizes, i).stream = stream /\ Piece(stream, part, at, sizes, i).part = part
  BY PieceFields
<1> QED
  BY <1>1, <1>2 DEF PiecesIn

LEMMA TakenAppend ==
  ASSUME NEW f \in Seq(Extent), NEW stream, NEW part, NEW at, NEW sizes \in Seq(Nat), NEW g,
         Appended(f, stream, part, at, sizes, g)
  PROVE  /\ TakenIn(g, stream) = TakenIn(f, stream) + Total(sizes)
         /\ \A x : x # stream => TakenIn(g, x) = TakenIn(f, x)
<1> DEFINE none == [i \in 1 .. Len(sizes) |-> 0]
           added(x) == IF x = stream THEN sizes ELSE none
<1>1. /\ g \in Seq(Extent) /\ Len(g) = Len(f) + Len(sizes) /\ Len(f) \in Nat /\ Len(sizes) \in Nat
      /\ DOMAIN g = 1 .. Len(g) /\ DOMAIN f = 1 .. Len(f) /\ DOMAIN sizes = 1 .. Len(sizes)
      /\ \A j \in 1 .. Len(f) : g[j] = f[j] /\ f[j] \in Extent
      /\ \A i \in 1 .. Len(sizes) : g[Len(f) + i] = Piece(stream, part, at, sizes, i)
      /\ \A j \in 1 .. Len(g) : j \in 1 .. Len(f) \/ \E i \in 1 .. Len(sizes) : j = Len(f) + i
  BY Zenon DEF Appended
<1>2. \A i : Piece(stream, part, at, sizes, i).stream = stream /\ Piece(stream, part, at, sizes, i).size = sizes[i]
  BY PieceFields
<1>3. ASSUME NEW x
      PROVE  SizesIn(f, x) \in Seq(Nat) /\ Len(SizesIn(f, x)) = Len(f)
  <2>1. \A j \in 1 .. Len(f) : (IF f[j].stream = x THEN f[j].size ELSE 0) \in Nat
    BY <1>1 DEF Extent
  <2>2. SizesIn(f, x) = [j \in 1 .. Len(f) |-> IF f[j].stream = x THEN f[j].size ELSE 0]
    BY <1>1 DEF SizesIn
  <2> QED
    BY <1>1, <2>1, <2>2
<1>4. ASSUME NEW x
      PROVE  added(x) \in Seq(Nat) /\ Len(added(x)) = Len(sizes)
             /\ \A i \in 1 .. Len(sizes) : added(x)[i] = IF stream = x THEN sizes[i] ELSE 0
  <2>1. none \in Seq(Nat) /\ Len(none) = Len(sizes) /\ \A i \in 1 .. Len(sizes) : none[i] = 0
    BY <1>1
  <2> HIDE DEF none
  <2> QED
    BY <2>1
<1>5. ASSUME NEW x
      PROVE  TakenIn(g, x) = TakenIn(f, x) + Total(added(x))
  <2> HIDE DEF added
  <2> DEFINE both == SizesIn(f, x) \o added(x)
  <2>1. /\ both \in Seq(Nat) /\ Len(both) = Len(f) + Len(sizes)
        /\ \A j \in 1 .. Len(f) : both[j] = SizesIn(f, x)[j]
        /\ \A i \in 1 .. Len(sizes) : both[Len(f) + i] = added(x)[i]
    <3> DEFINE s == SizesIn(f, x)
               t == added(x)
    <3>1. s \in Seq(Nat) /\ t \in Seq(Nat) /\ Len(s) = Len(f) /\ Len(t) = Len(sizes)
      BY <1>3, <1>4
    <3>2. both = s \o t
      OBVIOUS
    <3> HIDE DEF s, t, both
    <3>3. /\ both \in Seq(Nat) /\ Len(both) = Len(s) + Len(t)
          /\ \A i \in 1 .. Len(s) + Len(t) : both[i] = IF i <= Len(s) THEN s[i] ELSE t[i - Len(s)]
      BY <3>1, <3>2, ConcatProperties
    <3>4. \A i \in 1 .. Len(sizes) : both[Len(f) + i] = t[i]
      <4> TAKE i \in 1 .. Len(sizes)
      <4>1. Len(f) + i \in 1 .. Len(s) + Len(t) /\ ~(Len(f) + i <= Len(s)) /\ Len(f) + i - Len(s) = i
        BY <1>1, <3>1
      <4> QED
        BY <3>3, <4>1
    <3>5. \A j \in 1 .. Len(f) : both[j] = s[j]
      BY <1>1, <3>1, <3>3
    <3> QED
      BY <3>1, <3>3, <3>4, <3>5 DEF s, t
  <2>2. Total(both) = TakenIn(f, x) + Total(added(x))
    BY <1>3, <1>4, PrefixConcat DEF TakenIn
  <2> HIDE DEF both
  <2>3. SizesIn(g, x) = [j \in 1 .. Len(g) |-> IF g[j].stream = x THEN g[j].size ELSE 0]
    BY <1>1 DEF SizesIn
  <2>4. \A j \in 1 .. Len(f) : both[j] = IF g[j].stream = x THEN g[j].size ELSE 0
    BY <1>1, <2>1 DEF SizesIn
  <2>5. \A i \in 1 .. Len(sizes) :
          both[Len(f) + i] = IF g[Len(f) + i].stream = x THEN g[Len(f) + i].size ELSE 0
    <3> TAKE i \in 1 .. Len(sizes)
    <3>1. both[Len(f) + i] = IF stream = x THEN sizes[i] ELSE 0
      BY <1>4, <2>1
    <3>2. g[Len(f) + i].stream = stream /\ g[Len(f) + i].size = sizes[i]
      BY <1>1, <1>2
    <3> QED
      BY <3>1, <3>2
  <2>6. \A j \in 1 .. Len(g) : both[j] = IF g[j].stream = x THEN g[j].size ELSE 0
    BY Zenon, <1>1, <2>4, <2>5
  <2>7. both = [j \in 1 .. Len(both) |-> both[j]]
    BY <2>1
  <2>8. SizesIn(g, x) = both
    BY <1>1, <2>1, <2>3, <2>6, <2>7
  <2> QED
    BY <2>2, <2>8 DEF TakenIn
<1>6. Total(none) = 0
  <2>1. Total(none) = Len(sizes) * 0
    BY Zenon, <1>1, TotalConstant
  <2> QED
    BY <1>1, <2>1
<1>7. ASSUME NEW x PROVE TakenIn(f, x) \in Nat
  BY <1>3, TotalDef DEF TakenIn
<1> HIDE DEF none
<1>8. \A x : x # stream => TakenIn(g, x) = TakenIn(f, x)
  BY <1>5, <1>6, <1>7
<1> QED
  BY <1>5, <1>8

\* Bytes that were covered stay so, and the new pieces cover theirs.
LEMMA CoverAppend ==
  ASSUME NEW f \in Seq(Extent), NEW stream, NEW part, NEW at \in Nat, NEW sizes \in Seq(Nat), NEW g,
         Appended(f, stream, part, at, sizes, g)
  PROVE  /\ \A x, from, to : CoveredIn(f, x, from, to) => CoveredIn(g, x, from, to)
         /\ CoveredIn(g, stream, at, at + Total(sizes))
<1>1. /\ Len(g) = Len(f) + Len(sizes) /\ Len(f) \in Nat /\ Len(sizes) \in Nat
      /\ DOMAIN g = 1 .. Len(g) /\ DOMAIN f = 1 .. Len(f)
      /\ \A j \in 1 .. Len(f) : g[j] = f[j] /\ f[j] \in Extent
      /\ \A i \in 1 .. Len(sizes) : g[Len(f) + i] = Piece(stream, part, at, sizes, i)
  BY Zenon DEF Appended
<1>2. \A x, from, to : CoveredIn(f, x, from, to) => CoveredIn(g, x, from, to)
  <2> SUFFICES ASSUME NEW x, NEW from, NEW to, CoveredIn(f, x, from, to), NEW byte \in from .. to - 1
               PROVE  \E j \in DOMAIN g : g[j].stream = x /\ byte \in g[j].at .. g[j].at + g[j].size - 1
    BY Zenon DEF CoveredIn
  <2>1. PICK j \in DOMAIN f : f[j].stream = x /\ byte \in f[j].at .. f[j].at + f[j].size - 1
    BY DEF CoveredIn
  <2>2. j \in DOMAIN g /\ g[j] = f[j]
    BY <1>1
  <2> QED
    BY <2>1, <2>2
<1>3. CoveredIn(g, stream, at, at + Total(sizes))
  <2> DEFINE to == at + Total(sizes)
  <2> HIDE DEF to
  <2> SUFFICES ASSUME NEW byte \in at .. to - 1
               PROVE  \E j \in DOMAIN g : g[j].stream = stream /\ byte \in g[j].at .. g[j].at + g[j].size - 1
    BY DEF CoveredIn, to
  <2> USE DEF to
  <2>1. Total(sizes) \in Nat
    BY TotalDef
  <2>2. byte - at \in Nat /\ byte - at < Total(sizes)
    BY <2>1
  <2>3. PICK i \in 1 .. Len(sizes) :
          PrefixSums(sizes)[i - 1] <= byte - at /\ byte - at < PrefixSums(sizes)[i - 1] + sizes[i]
    BY <2>2, PrefixCover
  <2>4. PrefixSums(sizes)[i - 1] \in Nat /\ sizes[i] \in Nat
    BY PieceInside
  <2>5. Len(f) + i \in DOMAIN g
    BY <1>1
  <2>6. /\ g[Len(f) + i].stream = stream /\ g[Len(f) + i].at = at + PrefixSums(sizes)[i - 1]
        /\ g[Len(f) + i].size = sizes[i]
    BY <1>1, PieceFields
  <2> DEFINE p == PrefixSums(sizes)[i - 1]
             z == sizes[i]
  <2>7. byte \in at + p .. (at + p) + z - 1
    <3>1. p \in Nat /\ z \in Nat /\ p <= byte - at /\ byte - at < p + z
      BY <2>3, <2>4
    <3> HIDE DEF p, z
    <3> QED
      BY <2>2, <3>1
  <2> QED
    BY <2>5, <2>6, <2>7
<1> QED
  BY <1>2, <1>3

LEMMA CoverJoin ==
  ASSUME NEW g, NEW stream, NEW from \in Int, NEW between \in Int, NEW to \in Int,
         CoveredIn(g, stream, from, between), CoveredIn(g, stream, between, to)
  PROVE  CoveredIn(g, stream, from, to)
<1> SUFFICES ASSUME NEW byte \in from .. to - 1
             PROVE  \E j \in DOMAIN g : g[j].stream = stream /\ byte \in g[j].at .. g[j].at + g[j].size - 1
  BY DEF CoveredIn
<1>1. byte \in from .. between - 1 \/ byte \in between .. to - 1
  OBVIOUS
<1> QED
  BY Zenon, <1>1 DEF CoveredIn

LEMMA EndsAppend ==
  ASSUME NEW f \in Seq(Extent), NEW stream, NEW part, NEW at \in Nat, NEW sizes \in Seq(Nat), NEW g,
         Appended(f, stream, part, at, sizes, g), NEW x, NEW limit \in Nat, EndsIn(f, x, limit),
         x = stream => at + Total(sizes) <= limit
  PROVE  EndsIn(g, x, limit)
<1>1. /\ DOMAIN g = 1 .. Len(g) /\ DOMAIN f = 1 .. Len(f)
      /\ \A j \in 1 .. Len(f) : g[j] = f[j] /\ f[j] \in Extent
      /\ \A i \in 1 .. Len(sizes) : g[Len(f) + i] = Piece(stream, part, at, sizes, i)
      /\ \A j \in 1 .. Len(g) : j \in 1 .. Len(f) \/ \E i \in 1 .. Len(sizes) : j = Len(f) + i
  BY Zenon DEF Appended
<1> SUFFICES ASSUME NEW j \in DOMAIN g, g[j].stream = x
             PROVE  g[j].at + g[j].size <= limit
  BY DEF EndsIn
<1>2. CASE j \in 1 .. Len(f)
  BY <1>1, <1>2 DEF EndsIn
<1>3. ASSUME NEW i \in 1 .. Len(sizes), j = Len(f) + i
      PROVE  g[j].at + g[j].size <= limit
  <2>1. g[j].stream = stream /\ g[j].at = at + PrefixSums(sizes)[i - 1] /\ g[j].size = sizes[i]
    BY <1>1, <1>3, PieceFields
  <2> DEFINE p == PrefixSums(sizes)[i - 1]
             z == sizes[i]
             t == Total(sizes)
  <2>2. p \in Nat /\ z \in Nat /\ p + z <= t
    BY PieceInside
  <2>3. t \in Nat /\ at + t <= limit
    BY <2>1, TotalDef
  <2> HIDE DEF p, z, t
  <2>4. (at + p) + z <= limit
    BY <2>2, <2>3
  <2> QED
    BY <2>1, <2>4 DEF p, z
<1> QED
  BY <1>1, <1>2, <1>3

\* Each stream has a place from 1 to 7.
LEMMA PlaceType == \A stream \in Streams : Place(stream) \in 1 .. 7
  BY PlaceDef DEF Streams

LEMMA PlaceNat == \A stream \in Streams : Place(stream) \in Nat
<1>1. \A n \in 1 .. 7 : n \in Nat
  OBVIOUS
<1> QED
  BY Zenon, <1>1, PlaceType

LEMMA OrderAppend ==
  ASSUME measured \in Measured, NEW f \in Seq(Extent), NEW stream \in Streams, NEW part, NEW at \in Nat,
         NEW sizes \in Seq(Nat), NEW g, Appended(f, stream, part, at, sizes, g),
         NEW before \in Nat, NEW after \in Nat, InOrder(f, before),
         before <= Place(stream), Place(stream) <= after, Rva(stream) <= at
  PROVE  InOrder(g, after)
<1>1. /\ DOMAIN g = 1 .. Len(g) /\ DOMAIN f = 1 .. Len(f) /\ Len(f) \in Nat /\ Len(sizes) \in Nat
      /\ \A j \in 1 .. Len(f) : g[j] = f[j] /\ f[j] \in Extent
      /\ \A i \in 1 .. Len(sizes) : g[Len(f) + i] = Piece(stream, part, at, sizes, i)
      /\ \A j \in 1 .. Len(g) : j \in 1 .. Len(f) \/ \E i \in 1 .. Len(sizes) : j = Len(f) + i
  BY Zenon DEF Appended
<1>2. Place(stream) \in Nat /\ Rva(stream) \in Nat
  BY PlaceNat, RvaDef
<1>3. \A j \in 1 .. Len(f) : /\ g[j].at >= Rva(g[j].stream) /\ Place(g[j].stream) <= Place(stream)
                             /\ Place(g[j].stream) <= after /\ Place(g[j].stream) \in Nat
  <2> TAKE j \in 1 .. Len(f)
  <2>1. Place(g[j].stream) \in Nat
    <3>1. f[j].stream \in Streams /\ g[j] = f[j]
      BY Zenon, <1>1 DEF Extent
    <3> QED
      BY <3>1, PlaceNat
  <2>2. g[j].at >= Rva(g[j].stream) /\ Place(g[j].stream) <= before
    BY Zenon, <1>1 DEF InOrder
  <2> QED
    BY <1>2, <2>1, <2>2
<1>4. \A i \in 1 .. Len(sizes) : g[Len(f) + i].at >= Rva(stream) /\ g[Len(f) + i].stream = stream
  <2> TAKE i \in 1 .. Len(sizes)
  <2>1. g[Len(f) + i].stream = stream /\ g[Len(f) + i].at = at + PrefixSums(sizes)[i - 1]
    BY <1>1, PieceFields
  <2>2. PrefixSums(sizes)[i - 1] \in Nat
    BY PieceInside
  <2> QED
    BY <1>2, <2>1, <2>2
<1>5. \A j \in DOMAIN g : /\ g[j].at >= Rva(g[j].stream) /\ Place(g[j].stream) <= Place(stream)
                          /\ Place(g[j].stream) <= after
                          /\ j > Len(f) => g[j].stream = stream
  <2> TAKE j \in DOMAIN g
  <2>1. CASE j \in 1 .. Len(f)
    BY <1>1, <1>3, <2>1
  <2>2. ASSUME NEW i \in 1 .. Len(sizes), j = Len(f) + i
        PROVE  /\ g[j].at >= Rva(g[j].stream) /\ g[j].stream = stream
    BY <1>4, <2>2
  <2>3. Place(stream) <= Place(stream) /\ Place(stream) <= after
    BY <1>2
  <2>5. j \in 1 .. Len(f) => ~(j > Len(f))
    BY <1>1
  <2> QED
    BY Zenon, <1>1, <2>1, <2>2, <2>3, <2>5
<1>6. ASSUME NEW j \in DOMAIN g, NEW k \in DOMAIN g, j < k
      PROVE  Place(g[j].stream) <= Place(g[k].stream)
  <2>1. CASE k \in 1 .. Len(f)
    <3>1. j \in 1 .. Len(f) /\ j \in DOMAIN f /\ k \in DOMAIN f
      BY <1>1, <1>6, <2>1
    <3>2. Place(f[j].stream) <= Place(f[k].stream)
      BY <1>6, <3>1 DEF InOrder
    <3> QED
      BY <1>1, <2>1, <3>1, <3>2
  <2>2. CASE k > Len(f)
    BY <1>5, <2>2
  <2> QED
    BY <1>1, <2>1, <2>2
<1> QED
  BY <1>5, <1>6 DEF InOrder

-----------------------------------------------------------------------------
(***************************************************************************)
(* Walks of one list with different limits.                                *)
(***************************************************************************)

\* Where a walk is after so many steps.
Steps(list, limit) ==
  CHOOSE at : at = [k \in 1 .. limit |->
                      LET from == IF k = 1 THEN list.first ELSE at[k - 1]
                      IN  IF k = 1 \/ from \notin DOMAIN list.entries THEN from
                          ELSE list.entries[from].next]

Onwards(list, from) == IF from \notin DOMAIN list.entries THEN from ELSE list.entries[from].next

LEMMA OnwardsType == \A list \in LoaderList : list.first \in Int /\ \A from \in Int : Onwards(list, from) \in Int
<1> SUFFICES ASSUME NEW list \in LoaderList
             PROVE  list.first \in Int /\ \A from \in Int : Onwards(list, from) \in Int
  OBVIOUS
<1>1. list.first \in Int /\ list.entries \in Seq(Entry)
  BY DEF LoaderList, Entry
<1>2. \A i \in DOMAIN list.entries : list.entries[i] \in Entry
  BY <1>1
<1>3. \A e \in Entry : e.next \in Int
  BY DEF Entry
<1> QED
  BY <1>1, <1>2, <1>3 DEF Onwards

LEMMA StepsDef ==
  ASSUME NEW list \in LoaderList, NEW limit \in Nat
  PROVE  \A k \in 1 .. limit :
           Steps(list, limit)[k] = IF k = 1 THEN list.first ELSE Onwards(list, Steps(list, limit)[k - 1])
<1> DEFINE step == [p \in (1 .. limit) \X Int |-> Onwards(list, p[2])]
           rec(at) == at = [k \in 1 .. limit |->
                              LET from == IF k = 1 THEN list.first ELSE at[k - 1]
                              IN  IF k = 1 \/ from \notin DOMAIN list.entries THEN from
                                  ELSE list.entries[from].next]
<1>1. list.first \in Int /\ \A from \in Int : Onwards(list, from) \in Int
  BY OnwardsType
<1>2. step \in StepFunctions(limit, Int)
  BY <1>1 DEF StepFunctions
<1>3. \A i \in 1 .. limit, v \in Int : step[<<i, v>>] = Onwards(list, v)
  OBVIOUS
<1> HIDE DEF step
<1>4. PICK f \in [0 .. limit -> Int] : IsRecursive(f, limit, list.first, step)
  BY Zenon, <1>1, <1>2, Recursion
<1>5. \A i \in 0 .. limit : f[i] = IF i = 0 THEN list.first ELSE Onwards(list, f[i - 1])
  <2>1. \A i \in 0 .. limit : f[i] = IF i = 0 THEN list.first ELSE step[<<i, f[i - 1]>>]
    BY <1>4 DEF IsRecursive
  <2>2. \A i \in 0 .. limit : i # 0 => i \in 1 .. limit /\ f[i - 1] \in Int
    OBVIOUS
  <2> QED
    BY Zenon, <1>3, <2>1, <2>2
<1> DEFINE h == [k \in 1 .. limit |-> f[k - 1]]
<1>6. rec(h)
  <2>1. \A k \in 1 .. limit : k - 1 \in 0 .. limit /\ (k # 1 => k - 1 \in 1 .. limit)
    OBVIOUS
  <2>2. \A k \in 1 .. limit :
          h[k] = LET from == IF k = 1 THEN list.first ELSE h[k - 1]
                 IN  IF k = 1 \/ from \notin DOMAIN list.entries THEN from
                     ELSE list.entries[from].next
    <3> TAKE k \in 1 .. limit
    <3>1. CASE k = 1
      BY <1>5, <2>1, <3>1
    <3>2. CASE k # 1
      <4>1. h[k] = f[k - 1] /\ h[k - 1] = f[(k - 1) - 1] /\ k - 1 # 0
        BY <2>1, <3>2
      <4>2. f[k - 1] = Onwards(list, f[(k - 1) - 1])
        BY <1>5, <2>1, <4>1
      <4> HIDE DEF h
      <4> QED
        BY <3>2, <4>1, <4>2 DEF Onwards
    <3> QED
      BY <3>1, <3>2
  <2>3. h = [k \in 1 .. limit |-> h[k]]
    OBVIOUS
  <2> HIDE DEF h
  <2> QED
    BY Zenon, <2>2, <2>3
<1> DEFINE g == CHOOSE at : rec(at)
<1>7. Steps(list, limit) = g
  BY DEF Steps
<1>8. rec(g)
  <2> HIDE DEF rec
  <2> QED
    BY <1>6
<1> HIDE DEF g
<1>9. \A k \in 1 .. limit : g[k] = IF k = 1 THEN list.first ELSE Onwards(list, g[k - 1])
  BY <1>8 DEF Onwards
<1> QED
  BY <1>7, <1>9

LEMMA WalkSteps ==
  ASSUME NEW list \in LoaderList, NEW limit \in Nat
  PROVE  /\ Walk(list, limit) \in Seq(Entry) /\ Len(Walk(list, limit)) \in 0 .. limit
         /\ \A k \in 1 .. Len(Walk(list, limit)) :
              /\ Steps(list, limit)[k] \in DOMAIN list.entries
              /\ Walk(list, limit)[k] = list.entries[Steps(list, limit)[k]]
         /\ \A k \in 1 .. limit : (\A j \in 1 .. k : Steps(list, limit)[j] \in DOMAIN list.entries)
                                    => k <= Len(Walk(list, limit))
<1> DEFINE at == Steps(list, limit)
           seen == {k \in 1 .. limit : \A j \in 1 .. k : at[j] \in DOMAIN list.entries}
<1>1. Walk(list, limit) = [k \in 1 .. Cardinality(seen) |-> list.entries[at[k]]]
  BY DEF Walk, Steps
<1> HIDE DEF at
<1>2. PICK m \in 0 .. limit : seen = 1 .. m /\ \A k \in 1 .. m : at[k] \in DOMAIN list.entries
  BY Zenon, Leaders
<1>3. \A k \in 1 .. limit : (\A j \in 1 .. k : at[j] \in DOMAIN list.entries) => k \in 1 .. m
  BY <1>2
<1> HIDE DEF seen
<1>4. Cardinality(seen) = m
  <2>1. Cardinality(1 .. m) = IF 1 > m THEN 0 ELSE m - 1 + 1
    BY FS_Interval
  <2> QED
    BY <1>2, <2>1
<1>5. Len(Walk(list, limit)) = m /\ \A k \in 1 .. m : Walk(list, limit)[k] = list.entries[at[k]]
  BY <1>1, <1>4
<1>6. Walk(list, limit) \in Seq(Entry)
  BY WalkDef
<1> QED
  BY <1>2, <1>3, <1>5, <1>6 DEF at

\* A shorter walk is the beginning of a longer one.
LEMMA WalkAgree ==
  ASSUME NEW list \in LoaderList, NEW n \in Nat, NEW m \in Nat, m <= Len(Walk(list, n))
  PROVE  /\ Len(Walk(list, m)) = m
         /\ \A k \in 1 .. m : Walk(list, m)[k] = Walk(list, n)[k]
<1>1. /\ Len(Walk(list, n)) \in 0 .. n
      /\ \A k \in 1 .. Len(Walk(list, n)) : /\ Steps(list, n)[k] \in DOMAIN list.entries
                                            /\ Walk(list, n)[k] = list.entries[Steps(list, n)[k]]
  BY Zenon, WalkSteps
<1>2. /\ Len(Walk(list, m)) \in 0 .. m
      /\ \A k \in 1 .. Len(Walk(list, m)) : Walk(list, m)[k] = list.entries[Steps(list, m)[k]]
      /\ \A k \in 1 .. m : (\A j \in 1 .. k : Steps(list, m)[j] \in DOMAIN list.entries)
                              => k <= Len(Walk(list, m))
  BY Zenon, WalkSteps
<1>3. \A k \in 1 .. m : k \in 1 .. n /\ k \in 1 .. Len(Walk(list, n))
  BY <1>1
<1> DEFINE T == {k \in Nat : k + 1 <= m => Steps(list, m)[k + 1] = Steps(list, n)[k + 1]}
<1>4. 0 \in T
  <2>1. 1 <= m => 1 \in 1 .. m /\ 1 \in 1 .. n
    BY <1>3
  <2>2. 1 <= m => Steps(list, m)[1] = list.first /\ Steps(list, n)[1] = list.first
    BY <2>1, StepsDef
  <2> QED
    BY <2>2
<1>5. ASSUME NEW k \in Nat, k \in T PROVE k + 1 \in T
  <2> SUFFICES ASSUME (k + 1) + 1 <= m PROVE Steps(list, m)[(k + 1) + 1] = Steps(list, n)[(k + 1) + 1]
    OBVIOUS
  <2>1. /\ (k + 1) + 1 \in 1 .. m /\ (k + 1) + 1 # 1 /\ ((k + 1) + 1) - 1 = k + 1 /\ k + 1 <= m
        /\ (k + 1) + 1 \in 1 .. n
    BY <1>3
  <2>2. Steps(list, m)[k + 1] = Steps(list, n)[k + 1]
    BY <1>5, <2>1
  <2> DEFINE q == (k + 1) + 1
  <2>3. Steps(list, m)[q] = Onwards(list, Steps(list, m)[q - 1])
    BY <2>1, StepsDef
  <2>4. Steps(list, n)[q] = Onwards(list, Steps(list, n)[q - 1])
    BY <2>1, StepsDef
  <2> QED
    BY <2>1, <2>2, <2>3, <2>4
<1>6. \A k \in Nat : k \in T
  <2> HIDE DEF T
  <2> QED
    BY <1>4, <1>5, NatInduct
<1>7. \A k \in 1 .. m : Steps(list, m)[k] = Steps(list, n)[k]
  <2> TAKE k \in 1 .. m
  <2>1. k - 1 \in T /\ (k - 1) + 1 = k /\ k <= m
    <3>1. k - 1 \in Nat
      OBVIOUS
    <3> HIDE DEF T
    <3> QED
      BY <1>6, <3>1
  <2> QED
    BY <2>1
<1> HIDE DEF T
<1>8. \A k \in 1 .. m : Steps(list, m)[k] \in DOMAIN list.entries
  BY Zenon, <1>1, <1>3, <1>7
<1>9. Len(Walk(list, m)) = m
  <2>1. CASE m = 0
    BY <1>2, <2>1
  <2>2. CASE m # 0
    <3>1. m \in 1 .. m
      BY <2>2
    <3>2. m <= Len(Walk(list, m))
      BY Zenon, <1>2, <1>8, <3>1
    <3> QED
      BY <1>2, <3>2
  <2> QED
    BY <2>1, <2>2
<1>10. \A k \in 1 .. m : Walk(list, m)[k] = Walk(list, n)[k]
  BY Zenon, <1>1, <1>2, <1>3, <1>7, <1>9
<1> QED
  BY <1>9, <1>10

\* The walk up to the count passes just what was counted.
LEMMA CountedWalk ==
  ASSUME NEW list \in LoaderList
  PROVE  LET count == CountModules(list).count
             walked == Walk(list, count)
         IN  /\ walked \in Seq(Entry) /\ Len(walked) = count /\ count \in Nat
             /\ Total(NameSizes(walked)) = CountModules(list).names
             /\ Total(RecordSizes(walked)) = CountModules(list).records
             /\ list.first = Lost => count = 0
<1> DEFINE walked == Walk(list, kMaxModules)
           I == {i \in 1 .. Len(walked) : ~walked[i].header}
           lost == IF I # {} THEN Min(I) ELSE 0
           seen == IF lost = 0 THEN walked ELSE First(walked, lost - 1)
<1>1. CountModules(list) = [count |-> Len(seen), names |-> SumOf(NameStorage, seen),
                            records |-> SumOf(RecordStorage, seen)]
  BY DEF CountModules, SelectInSeq
<1>2. kMaxModules \in Nat
  BY WalkAssumption
<1>3. walked \in Seq(Entry) /\ Len(walked) \in 0 .. kMaxModules
  BY <1>2, WalkSteps
<1>5. list.first = Lost => Len(walked) = 0
  <2> SUFFICES ASSUME list.first = Lost, Len(walked) # 0 PROVE FALSE
    OBVIOUS
  <2>1. 1 \in 1 .. Len(walked) /\ 1 \in 1 .. kMaxModules
    BY <1>2, <1>3
  <2>2. Steps(list, kMaxModules)[1] \in DOMAIN list.entries
    BY <1>2, <2>1, WalkSteps
  <2>3. Steps(list, kMaxModules)[1] = Lost
    BY <1>2, <2>1, StepsDef
  <2>4. DOMAIN list.entries = 1 .. Len(list.entries)
    BY DEF LoaderList
  <2> QED
    BY <2>2, <2>3, <2>4 DEF Lost
<1> HIDE DEF walked
<1>4. lost \in 0 .. Len(walked)
  <2>1. I \subseteq Nat /\ I \subseteq 1 .. Len(walked) /\ 0 \in 0 .. Len(walked)
        /\ 1 .. Len(walked) \subseteq 0 .. Len(walked)
    BY <1>3
  <2> HIDE DEF I
  <2>2. I # {} => Min(I) \in 1 .. Len(walked)
    BY Zenon, <2>1, MinDef
  <2> QED
    BY Zenon, <2>1, <2>2
<1> HIDE DEF lost
<1>6. /\ seen \in Seq(Entry) /\ Len(seen) \in Nat /\ Len(seen) <= Len(walked)
      /\ \A k \in 1 .. Len(seen) : seen[k] = walked[k]
  <2>1. CASE lost = 0
    BY <1>3, <2>1
  <2>2. CASE lost # 0
    <3>1. lost - 1 \in Nat /\ lost - 1 <= Len(walked)
      BY <1>3, <1>4, <2>2
    <3> DEFINE f == First(walked, lost - 1)
    <3>2. f \in Seq(Entry) /\ Len(f) = Smaller(lost - 1, Len(walked)) /\ \A i \in 1 .. Len(f) : f[i] = walked[i]
      BY <1>3, <3>1, FirstDef
    <3> HIDE DEF f
    <3>3. Len(f) = lost - 1
      BY <1>3, <3>1, <3>2 DEF Smaller
    <3>4. seen = f
      BY <2>2 DEF f
    <3> HIDE DEF seen
    <3> QED
      BY <3>1, <3>2, <3>3, <3>4
  <2> QED
    BY <2>1, <2>2
<1> HIDE DEF seen
<1> DEFINE count == Len(seen)
           again == Walk(list, count)
<1>7. Len(again) = count /\ (\A k \in 1 .. count : again[k] = walked[k]) /\ again \in Seq(Entry)
  <2>1. count \in Nat /\ count <= Len(Walk(list, kMaxModules))
    BY <1>6 DEF walked
  <2> HIDE DEF count
  <2>2. Len(again) = count /\ (\A k \in 1 .. count : again[k] = Walk(list, kMaxModules)[k])
    BY Zenon, <1>2, <2>1, WalkAgree
  <2>3. again \in Seq(Entry)
    BY <2>1, WalkDef
  <2> QED
    BY <2>2, <2>3 DEF walked
<1>8. again = seen
  <2>1. again = [k \in 1 .. Len(again) |-> again[k]] /\ seen = [k \in 1 .. Len(seen) |-> seen[k]]
    BY <1>6, <1>7
  <2> HIDE DEF again
  <2> QED
    BY <1>6, <1>7, <2>1
<1>9. Total(NameSizes(again)) = SumOf(NameStorage, seen) /\ Total(RecordSizes(again)) = SumOf(RecordStorage, seen)
  BY Zenon, <1>6, <1>8, NameSizesDef, RecordSizesDef
<1>10. CountModules(list).count = count
  BY <1>1
<1>11. list.first = Lost => count = 0
  BY <1>3, <1>5, <1>6
<1> QED
  BY <1>1, <1>6, <1>7, <1>9, <1>10, <1>11

-----------------------------------------------------------------------------
(***************************************************************************)
(* What has been written of each stream by each step.                      *)
(***************************************************************************)

Now == At(stage)

\* The last stream of which anything is written.
Reached ==
  CASE Now <= At("CommentW")       -> 0
    [] Now = At("CodeViewBase")    -> 1
    [] Now \in At("ModuleDescriptors") .. At("UnloadedEntries") -> 2
    [] Now \in At("UnloadedNames") .. At("ThreadList") -> 3
    [] Now = At("ThreadNames")     -> 4
    [] Now = At("MemoryInfo")      -> 5
    [] Now = At("Rest")            -> 6
    [] OTHER                       -> 7

SpaceFilled(stream) == CoveredIn(file, stream, Rva(stream), Rva(stream) + Storage(stream))

\* The streams whose space is known to be filled, and no stream before its place.
Filled ==
  /\ InOrder(file, Reached)
  /\ EndsIn(file, "CommentW", Rva("ModuleList"))
  /\ \A stream \in {"ThreadList", "ThreadNames", "MemoryInfo", "Rest"} :
       Past(stream) => SpaceFilled(stream)

TablesType == tables = [modules |-> tables.modules, unloaded |-> tables.unloaded, names |-> tables.names]

\* The walks of a module list that does not change.
Names0 == StringRva(Rva("ModuleList"), ModuleCount)
CountedNames == NameSizes(Walk(lists.modules, ModuleCount))
CountedRecords == RecordSizes(Walk(lists.modules, ModuleCount))
Records0 == Names0 + Total(CountedNames)

ModulesWritten ==
  "modules" \notin disturbed =>
    /\ Past("count") => measured.modules = CountModules(lists.modules)
    /\ Now \in At("ModuleDescriptors") .. At("ModuleRecords") =>
         lists.modules.first # Lost /\ cursor.base = Records0
    /\ Now = At("ModuleRecords") => cursor.position = Records0
    /\ tables.modules = IF Past("ModuleDescriptors")
                        THEN ModuleDescriptors(lists.modules, Rva("ModuleList"), ModuleCount, Records0)
                        ELSE <<>>
    /\ PiecesIn(file, "ModuleList", "name") =
         IF Past("ModuleNames") THEN Places(Names0, CountedNames) ELSE {}
    /\ PiecesIn(file, "ModuleList", "record") =
         IF Past("ModuleRecords") THEN Places(Records0, CountedRecords) ELSE {}
    /\ TakenIn(file, "ModuleList") =
         CASE ~Past("CodeViewBase")      -> 0
           [] Now = At("ModuleDescriptors") -> ULONG32Size
           [] Now = At("ModuleNames")       -> Names0 - Rva("ModuleList")
           [] Now = At("ModuleRecords")     -> Records0 - Rva("ModuleList")
           [] OTHER                         -> Storage("ModuleList")
    /\ EndsIn(file, "ModuleList", Rva("UnloadedModules"))

\* A ring that does not change.
RingNames0 == UnloadedStringRva(Rva("UnloadedModules"), UnloadedCount)
RingSizes == UnloadedSizes(UnloadedModules(lists.ring))

RingWritten ==
  "ring" \notin disturbed =>
    /\ Past("count") => measured.unloaded = CountUnloadedModules(lists.ring)
    /\ tables.unloaded = IF Past("UnloadedEntries")
                         THEN [i \in DOMAIN RingSizes |-> RingNames0 + PrefixSums(RingSizes)[i - 1]]
                         ELSE <<>>
    /\ PiecesIn(file, "UnloadedModules", "name") =
         IF Past("UnloadedNames") THEN Places(RingNames0, RingSizes) ELSE {}
    /\ TakenIn(file, "UnloadedModules") =
         CASE ~Past("UnloadedEntries")    -> 0
           [] Now = At("UnloadedNames")   -> RingNames0 - Rva("UnloadedModules")
           [] OTHER                       -> Storage("UnloadedModules")
    /\ Now = At("UnloadedNames") =>
         /\ UnloadedCount # 0
         /\ CoveredIn(file, "UnloadedModules", Rva("UnloadedModules"), RingNames0)
    /\ Past("UnloadedNames") => SpaceFilled("UnloadedModules")

\* The names of the threads of the plan.
PlanNames == ThreadNames(measured.names)
PlanNames0 == Rva("ThreadNames") + NamesHeader + Len(PlanNames) * NameSize

ThreadNamesWritten ==
  /\ tables.names = IF Past("ThreadNames")
                    THEN [i \in DOMAIN ThreadNameSizes(PlanNames) |->
                            PlanNames0 + PrefixSums(ThreadNameSizes(PlanNames))[i - 1]]
                    ELSE <<>>
  /\ PiecesIn(file, "ThreadNames", "name") =
       IF Past("ThreadNames") THEN Places(PlanNames0, ThreadNameSizes(PlanNames)) ELSE {}
  /\ TakenIn(file, "ThreadNames") = IF Past("ThreadNames") THEN Storage("ThreadNames") ELSE 0

\* The records are not written before the list.
RecordsInList == Now = At("ModuleRecords") => cursor.position >= Rva("ModuleList")

PlaceInv == TablesType /\ Filled /\ ModulesWritten /\ RingWritten /\ ThreadNamesWritten /\ RecordsInList

\* Where the dump stands, in numbers.
LEMMA NowDef ==
  /\ \A step : Past(step) <=> Now > At(step)
  /\ \A step : Past(step)' <=> Now' > At(step)
  /\ Now' = At(stage')
  BY Zenon, PastDef DEF Now, At, SelectInSeq

LEMMA NowType ==
  /\ stage \in StageNames => Now \in 1 .. 16
  /\ stage' \in StageNames => Now' \in 1 .. 16
<1>1. \A s \in StageNames : At(s) \in 1 .. 16
  BY StagesDef DEF StageNames
<1> QED
  BY <1>1, NowDef DEF Now

\* What a step that writes of one stream leaves of the others.
OthersKept(stream) ==
  /\ \A x, p : x # stream => PiecesIn(file', x, p) = PiecesIn(file, x, p)
  /\ \A x : x # stream => TakenIn(file', x) = TakenIn(file, x)
  /\ \A x : \A limit \in Nat : x # stream /\ EndsIn(file, x, limit) => EndsIn(file', x, limit)
  /\ \A x, from, to : CoveredIn(file, x, from, to) => CoveredIn(file', x, from, to)

LEMMA WriteAppends ==
  ASSUME DumpTypes, NEW stream \in Streams, NEW part \in Parts, NEW at \in Nat,
         NEW sizes \in Seq(Nat), Write(stream, part, at, sizes)
  PROVE  Appended(file, stream, part, at, sizes, file')
  BY Zenon, AppendDef DEF Write, DumpTypes

LEMMA WrittenOthers ==
  ASSUME DumpTypes, NEW stream, NEW part, NEW at \in Nat, NEW sizes \in Seq(Nat),
         Appended(file, stream, part, at, sizes, file')
  PROVE  OthersKept(stream)
<1>1. file \in Seq(Extent)
  BY DEF DumpTypes
<1> HIDE DEF Extent
<1>2. \A x, p : x # stream => PiecesIn(file', x, p) = PiecesIn(file, x, p)
  <2>1. Adds(file, stream, part, at, sizes, file')
    BY <1>1, AppendAdds
  <2>2. ASSUME NEW x, NEW p, x # stream
        PROVE  PiecesIn(file', x, p) = PiecesIn(file, x, p)
    BY <2>1, <2>2, OtherPieces
  <2> QED
    BY <2>2
<1>3. \A x : x # stream => TakenIn(file', x) = TakenIn(file, x)
  BY <1>1, TakenAppend
<1>4. \A x : \A limit \in Nat : x # stream /\ EndsIn(file, x, limit) => EndsIn(file', x, limit)
  BY Zenon, <1>1, EndsAppend
<1>5. \A x, from, to : CoveredIn(file, x, from, to) => CoveredIn(file', x, from, to)
  BY Zenon, <1>1, CoverAppend
<1> QED
  BY Zenon, <1>2, <1>3, <1>4, <1>5 DEF OthersKept

LEMMA UnwrittenOthers ==
  ASSUME file' = file, NEW stream
  PROVE  OthersKept(stream)
  BY Zenon DEF OthersKept

\* What is held of a file is that of the file there will be.
LEMMA SameFile ==
  /\ \A x, p : PiecesIn(file, x, p)' = PiecesIn(file', x, p)
  /\ \A x : TakenIn(file, x)' = TakenIn(file', x)
  /\ \A x, limit : EndsIn(file, x, limit)' <=> EndsIn(file', x, limit)
  /\ \A x, from, to : CoveredIn(file, x, from, to)' <=> CoveredIn(file', x, from, to)
  BY DEF PiecesIn, TakenIn, SizesIn, EndsIn, CoveredIn

\* The measures of the lists are those of before.
LEMMA SameMeasures ==
  ASSUME measured' = measured, lists' = lists
  PROVE  /\ Names0' = Names0 /\ CountedNames' = CountedNames /\ CountedRecords' = CountedRecords
         /\ Records0' = Records0
         /\ RingNames0' = RingNames0 /\ RingSizes' = RingSizes
         /\ PlanNames' = PlanNames /\ PlanNames0' = PlanNames0
<1>1. /\ Rva("ModuleList")' = Rva("ModuleList") /\ ModuleCount' = ModuleCount
      /\ Rva("UnloadedModules")' = Rva("UnloadedModules") /\ UnloadedCount' = UnloadedCount
      /\ Rva("ThreadNames")' = Rva("ThreadNames")
  BY Same
<1>2. Names0' = Names0
  BY <1>1 DEF Names0, StringRva
<1>3. CountedNames' = CountedNames
  BY <1>1 DEF CountedNames, NameSizes
<1>4. CountedRecords' = CountedRecords
  BY <1>1 DEF CountedRecords, RecordSizes
<1>5. Records0' = Records0
  BY <1>2, <1>3 DEF Records0
<1>6. RingNames0' = RingNames0
  BY <1>1 DEF RingNames0, UnloadedStringRva
<1>7. RingSizes' = RingSizes
  BY DEF RingSizes, UnloadedSizes
<1>8. PlanNames' = PlanNames
  BY DEF PlanNames
<1>9. PlanNames0' = PlanNames0
  BY <1>1, <1>8 DEF PlanNames0
<1> QED
  BY <1>2, <1>3, <1>4, <1>5, <1>6, <1>7, <1>8, <1>9

LEMMA ModulesKept ==
  ASSUME ModulesWritten, NEW stream, stream # "ModuleList", OthersKept(stream), DumpTypes, DumpTypes',
         lists' = lists, disturbed' = disturbed, measured' = measured, cursor' = cursor,
         tables'.modules = tables.modules,
         (Now = 4 /\ Now' = 5) \/ (Now >= 9 /\ Now' >= 9) \/ Now' = Now
  PROVE  ModulesWritten'
<1>1. /\ Rva("ModuleList")' = Rva("ModuleList") /\ ModuleCount' = ModuleCount
      /\ Rva("UnloadedModules")' = Rva("UnloadedModules") /\ Storage("ModuleList")' = Storage("ModuleList")
      /\ Names0' = Names0 /\ CountedNames' = CountedNames /\ CountedRecords' = CountedRecords
      /\ Records0' = Records0
  BY Same, SameMeasures
<1>2. /\ \A p : PiecesIn(file, "ModuleList", p)' = PiecesIn(file, "ModuleList", p)
      /\ TakenIn(file, "ModuleList")' = TakenIn(file, "ModuleList")
      /\ EndsIn(file, "ModuleList", Rva("UnloadedModules")) =>
           EndsIn(file, "ModuleList", Rva("UnloadedModules"))'
  <2>1. Rva("UnloadedModules") \in Nat
    BY Written DEF Streams
  <2>2. EndsIn(file, "ModuleList", Rva("UnloadedModules"))' <=> EndsIn(file', "ModuleList", Rva("UnloadedModules"))
    BY <1>1 DEF EndsIn
  <2>3. /\ \A p : PiecesIn(file, "ModuleList", p)' = PiecesIn(file, "ModuleList", p)
        /\ TakenIn(file, "ModuleList")' = TakenIn(file, "ModuleList")
    BY Zenon, SameFile DEF OthersKept
  <2>4. EndsIn(file, "ModuleList", Rva("UnloadedModules"))
          => EndsIn(file', "ModuleList", Rva("UnloadedModules"))
    BY Zenon, <2>1 DEF OthersKept
  <2> QED
    BY <2>2, <2>3, <2>4
<1>3a. Now \in Int /\ Now' \in Int
  BY NowType DEF DumpTypes
<1>3. /\ Past("count")' <=> Past("count")
      /\ Past("CodeViewBase")' <=> Past("CodeViewBase")
      /\ Past("ModuleDescriptors")' <=> Past("ModuleDescriptors")
      /\ Past("ModuleNames")' <=> Past("ModuleNames")
      /\ Past("ModuleRecords")' <=> Past("ModuleRecords")
      /\ \A n \in {6, 7, 8} : Now' = n <=> Now = n
  BY <1>3a, NowDef, StagesDef
<1>4. At("ModuleDescriptors") = 6 /\ At("ModuleNames") = 7 /\ At("ModuleRecords") = 8
  BY StagesDef
<1>5. /\ (Now' \in At("ModuleDescriptors") .. At("ModuleRecords")) <=> (Now \in At("ModuleDescriptors") .. At("ModuleRecords"))
  <2>1. \A n : n \in 6 .. 8 <=> n \in {6, 7, 8}
    OBVIOUS
  <2> QED
    BY <1>3, <1>4, <2>1
<1> QED
  BY <1>1, <1>2, <1>3, <1>4, <1>5 DEF ModulesWritten

LEMMA RingKept ==
  ASSUME RingWritten, NEW stream, stream # "UnloadedModules", OthersKept(stream), DumpTypes, DumpTypes',
         lists' = lists, disturbed' = disturbed, measured' = measured,
         tables'.unloaded = tables.unloaded,
         (Now \in 4 .. 8 /\ Now' \in 4 .. 9) \/ (Now >= 11 /\ Now' >= 11) \/ Now' = Now
  PROVE  RingWritten'
<1>1. /\ Rva("UnloadedModules")' = Rva("UnloadedModules") /\ UnloadedCount' = UnloadedCount
      /\ Storage("UnloadedModules")' = Storage("UnloadedModules")
      /\ RingNames0' = RingNames0 /\ RingSizes' = RingSizes
  BY Same, SameMeasures
<1>2. /\ PiecesIn(file, "UnloadedModules", "name")' = PiecesIn(file, "UnloadedModules", "name")
      /\ TakenIn(file, "UnloadedModules")' = TakenIn(file, "UnloadedModules")
      /\ CoveredIn(file, "UnloadedModules", Rva("UnloadedModules"), RingNames0) =>
           CoveredIn(file, "UnloadedModules", Rva("UnloadedModules"), RingNames0)'
      /\ SpaceFilled("UnloadedModules") => SpaceFilled("UnloadedModules")'
  <2>1. \A from, to : CoveredIn(file, "UnloadedModules", from, to) => CoveredIn(file', "UnloadedModules", from, to)
    BY DEF OthersKept
  <2>2. CoveredIn(file, "UnloadedModules", Rva("UnloadedModules"), RingNames0)'
          <=> CoveredIn(file', "UnloadedModules", Rva("UnloadedModules"), RingNames0)
    BY <1>1 DEF CoveredIn
  <2>3. SpaceFilled("UnloadedModules")'
          <=> CoveredIn(file', "UnloadedModules", Rva("UnloadedModules"),
                        Rva("UnloadedModules") + Storage("UnloadedModules"))
    BY <1>1 DEF SpaceFilled, CoveredIn
  <2>4. /\ PiecesIn(file, "UnloadedModules", "name")' = PiecesIn(file, "UnloadedModules", "name")
        /\ TakenIn(file, "UnloadedModules")' = TakenIn(file, "UnloadedModules")
    BY Zenon, SameFile DEF OthersKept
  <2>5. CoveredIn(file, "UnloadedModules", Rva("UnloadedModules"), RingNames0) =>
          CoveredIn(file, "UnloadedModules", Rva("UnloadedModules"), RingNames0)'
    BY Zenon, <2>1, <2>2
  <2>6. SpaceFilled("UnloadedModules") => SpaceFilled("UnloadedModules")'
    BY Zenon, <2>1, <2>3 DEF SpaceFilled
  <2> QED
    BY Zenon, <2>4, <2>5, <2>6
<1>3. Now \in Int /\ Now' \in Int
  BY NowType DEF DumpTypes
<1>4. /\ Past("count")' <=> Past("count")
      /\ Past("UnloadedEntries")' <=> Past("UnloadedEntries")
      /\ Past("UnloadedNames")' <=> Past("UnloadedNames")
      /\ Now' = 10 <=> Now = 10
  BY <1>3, NowDef, StagesDef
<1>5. At("UnloadedNames") = 10
  BY StagesDef
<1> QED
  BY <1>1, <1>2, <1>4, <1>5 DEF RingWritten

LEMMA ThreadNamesKept ==
  ASSUME ThreadNamesWritten, NEW stream, stream # "ThreadNames", OthersKept(stream), DumpTypes, DumpTypes',
         measured' = measured, tables'.names = tables.names, Now > 12 <=> Now' > 12
  PROVE  ThreadNamesWritten'
<1>1. /\ PlanNames' = PlanNames /\ PlanNames0' = PlanNames0 /\ Storage("ThreadNames")' = Storage("ThreadNames")
      /\ ThreadNameSizes(PlanNames)' = ThreadNameSizes(PlanNames)
  BY Same DEF PlanNames, PlanNames0, ThreadNameSizes
<1>2. /\ PiecesIn(file, "ThreadNames", "name")' = PiecesIn(file, "ThreadNames", "name")
      /\ TakenIn(file, "ThreadNames")' = TakenIn(file, "ThreadNames")
  BY SameFile DEF OthersKept
<1>3. Past("ThreadNames")' <=> Past("ThreadNames")
  BY NowDef, StagesDef
<1> QED
  BY <1>1, <1>2, <1>3 DEF ThreadNamesWritten

WholeStreams == {"ThreadList", "ThreadNames", "MemoryInfo", "Rest"}

LEMMA FilledKept ==
  ASSUME Filled, NEW stream, OthersKept(stream), DumpTypes, DumpTypes', measured' = measured,
         InOrder(file', Reached'),
         EndsIn(file', "CommentW", Rva("ModuleList")) \/ stream # "CommentW",
         \A x \in WholeStreams : Past(x)' => Past(x) \/ CoveredIn(file', x, Rva(x), Rva(x) + Storage(x))
  PROVE  Filled'
<1>1. /\ \A x : Rva(x)' = Rva(x) /\ Storage(x)' = Storage(x)
  BY Same
<1>2. InOrder(file, Reached)'
  BY <1>1 DEF InOrder
<1>3. EndsIn(file, "CommentW", Rva("ModuleList"))'
  <2>1. EndsIn(file', "CommentW", Rva("ModuleList"))
    <3>1. Rva("ModuleList") \in Nat
      BY Written DEF Streams
    <3> QED
      BY <3>1 DEF Filled, OthersKept
  <2> QED
    BY <1>1, <2>1 DEF EndsIn
<1>4. ASSUME NEW x \in WholeStreams, Past(x)'
      PROVE  SpaceFilled(x)'
  <2>1. CoveredIn(file', x, Rva(x), Rva(x) + Storage(x))
    BY <1>4 DEF Filled, OthersKept, SpaceFilled, WholeStreams
  <2> QED
    BY <1>1, <2>1 DEF SpaceFilled, CoveredIn
<1> QED
  BY Zenon, <1>2, <1>3, <1>4 DEF Filled, WholeStreams

\* How far a dump has come by each step.
Standing ==
  /\ Now \in 1 .. 16
  /\ Now <= 4 => Reached = 0
  /\ Now = 5 => Reached = 1
  /\ Now \in 6 .. 9 => Reached = 2
  /\ Now \in 10 .. 11 => Reached = 3
  /\ Now = 12 => Reached = 4
  /\ Now = 13 => Reached = 5
  /\ Now = 14 => Reached = 6
  /\ Now > 14 => Reached = 7
  /\ Reached \in Nat

LEMMA ReachedDef == DumpTypes => Standing
<1> SUFFICES ASSUME DumpTypes PROVE Standing
  OBVIOUS
<1>1. Now \in 1 .. 16
  BY NowType DEF DumpTypes
<1> DEFINE n == Now
<1>2. Reached =
        CASE n <= 4 -> 0
          [] n = 5 -> 1
          [] n \in 6 .. 9 -> 2
          [] n \in 10 .. 11 -> 3
          [] n = 12 -> 4
          [] n = 13 -> 5
          [] n = 14 -> 6
          [] OTHER -> 7
  BY StagesDef DEF Reached
<1> HIDE DEF n
<1>3. n \in 1 .. 16
  BY <1>1 DEF n
<1>4. /\ n <= 4 => Reached = 0
      /\ n = 5 => Reached = 1
      /\ n \in 6 .. 9 => Reached = 2
      /\ n \in 10 .. 11 => Reached = 3
      /\ n = 12 => Reached = 4
      /\ n = 13 => Reached = 5
      /\ n = 14 => Reached = 6
      /\ n > 14 => Reached = 7
      /\ Reached \in Nat
  BY <1>2, <1>3
<1> QED
  BY <1>1, <1>4 DEF n, Standing

LEMMA ReachedNext == DumpTypes' => Standing'
  BY ReachedDef, PTL

LEMMA WrittenOrder ==
  ASSUME DumpTypes, DumpTypes', Filled, NEW stream \in Streams, NEW part, NEW at \in Nat, NEW sizes \in Seq(Nat),
         Appended(file, stream, part, at, sizes, file'), Rva(stream) <= at,
         Reached <= Place(stream), Place(stream) <= Reached'
  PROVE  InOrder(file', Reached')
<1>1. measured \in Measured /\ file \in Seq(Extent) /\ InOrder(file, Reached)
  BY DEF DumpTypes, Filled
<1>2. Reached \in Nat /\ Reached' \in Nat
  BY ReachedDef, ReachedNext DEF Standing
<1> HIDE DEF Extent, Measured
<1> QED
  BY <1>1, <1>2, OrderAppend

LEMMA UnwrittenOrder ==
  ASSUME DumpTypes, DumpTypes', Filled, file' = file, Reached <= Reached'
  PROVE  InOrder(file', Reached')
<1>1. file \in Seq(Extent) /\ InOrder(file, Reached)
  BY DEF DumpTypes, Filled
<1>2. Reached \in Nat /\ Reached' \in Nat
  BY ReachedDef, ReachedNext DEF Standing
<1>3. \A j \in DOMAIN file : Place(file[j].stream) \in Nat
  <2>1. \A j \in DOMAIN file : file[j].stream \in Streams
    <3>1. \A e \in Extent : e.stream \in Streams
      BY DEF Extent
    <3> HIDE DEF Extent
    <3> QED
      BY <1>1, <3>1
  <2> QED
    BY <2>1, PlaceNat
<1> QED
  BY <1>1, <1>2, <1>3 DEF InOrder

\* Each stream begins where the one before it ends.
LEMMA RvaNext ==
  ASSUME measured \in Measured
  PROVE  /\ Rva("ModuleList") = Rva("CommentW") + Storage("CommentW")
         /\ Rva("UnloadedModules") = Rva("ModuleList") + Storage("ModuleList")
         /\ Rva("ThreadList") = Rva("UnloadedModules") + Storage("UnloadedModules")
         /\ Rva("ThreadNames") = Rva("ThreadList") + Storage("ThreadList")
         /\ Rva("MemoryInfo") = Rva("ThreadNames") + Storage("ThreadNames")
         /\ Rva("Rest") = Rva("MemoryInfo") + Storage("MemoryInfo")
<1>1. \A i \in 1 .. 6 : Rva(Physical[i + 1]) = Rva(Physical[i]) + Storage(Physical[i])
  BY Zenon, RvaDef
<1>2. /\ Physical[1] = "CommentW" /\ Physical[2] = "ModuleList" /\ Physical[3] = "UnloadedModules"
      /\ Physical[4] = "ThreadList" /\ Physical[5] = "ThreadNames" /\ Physical[6] = "MemoryInfo"
      /\ Physical[7] = "Rest"
  BY DEF Physical
<1>3. /\ Rva(Physical[1 + 1]) = Rva(Physical[1]) + Storage(Physical[1])
      /\ Rva(Physical[2 + 1]) = Rva(Physical[2]) + Storage(Physical[2])
      /\ Rva(Physical[3 + 1]) = Rva(Physical[3]) + Storage(Physical[3])
      /\ Rva(Physical[4 + 1]) = Rva(Physical[4]) + Storage(Physical[4])
      /\ Rva(Physical[5 + 1]) = Rva(Physical[5]) + Storage(Physical[5])
      /\ Rva(Physical[6 + 1]) = Rva(Physical[6]) + Storage(Physical[6])
  BY <1>1
<1>4. 1 + 1 = 2 /\ 2 + 1 = 3 /\ 3 + 1 = 4 /\ 4 + 1 = 5 /\ 5 + 1 = 6 /\ 6 + 1 = 7
  OBVIOUS
<1> QED
  BY Zenon, <1>2, <1>3, <1>4

\* A stream that is written in one go, behind the lists.
LEMMA LatePlaced ==
  ASSUME DumpTypes, DumpTypes', PlaceInv, NEW stream \in {"ThreadList", "MemoryInfo", "Rest"},
         NEW part \in Parts, NEW sizes \in Seq(Nat), Total(sizes) = Storage(stream),
         Write(stream, part, Rva(stream), sizes), Now = At(stream), Now' = Now + 1,
         UNCHANGED <<lists, disturbed, measured, tables, cursor>>
  PROVE  PlaceInv'
<1>1. stream \in Streams /\ Rva(stream) \in Nat
  BY Zenon, Written DEF Streams
<1>2. Appended(file, stream, part, Rva(stream), sizes, file')
  BY <1>1, WriteAppends
<1>3. OthersKept(stream)
  BY <1>1, <1>2, WrittenOthers
<1>4. Now \in {11, 13, 14} /\ Now' \in {12, 14, 15}
  BY StagesDef
<1>5. InOrder(file', Reached')
  <2>1. Reached <= Place(stream) /\ Place(stream) <= Reached' /\ Rva(stream) <= Rva(stream)
    BY <1>1, StagesDef, PlaceDef, ReachedDef, ReachedNext DEF Standing
  <2> QED
    BY <1>1, <1>2, <2>1, WrittenOrder DEF PlaceInv
<1>6. CoveredIn(file', stream, Rva(stream), Rva(stream) + Storage(stream))
  <2>1. file \in Seq(Extent)
    BY DEF DumpTypes
  <2> HIDE DEF Extent
  <2> QED
    BY <1>1, <1>2, <2>1, CoverAppend
<1>7. \A x \in WholeStreams : Past(x)' => Past(x) \/ x = stream
  BY <1>4, StagesDef, NowDef DEF WholeStreams
<1>8. Filled'
  BY <1>3, <1>5, <1>6, <1>7, FilledKept DEF PlaceInv
<1>9. ModulesWritten'
  BY <1>3, <1>4, ModulesKept DEF PlaceInv
<1>10. RingWritten'
  BY <1>3, <1>4, RingKept DEF PlaceInv
<1>11. ThreadNamesWritten'
  <2>1. Now > 12 <=> Now' > 12
    BY <1>4
  <2>2. stream # "ThreadNames" /\ ThreadNamesWritten /\ tables'.names = tables.names
    BY DEF PlaceInv
  <2> QED
    BY <1>3, <2>1, <2>2, ThreadNamesKept
<1>12. TablesType' /\ RecordsInList'
  BY <1>4, StagesDef DEF PlaceInv, TablesType, RecordsInList
<1> QED
  BY <1>8, <1>9, <1>10, <1>11, <1>12 DEF PlaceInv

LEMMA StepNow ==
  ASSUME NEW from, NEW to, Step(from, to)
  PROVE  Now = At(from) /\ Now' = At(to)
  BY NowDef DEF Step, Now

LEMMA WholePlaced ==
  ASSUME DumpTypes, DumpTypes', PlaceInv, WriteThreadList \/ WriteRest
  PROVE  PlaceInv'
<1>1. ASSUME NEW stream \in {"ThreadList", "Rest"}, NEW to, WriteWhole(stream, stream, to),
             At(to) = At(stream) + 1
      PROVE  PlaceInv'
  <2>1. /\ Write(stream, "whole", Rva(stream), <<Storage(stream)>>)
        /\ Now = At(stream) /\ Now' = Now + 1
        /\ UNCHANGED <<lists, disturbed, measured, tables, cursor>>
    BY <1>1, StepNow DEF WriteWhole, listVars
  <2>2. Storage(stream) \in Nat /\ "whole" \in Parts
    BY Zenon, Written DEF Streams, Parts
  <2>3. <<Storage(stream)>> \in Seq(Nat) /\ Total(<<Storage(stream)>>) = Storage(stream)
    BY <2>2, TotalOne
  <2> QED
    BY Zenon, <2>1, <2>2, <2>3, LatePlaced
<1>2. CASE WriteThreadList
  BY <1>1, <1>2, StagesDef DEF WriteThreadList
<1>3. CASE WriteRest
  BY <1>1, <1>3, StagesDef DEF WriteRest
<1> QED
  BY <1>2, <1>3

LEMMA MemoryInfoPlaced ==
  ASSUME DumpTypes, DumpTypes', PlaceInv, WriteMemoryInfoList
  PROVE  PlaceInv'
<1> DEFINE found == Smaller(MemoryInfoRanges(lists.regions), measured.regions)
           left == measured.regions - found
           sizes == <<InfoHeader + found * InfoSize, left * InfoSize>>
<1>1. /\ Write("MemoryInfo", "info", Rva("MemoryInfo"), sizes) /\ Step("MemoryInfo", "Rest")
      /\ UNCHANGED <<lists, disturbed, measured, tables, cursor>>
  BY DEF WriteMemoryInfoList, listVars
<1>2. Now = At("MemoryInfo") /\ Now' = Now + 1
  BY <1>1, StepNow, StagesDef
<1>3. found \in Nat /\ left \in Nat
  BY Zenon, Written, CountsType, MemoryInfoRangesType, SmallerDef
<1>4. found + left = measured.regions
  <2>1. measured.regions \in Nat
    BY Written, CountsType
  <2> HIDE DEF found
  <2> QED
    BY <1>3, <2>1
<1>5. Storage("MemoryInfo") = InfoHeader + measured.regions * InfoSize
  BY DEF Storage
<1> HIDE DEF found, left
<1>6. InfoHeader \in Nat /\ InfoSize \in Nat
  BY WalkAssumption
<1>7. InfoHeader + found * InfoSize \in Nat /\ left * InfoSize \in Nat
  <2>1. found * InfoSize \in Nat /\ left * InfoSize \in Nat
    BY <1>3, <1>6
  <2> QED
    BY <1>6, <2>1
<1>8. measured.regions * InfoSize = found * InfoSize + left * InfoSize
  BY <1>3, <1>4, <1>6
<1>9. (InfoHeader + found * InfoSize) + left * InfoSize = Storage("MemoryInfo")
  <2> DEFINE a == found * InfoSize
             b == left * InfoSize
             c == measured.regions * InfoSize
  <2>1. c = a + b /\ a \in Nat /\ b \in Nat /\ Storage("MemoryInfo") = InfoHeader + c
    BY <1>3, <1>5, <1>6, <1>8
  <2> HIDE DEF a, b, c
  <2>2. (InfoHeader + a) + b = Storage("MemoryInfo")
    BY <1>6, <2>1
  <2> QED
    BY <2>2 DEF a, b
<1>10. sizes \in Seq(Nat) /\ Total(sizes) = Storage("MemoryInfo")
  <2> DEFINE m == InfoHeader + found * InfoSize
             n == left * InfoSize
  <2>1. m \in Nat /\ n \in Nat /\ m + n = Storage("MemoryInfo") /\ sizes = <<m, n>>
    BY <1>7, <1>9
  <2> HIDE DEF m, n, sizes
  <2> QED
    BY <2>1, TotalTwo
<1> QED
  BY Zenon, <1>1, <1>2, <1>10, LatePlaced DEF Parts

\* The names of the plan, if there are any, go where the table of them ends.
LEMMA ThreadNamesPlaced ==
  ASSUME DumpTypes, DumpTypes', PlaceInv, WriteThreadNames
  PROVE  PlaceInv'
<1> DEFINE rva == Rva("ThreadNames")
           table == NamesHeader + Len(PlanNames) * NameSize
           sizes == ThreadNameSizes(PlanNames)
           g == file \o Extents("ThreadNames", "entries", rva, <<table>>)
<1>1. /\ Step("ThreadNames", "MemoryInfo")
      /\ UNCHANGED <<lists, disturbed, measured, cursor>>
  BY DEF WriteThreadNames, listVars
<1>2. Now = 12 /\ Now' = 13
  BY <1>1, StepNow, StagesDef
<1>3. /\ PlanNames \in Seq(Nat) /\ table \in Nat /\ sizes \in Seq(Nat)
      /\ rva \in Nat /\ rva + table \in Nat /\ PlanNames0 = rva + table
  <2>1. /\ PlanNames \in Seq(Nat) /\ table \in Nat /\ sizes \in Seq(Nat) /\ rva \in Nat /\ rva + table \in Nat
    BY ThreadTableType DEF PlanNames
  <2>2. PlanNames0 = rva + NamesHeader + Len(PlanNames) * NameSize
    BY DEF PlanNames0
  <2>3. NamesHeader \in Nat /\ Len(PlanNames) * NameSize \in Nat
    <3>1. NamesHeader \in Nat /\ NameSize \in Nat /\ Len(PlanNames) \in Nat
      BY <2>1, WalkAssumption
    <3> QED
      BY <3>1
  <2>4. PlanNames0 = rva + table
    <3> DEFINE a == Len(PlanNames) * NameSize
    <3>1. PlanNames0 = rva + NamesHeader + a /\ table = NamesHeader + a /\ a \in Nat /\ rva \in Nat
      BY <2>1, <2>2, <2>3
    <3> HIDE DEF a, rva, table
    <3> QED
      BY <2>3, <3>1
  <2> QED
    BY <2>1, <2>4
<1>4. /\ DOMAIN PlanNames = 1 .. Len(PlanNames) /\ Len(sizes) = Len(PlanNames) /\ DOMAIN sizes = DOMAIN PlanNames
      /\ \A i \in DOMAIN PlanNames :
           SumBefore(ThreadNameStorage, PlanNames, i) = PrefixSums(sizes)[i - 1]
      /\ SumOf(ThreadNameStorage, PlanNames) = Total(sizes) /\ Total(sizes) \in Nat
  BY <1>3, ThreadNameSizesDef, TotalDef
<1>5. Storage("ThreadNames") = IF PlanNames = <<>> THEN 0 ELSE table + Total(sizes)
  BY <1>4 DEF Storage, PlanNames
<1>6. PiecesIn(file, "ThreadNames", "name") = {} /\ TakenIn(file, "ThreadNames") = 0
      /\ tables.names = <<>>
  BY <1>2, StagesDef, NowDef DEF PlaceInv, ThreadNamesWritten
<1> DEFINE Result ==
             /\ tables' = [tables EXCEPT !.names = [i \in DOMAIN sizes |-> PlanNames0 + PrefixSums(sizes)[i - 1]]]
             /\ PiecesIn(file', "ThreadNames", "name") = Places(PlanNames0, sizes)
             /\ TakenIn(file', "ThreadNames") = Storage("ThreadNames")
             /\ CoveredIn(file', "ThreadNames", rva, rva + Storage("ThreadNames"))
             /\ OthersKept("ThreadNames") /\ InOrder(file', Reached')
<1>7. Reached = 4 /\ Reached' = 5 /\ Place("ThreadNames") = 5
  BY <1>2, ReachedDef, ReachedNext, PlaceDef DEF Standing
<1>8. ASSUME PlanNames = <<>> PROVE Result
  <2>1. tables' = tables /\ file' = file
    BY <1>8 DEF WriteThreadNames, PlanNames
  <2>2. DOMAIN sizes = {}
    BY <1>4, <1>8
  <2>3. Places(PlanNames0, sizes) = {}
    BY <2>2 DEF Places
  <2>4. [i \in DOMAIN sizes |-> PlanNames0 + PrefixSums(sizes)[i - 1]] = <<>>
    BY <2>2
  <2>5. tables' = [tables EXCEPT !.names = <<>>]
    BY <1>6, <2>1 DEF PlaceInv, TablesType
  <2>6. CoveredIn(file', "ThreadNames", rva, rva + Storage("ThreadNames"))
    <3>1. Storage("ThreadNames") = 0
      BY <1>5, <1>8
    <3> DEFINE to == rva + Storage("ThreadNames")
    <3>2. to = rva /\ rva \in Nat
      BY <1>3, <3>1
    <3> HIDE DEF rva, to
    <3>3. \A byte \in rva .. to - 1 : FALSE
      BY <3>2
    <3>4. CoveredIn(file', "ThreadNames", rva, to)
      BY Zenon, <3>3 DEF CoveredIn
    <3> QED
      BY <3>4 DEF to
  <2>7. InOrder(file', Reached')
    BY <1>7, <2>1, UnwrittenOrder DEF PlaceInv
  <2>8. OthersKept("ThreadNames")
    BY <2>1, UnwrittenOthers
  <2> QED
    BY Zenon, <1>5, <1>6, <1>8, <2>1, <2>3, <2>4, <2>5, <2>6, <2>7, <2>8
<1>9. ASSUME PlanNames # <<>> PROVE Result
  <2>1. /\ tables' = [tables EXCEPT !.names =
                 [i \in DOMAIN PlanNames |-> rva + table + SumBefore(ThreadNameStorage, PlanNames, i)]]
        /\ file' = g \o Extents("ThreadNames", "name", rva + table,
                                 [i \in DOMAIN PlanNames |-> ThreadNameStorage(PlanNames[i])])
    BY Zenon, <1>9 DEF WriteThreadNames, PlanNames
  <2>2. [i \in DOMAIN PlanNames |-> ThreadNameStorage(PlanNames[i])] = sizes
    BY DEF ThreadNameSizes
  <2>3. [i \in DOMAIN PlanNames |-> rva + table + SumBefore(ThreadNameStorage, PlanNames, i)]
          = [i \in DOMAIN sizes |-> PlanNames0 + PrefixSums(sizes)[i - 1]]
    BY Zenon, <1>3, <1>4
  <2> DEFINE row == <<table>>
  <2>4. row \in Seq(Nat) /\ Total(row) = table
    BY <1>3, TotalOne
  <2>5. file' = g \o Extents("ThreadNames", "name", PlanNames0, sizes) /\ PlanNames0 \in Nat
    BY Zenon, <1>3, <2>1, <2>2
  <2>6. "ThreadNames" \in Streams /\ "entries" \in Parts /\ "name" \in Parts /\ file \in Seq(Extent)
    BY DEF DumpTypes, Streams, Parts
  <2>7. g = file \o Extents("ThreadNames", "entries", rva, row)
    OBVIOUS
  <2> HIDE DEF g, row, sizes, rva, table, Extent
  <2>8. Appended(file, "ThreadNames", "entries", rva, row, g)
    BY <1>3, <2>4, <2>6, <2>7, AppendDef
  <2>9. g \in Seq(Extent)
    BY Zenon, <2>8 DEF Appended
  <2>10. Appended(g, "ThreadNames", "name", PlanNames0, sizes, file')
    BY <1>3, <2>5, <2>6, <2>9, AppendDef
  <2>11. /\ PiecesIn(g, "ThreadNames", "name") = {}
         /\ \A x, p : x # "ThreadNames" => PiecesIn(g, x, p) = PiecesIn(file, x, p)
    <3>1. Adds(file, "ThreadNames", "entries", rva, row, g)
      BY <2>4, <2>6, <2>8, AppendAdds
    <3>2. ASSUME NEW x, NEW p, x # "ThreadNames" \/ p # "entries"
          PROVE  PiecesIn(g, x, p) = PiecesIn(file, x, p)
      BY <3>1, <3>2, OtherPieces
    <3> QED
      BY <1>6, <3>2
  <2>12. /\ PiecesIn(file', "ThreadNames", "name") = PiecesIn(g, "ThreadNames", "name") \cup Places(PlanNames0, sizes)
         /\ \A x, p : x # "ThreadNames" => PiecesIn(file', x, p) = PiecesIn(g, x, p)
    <3>1. Adds(g, "ThreadNames", "name", PlanNames0, sizes, file')
      BY <1>3, <2>9, <2>10, AppendAdds
    <3>2. ASSUME NEW x, NEW p, x # "ThreadNames"
          PROVE  PiecesIn(file', x, p) = PiecesIn(g, x, p)
      BY <3>1, <3>2, OtherPieces
    <3>3. PiecesIn(file', "ThreadNames", "name") = PiecesIn(g, "ThreadNames", "name") \cup Places(PlanNames0, sizes)
      BY <3>1, OwnPieces
    <3> QED
      BY <3>2, <3>3
  <2>13. /\ TakenIn(g, "ThreadNames") = TakenIn(file, "ThreadNames") + Total(row)
         /\ \A x : x # "ThreadNames" => TakenIn(g, x) = TakenIn(file, x)
    BY <1>3, <2>4, <2>6, <2>8, TakenAppend
  <2>14. /\ TakenIn(file', "ThreadNames") = TakenIn(g, "ThreadNames") + Total(sizes)
         /\ \A x : x # "ThreadNames" => TakenIn(file', x) = TakenIn(g, x)
    BY <1>3, <2>9, <2>10, TakenAppend
  <2>15. /\ \A x, from, to : CoveredIn(file, x, from, to) => CoveredIn(g, x, from, to)
         /\ CoveredIn(g, "ThreadNames", rva, rva + Total(row))
    BY <1>3, <2>4, <2>6, <2>8, CoverAppend
  <2>16. /\ \A x, from, to : CoveredIn(g, x, from, to) => CoveredIn(file', x, from, to)
         /\ CoveredIn(file', "ThreadNames", PlanNames0, PlanNames0 + Total(sizes))
    BY <1>3, <2>5, <2>9, <2>10, CoverAppend
  <2>17. CoveredIn(file', "ThreadNames", rva, rva + Storage("ThreadNames"))
    <3>1. CoveredIn(file', "ThreadNames", rva, PlanNames0)
      BY <1>3, <2>4, <2>15, <2>16
    <3>2. /\ rva + Storage("ThreadNames") = PlanNames0 + Total(sizes)
          /\ rva \in Int /\ PlanNames0 \in Int /\ PlanNames0 + Total(sizes) \in Int
      <4>1. Storage("ThreadNames") = table + Total(sizes)
        BY <1>5, <1>9
      <4>2. Total(sizes) \in Nat /\ rva \in Nat /\ table \in Nat /\ PlanNames0 = rva + table
        BY Zenon, <1>3, <1>4
      <4> QED
        BY <4>1, <4>2
    <3>3. CoveredIn(file', "ThreadNames", rva, PlanNames0 + Total(sizes))
      BY Zenon, <2>16, <3>1, <3>2, CoverJoin
    <3> QED
      BY <3>2, <3>3
  <2>18. \A x : \A limit \in Nat : x # "ThreadNames" /\ EndsIn(file, x, limit) => EndsIn(file', x, limit)
    <3> SUFFICES ASSUME NEW x, NEW limit \in Nat, x # "ThreadNames", EndsIn(file, x, limit)
                 PROVE  EndsIn(file', x, limit)
      OBVIOUS
    <3>1. EndsIn(g, x, limit)
      BY <1>3, <2>4, <2>6, <2>8, EndsAppend
    <3> QED
      BY <1>3, <2>5, <2>9, <2>10, <3>1, EndsAppend
  <2>19. OthersKept("ThreadNames")
    BY Zenon, <2>11, <2>12, <2>13, <2>14, <2>15, <2>16, <2>18 DEF OthersKept
  <2>20. InOrder(file', Reached')
    <3>1. measured \in Measured /\ InOrder(file, 4)
      BY <1>7 DEF DumpTypes, PlaceInv, Filled
    <3>2. rva <= rva /\ rva <= PlanNames0 /\ 4 <= 5 /\ 5 <= 5 /\ 4 \in Nat /\ 5 \in Nat /\ rva = Rva("ThreadNames")
      BY <1>3 DEF rva
    <3> HIDE DEF Measured
    <3>3. InOrder(g, 5)
      BY <1>3, <1>7, <2>4, <2>6, <2>8, <3>1, <3>2, OrderAppend
    <3>5. PlanNames0 \in Nat /\ sizes \in Seq(Nat) /\ Rva("ThreadNames") <= PlanNames0 /\ Place("ThreadNames") = 5
      BY <1>3, <1>7, <3>2
    <3>4. InOrder(file', 5)
      BY <2>6, <2>9, <2>10, <3>1, <3>2, <3>3, <3>5, OrderAppend
    <3> QED
      BY <1>7, <3>4
  <2>21. TakenIn(file', "ThreadNames") = Storage("ThreadNames")
    BY <1>3, <1>4, <1>5, <1>6, <1>9, <2>4, <2>13, <2>14
  <2> QED
    BY Zenon, <2>1, <2>3, <2>11, <2>12, <2>17, <2>19, <2>20, <2>21
<1>10. Result
  BY <1>8, <1>9
<1> HIDE DEF sizes, rva, table, g
<1>11. Filled'
  <2>1. \A x \in WholeStreams : Past(x)' => Past(x) \/ x = "ThreadNames"
    BY <1>2, StagesDef, NowDef DEF WholeStreams
  <2>2. CoveredIn(file', "ThreadNames", Rva("ThreadNames"), Rva("ThreadNames") + Storage("ThreadNames"))
    BY <1>10 DEF rva
  <2> QED
    BY <1>1, <1>10, <2>1, <2>2, FilledKept DEF PlaceInv
<1>12. ModulesWritten'
  <2>1. tables'.modules = tables.modules
    BY <1>10 DEF PlaceInv, TablesType
  <2> QED
    BY <1>1, <1>2, <1>10, <2>1, ModulesKept DEF PlaceInv
<1>13. RingWritten'
  <2>1. tables'.unloaded = tables.unloaded
    BY <1>10 DEF PlaceInv, TablesType
  <2> QED
    BY <1>1, <1>2, <1>10, <2>1, RingKept DEF PlaceInv
<1>14. ThreadNamesWritten'
  <2>1. /\ PlanNames' = PlanNames /\ PlanNames0' = PlanNames0
        /\ Storage("ThreadNames")' = Storage("ThreadNames")
    BY <1>1, Same, SameMeasures
  <2>2. ThreadNameSizes(PlanNames)' = ThreadNameSizes(PlanNames)
    BY <2>1 DEF ThreadNameSizes
  <2>3. Past("ThreadNames")'
    BY <1>2, StagesDef, NowDef
  <2>4. tables'.names = [i \in DOMAIN sizes |-> PlanNames0 + PrefixSums(sizes)[i - 1]]
    BY <1>10 DEF PlaceInv, TablesType
  <2> QED
    BY <1>10, <2>1, <2>2, <2>3, <2>4, SameFile DEF ThreadNamesWritten, sizes
<1>15. TablesType' /\ RecordsInList'
  <2>1. TablesType'
    BY <1>10 DEF PlaceInv, TablesType
  <2> QED
    BY <1>2, <2>1, StagesDef DEF RecordsInList
<1> QED
  BY <1>11, <1>12, <1>13, <1>14, <1>15 DEF PlaceInv

\* A step that writes of the module list.
LEMMA ModulePlaced ==
  ASSUME DumpTypes, DumpTypes', PlaceInv, NEW part \in Parts, NEW at \in Nat, NEW sizes \in Seq(Nat),
         Write("ModuleList", part, at, sizes) \/ file' = file, Rva("ModuleList") <= at,
         Now \in 5 .. 8, Now' \in 6 .. 9, UNCHANGED <<lists, disturbed, measured>>,
         NEW modules, tables' = [tables EXCEPT !.modules = modules]
  PROVE  Filled' /\ RingWritten' /\ ThreadNamesWritten' /\ TablesType' /\ tables'.modules = modules
<1>1. "ModuleList" \in Streams
  BY DEF Streams
<1>2. /\ TablesType' /\ tables'.modules = modules
      /\ tables'.unloaded = tables.unloaded /\ tables'.names = tables.names
  BY DEF PlaceInv, TablesType
<1>3. Reached \in {1, 2} /\ Reached' = 2 /\ Place("ModuleList") = 2
  BY ReachedDef, ReachedNext, PlaceDef DEF Standing
<1>4. OthersKept("ModuleList") /\ InOrder(file', Reached')
  <2>1. CASE Write("ModuleList", part, at, sizes)
    <3>1. Appended(file, "ModuleList", part, at, sizes, file')
      BY <1>1, <2>1, WriteAppends
    <3>2. Reached <= Place("ModuleList") /\ Place("ModuleList") <= Reached'
      BY <1>3
    <3> QED
      BY <1>1, <3>1, <3>2, WrittenOthers, WrittenOrder DEF PlaceInv
  <2>2. CASE file' = file
    <3>1. Reached <= Reached'
      BY <1>3
    <3> QED
      BY <2>2, <3>1, UnwrittenOthers, UnwrittenOrder DEF PlaceInv
  <2> QED
    BY <2>1, <2>2
<1>5. \A x \in WholeStreams : ~Past(x)'
  BY StagesDef, NowDef DEF WholeStreams
<1>6. Filled'
  BY <1>4, <1>5, FilledKept DEF PlaceInv
<1>7. RingWritten'
  <2>1. Now \in 4 .. 8 /\ Now' \in 4 .. 9
    OBVIOUS
  <2> QED
    BY <1>2, <1>4, <2>1, RingKept DEF PlaceInv
<1>8. ThreadNamesWritten'
  <2>1. Now > 12 <=> Now' > 12
    OBVIOUS
  <2> QED
    BY <1>2, <1>4, <2>1, ThreadNamesKept DEF PlaceInv
<1> QED
  BY <1>2, <1>6, <1>7, <1>8

\* The space that was measured for a list that did not change since.
LEMMA ModuleSpace ==
  ASSUME DumpTypes, ModulesWritten, "modules" \notin disturbed, Past("count")
  PROVE  /\ Walk(lists.modules, ModuleCount) \in Seq(Entry)
         /\ Len(Walk(lists.modules, ModuleCount)) = ModuleCount /\ ModuleCount \in Nat
         /\ CountedNames \in Seq(Nat) /\ Len(CountedNames) = ModuleCount
         /\ CountedRecords \in Seq(Nat) /\ Len(CountedRecords) = ModuleCount
         /\ Names0 \in Nat /\ Names0 = Rva("ModuleList") + ULONG32Size + ModuleCount * ModuleSize
         /\ Records0 \in Nat /\ Records0 = Names0 + Total(CountedNames)
         /\ Total(CountedNames) \in Nat /\ Total(CountedRecords) \in Nat
         /\ Storage("ModuleList") = (Records0 - Rva("ModuleList")) + Total(CountedRecords)
         /\ Rva("UnloadedModules") = Records0 + Total(CountedRecords)
         /\ CodeViewBase(lists.modules, Rva("ModuleList"), ModuleCount) = Records0
         /\ lists.modules.first = Lost => ModuleCount = 0
<1>1. /\ lists.modules \in LoaderList /\ Rva("ModuleList") \in Nat /\ measured \in Measured
      /\ measured.modules = CountModules(lists.modules)
  BY Written DEF ModulesWritten, Streams
<1> DEFINE count == CountModules(lists.modules).count
           walked == Walk(lists.modules, count)
<1>2. /\ walked \in Seq(Entry) /\ Len(walked) = count /\ count \in Nat
      /\ Total(NameSizes(walked)) = CountModules(lists.modules).names
      /\ Total(RecordSizes(walked)) = CountModules(lists.modules).records
      /\ lists.modules.first = Lost => count = 0
  BY <1>1, CountedWalk
<1>3. ModuleCount = count
  BY <1>1 DEF ModuleCount
<1>4. CountedNames = NameSizes(walked) /\ CountedRecords = RecordSizes(walked)
  BY <1>3 DEF CountedNames, CountedRecords
<1> HIDE DEF count, walked
<1>5. /\ CountedNames \in Seq(Nat) /\ Len(CountedNames) = count
      /\ CountedRecords \in Seq(Nat) /\ Len(CountedRecords) = count
      /\ Total(CountedNames) \in Nat /\ Total(CountedRecords) \in Nat
  BY <1>2, <1>4, NameSizesDef, RecordSizesDef, TotalDef
<1>6. /\ Names0 \in Nat /\ Names0 = Rva("ModuleList") + ULONG32Size + ModuleCount * ModuleSize
      /\ ModuleCount * ModuleSize \in Nat
  BY <1>1, <1>2, <1>3, StringRvaType DEF Names0
<1>7. Records0 \in Nat /\ Records0 = Names0 + Total(CountedNames)
  BY <1>5, <1>6 DEF Records0
<1>8. Storage("ModuleList") = ULONG32Size + ModuleCount * ModuleSize + Total(CountedNames) + Total(CountedRecords)
  <2>1. Storage("ModuleList") = ULONG32Size + measured.modules.count * ModuleSize + measured.modules.names
                                  + measured.modules.records
    BY DEF Storage
  <2>2. /\ measured.modules.count = ModuleCount /\ measured.modules.names = Total(CountedNames)
        /\ measured.modules.records = Total(CountedRecords)
    BY <1>1, <1>2, <1>4 DEF ModuleCount
  <2> QED
    BY <2>1, <2>2
<1>9. /\ Storage("ModuleList") = (Records0 - Rva("ModuleList")) + Total(CountedRecords)
      /\ Rva("ModuleList") + Storage("ModuleList") = Records0 + Total(CountedRecords)
  <2> DEFINE a == ModuleCount * ModuleSize
             n == Total(CountedNames)
             r == Total(CountedRecords)
             v == Rva("ModuleList")
  <2>1. /\ a \in Nat /\ n \in Nat /\ r \in Nat /\ v \in Nat /\ ULONG32Size \in Nat
        /\ Names0 = v + ULONG32Size + a /\ Records0 = Names0 + n
        /\ Storage("ModuleList") = ULONG32Size + a + n + r
    BY <1>1, <1>5, <1>6, <1>7, <1>8, WalkAssumption
  <2> HIDE DEF a, n, r, v
  <2>2. /\ Storage("ModuleList") = (Records0 - v) + r
        /\ v + Storage("ModuleList") = Records0 + r
    BY <2>1
  <2> QED
    BY <2>2 DEF v, r
<1>10. Rva("UnloadedModules") = Records0 + Total(CountedRecords)
  BY <1>1, <1>9, RvaNext
<1>11. CodeViewBase(lists.modules, Rva("ModuleList"), ModuleCount) = Records0
  <2>1. CodeViewBase(lists.modules, Rva("ModuleList"), ModuleCount)
          = StringRva(Rva("ModuleList"), ModuleCount) + Total(NameSizes(Walk(lists.modules, ModuleCount)))
    BY <1>1, <1>2, <1>3, CodeViewBaseDef
  <2> QED
    BY <2>1 DEF Records0, CountedNames, Names0
<1> QED
  BY <1>2, <1>3, <1>5, <1>6, <1>7, <1>9, <1>10, <1>11 DEF walked

\* What a step that writes of a stream makes of it.
LEMMA OwnWritten ==
  ASSUME DumpTypes, NEW stream \in Streams, NEW part \in Parts, NEW at \in Nat, NEW sizes \in Seq(Nat),
         Write(stream, part, at, sizes)
  PROVE  /\ PiecesIn(file', stream, part) = PiecesIn(file, stream, part) \cup Places(at, sizes)
         /\ \A p : p # part => PiecesIn(file', stream, p) = PiecesIn(file, stream, p)
         /\ TakenIn(file', stream) = TakenIn(file, stream) + Total(sizes)
         /\ \A limit \in Nat : EndsIn(file, stream, limit) /\ at + Total(sizes) <= limit
                                 => EndsIn(file', stream, limit)
         /\ CoveredIn(file', stream, at, at + Total(sizes))
         /\ \A from, to : CoveredIn(file, stream, from, to) => CoveredIn(file', stream, from, to)
<1>1. Appended(file, stream, part, at, sizes, file')
  BY WriteAppends
<1>2. file \in Seq(Extent)
  BY DEF DumpTypes
<1> HIDE DEF Extent
<1>3. Adds(file, stream, part, at, sizes, file')
  BY <1>1, <1>2, AppendAdds
<1>4. ASSUME NEW p, p # part
      PROVE  PiecesIn(file', stream, p) = PiecesIn(file, stream, p)
  BY <1>3, <1>4, OtherPieces
<1>5. PiecesIn(file', stream, part) = PiecesIn(file, stream, part) \cup Places(at, sizes)
  BY <1>3, OwnPieces
<1>6. TakenIn(file', stream) = TakenIn(file, stream) + Total(sizes)
  BY <1>1, <1>2, TakenAppend
<1>7. ASSUME NEW limit \in Nat, EndsIn(file, stream, limit), at + Total(sizes) <= limit
      PROVE  EndsIn(file', stream, limit)
  BY <1>1, <1>2, <1>7, EndsAppend
<1>8. /\ CoveredIn(file', stream, at, at + Total(sizes))
      /\ \A from, to : CoveredIn(file, stream, from, to) => CoveredIn(file', stream, from, to)
  BY <1>1, <1>2, CoverAppend
<1> QED
  BY <1>4, <1>5, <1>6, <1>7, <1>8

\* What ModulesWritten says of a list that does not change.
ModulesAt(n, base, position, table, f) ==
  /\ n > 3 => measured.modules = CountModules(lists.modules)
  /\ n \in 6 .. 8 => lists.modules.first # Lost /\ base = Records0
  /\ n = 8 => position = Records0
  /\ table = IF n > 6 THEN ModuleDescriptors(lists.modules, Rva("ModuleList"), ModuleCount, Records0)
             ELSE <<>>
  /\ PiecesIn(f, "ModuleList", "name") = IF n > 7 THEN Places(Names0, CountedNames) ELSE {}
  /\ PiecesIn(f, "ModuleList", "record") = IF n > 8 THEN Places(Records0, CountedRecords) ELSE {}
  /\ TakenIn(f, "ModuleList") =
       CASE ~(n > 5) -> 0
         [] n = 6   -> ULONG32Size
         [] n = 7   -> Names0 - Rva("ModuleList")
         [] n = 8   -> Records0 - Rva("ModuleList")
         [] OTHER   -> Storage("ModuleList")
  /\ EndsIn(f, "ModuleList", Rva("UnloadedModules"))

LEMMA ModulesNow ==
  ModulesWritten <=> ("modules" \notin disturbed => ModulesAt(Now, cursor.base, cursor.position, tables.modules, file))
  BY StagesDef, NowDef DEF ModulesWritten, ModulesAt

LEMMA ModulesNext ==
  ASSUME measured' = measured, lists' = lists, disturbed' = disturbed
  PROVE  ModulesWritten' <=>
           ("modules" \notin disturbed => ModulesAt(Now', cursor'.base, cursor'.position, tables'.modules, file'))
<1>1. /\ Rva("ModuleList")' = Rva("ModuleList") /\ ModuleCount' = ModuleCount
      /\ Rva("UnloadedModules")' = Rva("UnloadedModules") /\ Storage("ModuleList")' = Storage("ModuleList")
      /\ Names0' = Names0 /\ CountedNames' = CountedNames /\ CountedRecords' = CountedRecords
      /\ Records0' = Records0
  BY Same, SameMeasures
<1>2. /\ \A p : PiecesIn(file, "ModuleList", p)' = PiecesIn(file', "ModuleList", p)
      /\ TakenIn(file, "ModuleList")' = TakenIn(file', "ModuleList")
      /\ EndsIn(file, "ModuleList", Rva("UnloadedModules"))'
           <=> EndsIn(file', "ModuleList", Rva("UnloadedModules"))
  BY <1>1, SameFile DEF EndsIn
<1>3. \A step : Past(step)' <=> Now' > At(step)
  BY NowDef
<1> QED
  BY <1>1, <1>2, <1>3, StagesDef DEF ModulesWritten, ModulesAt

\* A list without modules.
LEMMA NoModules ==
  ASSUME DumpTypes, ModulesWritten, "modules" \notin disturbed, Past("count"), ModuleCount = 0
  PROVE  /\ Places(Names0, CountedNames) = {} /\ Places(Records0, CountedRecords) = {}
         /\ ModuleDescriptors(lists.modules, Rva("ModuleList"), ModuleCount, Records0) = <<>>
         /\ Storage("ModuleList") = ULONG32Size
<1>1. /\ Len(CountedNames) = 0 /\ Len(CountedRecords) = 0
      /\ CountedNames \in Seq(Nat) /\ CountedRecords \in Seq(Nat)
      /\ Names0 = Rva("ModuleList") + ULONG32Size + ModuleCount * ModuleSize
      /\ Records0 = Names0 + Total(CountedNames)
      /\ Storage("ModuleList") = (Records0 - Rva("ModuleList")) + Total(CountedRecords)
  BY ModuleSpace
<1>2. CountedNames = <<>> /\ CountedRecords = <<>>
  BY <1>1
<1>3. Total(<<>>) = 0
  <2>1. <<>> \in Seq(Nat)
    OBVIOUS
  <2> QED
    BY Zenon, <2>1, TotalDef
<1>4. Places(Names0, <<>>) = {} /\ Places(Records0, <<>>) = {}
  BY DEF Places
<1>5. ModuleDescriptors(lists.modules, Rva("ModuleList"), ModuleCount, Records0) = <<>>
  BY DEF ModuleDescriptors
<1>6. Storage("ModuleList") = ULONG32Size
  <2> DEFINE v == Rva("ModuleList")
  <2>1. v \in Nat /\ ULONG32Size \in Nat /\ ModuleSize \in Nat
    BY Written, WalkAssumption DEF Streams
  <2>2. ModuleCount * ModuleSize = 0
    BY <2>1
  <2>3. /\ Names0 = v + ULONG32Size + 0 /\ Records0 = Names0 + 0
        /\ Storage("ModuleList") = (Records0 - v) + 0
    BY <1>1, <1>2, <1>3, <2>2
  <2> HIDE DEF v
  <2> QED
    BY <2>1, <2>3
<1> QED
  BY <1>2, <1>4, <1>5, <1>6

\* The count goes where the list begins.
LEMMA CodeViewBasePlaced ==
  ASSUME DumpTypes, DumpTypes', PlaceInv, ComputeCodeViewBase
  PROVE  PlaceInv'
<1> DEFINE lost == lists.modules.first = Lost
           rva == Rva("ModuleList")
           sizes == <<ULONG32Size>>
<1>1. /\ Step("CodeViewBase", IF lost THEN "UnloadedEntries" ELSE "ModuleDescriptors")
      /\ cursor' = [cursor EXCEPT !.base = CodeViewBase(lists.modules, rva, ModuleCount)]
      /\ Write("ModuleList", "count", rva, sizes)
      /\ UNCHANGED <<lists, disturbed, measured, tables>>
  BY DEF ComputeCodeViewBase, listVars
<1>2. Now = 5 /\ Now' = IF lost THEN 9 ELSE 6
  BY <1>1, StepNow, StagesDef
<1>3. /\ ULONG32Size \in Nat /\ rva \in Nat /\ sizes \in Seq(Nat) /\ Total(sizes) = ULONG32Size
      /\ "ModuleList" \in Streams /\ "count" \in Parts
  <2>1. ULONG32Size \in Nat
    BY WalkAssumption
  <2>2. sizes \in Seq(Nat) /\ Total(sizes) = ULONG32Size
    BY <2>1, TotalOne
  <2>3. rva \in Nat
    BY Written DEF Streams
  <2> QED
    BY <2>1, <2>2, <2>3 DEF Streams, Parts
<1>4. tables' = [tables EXCEPT !.modules = tables.modules]
  BY <1>1 DEF PlaceInv, TablesType
<1> HIDE DEF sizes
<1>5. Filled' /\ RingWritten' /\ ThreadNamesWritten' /\ TablesType' /\ tables'.modules = tables.modules
  <2>1. rva <= rva
    BY <1>3
  <2>2. Now \in 5 .. 8 /\ Now' \in 6 .. 9
    BY <1>2
  <2>3. DumpTypes /\ DumpTypes' /\ PlaceInv
    OBVIOUS
  <2>4. Write("ModuleList", "count", rva, sizes) \/ file' = file
    BY <1>1
  <2> QED
    BY Zenon, <1>1, <1>3, <1>4, <2>1, <2>2, <2>3, <2>4, ModulePlaced
<1>6. RecordsInList'
  BY <1>2, StagesDef DEF RecordsInList
<1>7. ASSUME "modules" \notin disturbed
      PROVE  ModulesAt(Now', cursor'.base, cursor'.position, tables'.modules, file')
  <2>1. ModulesWritten
    BY DEF PlaceInv
  <2>2. Past("count")
    BY <1>2, NowDef, StagesDef
  <2>3. ModulesAt(5, cursor.base, cursor.position, tables.modules, file)
    BY <1>2, <1>7, <2>1, ModulesNow
  <2>4. /\ measured.modules = CountModules(lists.modules) /\ tables.modules = <<>>
        /\ PiecesIn(file, "ModuleList", "name") = {} /\ PiecesIn(file, "ModuleList", "record") = {}
        /\ TakenIn(file, "ModuleList") = 0 /\ EndsIn(file, "ModuleList", Rva("UnloadedModules"))
    BY <2>3 DEF ModulesAt
  <2>5. /\ CodeViewBase(lists.modules, rva, ModuleCount) = Records0
        /\ Rva("UnloadedModules") = Records0 + Total(CountedRecords)
        /\ Records0 = Names0 + Total(CountedNames) /\ Names0 \in Nat /\ Records0 \in Nat
        /\ Total(CountedNames) \in Nat /\ Total(CountedRecords) \in Nat /\ ModuleCount \in Nat
        /\ Names0 = rva + ULONG32Size + ModuleCount * ModuleSize
        /\ lost => ModuleCount = 0
    BY <1>7, <2>1, <2>2, ModuleSpace
  <2>6. rva + ULONG32Size <= Rva("UnloadedModules") /\ Rva("UnloadedModules") \in Nat
    <3> DEFINE a == ModuleCount * ModuleSize
    <3>1. a \in Nat
      BY <2>5, WalkAssumption
    <3> HIDE DEF a, rva
    <3>2. Names0 = rva + ULONG32Size + a
      BY <2>5 DEF a
    <3> QED
      BY <1>3, <2>5, <3>1, <3>2
  <2>7. /\ PiecesIn(file', "ModuleList", "name") = {} /\ PiecesIn(file', "ModuleList", "record") = {}
        /\ TakenIn(file', "ModuleList") = TakenIn(file, "ModuleList") + Total(sizes)
        /\ EndsIn(file', "ModuleList", Rva("UnloadedModules"))
    <3>1. /\ PiecesIn(file', "ModuleList", "count") =
               PiecesIn(file, "ModuleList", "count") \cup Places(rva, sizes)
          /\ \A p : p # "count" => PiecesIn(file', "ModuleList", p) = PiecesIn(file, "ModuleList", p)
          /\ TakenIn(file', "ModuleList") = TakenIn(file, "ModuleList") + Total(sizes)
          /\ \A limit \in Nat : EndsIn(file, "ModuleList", limit) /\ rva + Total(sizes) <= limit
                                  => EndsIn(file', "ModuleList", limit)
      BY <1>1, <1>3, OwnWritten
    <3>2. rva + Total(sizes) <= Rva("UnloadedModules")
      BY <1>3, <2>6
    <3> QED
      BY <2>4, <2>6, <3>1, <3>2
  <2>8. TakenIn(file', "ModuleList") = ULONG32Size
    BY <1>3, <2>4, <2>7
  <2>9. cursor'.base = Records0
    BY <1>1, <2>5 DEF DumpTypes
  <2>10. CASE lost
    <3>1. /\ Places(Names0, CountedNames) = {} /\ Places(Records0, CountedRecords) = {}
          /\ ModuleDescriptors(lists.modules, Rva("ModuleList"), ModuleCount, Records0) = <<>>
          /\ Storage("ModuleList") = ULONG32Size
      BY <1>7, <2>1, <2>2, <2>5, <2>10, NoModules
    <3>2. ModulesAt(9, cursor'.base, cursor'.position, tables'.modules, file')
      BY <1>1, <2>4, <2>7, <2>8, <3>1 DEF ModulesAt
    <3> QED
      BY <1>2, <2>10, <3>2
  <2>11. CASE ~lost
    <3>1. ModulesAt(6, cursor'.base, cursor'.position, tables'.modules, file')
      BY <1>1, <2>4, <2>7, <2>8, <2>9, <2>11 DEF ModulesAt
    <3> QED
      BY <1>2, <2>11, <3>1
  <2> QED
    BY <2>10, <2>11
<1>8. ModulesWritten'
  BY <1>1, <1>7, ModulesNext
<1> QED
  BY <1>5, <1>6, <1>8 DEF PlaceInv

\* The descriptors follow the count.
LEMMA DescriptorsPlaced ==
  ASSUME DumpTypes, DumpTypes', PlaceInv, WriteModuleDescriptors
  PROVE  PlaceInv'
<1> DEFINE rva == Rva("ModuleList")
           area == ModuleCount * ModuleSize
           sizes == <<area>>
           table == ModuleDescriptors(lists.modules, rva, ModuleCount, cursor.base)
<1>1. /\ Step("ModuleDescriptors", "ModuleNames")
      /\ tables' = [tables EXCEPT !.modules = table]
      /\ cursor' = [cursor EXCEPT !.stringEnd = CodeViewBase(lists.modules, rva, ModuleCount)]
      /\ Write("ModuleList", "descriptors", rva + ULONG32Size, sizes)
      /\ UNCHANGED <<lists, disturbed, measured>>
  BY DEF WriteModuleDescriptors, listVars
<1>2. Now = 6 /\ Now' = 7
  BY <1>1, StepNow, StagesDef
<1>3. /\ ULONG32Size \in Nat /\ rva \in Nat /\ area \in Nat /\ rva + ULONG32Size \in Nat
      /\ rva <= rva + ULONG32Size
  <2>1. ULONG32Size \in Nat /\ ModuleSize \in Nat /\ ModuleCount \in Nat
    BY WalkAssumption, CountsType, Written
  <2>2. rva \in Nat
    BY Written DEF Streams
  <2>3. area \in Nat
    BY <2>1
  <2> HIDE DEF rva
  <2> QED
    BY <2>1, <2>2, <2>3
<1>4. sizes \in Seq(Nat) /\ Total(sizes) = area
  BY <1>3, TotalOne
<1>5. "ModuleList" \in Streams /\ "descriptors" \in Parts
  BY DEF Streams, Parts
<1> HIDE DEF sizes, table
<1>6. Filled' /\ RingWritten' /\ ThreadNamesWritten' /\ TablesType' /\ tables'.modules = table
  <2>1. Now \in 5 .. 8 /\ Now' \in 6 .. 9
    BY <1>2
  <2>2. DumpTypes /\ DumpTypes' /\ PlaceInv
    OBVIOUS
  <2>3. Write("ModuleList", "descriptors", rva + ULONG32Size, sizes) \/ file' = file
    BY <1>1
  <2> QED
    BY Zenon, <1>1, <1>3, <1>4, <1>5, <2>1, <2>2, <2>3, ModulePlaced
<1>7. RecordsInList'
  BY <1>2, StagesDef DEF RecordsInList
<1>8. ASSUME "modules" \notin disturbed
      PROVE  ModulesAt(7, cursor'.base, cursor'.position, tables'.modules, file')
  <2>1. ModulesWritten /\ Past("count")
    BY <1>2, NowDef, StagesDef DEF PlaceInv
  <2>2. ModulesAt(6, cursor.base, cursor.position, tables.modules, file)
    BY <1>2, <1>8, <2>1, ModulesNow
  <2>3. /\ measured.modules = CountModules(lists.modules)
        /\ lists.modules.first # Lost /\ cursor.base = Records0
        /\ PiecesIn(file, "ModuleList", "name") = {} /\ PiecesIn(file, "ModuleList", "record") = {}
        /\ TakenIn(file, "ModuleList") = ULONG32Size /\ EndsIn(file, "ModuleList", Rva("UnloadedModules"))
    BY <2>2 DEF ModulesAt
  <2>4. /\ Rva("UnloadedModules") = Records0 + Total(CountedRecords)
        /\ Records0 = Names0 + Total(CountedNames) /\ Names0 \in Nat /\ Records0 \in Nat
        /\ Total(CountedNames) \in Nat /\ Total(CountedRecords) \in Nat
        /\ Names0 = rva + ULONG32Size + area
    BY <1>8, <2>1, ModuleSpace
  <2> HIDE DEF rva, area
  <2>5. /\ (rva + ULONG32Size) + area <= Rva("UnloadedModules") /\ Rva("UnloadedModules") \in Nat
        /\ ULONG32Size + area = Names0 - rva
    BY <1>3, <2>4
  <2>6. /\ PiecesIn(file', "ModuleList", "name") = {} /\ PiecesIn(file', "ModuleList", "record") = {}
        /\ TakenIn(file', "ModuleList") = TakenIn(file, "ModuleList") + Total(sizes)
        /\ EndsIn(file', "ModuleList", Rva("UnloadedModules"))
    BY <1>1, <1>3, <1>4, <1>5, <2>3, <2>5, OwnWritten
  <2>7. TakenIn(file', "ModuleList") = Names0 - Rva("ModuleList")
    BY <1>4, <2>3, <2>5, <2>6 DEF rva
  <2>8. cursor'.base = Records0
    BY <1>1, <2>3 DEF DumpTypes
  <2>9. tables'.modules = ModuleDescriptors(lists.modules, Rva("ModuleList"), ModuleCount, Records0)
    BY <1>6, <2>3 DEF table, rva
  <2> QED
    BY <2>3, <2>6, <2>7, <2>8, <2>9 DEF ModulesAt
<1>9. ModulesWritten'
  BY <1>1, <1>2, <1>8, ModulesNext
<1> QED
  BY <1>6, <1>7, <1>9 DEF PlaceInv

\* The strings of a list that has as many modules as were counted.
LEMMA CountedStrings ==
  ASSUME NEW list \in LoaderList, NEW count \in Nat, Len(Walk(list, count)) = count
  PROVE  ModuleStrings(list, count) = NameSizes(Walk(list, count))
<1> DEFINE walked == Walk(list, count)
<1>1. DOMAIN walked = 1 .. count
  <2>1. walked \in Seq(Entry)
    BY WalkDef
  <2> QED
    BY <2>1
<1>2. ModuleStrings(list, count) =
        [i \in 1 .. count |-> IF i > Len(walked) THEN MinidumpStringSize(0) ELSE NameStorage(walked[i])]
  BY DEF ModuleStrings
<1>3. NameSizes(walked) = [i \in 1 .. count |-> NameStorage(walked[i])]
  BY <1>1 DEF NameSizes
<1> HIDE DEF walked
<1>4. \A i \in 1 .. count : ~(i > Len(walked))
  BY DEF walked
<1> QED
  BY <1>2, <1>3, <1>4 DEF walked

\* The names follow the descriptors, or zeros do.
LEMMA ModuleNamesPlaced ==
  ASSUME DumpTypes, DumpTypes', NamesEndLater, PlaceInv, WriteModuleNames
  PROVE  PlaceInv'
<1> DEFINE lost == lists.modules.first = Lost
           rva == Rva("ModuleList")
           at == StringRva(rva, ModuleCount)
           sizes == IF lost THEN <<cursor.stringEnd - at>> ELSE ModuleStrings(lists.modules, ModuleCount)
           part == IF lost THEN "zeros" ELSE "name"
<1>1. /\ Step("ModuleNames", IF lost THEN "UnloadedEntries" ELSE "ModuleRecords")
      /\ Write("ModuleList", part, at, sizes)
      /\ cursor' = [cursor EXCEPT !.position = at + Total(sizes)]
      /\ UNCHANGED <<lists, disturbed, measured, tables>>
  BY DEF WriteModuleNames, listVars
<1>2. /\ Now = 7 /\ Now' = IF lost THEN 9 ELSE 8
      /\ stage = "ModuleNames"
  BY <1>1, StepNow, StagesDef DEF Step
<1>3. "ModuleList" \in Streams /\ part \in Parts
  BY DEF Streams, Parts
<1>4. at \in Nat /\ ModuleCount \in Nat /\ rva \in Nat /\ rva <= at
  <2>1. rva \in Nat /\ ModuleCount \in Nat
    BY <1>3, Written, CountsType
  <2>2. /\ at \in Nat /\ at = rva + ULONG32Size + ModuleCount * ModuleSize
        /\ ModuleCount * ModuleSize \in Nat
    BY Zenon, <2>1, StringRvaType
  <2> DEFINE a == ModuleCount * ModuleSize
  <2> HIDE DEF rva, at, a
  <2>3. a \in Nat /\ at = rva + ULONG32Size + a /\ ULONG32Size \in Nat
    BY <2>2, WalkAssumption DEF a
  <2>4. rva <= at
    BY <2>1, <2>3
  <2> QED
    BY <2>1, <2>2, <2>4
<1>5. sizes \in Seq(Nat)
  <2>1. cursor.stringEnd >= at /\ cursor.stringEnd \in Nat
    BY <1>2, Written DEF NamesEndLater
  <2> HIDE DEF at
  <2>2. <<cursor.stringEnd - at>> \in Seq(Nat)
    BY <1>4, <2>1
  <2>3. ModuleStrings(lists.modules, ModuleCount) \in Seq(Nat)
    BY <1>4, Written, ModuleStringsType
  <2> QED
    BY <2>2, <2>3
<1>6. tables' = [tables EXCEPT !.modules = tables.modules]
  BY <1>1 DEF PlaceInv, TablesType
<1>7. cursor'.position = at + Total(sizes) /\ cursor'.base = cursor.base /\ Total(sizes) \in Nat
  BY Zenon, <1>1, <1>5, TotalDef DEF DumpTypes
<1> HIDE DEF sizes, part, at, rva, lost
<1>8. Filled' /\ RingWritten' /\ ThreadNamesWritten' /\ TablesType' /\ tables'.modules = tables.modules
  <2>1. Now \in 5 .. 8 /\ Now' \in 6 .. 9 /\ Rva("ModuleList") <= at
    BY <1>2, <1>4 DEF rva
  <2>2. DumpTypes /\ DumpTypes' /\ PlaceInv
    OBVIOUS
  <2>3. Write("ModuleList", part, at, sizes) \/ file' = file
    BY <1>1
  <2> QED
    BY Zenon, <1>1, <1>3, <1>4, <1>5, <1>6, <2>1, <2>2, <2>3, ModulePlaced
<1>9. RecordsInList'
  <2>1. Rva("ModuleList")' = rva
    BY <1>1, Same DEF rva
  <2>2. cursor'.position >= rva
    BY <1>4, <1>7
  <2> QED
    BY <2>1, <2>2 DEF RecordsInList
<1>10. ASSUME "modules" \notin disturbed
       PROVE  ~lost /\ ModulesAt(8, cursor'.base, cursor'.position, tables'.modules, file')
  <2>1. ModulesWritten /\ Past("count")
    BY <1>2, NowDef, StagesDef DEF PlaceInv
  <2>2. ModulesAt(7, cursor.base, cursor.position, tables.modules, file)
    BY <1>2, <1>10, <2>1, ModulesNow
  <2>3. /\ measured.modules = CountModules(lists.modules)
        /\ ~lost /\ lists.modules.first # Lost /\ cursor.base = Records0
        /\ tables.modules = ModuleDescriptors(lists.modules, Rva("ModuleList"), ModuleCount, Records0)
        /\ PiecesIn(file, "ModuleList", "name") = {} /\ PiecesIn(file, "ModuleList", "record") = {}
        /\ TakenIn(file, "ModuleList") = Names0 - Rva("ModuleList")
        /\ EndsIn(file, "ModuleList", Rva("UnloadedModules"))
    BY <2>2 DEF ModulesAt, lost
  <2>4. /\ Rva("UnloadedModules") = Records0 + Total(CountedRecords)
        /\ Records0 = Names0 + Total(CountedNames) /\ Names0 \in Nat /\ Records0 \in Nat
        /\ Total(CountedNames) \in Nat /\ Total(CountedRecords) \in Nat
        /\ Len(Walk(lists.modules, ModuleCount)) = ModuleCount
    BY <1>10, <2>1, ModuleSpace
  <2>5. sizes = CountedNames /\ at = Names0
    <3>1. lists.modules \in LoaderList
      BY Written
    <3>2. ModuleStrings(lists.modules, ModuleCount) = CountedNames
      BY <1>4, <2>4, <3>1, CountedStrings DEF CountedNames
    <3> QED
      BY <2>3, <3>2 DEF sizes, at, Names0, rva, lost
  <2>6. at + Total(sizes) <= Rva("UnloadedModules") /\ Rva("UnloadedModules") \in Nat
        /\ at + Total(sizes) = Records0
    BY <2>4, <2>5
  <2>7. part = "name"
    BY <2>3 DEF part
  <2>8. /\ PiecesIn(file', "ModuleList", "name") = PiecesIn(file, "ModuleList", "name") \cup Places(at, sizes)
        /\ PiecesIn(file', "ModuleList", "record") = {}
        /\ TakenIn(file', "ModuleList") = TakenIn(file, "ModuleList") + Total(sizes)
        /\ EndsIn(file', "ModuleList", Rva("UnloadedModules"))
    BY <1>1, <1>3, <1>4, <1>5, <2>3, <2>6, <2>7, OwnWritten
  <2>9. PiecesIn(file', "ModuleList", "name") = Places(Names0, CountedNames)
    BY <2>3, <2>5, <2>8
  <2>10. TakenIn(file', "ModuleList") = Records0 - Rva("ModuleList")
    BY <1>4, <2>3, <2>4, <2>5, <2>8 DEF rva
  <2> QED
    BY <1>1, <1>7, <2>3, <2>6, <2>8, <2>9, <2>10 DEF ModulesAt
<1>11. ModulesWritten'
  BY <1>1, <1>2, <1>10, ModulesNext
<1> QED
  BY <1>8, <1>9, <1>11 DEF PlaceInv

\* The records go where the names ended.
LEMMA ModuleRecordsPlaced ==
  ASSUME DumpTypes, DumpTypes', PlaceInv, WriteModuleRecords
  PROVE  PlaceInv'
<1> DEFINE lost == lists.modules.first = Lost
           rva == Rva("ModuleList")
           at == cursor.position
           sizes == ModuleRecords(lists.modules, ModuleCount)
<1>1. /\ Step("ModuleRecords", "UnloadedEntries")
      /\ IF lost THEN file' = file ELSE Write("ModuleList", "record", at, sizes)
      /\ UNCHANGED <<lists, disturbed, measured, tables, cursor>>
  BY DEF WriteModuleRecords, listVars
<1>2. Now = 8 /\ Now' = 9
  BY <1>1, StepNow, StagesDef
<1>3. "ModuleList" \in Streams /\ "record" \in Parts
  BY DEF Streams, Parts
<1>4. at \in Nat /\ rva \in Nat /\ rva <= at
  <2>1. at \in Nat /\ rva \in Nat
    BY <1>3, Written
  <2>2. at >= rva
    BY <1>2, StagesDef DEF PlaceInv, RecordsInList
  <2> QED
    BY <2>1, <2>2
<1>5. sizes \in Seq(Nat) /\ sizes = CountedRecords
  BY Zenon, Written, CountsType, ModuleRecordsDef DEF CountedRecords
<1>6. tables' = [tables EXCEPT !.modules = tables.modules]
  BY <1>1 DEF PlaceInv, TablesType
<1> HIDE DEF sizes, at, rva, lost
<1>7. Filled' /\ RingWritten' /\ ThreadNamesWritten' /\ TablesType' /\ tables'.modules = tables.modules
  <2>1. Now \in 5 .. 8 /\ Now' \in 6 .. 9 /\ Rva("ModuleList") <= at
    BY <1>2, <1>4 DEF rva
  <2>2. DumpTypes /\ DumpTypes' /\ PlaceInv
    OBVIOUS
  <2>3. Write("ModuleList", "record", at, sizes) \/ file' = file
    BY <1>1
  <2> QED
    BY Zenon, <1>1, <1>3, <1>4, <1>5, <1>6, <2>1, <2>2, <2>3, ModulePlaced
<1>8. RecordsInList'
  BY <1>2, StagesDef DEF RecordsInList
<1>9. ASSUME "modules" \notin disturbed
      PROVE  ModulesAt(9, cursor'.base, cursor'.position, tables'.modules, file')
  <2>1. ModulesWritten /\ Past("count")
    BY <1>2, NowDef, StagesDef DEF PlaceInv
  <2>2. ModulesAt(8, cursor.base, cursor.position, tables.modules, file)
    BY <1>2, <1>9, <2>1, ModulesNow
  <2>3. /\ measured.modules = CountModules(lists.modules)
        /\ ~lost /\ at = Records0
        /\ tables.modules = ModuleDescriptors(lists.modules, Rva("ModuleList"), ModuleCount, Records0)
        /\ PiecesIn(file, "ModuleList", "name") = Places(Names0, CountedNames)
        /\ PiecesIn(file, "ModuleList", "record") = {}
        /\ TakenIn(file, "ModuleList") = Records0 - Rva("ModuleList")
        /\ EndsIn(file, "ModuleList", Rva("UnloadedModules"))
    BY <2>2 DEF ModulesAt, lost, at
  <2>4. /\ Rva("UnloadedModules") = Records0 + Total(CountedRecords) /\ Records0 \in Nat
        /\ Total(CountedRecords) \in Nat
        /\ Storage("ModuleList") = (Records0 - Rva("ModuleList")) + Total(CountedRecords)
    BY <1>9, <2>1, ModuleSpace
  <2>5. at + Total(sizes) <= Rva("UnloadedModules") /\ Rva("UnloadedModules") \in Nat
    BY <1>5, <2>3, <2>4
  <2>6. Write("ModuleList", "record", at, sizes)
    BY <1>1, <2>3
  <2>7. /\ PiecesIn(file', "ModuleList", "record") = PiecesIn(file, "ModuleList", "record") \cup Places(at, sizes)
        /\ PiecesIn(file', "ModuleList", "name") = PiecesIn(file, "ModuleList", "name")
        /\ TakenIn(file', "ModuleList") = TakenIn(file, "ModuleList") + Total(sizes)
        /\ EndsIn(file', "ModuleList", Rva("UnloadedModules"))
    BY <1>3, <1>4, <1>5, <2>3, <2>5, <2>6, OwnWritten
  <2>8. PiecesIn(file', "ModuleList", "record") = Places(Records0, CountedRecords)
    BY Zenon, <1>5, <2>3, <2>7
  <2>9. TakenIn(file', "ModuleList") = Storage("ModuleList")
    BY <1>5, <2>3, <2>4, <2>7
  <2> QED
    BY <1>1, <2>3, <2>7, <2>8, <2>9 DEF ModulesAt
<1>10. ModulesWritten'
  BY <1>1, <1>2, <1>9, ModulesNext
<1> QED
  BY <1>7, <1>8, <1>10 DEF PlaceInv

\* A step that writes of the unloaded modules.
LEMMA RingPlaced ==
  ASSUME DumpTypes, DumpTypes', PlaceInv, NEW part \in Parts, NEW at \in Nat, NEW sizes \in Seq(Nat),
         Write("UnloadedModules", part, at, sizes) \/ file' = file, Rva("UnloadedModules") <= at,
         Now \in 9 .. 10, Now' \in 10 .. 11, UNCHANGED <<lists, disturbed, measured, cursor>>,
         NEW unloaded, tables' = [tables EXCEPT !.unloaded = unloaded]
  PROVE  /\ Filled' /\ ModulesWritten' /\ ThreadNamesWritten' /\ TablesType' /\ RecordsInList'
         /\ tables'.unloaded = unloaded
<1>1. "UnloadedModules" \in Streams
  BY DEF Streams
<1>2. /\ TablesType' /\ tables'.unloaded = unloaded
      /\ tables'.modules = tables.modules /\ tables'.names = tables.names
  BY DEF PlaceInv, TablesType
<1>3. Reached \in {2, 3} /\ Reached' = 3 /\ Place("UnloadedModules") = 3
  BY ReachedDef, ReachedNext, PlaceDef DEF Standing
<1>4. OthersKept("UnloadedModules") /\ InOrder(file', Reached')
  <2>1. CASE Write("UnloadedModules", part, at, sizes)
    <3>1. Appended(file, "UnloadedModules", part, at, sizes, file')
      BY <1>1, <2>1, WriteAppends
    <3>2. Reached <= Place("UnloadedModules") /\ Place("UnloadedModules") <= Reached'
      BY <1>3
    <3> QED
      BY <1>1, <3>1, <3>2, WrittenOthers, WrittenOrder DEF PlaceInv
  <2>2. CASE file' = file
    <3>1. Reached <= Reached'
      BY <1>3
    <3> QED
      BY <2>2, <3>1, UnwrittenOthers, UnwrittenOrder DEF PlaceInv
  <2> QED
    BY <2>1, <2>2
<1>5. \A x \in WholeStreams : ~Past(x)'
  BY StagesDef, NowDef DEF WholeStreams
<1>6. Filled'
  BY <1>4, <1>5, FilledKept DEF PlaceInv
<1>7. ModulesWritten'
  <2>1. Now >= 9 /\ Now' >= 9
    OBVIOUS
  <2> QED
    BY <1>2, <1>4, <2>1, ModulesKept DEF PlaceInv
<1>8. ThreadNamesWritten'
  <2>1. Now > 12 <=> Now' > 12
    OBVIOUS
  <2> QED
    BY <1>2, <1>4, <2>1, ThreadNamesKept DEF PlaceInv
<1>9. RecordsInList'
  BY StagesDef DEF RecordsInList
<1> QED
  BY <1>2, <1>6, <1>7, <1>8, <1>9

\* What RingWritten says of a ring that does not change.
RingAt(n, table, f) ==
  /\ n > 3 => measured.unloaded = CountUnloadedModules(lists.ring)
  /\ table = IF n > 9 THEN [i \in DOMAIN RingSizes |-> RingNames0 + PrefixSums(RingSizes)[i - 1]] ELSE <<>>
  /\ PiecesIn(f, "UnloadedModules", "name") = IF n > 10 THEN Places(RingNames0, RingSizes) ELSE {}
  /\ TakenIn(f, "UnloadedModules") =
       CASE ~(n > 9) -> 0
         [] n = 10   -> RingNames0 - Rva("UnloadedModules")
         [] OTHER    -> Storage("UnloadedModules")
  /\ n = 10 => UnloadedCount # 0 /\ CoveredIn(f, "UnloadedModules", Rva("UnloadedModules"), RingNames0)
  /\ n > 10 => CoveredIn(f, "UnloadedModules", Rva("UnloadedModules"),
                         Rva("UnloadedModules") + Storage("UnloadedModules"))

LEMMA RingNow == RingWritten <=> ("ring" \notin disturbed => RingAt(Now, tables.unloaded, file))
  BY StagesDef, NowDef DEF RingWritten, RingAt, SpaceFilled

LEMMA RingNext ==
  ASSUME measured' = measured, lists' = lists, disturbed' = disturbed
  PROVE  RingWritten' <=> ("ring" \notin disturbed => RingAt(Now', tables'.unloaded, file'))
<1>1. /\ Rva("UnloadedModules")' = Rva("UnloadedModules") /\ UnloadedCount' = UnloadedCount
      /\ Storage("UnloadedModules")' = Storage("UnloadedModules")
      /\ RingNames0' = RingNames0 /\ RingSizes' = RingSizes
  BY Same, SameMeasures
<1>2. /\ PiecesIn(file, "UnloadedModules", "name")' = PiecesIn(file', "UnloadedModules", "name")
      /\ TakenIn(file, "UnloadedModules")' = TakenIn(file', "UnloadedModules")
      /\ CoveredIn(file, "UnloadedModules", Rva("UnloadedModules"), RingNames0)'
           <=> CoveredIn(file', "UnloadedModules", Rva("UnloadedModules"), RingNames0)
      /\ SpaceFilled("UnloadedModules")'
           <=> CoveredIn(file', "UnloadedModules", Rva("UnloadedModules"),
                         Rva("UnloadedModules") + Storage("UnloadedModules"))
  BY <1>1, SameFile DEF CoveredIn, SpaceFilled
<1>3. \A step : Past(step)' <=> Now' > At(step)
  BY NowDef
<1> QED
  BY <1>1, <1>2, <1>3, StagesDef DEF RingWritten, RingAt

\* The space that was measured for a ring that did not change since.
LEMMA RingSpace ==
  ASSUME DumpTypes, RingWritten, "ring" \notin disturbed, Past("count")
  PROVE  LET walked == UnloadedWalk(lists.ring, UnloadedCount)
         IN  /\ RingSizes \in Seq(Nat) /\ Len(RingSizes) = UnloadedCount /\ Len(walked) = UnloadedCount
             /\ RingSizes = UnloadedSizes(walked) /\ Total(RingSizes) \in Nat
             /\ RingNames0 \in Nat /\ RingNames0 = Rva("UnloadedModules") + (UnloadedHeader + UnloadedCount * UnloadedSize)
             /\ UnloadedHeader + UnloadedCount * UnloadedSize \in Nat
             /\ UnloadedCount # 0 => Storage("UnloadedModules") =
                                       UnloadedHeader + UnloadedCount * UnloadedSize + Total(RingSizes)
             /\ UnloadedCount = 0 => Storage("UnloadedModules") = 0 /\ RingSizes = <<>>
             /\ [i \in DOMAIN walked |-> RingNames0 + SumBefore(UnloadedName, walked, i)]
                  = [i \in DOMAIN RingSizes |-> RingNames0 + PrefixSums(RingSizes)[i - 1]]
<1> DEFINE valid == UnloadedModules(lists.ring)
           walked == UnloadedWalk(lists.ring, UnloadedCount)
<1>1. /\ lists.ring \in UnloadRing /\ Rva("UnloadedModules") \in Nat /\ UnloadedCount \in Nat
      /\ measured.unloaded = CountUnloadedModules(lists.ring)
  BY Written, CountsType DEF RingWritten, Streams
<1>2. /\ UnloadedCount = Len(valid) /\ measured.unloaded.names = SumOf(UnloadedName, valid)
      /\ measured.unloaded.count = UnloadedCount
  BY <1>1 DEF CountUnloadedModules, UnloadedCount
<1>3. valid \in Seq(RingSlot) /\ walked = valid
  BY <1>1, <1>2, UnloadedModulesType, UnloadedWalkType
<1>4. RingSizes = UnloadedSizes(valid)
  BY DEF RingSizes
<1> HIDE DEF valid, walked
<1>5. /\ RingSizes \in Seq(Nat) /\ Len(RingSizes) = UnloadedCount
      /\ \A i \in 1 .. Len(valid) + 1 : SumBefore(UnloadedName, valid, i) = PrefixSums(RingSizes)[i - 1]
      /\ SumOf(UnloadedName, valid) = Total(RingSizes) /\ Total(RingSizes) \in Nat
  BY <1>2, <1>3, <1>4, UnloadedSizesDef, TotalDef
<1>6. /\ UnloadedCount * UnloadedSize \in Nat /\ UnloadedHeader \in Nat
      /\ UnloadedHeader + UnloadedCount * UnloadedSize \in Nat
  <2>1. UnloadedHeader \in Nat /\ UnloadedSize \in Nat
    BY WalkAssumption
  <2>2. UnloadedCount * UnloadedSize \in Nat
    BY <1>1, <2>1
  <2> QED
    BY <2>1, <2>2
<1>7. RingNames0 \in Nat /\ RingNames0 = Rva("UnloadedModules") + (UnloadedHeader + UnloadedCount * UnloadedSize)
  <2> DEFINE a == UnloadedCount * UnloadedSize
             v == Rva("UnloadedModules")
  <2>1. RingNames0 = v + UnloadedHeader + a /\ a \in Nat /\ v \in Nat
    BY <1>1, <1>6 DEF RingNames0, UnloadedStringRva
  <2> HIDE DEF a, v
  <2>2. RingNames0 \in Nat /\ RingNames0 = v + (UnloadedHeader + a)
    BY <1>6, <2>1
  <2> QED
    BY <2>2 DEF a, v
<1>8. /\ UnloadedCount # 0 => Storage("UnloadedModules") =
                                UnloadedHeader + UnloadedCount * UnloadedSize + Total(RingSizes)
      /\ UnloadedCount = 0 => Storage("UnloadedModules") = 0
  BY <1>2, <1>5 DEF Storage
<1>9. UnloadedCount = 0 => RingSizes = <<>>
  BY <1>5
<1>10. [i \in DOMAIN walked |-> RingNames0 + SumBefore(UnloadedName, walked, i)]
         = [i \in DOMAIN RingSizes |-> RingNames0 + PrefixSums(RingSizes)[i - 1]]
  <2>1. DOMAIN valid = 1 .. Len(valid) /\ DOMAIN RingSizes = 1 .. Len(valid) /\ Len(valid) \in Nat
    BY <1>2, <1>3, <1>5
  <2>2. \A i \in 1 .. Len(valid) : i \in 1 .. Len(valid) + 1
    BY <2>1
  <2>3. \A i \in 1 .. Len(valid) : SumBefore(UnloadedName, valid, i) = PrefixSums(RingSizes)[i - 1]
    BY <1>5, <2>2
  <2> QED
    BY <1>3, <2>1, <2>3
<1> QED
  BY <1>2, <1>3, <1>4, <1>5, <1>6, <1>7, <1>8, <1>9, <1>10 DEF walked

\* The header and the entries of the ring, unless it is empty.
LEMMA EntriesPlaced ==
  ASSUME DumpTypes, DumpTypes', PlaceInv, WriteUnloadedEntries
  PROVE  PlaceInv'
<1> DEFINE none == UnloadedCount = 0
           rva == Rva("UnloadedModules")
           walked == UnloadedWalk(lists.ring, UnloadedCount)
           sizes == <<UnloadedHeader + Len(walked) * UnloadedSize>>
           offsets == [i \in DOMAIN walked |->
                         UnloadedStringRva(rva, UnloadedCount) + SumBefore(UnloadedName, walked, i)]
           table == IF none THEN tables.unloaded ELSE offsets
<1>1. /\ Step("UnloadedEntries", IF none THEN "ThreadList" ELSE "UnloadedNames")
      /\ none => tables' = tables /\ file' = file
      /\ ~none => /\ tables' = [tables EXCEPT !.unloaded = offsets]
                  /\ Write("UnloadedModules", "entries", rva, sizes)
      /\ UNCHANGED <<lists, disturbed, measured, cursor>>
  BY DEF WriteUnloadedEntries, listVars
<1>2. Now = 9 /\ Now' = IF none THEN 11 ELSE 10
  BY <1>1, StepNow, StagesDef
<1>3. /\ "UnloadedModules" \in Streams /\ "entries" \in Parts /\ rva \in Nat /\ rva <= rva
      /\ sizes \in Seq(Nat) /\ Len(walked) \in Nat
  <2>1. rva \in Nat /\ sizes \in Seq(Nat) /\ Len(walked) \in Nat
    BY UnloadedSizesType
  <2> QED
    BY <2>1 DEF Streams, Parts
<1>4. Total(sizes) = UnloadedHeader + Len(walked) * UnloadedSize
  <2>1. UnloadedHeader + Len(walked) * UnloadedSize \in Nat
    BY <1>3
  <2> QED
    BY <2>1, TotalOne
<1>5. tables' = [tables EXCEPT !.unloaded = table]
  <2>1. tables = [tables EXCEPT !.unloaded = tables.unloaded]
    BY DEF PlaceInv, TablesType
  <2> QED
    BY <1>1, <2>1
<1> HIDE DEF walked, sizes, offsets, table
<1>6. /\ Filled' /\ ModulesWritten' /\ ThreadNamesWritten' /\ TablesType' /\ RecordsInList'
      /\ tables'.unloaded = table
  <2>1. Now \in 9 .. 10 /\ Now' \in 10 .. 11
    BY <1>2
  <2>2. DumpTypes /\ DumpTypes' /\ PlaceInv
    OBVIOUS
  <2>3. Write("UnloadedModules", "entries", rva, sizes) \/ file' = file
    BY <1>1
  <2> QED
    BY Zenon, <1>1, <1>3, <1>5, <2>1, <2>2, <2>3, RingPlaced
<1>7. ASSUME "ring" \notin disturbed
      PROVE  RingAt(Now', tables'.unloaded, file')
  <2>1. RingWritten /\ Past("count")
    BY <1>2, NowDef, StagesDef DEF PlaceInv
  <2>2. RingAt(9, tables.unloaded, file)
    BY <1>2, <1>7, <2>1, RingNow
  <2>3. /\ measured.unloaded = CountUnloadedModules(lists.ring) /\ tables.unloaded = <<>>
        /\ PiecesIn(file, "UnloadedModules", "name") = {} /\ TakenIn(file, "UnloadedModules") = 0
    BY <2>2 DEF RingAt
  <2>4. /\ RingSizes \in Seq(Nat) /\ Len(walked) = UnloadedCount
        /\ RingNames0 \in Nat /\ RingNames0 = rva + (UnloadedHeader + UnloadedCount * UnloadedSize)
        /\ UnloadedHeader + UnloadedCount * UnloadedSize \in Nat
        /\ UnloadedCount = 0 => Storage("UnloadedModules") = 0 /\ RingSizes = <<>>
        /\ [i \in DOMAIN walked |-> RingNames0 + SumBefore(UnloadedName, walked, i)]
             = [i \in DOMAIN RingSizes |-> RingNames0 + PrefixSums(RingSizes)[i - 1]]
    BY <1>7, <2>1, RingSpace DEF walked
  <2>5. CASE none
    <3>1. [i \in DOMAIN RingSizes |-> RingNames0 + PrefixSums(RingSizes)[i - 1]] = <<>>
          /\ Places(RingNames0, RingSizes) = {}
      BY <2>4, <2>5 DEF Places
    <3>2. CoveredIn(file', "UnloadedModules", rva, rva + Storage("UnloadedModules"))
      <4>1. rva + Storage("UnloadedModules") = rva
        BY <1>3, <2>4, <2>5
      <4> HIDE DEF rva
      <4>2. \A byte \in rva .. rva - 1 : FALSE
        BY <1>3
      <4>3. CoveredIn(file', "UnloadedModules", rva, rva)
        BY Zenon, <4>2 DEF CoveredIn
      <4> QED
        BY <4>1, <4>3
    <3>3. RingAt(11, tables'.unloaded, file')
      <4>1. /\ tables'.unloaded = <<>> /\ PiecesIn(file', "UnloadedModules", "name") = {}
            /\ TakenIn(file', "UnloadedModules") = Storage("UnloadedModules")
        BY <1>1, <2>3, <2>4, <2>5
      <4>2. (11 > 9) /\ (11 > 10) /\ 11 # 10
        OBVIOUS
      <4> QED
        BY Zenon, <2>3, <3>1, <3>2, <4>1, <4>2 DEF RingAt
    <3> QED
      BY <1>2, <2>5, <3>3
  <2>6. CASE ~none
    <3>1. /\ PiecesIn(file', "UnloadedModules", "name") = {}
          /\ TakenIn(file', "UnloadedModules") = TakenIn(file, "UnloadedModules") + Total(sizes)
          /\ CoveredIn(file', "UnloadedModules", rva, rva + Total(sizes))
      BY <1>1, <1>3, <2>3, <2>6, OwnWritten
    <3>2. rva + Total(sizes) = RingNames0 /\ 0 + Total(sizes) = RingNames0 - rva
      <4> DEFINE a == UnloadedHeader + UnloadedCount * UnloadedSize
      <4>1. a \in Nat /\ Total(sizes) = a /\ RingNames0 = rva + a
        BY <1>4, <2>4
      <4> HIDE DEF a, rva
      <4> QED
        BY <1>3, <4>1
    <3>3. offsets = [i \in DOMAIN RingSizes |-> RingNames0 + PrefixSums(RingSizes)[i - 1]]
      BY <2>4 DEF offsets, RingNames0
    <3>4. tables'.unloaded = offsets
      BY <1>6, <2>6 DEF table
    <3>5. RingAt(10, tables'.unloaded, file')
      BY <2>3, <2>6, <3>1, <3>2, <3>3, <3>4 DEF RingAt
    <3> QED
      BY <1>2, <2>6, <3>5
  <2> QED
    BY <2>5, <2>6
<1>8. RingWritten'
  BY <1>1, <1>7, RingNext
<1> QED
  BY <1>6, <1>8 DEF PlaceInv

\* The names of the ring follow its entries.
LEMMA UnloadedNamesPlaced ==
  ASSUME DumpTypes, DumpTypes', PlaceInv, WriteUnloadedNames
  PROVE  PlaceInv'
<1> DEFINE rva == Rva("UnloadedModules")
           walked == UnloadedWalk(lists.ring, UnloadedCount)
           at == UnloadedStringRva(rva, UnloadedCount)
           sizes == UnloadedSizes(walked)
<1>1. /\ Step("UnloadedNames", "ThreadList")
      /\ Write("UnloadedModules", "name", at, sizes)
      /\ UNCHANGED <<lists, disturbed, measured, tables, cursor>>
  <2>1. [i \in DOMAIN walked |-> UnloadedName(walked[i])] = sizes
    BY UnloadedSizesType
  <2> QED
    BY <2>1 DEF WriteUnloadedNames, listVars
<1>2. Now = 10 /\ Now' = 11
  BY <1>1, StepNow, StagesDef
<1>3. /\ "UnloadedModules" \in Streams /\ "name" \in Parts /\ rva \in Nat /\ at \in Nat
      /\ sizes \in Seq(Nat)
  <2>1. rva \in Nat /\ at \in Nat /\ sizes \in Seq(Nat)
    BY UnloadedSizesType
  <2> QED
    BY <2>1 DEF Streams, Parts
<1>4. rva <= at
  <2> DEFINE a == UnloadedCount * UnloadedSize
  <2>1. a \in Nat /\ UnloadedHeader \in Nat
    <3>1. UnloadedCount \in Nat /\ UnloadedSize \in Nat /\ UnloadedHeader \in Nat
      BY CountsType, Written, WalkAssumption
    <3> QED
      BY <3>1
  <2>2. at = rva + UnloadedHeader + a
    BY DEF UnloadedStringRva
  <2> HIDE DEF a, rva, at
  <2> QED
    BY <1>3, <2>1, <2>2
<1>5. tables' = [tables EXCEPT !.unloaded = tables.unloaded]
  BY <1>1 DEF PlaceInv, TablesType
<1> HIDE DEF walked, sizes, at
<1>6. /\ Filled' /\ ModulesWritten' /\ ThreadNamesWritten' /\ TablesType' /\ RecordsInList'
      /\ tables'.unloaded = tables.unloaded
  <2>1. Now \in 9 .. 10 /\ Now' \in 10 .. 11
    BY <1>2
  <2>2. DumpTypes /\ DumpTypes' /\ PlaceInv
    OBVIOUS
  <2>3. Write("UnloadedModules", "name", at, sizes) \/ file' = file
    BY <1>1
  <2> QED
    BY Zenon, <1>1, <1>3, <1>4, <1>5, <2>1, <2>2, <2>3, RingPlaced
<1>7. ASSUME "ring" \notin disturbed
      PROVE  RingAt(11, tables'.unloaded, file')
  <2>1. RingWritten /\ Past("count")
    BY <1>2, NowDef, StagesDef DEF PlaceInv
  <2>2. RingAt(10, tables.unloaded, file)
    BY <1>2, <1>7, <2>1, RingNow
  <2>3. /\ measured.unloaded = CountUnloadedModules(lists.ring)
        /\ tables.unloaded = [i \in DOMAIN RingSizes |-> RingNames0 + PrefixSums(RingSizes)[i - 1]]
        /\ PiecesIn(file, "UnloadedModules", "name") = {}
        /\ TakenIn(file, "UnloadedModules") = RingNames0 - rva
        /\ UnloadedCount # 0 /\ CoveredIn(file, "UnloadedModules", rva, RingNames0)
    BY <2>2 DEF RingAt
  <2>4. /\ RingSizes = sizes /\ Total(RingSizes) \in Nat
        /\ RingNames0 \in Nat /\ RingNames0 = rva + (UnloadedHeader + UnloadedCount * UnloadedSize)
        /\ UnloadedHeader + UnloadedCount * UnloadedSize \in Nat
        /\ Storage("UnloadedModules") = (UnloadedHeader + UnloadedCount * UnloadedSize) + Total(RingSizes)
    BY <1>7, <2>1, <2>3, RingSpace DEF walked, sizes
  <2>5. at = RingNames0
    BY DEF at, RingNames0
  <2>6. /\ PiecesIn(file', "UnloadedModules", "name") = PiecesIn(file, "UnloadedModules", "name") \cup Places(at, sizes)
        /\ TakenIn(file', "UnloadedModules") = TakenIn(file, "UnloadedModules") + Total(sizes)
        /\ CoveredIn(file', "UnloadedModules", at, at + Total(sizes))
        /\ CoveredIn(file', "UnloadedModules", rva, RingNames0)
    BY <1>1, <1>3, <2>3, OwnWritten
  <2> DEFINE a == UnloadedHeader + UnloadedCount * UnloadedSize
             storage == Storage("UnloadedModules")
  <2>7. /\ a \in Nat /\ RingNames0 = rva + a /\ storage = a + Total(RingSizes)
    BY <2>4
  <2> HIDE DEF a, rva, storage
  <2>8. RingNames0 + Total(RingSizes) = rva + storage /\ TakenIn(file', "UnloadedModules") = storage
    BY <1>3, <2>3, <2>4, <2>6, <2>7
  <2>9. CoveredIn(file', "UnloadedModules", rva, rva + storage)
    <3>1. rva \in Int /\ RingNames0 \in Int /\ RingNames0 + Total(RingSizes) \in Int
      BY <1>3, <2>4
    <3>2. CoveredIn(file', "UnloadedModules", RingNames0, RingNames0 + Total(RingSizes))
      BY <2>4, <2>5, <2>6
    <3>3. CoveredIn(file', "UnloadedModules", rva, RingNames0 + Total(RingSizes))
      BY <2>6, <3>1, <3>2, CoverJoin
    <3> QED
      BY <2>8, <3>3
  <2>10. PiecesIn(file', "UnloadedModules", "name") = Places(RingNames0, RingSizes)
    BY <2>3, <2>4, <2>5, <2>6
  <2> QED
    BY <1>1, <2>3, <2>8, <2>9, <2>10 DEF RingAt, rva, storage
<1>8. RingWritten'
  BY <1>1, <1>2, <1>7, RingNext
<1> QED
  BY <1>6, <1>8 DEF PlaceInv

\* The text of the comment is what was measured, in two pieces, or nothing.
LEMMA CommentWrites ==
  ASSUME SetterInv, DumpTypes, WriteCommentW
  PROVE  \/ file' = file
         \/ \E sizes \in Seq(Nat) : /\ Total(sizes) = Storage("CommentW")
                                    /\ Write("CommentW", "text", Rva("CommentW"), sizes)
<1> SUFFICES ASSUME file' # file
             PROVE  \E sizes \in Seq(Nat) : /\ Total(sizes) = Storage("CommentW")
                                            /\ Write("CommentW", "text", Rva("CommentW"), sizes)
  OBVIOUS
<1>1. PICK length \in IF whole = Whole THEN {TextLength(text)} ELSE LooseEnds :
        LET content == Smaller((length + 1) * WCHARSize, measured.comment)
        IN  Write("CommentW", "text", Rva("CommentW"), <<content, measured.comment - content>>)
  BY DEF WriteCommentW
<1> DEFINE a == (length + 1) * WCHARSize
           content == Smaller(a, measured.comment)
           rest == measured.comment - content
<1>2. length \in Nat
  BY TextBound, EmptyText DEF LooseEnds, SetterInv, SetterTypes, Whole
<1>3. a \in Nat /\ measured.comment \in Nat
  BY Zenon, <1>2, MeasuredComment, Written, CountsType
<1>4. Write("CommentW", "text", Rva("CommentW"), <<content, rest>>)
  BY <1>1
<1>5. Storage("CommentW") = measured.comment
  BY DEF Storage
<1> HIDE DEF a
<1>6. content \in Nat /\ rest \in Nat
  BY Zenon, <1>3, SmallerDef
<1> HIDE DEF content
<1>7. content + rest = measured.comment
  BY <1>3, <1>6
<1> HIDE DEF rest
<1>8. <<content, rest>> \in Seq(Nat) /\ Total(<<content, rest>>) = measured.comment
  BY <1>6, <1>7, TotalTwo
<1> QED
  BY Zenon, <1>4, <1>5, <1>8

LEMMA CommentPlaced ==
  ASSUME SetterInv, DumpTypes, DumpTypes', PlaceInv, WriteCommentW
  PROVE  PlaceInv'
<1>1. /\ Step("CommentW", "CodeViewBase")
      /\ UNCHANGED <<lists, disturbed, measured, tables, cursor>>
  BY DEF WriteCommentW, listVars
<1>2. Now = 4 /\ Now' = 5
  BY <1>1, StepNow, StagesDef
<1>3. "CommentW" \in Streams /\ "text" \in Parts
  BY DEF Streams, Parts
<1>4. Reached = 0 /\ Reached' = 1 /\ Place("CommentW") = 1
  BY <1>2, ReachedDef, ReachedNext, PlaceDef DEF Standing
<1>5. /\ Rva("CommentW") \in Nat /\ Storage("CommentW") \in Nat /\ Rva("ModuleList") \in Nat
      /\ Rva("ModuleList") = Rva("CommentW") + Storage("CommentW")
  BY Written, RvaNext DEF Streams
<1>6. OthersKept("CommentW") /\ InOrder(file', Reached') /\ EndsIn(file', "CommentW", Rva("ModuleList"))
  <2>1. CASE file' = file
    BY <1>4, <2>1, UnwrittenOthers, UnwrittenOrder DEF PlaceInv, Filled
  <2>2. CASE \E sizes \in Seq(Nat) : /\ Total(sizes) = Storage("CommentW")
                                     /\ Write("CommentW", "text", Rva("CommentW"), sizes)
    <3>1. PICK sizes \in Seq(Nat) : /\ Total(sizes) = Storage("CommentW")
                                    /\ Write("CommentW", "text", Rva("CommentW"), sizes)
      BY <2>2
    <3>2. Appended(file, "CommentW", "text", Rva("CommentW"), sizes, file')
      BY <1>3, <1>5, <3>1, WriteAppends
    <3>3. OthersKept("CommentW")
      BY <1>5, <3>2, WrittenOthers
    <3>4. InOrder(file', Reached')
      BY <1>3, <1>4, <1>5, <3>2, WrittenOrder DEF PlaceInv
    <3>5. EndsIn(file, "CommentW", Rva("ModuleList"))
      BY DEF PlaceInv, Filled
    <3>6. Rva("CommentW") + Total(sizes) <= Rva("ModuleList")
      BY <1>5, <3>1
    <3>7. EndsIn(file', "CommentW", Rva("ModuleList"))
      BY <1>3, <1>5, <3>1, <3>5, <3>6, OwnWritten
    <3> QED
      BY <3>3, <3>4, <3>7
  <2> QED
    BY <2>1, <2>2, CommentWrites
<1>7. \A x \in WholeStreams : ~Past(x)'
  BY <1>2, StagesDef, NowDef DEF WholeStreams
<1>8. Filled'
  BY <1>1, <1>6, <1>7, FilledKept DEF PlaceInv
<1>9. ModulesWritten'
  BY <1>1, <1>2, <1>6, ModulesKept DEF PlaceInv
<1>10. RingWritten'
  <2>1. Now \in 4 .. 8 /\ Now' \in 4 .. 9
    BY <1>2
  <2> QED
    BY <1>1, <1>6, <2>1, RingKept DEF PlaceInv
<1>11. ThreadNamesWritten'
  <2>1. Now > 12 <=> Now' > 12
    BY <1>2
  <2> QED
    BY <1>1, <1>6, <2>1, ThreadNamesKept DEF PlaceInv
<1>12. TablesType' /\ RecordsInList'
  BY <1>1, <1>2, StagesDef DEF PlaceInv, TablesType, RecordsInList
<1> QED
  BY <1>8, <1>9, <1>10, <1>11, <1>12 DEF PlaceInv

\* A step that leaves the file alone: of a setter, the end of a dump, or none.
LEMMA SamePlace ==
  ASSUME DumpTypes, DumpTypes', PlaceInv, Now' = Now \/ (Now = 15 /\ Now' = 16),
         UNCHANGED <<lists, disturbed, measured, tables, cursor, file>>
  PROVE  PlaceInv'
<1>1. OthersKept("none") /\ "none" \notin Streams
  BY UnwrittenOthers DEF Streams
<1>2. "none" # "ModuleList" /\ "none" # "UnloadedModules" /\ "none" # "ThreadNames" /\ "none" # "CommentW"
  OBVIOUS
<1>3. Reached <= Reached'
  <2>1. Now' = Now => Reached' = Reached
    BY DEF Reached
  <2>2. Standing /\ Standing'
    BY ReachedDef, ReachedNext
  <2> QED
    BY <2>1, <2>2 DEF Standing
<1>4. \A x \in WholeStreams : Past(x)' => Past(x)
  BY StagesDef, NowDef DEF WholeStreams
<1>5. Filled'
  BY <1>1, <1>2, <1>3, <1>4, UnwrittenOrder, FilledKept DEF PlaceInv
<1>6. Now' = Now \/ (Now >= 9 /\ Now' >= 9)
  OBVIOUS
<1>7. ModulesWritten'
  BY <1>1, <1>2, <1>6, ModulesKept DEF PlaceInv
<1>8. RingWritten'
  <2>1. Now' = Now \/ (Now >= 11 /\ Now' >= 11)
    OBVIOUS
  <2> QED
    BY <1>1, <1>2, <2>1, RingKept DEF PlaceInv
<1>9. ThreadNamesWritten'
  <2>1. Now > 12 <=> Now' > 12
    OBVIOUS
  <2> QED
    BY <1>1, <1>2, <2>1, ThreadNamesKept DEF PlaceInv
<1>10. TablesType' /\ RecordsInList'
  <2>1. Rva("ModuleList")' = Rva("ModuleList")
    BY Same
  <2> QED
    BY <2>1, StagesDef DEF PlaceInv, TablesType, RecordsInList
<1> QED
  BY <1>5, <1>7, <1>8, <1>9, <1>10 DEF PlaceInv

\* A change of one list says nothing of the others, and of that one no more is known.
LEMMA DisturbPlaced ==
  ASSUME DumpTypes, DumpTypes', PlaceInv, Disturb
  PROVE  PlaceInv'
<1>1. UNCHANGED <<stage, measured, tables, cursor, file>>
  BY DEF Disturb, written
<1>2. PICK l \in Lists \ disturbed :
        lists' = [lists EXCEPT ![l] = world.later[l]] /\ disturbed' = disturbed \cup {l}
  BY Zenon DEF Disturb
<1>3. l \in {"modules", "ring", "regions"} /\ DOMAIN lists = {"modules", "ring", "regions"}
  BY <1>2 DEF Lists, LastWalk, DumpTypes, ListStates
<1>4. Now' = Now
  BY <1>1 DEF Now, At, SelectInSeq
<1>5. OthersKept("none") /\ "none" # "ThreadNames" /\ "none" # "CommentW"
  BY <1>1, UnwrittenOthers
<1>6. Filled'
  <2>1. Reached' = Reached
    BY <1>4 DEF Reached
  <2>2. Standing
    BY ReachedDef
  <2>3. InOrder(file', Reached')
    BY <1>1, <2>1, <2>2, UnwrittenOrder DEF Standing, PlaceInv
  <2>4. \A x \in WholeStreams : Past(x)' => Past(x)
    BY <1>4, NowDef
  <2> QED
    BY <1>1, <1>5, <2>3, <2>4, FilledKept DEF PlaceInv
<1>7. /\ Names0' = Names0 /\ RingNames0' = RingNames0
      /\ Rva("ModuleList")' = Rva("ModuleList") /\ ModuleCount' = ModuleCount
      /\ Rva("UnloadedModules")' = Rva("UnloadedModules") /\ UnloadedCount' = UnloadedCount
      /\ \A stream : Storage(stream)' = Storage(stream)
  BY <1>1, Same DEF Names0, RingNames0, StringRva, UnloadedStringRva
<1>8. ASSUME "modules" \notin disturbed'
      PROVE  "modules" \notin disturbed /\ lists'.modules = lists.modules
  BY <1>2, <1>3, <1>8
<1>9. ASSUME "ring" \notin disturbed'
      PROVE  "ring" \notin disturbed /\ lists'.ring = lists.ring
  BY <1>2, <1>3, <1>9
<1>10. ModulesWritten'
  <2> SUFFICES ASSUME "modules" \notin disturbed' PROVE ModulesWritten'
    BY DEF ModulesWritten
  <2>1. CountedNames' = CountedNames /\ CountedRecords' = CountedRecords
    BY <1>7, <1>8 DEF CountedNames, CountedRecords, NameSizes, RecordSizes
  <2>2. Records0' = Records0
    BY <1>7, <2>1 DEF Records0
  <2>3. /\ \A p : PiecesIn(file, "ModuleList", p)' = PiecesIn(file, "ModuleList", p)
        /\ TakenIn(file, "ModuleList")' = TakenIn(file, "ModuleList")
        /\ EndsIn(file, "ModuleList", Rva("UnloadedModules"))'
             <=> EndsIn(file, "ModuleList", Rva("UnloadedModules"))
    BY <1>1, <1>7, SameFile DEF EndsIn
  <2>4. \A step : Past(step)' <=> Past(step)
    BY <1>4, NowDef
  <2> QED
    BY <1>1, <1>4, <1>7, <1>8, <2>1, <2>2, <2>3, <2>4 DEF ModulesWritten, PlaceInv
<1>11. RingWritten'
  <2> SUFFICES ASSUME "ring" \notin disturbed' PROVE RingWritten'
    BY DEF RingWritten
  <2>1. RingSizes' = RingSizes
    BY <1>9 DEF RingSizes, UnloadedSizes
  <2>2. /\ PiecesIn(file, "UnloadedModules", "name")' = PiecesIn(file, "UnloadedModules", "name")
        /\ TakenIn(file, "UnloadedModules")' = TakenIn(file, "UnloadedModules")
        /\ CoveredIn(file, "UnloadedModules", Rva("UnloadedModules"), RingNames0)'
             <=> CoveredIn(file, "UnloadedModules", Rva("UnloadedModules"), RingNames0)
        /\ SpaceFilled("UnloadedModules")' <=> SpaceFilled("UnloadedModules")
    BY <1>1, <1>7, SameFile DEF CoveredIn, SpaceFilled
  <2>3. \A step : Past(step)' <=> Past(step)
    BY <1>4, NowDef
  <2> QED
    BY <1>1, <1>4, <1>7, <1>9, <2>1, <2>2, <2>3 DEF RingWritten, PlaceInv
<1>12. ThreadNamesWritten'
  <2>1. Now > 12 <=> Now' > 12
    BY <1>4
  <2> QED
    BY <1>1, <1>5, <2>1, ThreadNamesKept DEF PlaceInv
<1>13. TablesType' /\ RecordsInList'
  BY <1>1, <1>4, <1>7 DEF PlaceInv, TablesType, RecordsInList
<1> QED
  BY <1>6, <1>10, <1>11, <1>12, <1>13 DEF PlaceInv

\* Before anything is written.
Fresh ==
  /\ Now <= 4 /\ file = <<>> /\ TablesType /\ tables.names = <<>>
  /\ "modules" \notin disturbed =>
       tables.modules = <<>> /\ (Now = 4 => measured.modules = CountModules(lists.modules))
  /\ "ring" \notin disturbed =>
       tables.unloaded = <<>> /\ (Now = 4 => measured.unloaded = CountUnloadedModules(lists.ring))

LEMMA EmptyFile ==
  /\ \A x, p : PiecesIn(<<>>, x, p) = {}
  /\ \A x : TakenIn(<<>>, x) = 0
  /\ \A x, limit : EndsIn(<<>>, x, limit)
  /\ \A place : InOrder(<<>>, place)
<1>1. DOMAIN <<>> = {} /\ ToSet(<<>>) = {}
  BY DEF ToSet
<1>2. \A x, p : PiecesIn(<<>>, x, p) = {}
  BY <1>1 DEF PiecesIn
<1>3. ASSUME NEW x PROVE TakenIn(<<>>, x) = 0
  <2>1. SizesIn(<<>>, x) = <<>>
    BY <1>1 DEF SizesIn
  <2>2. <<>> \in Seq(Nat)
    OBVIOUS
  <2> QED
    BY Zenon, <2>1, <2>2, TotalDef DEF TakenIn
<1>4. \A x, limit : EndsIn(<<>>, x, limit)
  BY <1>1 DEF EndsIn
<1>5. \A place : InOrder(<<>>, place)
  BY <1>1 DEF InOrder
<1> QED
  BY <1>2, <1>3, <1>4, <1>5

LEMMA FreshPlace == DumpTypes /\ Fresh => PlaceInv
<1> SUFFICES ASSUME DumpTypes, Fresh PROVE PlaceInv
  OBVIOUS
<1>1. Now \in 1 .. 4 /\ file = <<>>
  BY ReachedDef DEF Standing, Fresh
<1>2. \A x \in WholeStreams : ~Past(x)
  BY <1>1, StagesDef, NowDef DEF WholeStreams
<1>3. Filled
  BY <1>1, <1>2, EmptyFile DEF Filled, WholeStreams
<1>4. ASSUME "modules" \notin disturbed
      PROVE  ModulesAt(Now, cursor.base, cursor.position, tables.modules, file)
  <2>1. /\ ~(Now \in 6 .. 8) /\ Now # 8 /\ ~(Now > 6) /\ ~(Now > 7) /\ ~(Now > 8) /\ ~(Now > 5)
        /\ Now > 3 => Now = 4
    BY <1>1
  <2> QED
    BY <1>1, <1>4, <2>1, EmptyFile DEF Fresh, ModulesAt
<1>5. ModulesWritten
  BY <1>4, ModulesNow
<1>6. ASSUME "ring" \notin disturbed
      PROVE  RingAt(Now, tables.unloaded, file)
  <2>1. ~(Now > 9) /\ ~(Now > 10) /\ Now # 10 /\ (Now > 3 => Now = 4)
    BY <1>1
  <2> QED
    BY <1>1, <1>6, <2>1, EmptyFile DEF Fresh, RingAt
<1>7. RingWritten
  BY <1>6, RingNow
<1>8. ThreadNamesWritten
  <2>1. ~Past("ThreadNames")
    BY <1>1, StagesDef, NowDef
  <2> QED
    BY <1>1, <2>1, EmptyFile DEF Fresh, ThreadNamesWritten
<1>9. TablesType /\ RecordsInList
  BY <1>1, StagesDef DEF Fresh, RecordsInList
<1> QED
  BY <1>3, <1>5, <1>7, <1>8, <1>9 DEF PlaceInv

LEMMA FreshPlaceNext == DumpTypes' /\ Fresh' => PlaceInv'
  BY FreshPlace, PTL

LEMMA PlaceFresh ==
  ASSUME DumpTypes, PlaceInv, Now <= 4
  PROVE  Fresh
<1>1. Now \in 1 .. 4 /\ Reached = 0
  BY ReachedDef DEF Standing
<1>2. file = <<>>
  <2>1. file \in Seq(Extent) /\ InOrder(file, 0)
    BY <1>1 DEF DumpTypes, PlaceInv, Filled
  <2>2. ASSUME NEW j \in DOMAIN file PROVE FALSE
    <3>1. file[j].stream \in Streams
      <4>1. file[j] \in Extent
        BY <2>1
      <4> QED
        BY <4>1 DEF Extent
    <3>2. Place(file[j].stream) \in 1 .. 7
      BY <3>1, PlaceType
    <3>3. Place(file[j].stream) <= 0
      BY <2>1 DEF InOrder
    <3> QED
      BY <3>2, <3>3
  <2> HIDE DEF Extent
  <2> QED
    BY <2>1, <2>2
<1>3. "modules" \notin disturbed =>
        tables.modules = <<>> /\ (Now = 4 => measured.modules = CountModules(lists.modules))
  BY <1>1, ModulesNow DEF ModulesAt, PlaceInv
<1>4. "ring" \notin disturbed =>
        tables.unloaded = <<>> /\ (Now = 4 => measured.unloaded = CountUnloadedModules(lists.ring))
  BY <1>1, RingNow DEF RingAt, PlaceInv
<1>5. tables.names = <<>>
  <2>1. ~Past("ThreadNames")
    BY <1>1, StagesDef, NowDef
  <2> QED
    BY <2>1 DEF PlaceInv, ThreadNamesWritten
<1> QED
  BY <1>1, <1>2, <1>3, <1>4, <1>5 DEF Fresh, PlaceInv

\* The steps before the first that writes.
LEMMA EarlyPlaced ==
  ASSUME DumpTypes, DumpTypes', PlaceInv, MeasureComment \/ Freeze \/ Count
  PROVE  PlaceInv'
<1>1. UNCHANGED <<lists, disturbed, tables, cursor, file>>
  BY Zenon DEF MeasureComment, Freeze, Count, listVars, written
<1>2. /\ Step("measure", "freeze") \/ Step("freeze", "count") \/ Step("count", "CommentW")
      /\ MeasureComment \/ Freeze => ~Step("count", "CommentW")
  BY Zenon DEF MeasureComment, Freeze, Count, Step
<1>3. Now \in 1 .. 3 /\ Now' \in 2 .. 4 /\ (Now' = 4 => Count)
  <2>1. CASE Count
    BY <2>1, StepNow, StagesDef DEF Count
  <2>2. CASE Freeze
    BY <2>2, StepNow, StagesDef DEF Freeze
  <2>3. CASE MeasureComment
    <3>1. Step("measure", "freeze")
      BY Zenon, <2>3 DEF MeasureComment
    <3>2. Now = 1 /\ Now' = 2
      BY <3>1, StepNow, StagesDef
    <3> QED
      BY <3>2
  <2> QED
    BY <2>1, <2>2, <2>3
<1>4. Fresh
  BY <1>3, PlaceFresh
<1>5. Now' = 4 => /\ measured'.modules = CountModules(lists'.modules)
                  /\ measured'.unloaded = CountUnloadedModules(lists'.ring)
  <2> SUFFICES ASSUME Count
               PROVE  /\ measured'.modules = CountModules(lists'.modules)
                      /\ measured'.unloaded = CountUnloadedModules(lists'.ring)
    BY <1>3
  <2> QED
    BY <1>1 DEF Count, DumpTypes, Measured
<1>6. Fresh'
  BY <1>1, <1>3, <1>4, <1>5 DEF Fresh, TablesType
<1> QED
  BY <1>6, FreshPlaceNext

LEMMA PlaceInit == Init => PlaceInv
<1> SUFFICES ASSUME Init PROVE PlaceInv
  OBVIOUS
<1>1. /\ stage = "measure" /\ file = <<>>
      /\ tables = [modules |-> <<>>, unloaded |-> <<>>, names |-> <<>>]
  BY DEF Init
<1>2. Now = 1
  BY <1>1, StagesDef DEF Now
<1>3. Fresh
  BY <1>1, <1>2 DEF Fresh, TablesType
<1> QED
  BY <1>3, DumpInit, FreshPlace

LEMMA PlaceNext == Inv /\ PlaceInv /\ [Next]_vars => PlaceInv'
<1> SUFFICES ASSUME Inv, PlaceInv, [Next]_vars PROVE PlaceInv'
  OBVIOUS
<1>1. DumpTypes /\ DumpTypes' /\ SetterInv /\ NamesEndLater
  BY InvNext DEF Inv
<1>2. CASE (SetterNext /\ UNCHANGED dumpVars) \/ UNCHANGED vars
  <2>1. UNCHANGED <<stage, lists, disturbed, measured, tables, cursor, file>>
    BY <1>2 DEF vars, dumpVars, listVars, written
  <2>2. Now' = Now
    BY <2>1 DEF Now, At, SelectInSeq
  <2> QED
    BY <1>1, <2>1, <2>2, SamePlace
<1>3. CASE Resume
  <2>1. Now = 15 /\ Now' = 16 /\ UNCHANGED <<lists, disturbed, measured, tables, cursor, file>>
    BY <1>3, StepNow, StagesDef DEF Resume, listVars, written
  <2> QED
    BY <1>1, <2>1, SamePlace
<1>4. CASE MeasureComment \/ Freeze \/ Count
  BY <1>1, <1>4, EarlyPlaced
<1>5. CASE Disturb
  BY <1>1, <1>5, DisturbPlaced
<1>6. CASE WriteStep
  BY <1>1, <1>6, CommentPlaced, CodeViewBasePlaced, DescriptorsPlaced, ModuleNamesPlaced, ModuleRecordsPlaced,
     EntriesPlaced, UnloadedNamesPlaced, WholePlaced, ThreadNamesPlaced, MemoryInfoPlaced DEF WriteStep
<1> QED
  BY <1>2, <1>3, <1>4, <1>5, <1>6 DEF Next, DumpStep, WriteStep

-----------------------------------------------------------------------------
(***************************************************************************)
(* What is in its place.                                                   *)
(***************************************************************************)

\* A stream is found by its place, and ends before the next ones begin.
LEMMA PlaceOf == \A stream \in Streams : Physical[Place(stream)] = stream
<1>1. /\ Physical[1] = "CommentW" /\ Physical[2] = "ModuleList" /\ Physical[3] = "UnloadedModules"
      /\ Physical[4] = "ThreadList" /\ Physical[5] = "ThreadNames" /\ Physical[6] = "MemoryInfo"
      /\ Physical[7] = "Rest"
  BY DEF Physical
<1> QED
  BY <1>1, PlaceDef DEF Streams

LEMMA RvaOrder ==
  ASSUME measured \in Measured, NEW s \in Streams, NEW t \in Streams, Place(s) < Place(t)
  PROVE  /\ Rva(s) \in Nat /\ Storage(s) \in Nat /\ Rva(t) \in Nat
         /\ Rva(s) + Storage(s) <= Rva(t)
<1> DEFINE i == Place(s)
           j == Place(t)
           sizes == StorageSizes
<1>1. i \in 1 .. 7 /\ j \in 1 .. 7 /\ Physical[i] = s /\ Physical[j] = t
  BY PlaceType, PlaceOf
<1>2. /\ sizes \in Seq(Nat) /\ Len(sizes) = 7
      /\ \A k \in 1 .. 7 : /\ Rva(Physical[k]) = PrefixSums(sizes)[k - 1]
                           /\ Rva(Physical[k]) \in Nat /\ sizes[k] = Storage(Physical[k])
  BY RvaDef
<1>3. /\ Rva(s) = PrefixSums(sizes)[i - 1] /\ sizes[i] = Storage(s) /\ Rva(t) = PrefixSums(sizes)[j - 1]
      /\ Rva(s) \in Nat /\ Rva(t) \in Nat /\ Storage(s) \in Nat
  BY Zenon, <1>1, <1>2, StorageType
<1>4. i < j
  OBVIOUS
<1> HIDE DEF i, j, sizes
<1>5. PrefixSums(sizes)[i] = PrefixSums(sizes)[i - 1] + sizes[i]
  BY Zenon, <1>1, <1>2, PrefixSumsDef
<1>6. i \in 0 .. Len(sizes) /\ j - 1 \in i .. Len(sizes)
  BY <1>1, <1>2, <1>4
<1>7. PrefixSums(sizes)[i] <= PrefixSums(sizes)[j - 1]
  BY Zenon, <1>2, <1>6, PrefixMonotone
<1> QED
  BY <1>3, <1>5, <1>7

\* What is known of a stream that is complete, whatever changed.
LEMMA Complete ==
  ASSUME PlaceInv, NEW stream \in Streams, Past(LastStep(stream)),
         ~(stream = "UnloadedModules" /\ {"modules", "ring"} \subseteq disturbed)
  PROVE  \/ SpaceFilled(stream) \/ stream \in {"CommentW", "ModuleList"}
         \/ stream = "UnloadedModules" /\ EndsIn(file, "ModuleList", Rva("UnloadedModules"))
<1>1. CASE stream \in WholeStreams
  <2>1. LastStep(stream) = stream
    BY <1>1 DEF LastStep, WholeStreams
  <2> QED
    BY <1>1, <2>1 DEF PlaceInv, Filled, WholeStreams
<1>2. CASE stream = "UnloadedModules" /\ "ring" \notin disturbed
  <2>1. LastStep(stream) = "UnloadedNames"
    BY <1>2 DEF LastStep
  <2> QED
    BY <1>2, <2>1 DEF PlaceInv, RingWritten
<1>3. CASE stream = "UnloadedModules" /\ "modules" \notin disturbed
  BY <1>3 DEF PlaceInv, ModulesWritten
<1> QED
  BY <1>1, <1>2, <1>3 DEF Streams, WholeStreams

LEMMA CoveringExtent ==
  ASSUME NEW stream, SpaceFilled(stream), Rva(stream) \in Nat, Storage(stream) \in Nat,
         NEW byte \in Rva(stream) .. Rva(stream) + Storage(stream) - 1
  PROVE  \E j \in DOMAIN file : file[j].stream = stream /\ byte \in file[j].at .. file[j].at + file[j].size - 1
<1>1. CoveredIn(file, stream, Rva(stream), Rva(stream) + Storage(stream))
  BY DEF SpaceFilled
<1>2. byte \in Rva(stream) .. (Rva(stream) + Storage(stream)) - 1
  OBVIOUS
<1> DEFINE to == Rva(stream) + Storage(stream)
<1>3. CoveredIn(file, stream, Rva(stream), to) /\ byte \in Rva(stream) .. to - 1
  BY <1>1, <1>2
<1> HIDE DEF to
<1>4. PICK j \in DOMAIN file : file[j].stream = stream /\ byte \in file[j].at .. file[j].at + file[j].size - 1
  BY <1>3 DEF CoveredIn
<1> QED
  BY <1>4

LEMMA KeepsPlace == Inv /\ PlaceInv => StreamsKeepPlace
<1> SUFFICES ASSUME Inv, PlaceInv, NEW stream \in ToSet(Physical), Past(LastStep(stream)),
                    ~(stream = "UnloadedModules" /\ {"modules", "ring"} \subseteq disturbed),
                    NEW byte \in Rva(stream) .. Rva(stream) + Storage(stream) - 1
             PROVE  Writers(byte) \subseteq {stream}
  BY DEF StreamsKeepPlace
<1> DEFINE over == {i \in DOMAIN file : byte \in file[i].at .. file[i].at + file[i].size - 1}
           k == Max(over)
           last == file[k].stream
<1>1. measured \in Measured /\ file \in Seq(Extent) /\ DumpTypes
  BY DEF Inv, DumpTypes
<1>2. stream \in Streams
  <2>1. ToSet(Physical) = {Physical[i] : i \in 1 .. 7}
    BY DEF ToSet, Physical
  <2> QED
    BY <2>1, PlaceDef
<1>3. Rva(stream) \in Nat /\ Storage(stream) \in Nat /\ byte \in Int
  BY <1>1, <1>2, Written
<1>4. DOMAIN file = 1 .. Len(file) /\ Len(file) \in Nat
  BY <1>1
<1>5. \A i \in DOMAIN file : /\ file[i].stream \in Streams /\ file[i].at \in Nat /\ file[i].size \in Nat
                             /\ file[i].at >= Rva(file[i].stream)
  <2> TAKE i \in DOMAIN file
  <2>1. file[i] \in Extent
    BY <1>1
  <2>2. file[i].at >= Rva(file[i].stream)
    BY DEF PlaceInv, Filled, InOrder
  <2> QED
    BY <2>1, <2>2 DEF Extent
<1> SUFFICES ASSUME over # {} PROVE last = stream
  BY Zenon DEF Writers
<1>6. k \in over /\ \A j \in over : j <= k
  <2>1. over \subseteq 1 .. Len(file)
    BY <1>4
  <2> HIDE DEF over
  <2> QED
    BY Zenon, <1>4, <2>1, MaxDef
<1>7. /\ k \in DOMAIN file /\ last \in Streams /\ file[k].at >= Rva(last)
      /\ file[k].at <= byte /\ byte < file[k].at + file[k].size
      /\ file[k].at \in Nat /\ file[k].size \in Nat /\ Rva(last) \in Nat
  <2>1. k \in DOMAIN file /\ byte \in file[k].at .. file[k].at + file[k].size - 1
    <3> HIDE DEF k, last
    <3> QED
      BY <1>6
  <2> HIDE DEF k
  <2>2. /\ last \in Streams /\ file[k].at \in Nat /\ file[k].size \in Nat
        /\ file[k].at >= Rva(last)
    BY <1>5, <2>1
  <2>3. Rva(last) \in Nat
    BY <1>1, <2>2, Written
  <2>4. file[k].at <= byte /\ byte < file[k].at + file[k].size
    BY <1>3, <2>1, <2>2
  <2> QED
    BY <2>1, <2>2, <2>3, <2>4
<1>8. Place(last) \in 1 .. 7 /\ Place(stream) \in 1 .. 7
  BY <1>2, <1>7, PlaceType
<1> HIDE DEF k, last
<1>9. ~(Place(last) > Place(stream))
  <2> SUFFICES ASSUME Place(last) > Place(stream) PROVE FALSE
    OBVIOUS
  <2>1. Rva(stream) + Storage(stream) <= Rva(last)
    BY <1>1, <1>2, <1>7, <1>8, RvaOrder
  <2>2. byte < Rva(stream) + Storage(stream)
    BY <1>3
  <2> QED
    BY <1>3, <1>7, <2>1, <2>2
<1>10. ~(Place(last) < Place(stream))
  <2> SUFFICES ASSUME Place(last) < Place(stream) PROVE FALSE
    OBVIOUS
  <2>1. CASE SpaceFilled(stream)
    <3>1. PICK j \in DOMAIN file : file[j].stream = stream /\ byte \in file[j].at .. file[j].at + file[j].size - 1
      BY <1>3, <2>1, CoveringExtent
    <3>2. j \in over
      BY <3>1
    <3>3. j <= k /\ j \in Nat /\ k \in Nat
      BY <1>4, <1>6, <1>7, <3>1, <3>2
    <3>4. CASE j = k
      BY <1>8, <3>1, <3>4 DEF last
    <3>5. CASE j < k
      <4>1. Place(file[j].stream) <= Place(file[k].stream)
        BY <1>7, <3>1, <3>5 DEF PlaceInv, Filled, InOrder
      <4> QED
        BY <1>8, <3>1, <4>1 DEF last
    <3> QED
      BY <3>3, <3>4, <3>5
  <2>2. ASSUME NEW limit \in Nat, limit <= Rva(stream), EndsIn(file, last, limit)
        PROVE  FALSE
    <3>1. file[k].at + file[k].size <= limit
      BY <1>7, <2>2 DEF EndsIn, last
    <3>2. Rva(stream) <= byte
      BY <1>3
    <3> QED
      BY <1>3, <1>7, <2>2, <3>1, <3>2
  <2>3. last = "CommentW" => stream \notin {"ModuleList", "UnloadedModules"}
    <3> SUFFICES ASSUME last = "CommentW", stream \in {"ModuleList", "UnloadedModules"} PROVE FALSE
      OBVIOUS
    <3>1. Rva("ModuleList") <= Rva(stream) /\ Rva("ModuleList") \in Nat
      <4>1. "ModuleList" \in Streams /\ "UnloadedModules" \in Streams
        BY DEF Streams
      <4>2. /\ Rva("ModuleList") \in Nat /\ Rva("UnloadedModules") \in Nat /\ Storage("ModuleList") \in Nat
            /\ Rva("UnloadedModules") = Rva("ModuleList") + Storage("ModuleList")
        BY <1>1, <4>1, Written, RvaNext
      <4> QED
        BY <4>2
    <3>2. EndsIn(file, last, Rva("ModuleList"))
      BY DEF PlaceInv, Filled
    <3> QED
      BY <2>2, <3>1, <3>2
  <2>4. ~(stream = "UnloadedModules" /\ last = "ModuleList" /\ EndsIn(file, "ModuleList", Rva("UnloadedModules")))
    BY <1>3, <2>2
  <2>5. last \in {"CommentW", "ModuleList"} \/ stream \notin {"CommentW", "ModuleList", "UnloadedModules"}
    BY <1>7, PlaceDef DEF Streams
  <2>6. stream # "CommentW" /\ ~(stream = "ModuleList" /\ last = "ModuleList")
    BY <1>8, PlaceDef
  <2> QED
    BY <1>2, <2>1, <2>3, <2>4, <2>5, <2>6, Complete
<1> QED
  <2>1. Place(last) = Place(stream)
    BY <1>8, <1>9, <1>10
  <2> QED
    BY <1>2, <1>7, <2>1, PlaceOf

\* The offsets in the descriptors of a list that does not change.
LEMMA DescriptorsAt ==
  ASSUME DumpTypes, ModulesWritten, "modules" \notin disturbed, Past("count")
  PROVE  LET table == ModuleDescriptors(lists.modules, Rva("ModuleList"), ModuleCount, Records0)
         IN  /\ DOMAIN table = 1 .. ModuleCount
             /\ DOMAIN CountedNames = 1 .. ModuleCount /\ DOMAIN CountedRecords = 1 .. ModuleCount
             /\ \A i \in 1 .. ModuleCount :
                  /\ table[i].name = Names0 + PrefixSums(CountedNames)[i - 1]
                  /\ table[i].record \in {0, Records0 + PrefixSums(CountedRecords)[i - 1]}
<1> DEFINE count == ModuleCount
           walked == Walk(lists.modules, count)
           table == ModuleDescriptors(lists.modules, Rva("ModuleList"), count, Records0)
<1>1. /\ walked \in Seq(Entry) /\ Len(walked) = count /\ count \in Nat
      /\ CountedNames \in Seq(Nat) /\ Len(CountedNames) = count
      /\ CountedRecords \in Seq(Nat) /\ Len(CountedRecords) = count
  BY ModuleSpace
<1>2. CountedNames = NameSizes(walked) /\ CountedRecords = RecordSizes(walked)
      /\ Names0 = StringRva(Rva("ModuleList"), count)
  BY DEF CountedNames, CountedRecords, Names0
<1>3. table = [i \in 1 .. count |->
                 IF i > Len(walked) THEN [name |-> 0, record |-> 0]
                 ELSE [name   |-> StringRva(Rva("ModuleList"), count) + SumBefore(NameStorage, walked, i),
                       record |-> IF CodeViewSize(walked[i]) = 0 THEN 0
                                  ELSE Records0 + SumBefore(RecordStorage, walked, i)]]
  BY DEF ModuleDescriptors
<1> HIDE DEF walked, table, count
<1>4. ASSUME NEW i \in 1 .. count
      PROVE  /\ table[i].name = Names0 + PrefixSums(CountedNames)[i - 1]
             /\ table[i].record \in {0, Records0 + PrefixSums(CountedRecords)[i - 1]}
  <2>1. i \in 1 .. Len(walked) + 1 /\ ~(i > Len(walked))
    BY <1>1
  <2>2. SumBefore(NameStorage, walked, i) = PrefixSums(CountedNames)[i - 1]
    BY <1>1, <1>2, <2>1, NameSizesDef
  <2>3. SumBefore(RecordStorage, walked, i) = PrefixSums(CountedRecords)[i - 1]
    BY <1>1, <1>2, <2>1, RecordSizesDef
  <2> QED
    BY <1>2, <1>3, <2>1, <2>2, <2>3
<1>5. DOMAIN table = 1 .. count /\ DOMAIN CountedNames = 1 .. count /\ DOMAIN CountedRecords = 1 .. count
  BY <1>1, <1>3
<1> QED
  BY <1>4, <1>5 DEF table, count

LEMMA PiecesNow ==
  /\ \A stream, part : Pieces(stream, part) = PiecesIn(file, stream, part)
  /\ \A stream : Taken(stream) = TakenIn(file, stream)
  BY DEF Pieces, PiecesIn, Taken, TakenIn, SizesIn

LEMMA PointsThere == Inv /\ PlaceInv => DescriptorsPoint
<1> SUFFICES ASSUME Inv, PlaceInv PROVE DescriptorsPoint
  OBVIOUS
<1>1. DumpTypes /\ Now \in 1 .. 16
  BY ReachedDef DEF Inv, Standing
<1>2. ASSUME Past("ModuleRecords"), "modules" \notin disturbed
      PROVE  /\ Pieces("ModuleList", "name") = {<<i, tables.modules[i].name>> : i \in DOMAIN tables.modules}
             /\ \A i \in DOMAIN tables.modules :
                  tables.modules[i].record # 0 =>
                    <<i, tables.modules[i].record>> \in Pieces("ModuleList", "record")
             /\ Taken("ModuleList") = Storage("ModuleList")
  <2> DEFINE table == ModuleDescriptors(lists.modules, Rva("ModuleList"), ModuleCount, Records0)
  <2>1. Now > 8 /\ Past("count") /\ ModulesWritten
    BY <1>1, <1>2, NowDef, StagesDef DEF PlaceInv
  <2>2. ModulesAt(Now, cursor.base, cursor.position, tables.modules, file)
    BY <1>2, <2>1, ModulesNow
  <2>3. Now > 6 /\ Now > 7 /\ Now > 5 /\ Now # 6 /\ Now # 7 /\ Now # 8
    BY <1>1, <2>1
  <2>4. /\ tables.modules = table
        /\ PiecesIn(file, "ModuleList", "name") = Places(Names0, CountedNames)
        /\ PiecesIn(file, "ModuleList", "record") = Places(Records0, CountedRecords)
        /\ TakenIn(file, "ModuleList") = Storage("ModuleList")
    BY <2>1, <2>2, <2>3 DEF ModulesAt
  <2>5. /\ DOMAIN table = 1 .. ModuleCount
        /\ DOMAIN CountedNames = 1 .. ModuleCount /\ DOMAIN CountedRecords = 1 .. ModuleCount
        /\ \A i \in 1 .. ModuleCount :
             /\ table[i].name = Names0 + PrefixSums(CountedNames)[i - 1]
             /\ table[i].record \in {0, Records0 + PrefixSums(CountedRecords)[i - 1]}
    BY <1>1, <1>2, <2>1, DescriptorsAt
  <2> HIDE DEF table
  <2>6. Places(Names0, CountedNames) = {<<i, table[i].name>> : i \in DOMAIN table}
    BY <2>5 DEF Places
  <2>7. \A i \in DOMAIN table : table[i].record # 0 => <<i, table[i].record>> \in Places(Records0, CountedRecords)
    BY <2>5 DEF Places
  <2> QED
    BY <2>4, <2>6, <2>7, PiecesNow
<1>3. ASSUME Past("UnloadedNames"), "ring" \notin disturbed
      PROVE  /\ Pieces("UnloadedModules", "name") = {<<i, tables.unloaded[i]>> : i \in DOMAIN tables.unloaded}
             /\ Taken("UnloadedModules") = Storage("UnloadedModules")
  <2>1. Now > 10 /\ RingWritten
    BY <1>1, <1>3, NowDef, StagesDef DEF PlaceInv
  <2>2. RingAt(Now, tables.unloaded, file)
    BY <1>3, <2>1, RingNow
  <2>3. Now > 9 /\ Now # 10
    BY <1>1, <2>1
  <2>4. /\ tables.unloaded = [i \in DOMAIN RingSizes |-> RingNames0 + PrefixSums(RingSizes)[i - 1]]
        /\ PiecesIn(file, "UnloadedModules", "name") = Places(RingNames0, RingSizes)
        /\ TakenIn(file, "UnloadedModules") = Storage("UnloadedModules")
    BY <2>1, <2>2, <2>3 DEF RingAt
  <2>5. Places(RingNames0, RingSizes) = {<<i, tables.unloaded[i]>> : i \in DOMAIN tables.unloaded}
    BY <2>4 DEF Places
  <2> QED
    BY <2>4, <2>5, PiecesNow
<1>4. ASSUME Past("ThreadNames")
      PROVE  /\ Pieces("ThreadNames", "name") = {<<i, tables.names[i]>> : i \in DOMAIN tables.names}
             /\ Taken("ThreadNames") = Storage("ThreadNames")
  <2> DEFINE sizes == ThreadNameSizes(PlanNames)
  <2>1. /\ tables.names = [i \in DOMAIN sizes |-> PlanNames0 + PrefixSums(sizes)[i - 1]]
        /\ PiecesIn(file, "ThreadNames", "name") = Places(PlanNames0, sizes)
        /\ TakenIn(file, "ThreadNames") = Storage("ThreadNames")
    BY <1>4 DEF PlaceInv, ThreadNamesWritten
  <2> HIDE DEF sizes
  <2>2. Places(PlanNames0, sizes) = {<<i, tables.names[i]>> : i \in DOMAIN tables.names}
    BY <2>1 DEF Places
  <2> QED
    BY <2>1, <2>2, PiecesNow
<1> QED
  BY <1>2, <1>3, <1>4 DEF DescriptorsPoint

\* Where everything of a dump lies, by the step it has come to.
THEOREM Placement == Spec => [](Inv /\ PlaceInv)
<1>1. Init => Inv /\ PlaceInv
  BY InvInit, PlaceInit
<1>2. Inv /\ PlaceInv /\ [Next]_vars => (Inv /\ PlaceInv)'
  BY InvNext, PlaceNext
<1> QED
  BY <1>1, <1>2, PTL DEF Spec

\* A byte of a stream that is complete is its own, whichever lists changed after
\* they were counted and however long they became: what ran over its end is
\* written over by the streams behind it, unless a ring of unloaded modules shrank
\* behind a list of modules that grew (minidump_inproc.cpp:521-596,
\* minidump_inproc_modules.cpp:125-313, 460-598).
THEOREM StreamsKeepPlaceHolds == Spec => []StreamsKeepPlace
<1>1. Inv /\ PlaceInv => StreamsKeepPlace
  BY KeepsPlace
<1> QED
  BY Placement, <1>1, PTL

\* A list that stays as it was counted, of whatever entries and however linked,
\* fills the space it was given, and every offset in a descriptor is that of the
\* piece it stands for (minidump_inproc_modules.cpp:9-65, 125-313, 460-598,
\* minidump_inproc_threads.cpp:558-638).
THEOREM DescriptorsPointHolds == Spec => []DescriptorsPoint
<1>1. Inv /\ PlaceInv => DescriptorsPoint
  BY PointsThere
<1> QED
  BY Placement, <1>1, PTL

\* What is measured before the threads stand still is right when it is written,
\* or does no harm: every stream keeps its place, every descriptor points where
\* its piece is, and the comment is kept (minidump_inproc.cpp:138-139,
\* minidump_inproc_modules.cpp:188-192, 490-492).
THEOREM WrittenInPlaceHolds == Spec => []WrittenInPlace
<1>1. Inv /\ PlaceInv => WrittenInPlace
  BY KeepsPlace, PointsThere DEF Inv, WrittenInPlace
<1> QED
  BY Placement, <1>1, PTL

=============================================================================
