-------------------------- MODULE PrefixSums_proofs --------------------------
(***************************************************************************)
(* Facts about running totals, for every list of sizes.                    *)
(*                                                                         *)
(* The induction theorems of the library take a predicate as a parameter,  *)
(* which the provers here cannot instantiate.  A set does as well: the     *)
(* counterexamples to a claim, if there are any, have a least member,      *)
(* because < is well founded on Nat (NatInduct).  The same gives functions *)
(* defined by recursion (Recursion).                                       *)
(***************************************************************************)
EXTENDS PrefixSums, SequenceTheorems, WellFoundedInduction, TLAPS

-----------------------------------------------------------------------------
(***************************************************************************)
(* Induction and recursion over the naturals, stated of sets.              *)
(***************************************************************************)

\* A set of naturals with a member has a least one.
LEMMA LeastNat ==
  ASSUME NEW T, T \subseteq Nat, T # {}
  PROVE  \E x \in T : \A y \in T : x <= y
<1> DEFINE R == OpToRel(<, Nat)
<1>1. IsWellFoundedOn(R, Nat)
  BY NatLessThanWellFounded
<1>2. \A x, y \in Nat : <<y, x>> \in R <=> y < x
  BY DEF OpToRel
<1> HIDE DEF R
<1>3. PICK x \in T : \A y \in T : ~ (<<y, x>> \in R)
  BY <1>1, WFMin
<1>4. ASSUME NEW y \in T PROVE x <= y
  <2>1. x \in Nat /\ y \in Nat
    OBVIOUS
  <2>2. ~ (y < x)
    BY <2>1, <1>2, <1>3
  <2> QED BY <2>1, <2>2
<1> QED BY <1>4

\* A set that has 0, and n + 1 with every n, has every natural.
LEMMA NatInduct ==
  ASSUME NEW T, 0 \in T, \A n \in Nat : n \in T => n + 1 \in T
  PROVE  \A n \in Nat : n \in T
<1> DEFINE U == {n \in Nat : n \notin T}
<1> SUFFICES ASSUME U # {} PROVE FALSE
  OBVIOUS
<1>1. PICK x \in U : \A y \in U : x <= y
  <2>1. U \subseteq Nat
    OBVIOUS
  <2> HIDE DEF U
  <2> QED BY <2>1, LeastNat
<1>2. x - 1 \in Nat /\ x - 1 < x
  BY <1>1
<1>3. x - 1 \in T
  BY <1>1, <1>2
<1> QED BY <1>1, <1>2, <1>3

\* The function on 0 .. N that starts at base and goes on by step.
IsRecursive(f, N, base, step) ==
  f = [i \in 0 .. N |-> IF i = 0 THEN base ELSE step[<<i, f[i - 1]>>]]

StepFunctions(N, V) == [(1 .. N) \X V -> V]

\* A base and a step define one.
LEMMA Recursion ==
  ASSUME NEW N \in Nat, NEW V, NEW base \in V, NEW step \in StepFunctions(N, V)
  PROVE  \E f \in [0 .. N -> V] : IsRecursive(f, N, base, step)
<1> USE DEF IsRecursive, StepFunctions
<1> DEFINE Rec(f, n) == IsRecursive(f, n, base, step)
           T == {n \in Nat : n <= N => \E f \in [0 .. n -> V] : Rec(f, n)}
<1>1. 0 \in T
  <2> DEFINE f == [i \in 0 .. 0 |-> base]
  <2>1. f \in [0 .. 0 -> V] /\ Rec(f, 0)
    OBVIOUS
  <2> QED BY <2>1
<1>2. ASSUME NEW n \in Nat, n \in T PROVE n + 1 \in T
  <2> SUFFICES ASSUME n + 1 <= N PROVE \E f \in [0 .. n + 1 -> V] : Rec(f, n + 1)
    OBVIOUS
  <2>1. PICK g \in [0 .. n -> V] : Rec(g, n)
    BY <1>2
  <2> DEFINE new == step[<<n + 1, g[n]>>]
             f == [i \in 0 .. n + 1 |-> IF i = n + 1 THEN new ELSE g[i]]
  <2>2. new \in V
    OBVIOUS
  <2>3. f \in [0 .. n + 1 -> V]
    BY <2>2
  <2>4. f[n + 1] = new /\ \A i \in 0 .. n : f[i] = g[i]
    OBVIOUS
  <2> HIDE DEF f
  <2>5. ASSUME NEW i \in 0 .. n + 1
        PROVE  f[i] = IF i = 0 THEN base ELSE step[<<i, f[i - 1]>>]
    <3>1. CASE i = n + 1
      <4>1. i # 0 /\ i - 1 = n /\ f[i - 1] = g[n]
        BY <3>1, <2>4
      <4> QED BY <4>1, <3>1, <2>4
    <3>2. CASE i # n + 1
      <4>1. i \in 0 .. n /\ (i # 0 => i - 1 \in 0 .. n)
        BY <3>2
      <4> QED BY <4>1, <2>1, <2>4
    <3> QED BY <3>1, <3>2
  <2>6. Rec(f, n + 1)
    BY <2>3, <2>5
  <2> QED BY <2>3, <2>6
<1>3. N \in T
  <2> HIDE DEF T
  <2>1. \A n \in Nat : n \in T => n + 1 \in T
    BY <1>2
  <2> QED BY <1>1, <2>1, NatInduct
<1> QED BY <1>3

-----------------------------------------------------------------------------
(***************************************************************************)
(* What PrefixSums computes.                                               *)
(***************************************************************************)

\* The definition does define: a total of naturals after each entry.
LEMMA PrefixSumsDef ==
  ASSUME NEW s \in Seq(Nat)
  PROVE  /\ PrefixSums(s) \in [0 .. Len(s) -> Nat]
         /\ PrefixSums(s)[0] = 0
         /\ \A i \in 1 .. Len(s) : PrefixSums(s)[i] = PrefixSums(s)[i - 1] + s[i]
<1> DEFINE N == Len(s)
           step == [p \in (1 .. N) \X Nat |-> p[2] + s[p[1]]]
           Rec(f) == f = [i \in 0 .. N |-> IF i = 0 THEN 0 ELSE f[i - 1] + s[i]]
<1>1. N \in Nat /\ \A i \in 1 .. N : s[i] \in Nat
  OBVIOUS
<1>2. step \in StepFunctions(N, Nat)
  BY <1>1 DEF StepFunctions
<1>3. \A i \in 1 .. N, v \in Nat : step[<<i, v>>] = v + s[i]
  BY <1>1
<1> HIDE DEF N, step
<1>4. PICK f \in [0 .. N -> Nat] : IsRecursive(f, N, 0, step)
  BY <1>1, <1>2, Recursion
<1>5. Rec(f)
  <2>1. \A i \in 0 .. N : i # 0 => i \in 1 .. N /\ f[i - 1] \in Nat
    BY <1>1
  <2>2. \A i \in 0 .. N : i # 0 => step[<<i, f[i - 1]>>] = f[i - 1] + s[i]
    BY <2>1, <1>3
  <2> QED BY <1>4, <2>2 DEF IsRecursive
<1>6. Rec(PrefixSums(s))
  <2>1. PrefixSums(s) = CHOOSE g : Rec(g)
    BY DEF PrefixSums, N
  <2> HIDE DEF Rec
  <2> QED BY <2>1, <1>5
<1> DEFINE o == PrefixSums(s)
<1>7. o = [i \in 0 .. N |-> IF i = 0 THEN 0 ELSE o[i - 1] + s[i]]
  BY <1>6
<1> HIDE DEF o
<1>8. \A n \in Nat : n \in {m \in Nat : m \in 0 .. N => o[m] \in Nat}
  <2> DEFINE T == {m \in Nat : m \in 0 .. N => o[m] \in Nat}
  <2>1. 0 \in T
    BY <1>7
  <2>2. \A n \in Nat : n \in T => n + 1 \in T
    <3> SUFFICES ASSUME NEW n \in Nat, n \in T, n + 1 \in 0 .. N PROVE o[n + 1] \in Nat
      OBVIOUS
    <3>1. n \in 0 .. N /\ n + 1 \in 1 .. N /\ n + 1 # 0 /\ (n + 1) - 1 = n
      BY <1>1
    <3>2. o[n + 1] = o[n] + s[n + 1]
      BY <3>1, <1>7
    <3> QED BY <3>1, <3>2, <1>1
  <2> HIDE DEF T
  <2>3. \A n \in Nat : n \in T
    BY <2>1, <2>2, NatInduct
  <2> QED BY <2>3 DEF T
<1>9. /\ o \in [0 .. N -> Nat]
      /\ o[0] = 0
      /\ \A i \in 1 .. N : o[i] = o[i - 1] + s[i]
  <2>1. \A i \in 0 .. N : o[i] \in Nat
    BY <1>1, <1>8
  <2>2. o \in [0 .. N -> Nat]
    BY <2>1, <1>7
  <2>3. o[0] = 0 /\ \A i \in 1 .. N : o[i] = o[i - 1] + s[i]
    BY <1>1, <1>7
  <2> QED BY <2>2, <2>3
<1> QED BY <1>9 DEF o, N

\* A total, and no total, of an empty list.
LEMMA TotalDef ==
  ASSUME NEW s \in Seq(Nat)
  PROVE  /\ Total(s) \in Nat
         /\ s = <<>> => Total(s) = 0
<1>1. Len(s) \in Nat /\ (s = <<>> => Len(s) = 0)
  OBVIOUS
<1> QED BY <1>1, PrefixSumsDef DEF Total

\* A running total never goes down.
LEMMA PrefixMonotone ==
  ASSUME NEW s \in Seq(Nat), NEW i \in 0 .. Len(s), NEW j \in i .. Len(s)
  PROVE  PrefixSums(s)[i] <= PrefixSums(s)[j]
<1> DEFINE o == PrefixSums(s)
           T == {n \in Nat : i + n <= Len(s) => o[i] <= o[i + n]}
<1>1. Len(s) \in Nat /\ \A k \in 1 .. Len(s) : s[k] \in Nat
  OBVIOUS
<1>2. o \in [0 .. Len(s) -> Nat] /\ \A k \in 1 .. Len(s) : o[k] = o[k - 1] + s[k]
  BY PrefixSumsDef
<1> HIDE DEF o
<1>3. 0 \in T
  <2>1. i + 0 = i /\ o[i] \in Nat
    BY <1>1, <1>2
  <2>2. o[i] <= o[i + 0]
    BY <2>1
  <2> QED BY <2>2
<1>4. ASSUME NEW n \in Nat, n \in T PROVE n + 1 \in T
  <2> SUFFICES ASSUME i + (n + 1) <= Len(s) PROVE o[i] <= o[i + (n + 1)]
    OBVIOUS
  <2>1. /\ i + n \in 0 .. Len(s) /\ i + (n + 1) \in 1 .. Len(s)
        /\ (i + (n + 1)) - 1 = i + n
    BY <1>1
  <2>2. o[i + (n + 1)] = o[i + n] + s[i + (n + 1)] /\ o[i] <= o[i + n]
    BY <1>2, <1>4, <2>1
  <2>3. o[i] \in Nat /\ o[i + n] \in Nat /\ s[i + (n + 1)] \in Nat
    BY <1>1, <1>2, <2>1
  <2> QED BY <2>2, <2>3
<1>5. \A n \in Nat : n \in T
  <2> HIDE DEF T
  <2> QED BY <1>3, <1>4, NatInduct
<1>6. j - i \in Nat /\ i + (j - i) = j
  BY <1>1
<1>7. o[i] <= o[i + (j - i)]
  <2>1. j - i \in T
    BY <1>5, <1>6
  <2>2. i + (j - i) <= Len(s)
    BY <1>1
  <2> QED BY <2>1, <2>2
<1> QED BY <1>6, <1>7 DEF o

\* Running totals compare as the entries do, up to one entry that may exceed
\* its counterpart by m.
LEMMA PrefixExceeds ==
  ASSUME NEW s \in Seq(Nat), NEW t \in Seq(Nat), NEW m \in Nat, NEW k \in Nat,
         NEW N \in Nat, N <= Len(s), N <= Len(t),
         \A i \in 1 .. N : s[i] <= t[i] + (IF i = k THEN m ELSE 0)
  PROVE  PrefixSums(s)[N] <= PrefixSums(t)[N] + m
<1> DEFINE o == PrefixSums(s)
           p == PrefixSums(t)
           T == {n \in Nat : n <= N => o[n] <= p[n] + (IF n < k THEN 0 ELSE m)}
<1>1. /\ Len(s) \in Nat /\ \A i \in 1 .. Len(s) : s[i] \in Nat
      /\ Len(t) \in Nat /\ \A i \in 1 .. Len(t) : t[i] \in Nat
  OBVIOUS
<1>2. /\ o \in [0 .. Len(s) -> Nat] /\ o[0] = 0
      /\ \A i \in 1 .. Len(s) : o[i] = o[i - 1] + s[i]
      /\ p \in [0 .. Len(t) -> Nat] /\ p[0] = 0
      /\ \A i \in 1 .. Len(t) : p[i] = p[i - 1] + t[i]
  BY PrefixSumsDef
<1> HIDE DEF o, p
<1>3. 0 \in T
  BY <1>2
<1>4. ASSUME NEW n \in Nat, n \in T PROVE n + 1 \in T
  <2> SUFFICES ASSUME n + 1 <= N
               PROVE  o[n + 1] <= p[n + 1] + (IF n + 1 < k THEN 0 ELSE m)
    OBVIOUS
  <2>1. /\ n + 1 \in 1 .. N /\ n + 1 \in 1 .. Len(s) /\ n + 1 \in 1 .. Len(t)
        /\ n \in 0 .. Len(s) /\ n \in 0 .. Len(t) /\ (n + 1) - 1 = n
        /\ n + 1 \in 0 .. Len(s) /\ n + 1 \in 0 .. Len(t)
    BY <1>1
  <2> DEFINE a == o[n]
             a1 == o[n + 1]
             b == p[n]
             b1 == p[n + 1]
             c == s[n + 1]
             d == t[n + 1]
  <2>2. a1 = a + c /\ b1 = b + d
    BY <1>2, <2>1
  <2>3. /\ a <= b + (IF n < k THEN 0 ELSE m)
        /\ c <= d + (IF n + 1 = k THEN m ELSE 0)
    BY <1>4, <2>1
  <2>4. a \in Nat /\ b \in Nat /\ c \in Nat /\ d \in Nat
    BY <1>1, <1>2, <2>1
  <2> HIDE DEF a, a1, b, b1, c, d
  <2>5. a1 <= b1 + (IF n + 1 < k THEN 0 ELSE m)
    BY ONLY <2>2, <2>3, <2>4, n \in Nat, k \in Nat, m \in Nat
  <2> QED BY <2>5 DEF a1, b1
<1>5. N \in T
  <2> HIDE DEF T
  <2>1. \A n \in Nat : n \in T
    BY <1>3, <1>4, NatInduct
  <2> QED BY <2>1
<1>6. o[N] \in Nat /\ p[N] \in Nat
  <2>1. N \in 0 .. Len(s) /\ N \in 0 .. Len(t)
    BY <1>1
  <2> QED BY <2>1, <1>2
<1> QED BY <1>5, <1>6 DEF o, p

\* Lists that agree up to N have the same total of N entries.
LEMMA PrefixAgree ==
  ASSUME NEW s \in Seq(Nat), NEW t \in Seq(Nat), NEW N \in Nat,
         N <= Len(s), N <= Len(t), \A i \in 1 .. N : s[i] = t[i]
  PROVE  PrefixSums(s)[N] = PrefixSums(t)[N]
<1>1. /\ Len(s) \in Nat /\ \A i \in 1 .. Len(s) : s[i] \in Nat
      /\ Len(t) \in Nat /\ \A i \in 1 .. Len(t) : t[i] \in Nat
  OBVIOUS
<1>2. 0 \in Nat /\ \A i \in 1 .. N : /\ s[i] <= t[i] + (IF i = 0 THEN 0 ELSE 0)
                                    /\ t[i] <= s[i] + (IF i = 0 THEN 0 ELSE 0)
  BY <1>1
<1>3. PrefixSums(s)[N] <= PrefixSums(t)[N] + 0
  BY <1>2, PrefixExceeds
<1>4. PrefixSums(t)[N] <= PrefixSums(s)[N] + 0
  BY <1>2, PrefixExceeds
<1>5. PrefixSums(s)[N] \in Nat /\ PrefixSums(t)[N] \in Nat
  <2>1. N \in 0 .. Len(s) /\ N \in 0 .. Len(t)
    BY <1>1
  <2> QED BY <2>1, PrefixSumsDef
<1> QED BY <1>3, <1>4, <1>5

\* The totals of a list behind another go on where those of the first end.
LEMMA PrefixConcat ==
  ASSUME NEW s \in Seq(Nat), NEW t \in Seq(Nat)
  PROVE  /\ s \o t \in Seq(Nat) /\ Len(s \o t) = Len(s) + Len(t)
         /\ \A i \in 0 .. Len(s) : PrefixSums(s \o t)[i] = PrefixSums(s)[i]
         /\ \A i \in 0 .. Len(t) : PrefixSums(s \o t)[Len(s) + i] = Total(s) + PrefixSums(t)[i]
         /\ Total(s \o t) = Total(s) + Total(t)
<1> DEFINE u == s \o t
           p == PrefixSums(t)
           q == PrefixSums(u)
           L == Len(s)
           M == Len(t)
           T == {n \in Nat : n <= M => q[L + n] = Total(s) + p[n]}
<1>1. L \in Nat /\ M \in Nat /\ Total(s) \in Nat
  BY TotalDef
<1>2. /\ u \in Seq(Nat) /\ Len(u) = L + M
      /\ \A i \in 1 .. L : u[i] = s[i]
      /\ \A i \in 1 .. M : u[L + i] = t[i]
  <2>1. /\ u \in Seq(Nat) /\ Len(u) = L + M
        /\ \A i \in 1 .. Len(u) : u[i] = IF i <= L THEN s[i] ELSE t[i - L]
    BY ConcatProperties
  <2>2. \A i \in 1 .. M : L + i \in 1 .. Len(u) /\ ~ (L + i <= L) /\ (L + i) - L = i
    BY <1>1, <2>1
  <2>3. \A i \in 1 .. L : i \in 1 .. Len(u) /\ i <= L
    BY <1>1, <2>1
  <2> HIDE DEF u
  <2> QED BY <2>1, <2>2, <2>3
<1> HIDE DEF u
<1>3. /\ p \in [0 .. M -> Nat] /\ p[0] = 0
      /\ \A i \in 1 .. M : p[i] = p[i - 1] + t[i]
      /\ \A i \in 1 .. L + M : q[i] = q[i - 1] + u[i]
  BY <1>2, PrefixSumsDef
<1>4. \A i \in 0 .. L : q[i] = PrefixSums(s)[i]
  <2> TAKE i \in 0 .. L
  <2>1. i \in Nat /\ i <= Len(u) /\ i <= Len(s) /\ \A j \in 1 .. i : u[j] = s[j]
    BY <1>1, <1>2
  <2> QED BY <2>1, <1>2, PrefixAgree
<1>5. q[L] = Total(s)
  BY <1>1, <1>4 DEF Total
<1> HIDE DEF p, q, L, M
<1>6. 0 \in T
  BY <1>1, <1>3, <1>5
<1>7. ASSUME NEW n \in Nat, n \in T PROVE n + 1 \in T
  <2> SUFFICES ASSUME n + 1 <= M PROVE q[L + (n + 1)] = Total(s) + p[n + 1]
    OBVIOUS
  <2>1. /\ n + 1 \in 1 .. M /\ L + (n + 1) \in 1 .. L + M /\ n \in 0 .. M
        /\ (n + 1) - 1 = n /\ (L + (n + 1)) - 1 = L + n
    BY <1>1
  <2>2. q[L + (n + 1)] = q[L + n] + t[n + 1] /\ p[n + 1] = p[n] + t[n + 1]
    BY <1>2, <1>3, <2>1
  <2>3. q[L + n] = Total(s) + p[n]
    BY <1>7, <2>1
  <2>4. t[n + 1] \in Nat
    BY <2>1 DEF M
  <2>5. p[n] \in Nat
    BY <1>3, <2>1
  <2> QED BY <1>1, <2>2, <2>3, <2>4, <2>5
<1>8. \A n \in Nat : n \in T
  <2> HIDE DEF T
  <2> QED BY <1>6, <1>7, NatInduct
<1>9. \A i \in 0 .. M : q[L + i] = Total(s) + p[i]
  BY <1>1, <1>8
<1>10. Total(u) = Total(s) + Total(t)
  BY <1>1, <1>2, <1>9 DEF Total, p, q, M
<1> QED BY <1>2, <1>4, <1>9, <1>10 DEF u, p, q, L, M

\* A list of one entry, and an entry more.
LEMMA TotalOne ==
  ASSUME NEW n \in Nat
  PROVE  Total(<<n>>) = n
<1> DEFINE s == <<n>>
<1>1. s \in Seq(Nat) /\ Len(s) = 1 /\ s[1] = n /\ 1 \in 1 .. 1
  OBVIOUS
<1> HIDE DEF s
<1>2. PrefixSums(s)[1] = PrefixSums(s)[0] + n /\ PrefixSums(s)[0] = 0
  BY <1>1, PrefixSumsDef
<1>3. Total(s) = n
  BY <1>1, <1>2 DEF Total
<1> QED BY <1>3 DEF s

\* n entries of the same size.
LEMMA TotalConstant ==
  ASSUME NEW n \in Nat, NEW c \in Nat
  PROVE  Total([i \in 1 .. n |-> c]) = n * c
<1> DEFINE s == [i \in 1 .. n |-> c]
           o == PrefixSums(s)
           T == {k \in Nat : k <= n => o[k] = k * c}
<1>1. s \in Seq(Nat) /\ Len(s) = n /\ \A i \in 1 .. n : s[i] = c
  OBVIOUS
<1> HIDE DEF s
<1>2. o[0] = 0 /\ \A i \in 1 .. n : o[i] = o[i - 1] + c
  BY <1>1, PrefixSumsDef
<1> HIDE DEF o
<1>3. 0 \in T
  BY <1>2
<1>4. ASSUME NEW k \in Nat, k \in T PROVE k + 1 \in T
  <2> SUFFICES ASSUME k + 1 <= n PROVE o[k + 1] = (k + 1) * c
    OBVIOUS
  <2>1. k + 1 \in 1 .. n /\ (k + 1) - 1 = k /\ k <= n
    OBVIOUS
  <2>2. o[k + 1] = k * c + c
    BY <1>2, <1>4, <2>1
  <2>3. (k + 1) * c = k * c + c
    OBVIOUS
  <2> QED BY <2>2, <2>3
<1>5. n \in T
  <2> HIDE DEF T
  <2> QED BY <1>3, <1>4, NatInduct
<1> QED BY <1>1, <1>5 DEF o, s, Total

-----------------------------------------------------------------------------
(***************************************************************************)
(* What Kept computes.                                                     *)
(***************************************************************************)

\* A list of wanted entries, no longer than the one it is taken from.
LEMMA KeptDef ==
  ASSUME NEW V, NEW s \in Seq(V), NEW W
  PROVE  /\ Kept(s, W) \in Seq(V \cap W) /\ Kept(s, W) \in Seq(V)
         /\ Len(Kept(s, W)) <= Len(s)
<1> DEFINE N == Len(s)
           S == Seq(V \cap W)
           next(i, r) == IF s[i] \in W THEN Append(r, s[i]) ELSE r
           step == [p \in (1 .. N) \X S |-> next(p[1], p[2])]
           Rec(f) == f = [i \in 0 .. N |-> IF i = 0 THEN <<>> ELSE next(i, f[i - 1])]
<1>1. N \in Nat /\ <<>> \in S
  OBVIOUS
<1>2. ASSUME NEW i \in 1 .. N, NEW r \in S
      PROVE  next(i, r) \in S /\ Len(next(i, r)) <= Len(r) + 1
  <2>1. s[i] \in V /\ Len(r) \in Nat
    OBVIOUS
  <2>2. CASE s[i] \in W
    <3>1. Append(r, s[i]) \in S /\ Len(Append(r, s[i])) = Len(r) + 1
      BY <2>1, <2>2, AppendProperties
    <3> QED BY <2>1, <2>2, <3>1
  <2>3. CASE s[i] \notin W
    BY <2>1, <2>3
  <2> QED BY <2>2, <2>3
<1>3. \A r \in S : Len(r) \in Nat
  OBVIOUS
<1> HIDE DEF next, S
<1>4. step \in StepFunctions(N, S)
  BY <1>2 DEF StepFunctions
<1>5. \A i \in 1 .. N, r \in S : step[<<i, r>>] = next(i, r)
  OBVIOUS
<1> HIDE DEF N, step
<1>6. PICK f \in [0 .. N -> S] : IsRecursive(f, N, <<>>, step)
  BY <1>1, <1>4, Recursion
<1>7. Rec(f)
  <2>1. \A i \in 0 .. N : i # 0 => i \in 1 .. N /\ f[i - 1] \in S
    BY <1>1
  <2>2. \A i \in 0 .. N : i # 0 => step[<<i, f[i - 1]>>] = next(i, f[i - 1])
    BY <2>1, <1>5
  <2> QED BY <1>6, <2>2 DEF IsRecursive
<1> DEFINE g == CHOOSE h : Rec(h)
<1>8. Kept(s, W) = g[N]
  BY DEF Kept, N, next
<1>9. Rec(g)
  <2> HIDE DEF Rec
  <2> QED BY <1>7
<1> HIDE DEF g
<1> DEFINE T == {n \in Nat : n <= N => g[n] \in S /\ Len(g[n]) <= n}
<1>10. 0 \in T
  <2>1. 0 \in 0 .. N
    BY <1>1
  <2>2. g[0] = <<>>
    BY <1>9, <2>1
  <2> QED BY <1>1, <2>2
<1>11. ASSUME NEW n \in Nat, n \in T PROVE n + 1 \in T
  <2> SUFFICES ASSUME n + 1 <= N PROVE g[n + 1] \in S /\ Len(g[n + 1]) <= n + 1
    OBVIOUS
  <2>1. n + 1 \in 1 .. N /\ n + 1 \in 0 .. N /\ n + 1 # 0 /\ (n + 1) - 1 = n /\ n <= N
    BY <1>1
  <2>2. g[n + 1] = next(n + 1, g[n])
    BY <1>9, <2>1
  <2>3. g[n] \in S /\ Len(g[n]) <= n
    BY <1>11, <2>1
  <2>4. next(n + 1, g[n]) \in S /\ Len(next(n + 1, g[n])) <= Len(g[n]) + 1
    BY <1>2, <2>1, <2>3
  <2> QED BY <1>3, <2>2, <2>3, <2>4
<1>12. N \in T
  <2> HIDE DEF T
  <2> QED BY <1>1, <1>10, <1>11, NatInduct
<1> QED BY <1>1, <1>8, <1>12 DEF S, N

\* Each number below a total falls into one of the summands.
LEMMA PrefixCover ==
  ASSUME NEW s \in Seq(Nat), NEW x \in Nat, x < Total(s)
  PROVE  \E i \in 1 .. Len(s) : PrefixSums(s)[i - 1] <= x /\ x < PrefixSums(s)[i - 1] + s[i]
<1> DEFINE T == {j \in 0 .. Len(s) : x < PrefixSums(s)[j]}
<1>1. Len(s) \in Nat /\ Len(s) \in T
  BY DEF Total
<1>2. PICK j \in T : \A k \in T : j <= k
  <2>1. T \subseteq Nat
    OBVIOUS
  <2> HIDE DEF T
  <2> QED
    BY Zenon, <1>1, <2>1, LeastNat
<1>3. /\ PrefixSums(s) \in [0 .. Len(s) -> Nat] /\ PrefixSums(s)[0] = 0
      /\ \A i \in 1 .. Len(s) : PrefixSums(s)[i] = PrefixSums(s)[i - 1] + s[i]
  BY PrefixSumsDef
<1>4. j # 0 /\ j \in 1 .. Len(s) /\ j - 1 \in 0 .. Len(s)
  BY <1>1, <1>2, <1>3
<1>5. ~(x < PrefixSums(s)[j - 1])
  BY <1>2, <1>4
<1>6. PrefixSums(s)[j - 1] \in Nat
  BY Zenon, <1>3, <1>4
<1>7. PrefixSums(s)[j - 1] <= x
  BY <1>5, <1>6
<1> QED
  BY <1>2, <1>3, <1>4, <1>7

\* The total of two numbers.
LEMMA TotalTwo ==
  ASSUME NEW m \in Nat, NEW n \in Nat
  PROVE  Total(<<m, n>>) = m + n
<1> DEFINE s == <<m, n>>
<1>1. s \in Seq(Nat) /\ Len(s) = 2 /\ s[1] = m /\ s[2] = n
  OBVIOUS
<1> HIDE DEF s
<1>2. PrefixSums(s)[0] = 0 /\ \A i \in 1 .. Len(s) : PrefixSums(s)[i] = PrefixSums(s)[i - 1] + s[i]
  BY <1>1, PrefixSumsDef
<1>3. PrefixSums(s)[1] = PrefixSums(s)[0] + s[1] /\ PrefixSums(s)[2] = PrefixSums(s)[1] + s[2]
  BY <1>1, <1>2
<1>4. Total(s) = m + n
  BY <1>1, <1>2, <1>3 DEF Total
<1> QED
  BY <1>4 DEF s

=============================================================================
