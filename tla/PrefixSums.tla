------------------------------ MODULE PrefixSums ------------------------------
(***************************************************************************)
(* Loops over lists.  What a running total is after each entry of a list   *)
(* of sizes: the dump is full of these, the file offsets, the user streams,*)
(* the ranges of each memory list, the stack offsets of the ThreadList.    *)
(* And what is left of a list whose entries are not all wanted.            *)
(***************************************************************************)
EXTENDS Integers, Sequences

\* PrefixSums(sizes)[i] is the sum of the first i sizes.
PrefixSums(sizes) ==
  LET sum[i \in 0 .. Len(sizes)] == IF i = 0 THEN 0 ELSE sum[i - 1] + sizes[i]
  IN  sum

Total(sizes) == PrefixSums(sizes)[Len(sizes)]

\* The entries of a list that are wanted, in their order.
Kept(list, wanted) ==
  LET upTo[i \in 0 .. Len(list)] ==
        IF i = 0 THEN <<>>
        ELSE IF list[i] \in wanted THEN Append(upTo[i - 1], list[i]) ELSE upTo[i - 1]
  IN  upTo[Len(list)]

=============================================================================
