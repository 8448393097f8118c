---------------------------- MODULE Collections -----------------------------
(* Operators on sets and lists that several components use.                *)
EXTENDS Integers, Sequences, FiniteSetsExt

(* The sum of f over the elements of S.                                    *)
Total(f, S) == MapThenSumSet(LAMBDA x : f[x], S)

(* The elements of a list that are in keep, in their order: the loop that  *)
(* appends to a new slice what is to stay.                                 *)
Kept(list, keep) ==
    LET upTo[i \in 0..Len(list)] ==
          IF i = 0 THEN <<>>
          ELSE IF list[i] \in keep THEN Append(upTo[i - 1], list[i]) ELSE upTo[i - 1]
    IN upTo[Len(list)]

(* The elements of a set in any order, as a loop over a Go map meets them. *)
Orders(S) == Bijection(1..Cardinality(S), S)

=============================================================================
