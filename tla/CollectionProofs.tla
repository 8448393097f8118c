-------------------------- MODULE CollectionProofs --------------------------
(***************************************************************************)
(* Facts about the operators of Collections, by induction in the form of a *)
(* smallest counterexample: a set of bad values that is not empty has a    *)
(* minimal element.                                                        *)
(***************************************************************************)
EXTENDS Collections, FiniteSetTheorems, WellFoundedInduction, TLAPS

(* Induction over the subsets of a finite set.                             *)
LEMMA SubsetInduction ==
    ASSUME NEW S, IsFiniteSet(S), NEW T,
           \A U \in SUBSET S : (\A V \in SUBSET U : V # U => V \in T) => U \in T
    PROVE  SUBSET S \subseteq T
<1> DEFINE Bad == (SUBSET S) \ T
<1>1. SUFFICES ASSUME Bad # {} PROVE FALSE
  OBVIOUS
<1>2. IsWellFoundedOn(StrictSubsetOrdering(S), SUBSET S)
  BY FS_StrictSubsetOrderingWellFounded, FS_FiniteSubsetsOfFinite, Zenon
<1>3. Bad \subseteq SUBSET S
  OBVIOUS
<1>4. PICK U \in Bad : \A V \in Bad : ~(<<V, U>> \in StrictSubsetOrdering(S))
  <2> HIDE DEF Bad
  <2> QED BY <1>1, <1>2, <1>3, WFMin
<1>5. ASSUME NEW V \in SUBSET U, V # U PROVE V \in T
  BY <1>4, <1>5, Zenon DEF StrictSubsetOrdering
<1> QED BY <1>4, <1>5

(* Induction over the natural numbers, from the one over their intervals.  *)
LEMMA NatSetInduction ==
    ASSUME NEW T, 0 \in T, \A n \in Nat : n \in T => n + 1 \in T
    PROVE  Nat \subseteq T
<1> SUFFICES ASSUME NEW n \in Nat PROVE n \in T
  OBVIOUS
<1> DEFINE S == 0..n
           G == {U \in SUBSET S : \A k \in Nat : U = 0..k => k \in T}
<1>1. \A U \in SUBSET S : (\A V \in SUBSET U : V # U => V \in G) => U \in G
  <2> SUFFICES ASSUME NEW U \in SUBSET S, \A V \in SUBSET U : V # U => V \in G,
                      NEW k \in Nat, U = 0..k, k # 0
               PROVE  k \in T
    BY Zenon
  <2>1. k - 1 \in Nat /\ (0..(k - 1)) \in SUBSET U /\ k \in U /\ k \notin 0..(k - 1)
    OBVIOUS
  <2>2. (0..(k - 1)) \in G
    BY <2>1, Zenon
  <2>3. k - 1 \in T
    BY <2>1, <2>2
  <2> QED BY <2>1, <2>3
<1>2. IsFiniteSet(S)
  BY FS_Interval
<1>3. SUBSET S \subseteq G
  <2> HIDE DEF G, S
  <2> QED BY <1>1, <1>2, SubsetInduction
<1> QED BY <1>3, Zenon

-----------------------------------------------------------------------------
(* The function that MapThenFoldSet folds with, as an equation.            *)
Chosen(s) == CHOOSE x \in s : TRUE
Sums(f, S, g) ==
    g = [s \in SUBSET S |-> IF s = {} THEN 0 ELSE f[Chosen(s)] + g[s \ {Chosen(s)}]]
TheSums(f, S) == CHOOSE g : Sums(f, S, g)

\* Total, as a solution of the equations of a sum.
LEMMA TotalDef == ASSUME NEW f, NEW S PROVE Total(f, S) = TheSums(f, S)[S]
BY DEF Total, MapThenSumSet, MapThenFoldSet, Chosen, Sums, TheSums

\* The element that a fold takes first is one of the set.
LEMMA ChosenIn == ASSUME NEW s, s # {} PROVE Chosen(s) \in s
BY DEF Chosen

(* Two solutions agree wherever both are defined.                          *)
LEMMA SumsAgree ==
    ASSUME NEW f, NEW S, IsFiniteSet(S), NEW U \in SUBSET S, NEW g, NEW h,
           Sums(f, S, g), Sums(f, U, h)
    PROVE  g[U] = h[U]
<1> DEFINE T == {s \in SUBSET U : g[s] = h[s]}
<1>1. IsFiniteSet(U)
  BY FS_Subset
<1>2. \A s \in SUBSET U : (\A V \in SUBSET s : V # s => V \in T) => s \in T
  <2>a. SUFFICES ASSUME NEW s \in SUBSET U, \A V \in SUBSET s : V # s => V \in T
                 PROVE  s \in T
    OBVIOUS
  <2>1. CASE s = {}
    BY <2>1 DEF Sums
  <2>2. CASE s # {}
    <3>1. Chosen(s) \in s
      BY <2>2, ChosenIn
    <3>2. s \ {Chosen(s)} \in T
      BY <2>a, <3>1
    <3>3. g[s] = f[Chosen(s)] + g[s \ {Chosen(s)}]
      BY <2>2, Zenon DEF Sums
    <3>4. h[s] = f[Chosen(s)] + h[s \ {Chosen(s)}]
      BY <2>2, Zenon DEF Sums
    <3> QED BY <3>2, <3>3, <3>4
  <2> QED BY <2>1, <2>2
<1>3. SUBSET U \subseteq T
  <2> HIDE DEF T
  <2> QED BY <1>1, <1>2, SubsetInduction
<1> QED BY <1>3

(* There is a solution.                                                    *)
LEMMA SumsExist ==
    ASSUME NEW f, NEW S, IsFiniteSet(S)
    PROVE  Sums(f, S, TheSums(f, S))
<1> DEFINE T == {U \in SUBSET S : \E g : Sums(f, U, g)}
<1>1. \A U \in SUBSET S : (\A V \in SUBSET U : V # U => V \in T) => U \in T
  <2>a. SUFFICES ASSUME NEW U \in SUBSET S, \A V \in SUBSET U : V # U => V \in T
                 PROVE  U \in T
    BY Zenon
  <2> DEFINE Least(s) == IF s = {} THEN 0
                         ELSE f[Chosen(s)] + TheSums(f, s \ {Chosen(s)})[s \ {Chosen(s)}]
             g == [s \in SUBSET U |-> Least(s)]
  <2>1. ASSUME NEW V \in SUBSET U, V # U PROVE Sums(f, V, TheSums(f, V))
    BY <2>a, <2>1 DEF TheSums
  <2>2. ASSUME NEW s \in SUBSET U, s # {}
        PROVE  g[s] = f[Chosen(s)] + g[s \ {Chosen(s)}]
    <3> DEFINE V == s \ {Chosen(s)}
    <3>1. Chosen(s) \in s
      BY <2>2, ChosenIn
    <3>2. V \in SUBSET U /\ V # U
      BY <3>1
    <3>3. g[s] = f[Chosen(s)] + TheSums(f, V)[V]
      BY <2>2
    <3>4. g[V] = TheSums(f, V)[V]
      <4>1. CASE V = {}
        BY <2>1, <3>2, <4>1, ZenonT(30) DEF Sums
      <4>2. CASE V # {}
        <5> DEFINE W == V \ {Chosen(V)}
        <5>1. Chosen(V) \in V
          BY <4>2, ChosenIn
        <5>2. W \in SUBSET V /\ W \in SUBSET U /\ W # U
          BY <3>2, <5>1
        <5>3. Sums(f, V, TheSums(f, V)) /\ Sums(f, W, TheSums(f, W))
          BY <2>1, <3>2, <5>2
        <5>4. IsFiniteSet(V)
          BY <3>2, FS_Subset
        <5>5. TheSums(f, V)[W] = TheSums(f, W)[W]
          <6> HIDE DEF V, W
          <6> QED BY <5>2, <5>3, <5>4, SumsAgree
        <5>6. TheSums(f, V)[V] = f[Chosen(V)] + TheSums(f, V)[W]
          BY <4>2, <5>3, Zenon DEF Sums
        <5>7. g[V] = f[Chosen(V)] + TheSums(f, W)[W]
          BY <3>2, <4>2
        <5> QED BY <5>5, <5>6, <5>7
      <4> QED BY <4>1, <4>2
    <3> QED BY <3>3, <3>4
  <2>3. Sums(f, U, g)
    <3> HIDE DEF Least
    <3>1. \A s \in SUBSET U : s = {} => g[s] = 0
      BY DEF Least
    <3> HIDE DEF g
    <3>2. g = [s \in SUBSET U |-> g[s]]
      BY DEF g
    <3> QED BY <2>2, <3>1, <3>2, Zenon DEF Sums
  <2> QED BY <2>3
<1>2. SUBSET S \subseteq T
  <2> HIDE DEF T
  <2> QED BY <1>1, SubsetInduction
<1> QED BY <1>2 DEF TheSums

(* What Total computes, as a recursion over its own values.                *)
LEMMA TotalStep ==
    ASSUME NEW f, NEW S, IsFiniteSet(S), S # {}
    PROVE  Total(f, S) = f[Chosen(S)] + Total(f, S \ {Chosen(S)})
<1> DEFINE V == S \ {Chosen(S)}
<1>1. IsFiniteSet(V) /\ V \in SUBSET S
  BY FS_Subset
<1>2. Sums(f, S, TheSums(f, S)) /\ Sums(f, V, TheSums(f, V))
  BY <1>1, SumsExist
<1>3. TheSums(f, S)[V] = TheSums(f, V)[V]
  BY <1>1, <1>2, SumsAgree
<1>4. TheSums(f, S)[S] = f[Chosen(S)] + TheSums(f, S)[V]
  BY <1>2, Zenon DEF Sums
<1> QED BY <1>3, <1>4, TotalDef

(* Nothing adds up to 0.                                                   *)
LEMMA TotalEmpty == ASSUME NEW f PROVE Total(f, {}) = 0
<1>1. Sums(f, {}, TheSums(f, {}))
  BY SumsExist, FS_EmptySet
<1> QED BY <1>1, TotalDef, Zenon DEF Sums

(* A sum of integers is an integer.                                        *)
LEMMA TotalInt ==
    ASSUME NEW f, NEW S, IsFiniteSet(S), \A x \in S : f[x] \in Int
    PROVE  Total(f, S) \in Int
<1> DEFINE T == {U \in SUBSET S : Total(f, U) \in Int}
<1>1. \A U \in SUBSET S : (\A V \in SUBSET U : V # U => V \in T) => U \in T
  <2>a. SUFFICES ASSUME NEW U \in SUBSET S, \A V \in SUBSET U : V # U => V \in T
                 PROVE  U \in T
    OBVIOUS
  <2>1. CASE U = {}
    BY <2>1, TotalEmpty
  <2>2. CASE U # {}
    <3>1. IsFiniteSet(U) /\ Chosen(U) \in U
      BY <2>2, FS_Subset, ChosenIn
    <3>2. Total(f, U \ {Chosen(U)}) \in Int
      BY <2>a, <3>1
    <3> QED BY <2>2, <3>1, <3>2, TotalStep
  <2> QED BY <2>1, <2>2
<1>2. SUBSET S \subseteq T
  <2> HIDE DEF T
  <2> QED BY <1>1, SubsetInduction
<1> QED BY <1>2

(* Any element can be the one that is taken off first.                     *)
LEMMA TotalRemove ==
    ASSUME NEW f, NEW S, IsFiniteSet(S), \A x \in S : f[x] \in Int, NEW e \in S
    PROVE  Total(f, S) = f[e] + Total(f, S \ {e})
<1> DEFINE T == {U \in SUBSET S : \A x \in U : Total(f, U) = f[x] + Total(f, U \ {x})}
<1>1. \A U \in SUBSET S : (\A V \in SUBSET U : V # U => V \in T) => U \in T
  <2>a. SUFFICES ASSUME NEW U \in SUBSET S, \A V \in SUBSET U : V # U => V \in T
                 PROVE  U \in T
    BY Zenon
  <2> SUFFICES ASSUME NEW x \in U PROVE Total(f, U) = f[x] + Total(f, U \ {x})
    OBVIOUS
  <2> DEFINE c == Chosen(U)
             W == U \ {c, x}
  <2>1. IsFiniteSet(U) /\ c \in U /\ IsFiniteSet(W)
    BY FS_Subset, ChosenIn
  <2>2. Total(f, U) = f[c] + Total(f, U \ {c})
    BY <2>1, TotalStep
  <2>3. CASE x = c
    BY <2>2, <2>3
  <2>4. CASE x # c
    <3>1. (U \ {c}) \in T /\ (U \ {x}) \in T
      BY <2>a, <2>1
    <3>2. Total(f, U \ {c}) = f[x] + Total(f, W)
      <4>1. (U \ {c}) \ {x} = W
        OBVIOUS
      <4> QED BY <3>1, <4>1, <2>4
    <3>3. Total(f, U \ {x}) = f[c] + Total(f, W)
      <4>1. (U \ {x}) \ {c} = W
        OBVIOUS
      <4> QED BY <3>1, <4>1, <2>1, <2>4, Zenon
    <3>4. Total(f, W) \in Int /\ f[x] \in Int /\ f[c] \in Int
      BY <2>1, TotalInt
    <3> QED BY <2>2, <3>2, <3>3, <3>4
  <2> QED BY <2>3, <2>4
<1>2. SUBSET S \subseteq T
  <2> HIDE DEF T
  <2> QED BY <1>1, SubsetInduction, Zenon
<1> QED BY <1>2

(* One more element adds its value.                                        *)
LEMMA TotalAdd ==
    ASSUME NEW f, NEW S, IsFiniteSet(S), NEW e, e \notin S,
           \A x \in S \cup {e} : f[x] \in Int
    PROVE  Total(f, S \cup {e}) = Total(f, S) + f[e]
<1>1. IsFiniteSet(S \cup {e})
  BY FS_AddElement
<1>2. (S \cup {e}) \ {e} = S
  OBVIOUS
<1>3. Total(f, S \cup {e}) = f[e] + Total(f, S)
  BY <1>1, <1>2, TotalRemove
<1>4. Total(f, S) \in Int
  BY TotalInt
<1> QED BY <1>3, <1>4

(* Only the values on S count.                                             *)
LEMMA TotalSame ==
    ASSUME NEW f, NEW g, NEW S, IsFiniteSet(S), \A x \in S : f[x] = g[x]
    PROVE  Total(f, S) = Total(g, S)
<1> DEFINE T == {U \in SUBSET S : Total(f, U) = Total(g, U)}
<1>1. \A U \in SUBSET S : (\A V \in SUBSET U : V # U => V \in T) => U \in T
  <2>a. SUFFICES ASSUME NEW U \in SUBSET S, \A V \in SUBSET U : V # U => V \in T
                 PROVE  U \in T
    OBVIOUS
  <2>1. CASE U = {}
    BY <2>1, TotalEmpty
  <2>2. CASE U # {}
    <3>1. IsFiniteSet(U) /\ Chosen(U) \in U
      BY <2>2, FS_Subset, ChosenIn
    <3>2. Total(f, U \ {Chosen(U)}) = Total(g, U \ {Chosen(U)})
      BY <2>a, <3>1
    <3> QED BY <2>2, <3>1, <3>2, TotalStep
  <2> QED BY <2>1, <2>2
<1>2. SUBSET S \subseteq T
  <2> HIDE DEF T
  <2> QED BY <1>1, SubsetInduction, Zenon
<1> QED BY <1>2

(* A sum of natural numbers is one.                                        *)
LEMMA TotalNat ==
    ASSUME NEW f, NEW S, IsFiniteSet(S), \A x \in S : f[x] \in Nat
    PROVE  Total(f, S) \in Nat
<1> DEFINE T == {U \in SUBSET S : Total(f, U) \in Nat}
<1>1. \A U \in SUBSET S : (\A V \in SUBSET U : V # U => V \in T) => U \in T
  <2>a. SUFFICES ASSUME NEW U \in SUBSET S, \A V \in SUBSET U : V # U => V \in T
                 PROVE  U \in T
    OBVIOUS
  <2>1. CASE U = {}
    BY <2>1, TotalEmpty
  <2>2. CASE U # {}
    <3>1. IsFiniteSet(U) /\ Chosen(U) \in U
      BY <2>2, FS_Subset, ChosenIn
    <3>2. Total(f, U \ {Chosen(U)}) \in Nat
      BY <2>a, <3>1
    <3> QED BY <2>2, <3>1, <3>2, TotalStep
  <2> QED BY <2>1, <2>2
<1>2. SUBSET S \subseteq T
  <2> HIDE DEF T
  <2> QED BY <1>1, SubsetInduction
<1> QED BY <1>2

(* A part of natural numbers adds up to no more than all of them.          *)
LEMMA TotalPart ==
    ASSUME NEW f, NEW S, IsFiniteSet(S), NEW P \in SUBSET S, \A x \in S : f[x] \in Nat
    PROVE  Total(f, P) <= Total(f, S)
<1> DEFINE T == {U \in SUBSET S : Total(f, P \cap U) <= Total(f, U)}
<1>1. \A U \in SUBSET S : (\A V \in SUBSET U : V # U => V \in T) => U \in T
  <2>a. SUFFICES ASSUME NEW U \in SUBSET S, \A V \in SUBSET U : V # U => V \in T
                 PROVE  Total(f, P \cap U) <= Total(f, U)
    OBVIOUS
  <2>1. CASE U = {}
    <3>1. P \cap U = {}
      BY <2>1
    <3> QED BY <2>1, <3>1, TotalEmpty
  <2>2. CASE U # {}
    <3> DEFINE c == Chosen(U)
               V == U \ {c}
    <3>1. IsFiniteSet(U) /\ c \in U /\ IsFiniteSet(V) /\ IsFiniteSet(P \cap U) /\ IsFiniteSet(P \cap V)
      BY <2>2, FS_Subset, ChosenIn
    <3>2. Total(f, P \cap V) <= Total(f, V)
      BY <2>a, <3>1
    <3>3. Total(f, U) = f[c] + Total(f, V)
      BY <2>2, <3>1, TotalStep
    <3>4. Total(f, P \cap V) \in Nat /\ Total(f, V) \in Nat /\ f[c] \in Nat
      BY <3>1, TotalNat
    <3>5. CASE c \in P
      <4>1. (P \cap U) \ {c} = P \cap V
        OBVIOUS
      <4>2. Total(f, P \cap U) = f[c] + Total(f, P \cap V)
        BY <3>1, <3>5, <4>1, TotalRemove
      <4> QED BY <3>2, <3>3, <3>4, <4>2
    <3>6. CASE c \notin P
      <4>1. P \cap U = P \cap V
        BY <3>6
      <4> QED BY <3>2, <3>3, <3>4, <4>1
    <3> QED BY <3>5, <3>6
  <2> QED BY <2>1, <2>2
<1>2. SUBSET S \subseteq T
  <2> HIDE DEF T
  <2> QED BY <1>1, SubsetInduction
<1>3. P \cap S = P
  OBVIOUS
<1> QED BY <1>2, <1>3

-----------------------------------------------------------------------------
(* The loop of Kept, as an equation.                                       *)
Loop(list, keep, n, g) ==
    g = [i \in 0..n |-> IF i = 0 THEN <<>>
                         ELSE IF list[i] \in keep THEN Append(g[i - 1], list[i]) ELSE g[i - 1]]

(* What an appended element adds to the range of a sequence.               *)
LEMMA AppendRange ==
    ASSUME NEW E, NEW s \in Seq(E), NEW e \in E
    PROVE  Range(Append(s, e)) = Range(s) \cup {e}
<1> DEFINE t == Append(s, e)
<1>1. Len(s) \in Nat /\ DOMAIN s = 1..Len(s) /\ DOMAIN t = 1..(Len(s) + 1)
  OBVIOUS
<1>2. \A i \in 1..Len(s) : t[i] = s[i]
  OBVIOUS
<1>3. t[Len(s) + 1] = e
  OBVIOUS
<1>4. 1..(Len(s) + 1) = (1..Len(s)) \cup {Len(s) + 1}
  BY <1>1
<1> HIDE DEF t
<1> QED BY <1>1, <1>2, <1>3, <1>4 DEF Range

(* The loop can be run for any number of rounds.                           *)
LEMMA LoopExists ==
    ASSUME NEW list, NEW keep, NEW n \in Nat
    PROVE  \E g : Loop(list, keep, n, g)
<1> DEFINE T == {k \in Nat : \E g : Loop(list, keep, k, g)}
<1>1. 0 \in T
  <2>1. Loop(list, keep, 0, [i \in 0..0 |-> <<>>])
    BY DEF Loop
  <2> QED BY <2>1
<1>2. ASSUME NEW k \in Nat, k \in T PROVE k + 1 \in T
  <2>1. PICK g : Loop(list, keep, k, g)
    BY <1>2
  <2> DEFINE last == IF list[k + 1] \in keep THEN Append(g[k], list[k + 1]) ELSE g[k]
             h == [i \in 0..(k + 1) |-> IF i = k + 1 THEN last ELSE g[i]]
  <2>2. \A i \in 0..(k + 1) : h[i] = IF i = 0 THEN <<>>
                ELSE IF list[i] \in keep THEN Append(h[i - 1], list[i]) ELSE h[i - 1]
    <3> SUFFICES ASSUME NEW i \in 0..(k + 1)
                 PROVE  h[i] = IF i = 0 THEN <<>>
                          ELSE IF list[i] \in keep THEN Append(h[i - 1], list[i]) ELSE h[i - 1]
      OBVIOUS
    <3>1. CASE i = k + 1
      <4>1. k \in 0..(k + 1) /\ i # 0 /\ i - 1 = k /\ k # k + 1
        BY <3>1
      <4>2. h[i] = last /\ h[k] = g[k]
        BY <3>1, <4>1
      <4> QED BY <3>1, <4>1, <4>2
    <3>2. CASE i # k + 1
      <4>1. i \in 0..k
        BY <3>2
      <4>2. h[i] = g[i]
        BY <3>2
      <4>3. i # 0 => i - 1 \in 0..(k + 1) /\ h[i - 1] = g[i - 1]
        BY <4>1
      <4>4. g[i] = IF i = 0 THEN <<>>
                   ELSE IF list[i] \in keep THEN Append(g[i - 1], list[i]) ELSE g[i - 1]
        BY <2>1, <4>1, Zenon DEF Loop
      <4> QED BY <4>2, <4>3, <4>4
    <3> QED BY <3>1, <3>2
  <2>3. Loop(list, keep, k + 1, h)
    <3>1. h = [i \in 0..(k + 1) |-> h[i]]
      OBVIOUS
    <3> HIDE DEF h
    <3> QED BY <2>2, <3>1 DEF Loop
  <2> QED BY <2>3
<1>3. Nat \subseteq T
  <2> HIDE DEF T
  <2> QED BY <1>1, <1>2, NatSetInduction
<1> QED BY <1>3

Firsts(list, k) == {list[i] : i \in 1..k}

(* After k rounds the loop has the elements of the first k that are to     *)
(* stay.                                                                   *)
LEMMA LoopRange ==
    ASSUME NEW E, NEW list \in Seq(E), NEW keep, NEW g, Loop(list, keep, Len(list), g),
           NEW m \in 0..Len(list)
    PROVE  g[m] \in Seq(E) /\ Range(g[m]) = Firsts(list, m) \cap keep
<1> DEFINE Done(k) == g[k] \in Seq(E) /\ Range(g[k]) = {list[i] : i \in 1..k} \cap keep
           T == {k \in Nat : k <= Len(list) => Done(k)}
<1>1. Len(list) \in Nat
  OBVIOUS
<1>2. Done(0)
  <2>1. g[0] = <<>>
    BY <1>1 DEF Loop
  <2>2. Range(<<>>) = {} /\ {list[i] : i \in 1..0} = {} /\ <<>> \in Seq(E)
    BY DEF Range
  <2> QED BY <2>1, <2>2
<1>3. ASSUME NEW k \in Nat, k + 1 <= Len(list), Done(k) PROVE Done(k + 1)
  <2>1. k + 1 \in 0..Len(list) /\ k + 1 \in 1..Len(list) /\ k + 1 # 0 /\ (k + 1) - 1 = k
    BY <1>1, <1>3
  <2>2. list[k + 1] \in E
    BY <2>1
  <2>3. g[k + 1] = IF list[k + 1] \in keep THEN Append(g[k], list[k + 1]) ELSE g[k]
    BY <2>1, Zenon DEF Loop
  <2>4. {list[i] : i \in 1..(k + 1)} = {list[i] : i \in 1..k} \cup {list[k + 1]}
    <3>1. 1..(k + 1) = (1..k) \cup {k + 1}
      OBVIOUS
    <3> QED BY <3>1
  <2>5. CASE list[k + 1] \in keep
    <3>1. g[k + 1] = Append(g[k], list[k + 1])
      BY <2>3, <2>5
    <3>2. Range(Append(g[k], list[k + 1])) = Range(g[k]) \cup {list[k + 1]}
      BY <1>3, <2>2, AppendRange
    <3>3. Append(g[k], list[k + 1]) \in Seq(E)
      BY <1>3, <2>2
    <3>4. Range(g[k]) = {list[i] : i \in 1..k} \cap keep
      BY <1>3
    <3>5. Range(g[k + 1]) = {list[i] : i \in 1..(k + 1)} \cap keep
      BY <2>4, <2>5, <3>1, <3>2, <3>4, Zenon
    <3> QED BY <3>1, <3>3, <3>5
  <2>6. CASE list[k + 1] \notin keep
    BY <1>3, <2>3, <2>4, <2>6
  <2> QED BY <2>5, <2>6
<1>4. Nat \subseteq T
  <2> HIDE DEF Done
  <2>1. 0 \in T
    BY <1>2
  <2>2. ASSUME NEW k \in Nat, k \in T PROVE k + 1 \in T
    BY <1>1, <1>3, <2>2
  <2> HIDE DEF T
  <2> QED BY <2>1, <2>2, NatSetInduction
<1>5. Done(m)
  <2> HIDE DEF Done
  <2> QED BY <1>1, <1>4
<1> QED BY <1>5 DEF Firsts

(* Kept returns the elements that are in keep.                             *)
LEMMA KeptRange ==
    ASSUME NEW E, NEW list \in Seq(E), NEW keep
    PROVE  /\ Kept(list, keep) \in Seq(E)
           /\ Range(Kept(list, keep)) = Range(list) \cap keep
<1> DEFINE n == Len(list)
           g == CHOOSE h : Loop(list, keep, n, h)
<1>1. n \in Nat /\ n \in 0..n
  OBVIOUS
<1>2. Kept(list, keep) = g[n]
  BY DEF Kept, Loop
<1>3. Range(list) = Firsts(list, n)
  BY DEF Range, Firsts
<1>4. Loop(list, keep, n, g)
  <2> HIDE DEF n
  <2>1. \E h : Loop(list, keep, n, h)
    BY <1>1, LoopExists, Zenon
  <2> QED BY <2>1
<1> HIDE DEF g
<1>5. g[n] \in Seq(E) /\ Range(g[n]) = Firsts(list, n) \cap keep
  BY <1>1, <1>4, LoopRange
<1> QED BY <1>2, <1>3, <1>5

(* The loop takes an element that the list has once at most once.          *)
LEMMA LoopOnce ==
    ASSUME NEW E, NEW list \in Seq(E), NEW keep, NEW g, Loop(list, keep, Len(list), g),
           \A a, b \in DOMAIN list : list[a] = list[b] => a = b,
           NEW m \in 0..Len(list)
    PROVE  \A a, b \in DOMAIN g[m] : g[m][a] = g[m][b] => a = b
<1> DEFINE Once(k) == \A a, b \in DOMAIN g[k] : g[k][a] = g[k][b] => a = b
           T == {k \in Nat : k <= Len(list) => Once(k)}
<1>1. Len(list) \in Nat
  OBVIOUS
<1>2. Once(0)
  <2>1. g[0] = <<>>
    BY <1>1 DEF Loop
  <2> QED BY <2>1
<1>3. ASSUME NEW k \in Nat, k + 1 <= Len(list), Once(k) PROVE Once(k + 1)
  <2>1. /\ k \in 0..Len(list) /\ k + 1 \in 0..Len(list) /\ k + 1 \in 1..Len(list)
        /\ k + 1 # 0 /\ (k + 1) - 1 = k
    BY <1>1, <1>3
  <2>2. g[k + 1] = IF list[k + 1] \in keep THEN Append(g[k], list[k + 1]) ELSE g[k]
    BY <2>1, Zenon DEF Loop
  <2>3. g[k] \in Seq(E) /\ Range(g[k]) = Firsts(list, k) \cap keep
    BY <2>1, LoopRange
  <2>4. list[k + 1] \notin Firsts(list, k)
    BY <1>1, <2>1 DEF Firsts
  <2>5. \A a \in DOMAIN g[k] : g[k][a] # list[k + 1]
    BY <2>3, <2>4 DEF Range
  <2> DEFINE s == g[k]
             e == list[k + 1]
  <2>6. s \in Seq(E) /\ e \in E
    BY <2>1, <2>3
  <2>7. CASE list[k + 1] \in keep
    <3>1. g[k + 1] = Append(s, e)
      BY <2>2, <2>7
    <3>2. \A a, b \in DOMAIN s : s[a] = s[b] => a = b
      BY <1>3
    <3>3. \A a \in DOMAIN s : s[a] # e
      BY <2>5
    <3> HIDE DEF s, e
    <3>4. \A a, b \in DOMAIN Append(s, e) : Append(s, e)[a] = Append(s, e)[b] => a = b
      BY <2>6, <3>2, <3>3
    <3> QED BY <3>1, <3>4
  <2>8. CASE list[k + 1] \notin keep
    BY <1>3, <2>2, <2>8
  <2> QED BY <2>7, <2>8
<1>4. Nat \subseteq T
  <2> HIDE DEF Once
  <2>1. 0 \in T
    BY <1>2
  <2>2. ASSUME NEW k \in Nat, k \in T PROVE k + 1 \in T
    BY <1>1, <1>3, <2>2
  <2> HIDE DEF T
  <2> QED BY <2>1, <2>2, NatSetInduction
<1>5. Once(m)
  <2> HIDE DEF Once
  <2> QED BY <1>1, <1>4
<1> QED BY <1>5

(* Kept repeats nothing that the list does not repeat.                     *)
LEMMA KeptOnce ==
    ASSUME NEW E, NEW list \in Seq(E), NEW keep,
           \A a, b \in DOMAIN list : list[a] = list[b] => a = b
    PROVE  \A a, b \in DOMAIN Kept(list, keep) : Kept(list, keep)[a] = Kept(list, keep)[b] => a = b
<1> DEFINE n == Len(list)
           g == CHOOSE h : Loop(list, keep, n, h)
<1>1. n \in Nat /\ n \in 0..n
  OBVIOUS
<1>2. Kept(list, keep) = g[n]
  BY DEF Kept, Loop
<1>3. Loop(list, keep, n, g)
  <2> HIDE DEF n
  <2>1. \E h : Loop(list, keep, n, h)
    BY <1>1, LoopExists, Zenon
  <2> QED BY <2>1
<1> HIDE DEF g
<1>4. \A a, b \in DOMAIN g[n] : g[n][a] = g[n][b] => a = b
  BY <1>1, <1>3, LoopOnce
<1> QED BY <1>2, <1>4

(* A list over a set is one over a larger set.                             *)
LEMMA ListWidens ==
    ASSUME NEW A, NEW B, A \subseteq B, NEW s \in Seq(A)
    PROVE  s \in Seq(B)
OBVIOUS

(* A concatenation has the elements of both lists.                         *)
LEMMA JoinedRange ==
    ASSUME NEW E, NEW s \in Seq(E), NEW t \in Seq(E)
    PROVE  /\ s \o t \in Seq(E)
           /\ Range(s \o t) = Range(s) \cup Range(t)
<1>1. s \o t \in Seq(E)
  OBVIOUS
<1>2. ASSUME NEW x \in Range(s \o t) PROVE x \in Range(s) \cup Range(t)
  BY DEF Range
<1>3. ASSUME NEW x \in Range(s) PROVE x \in Range(s \o t)
  BY DEF Range
<1>4. ASSUME NEW x \in Range(t) PROVE x \in Range(s \o t)
  <2>1. PICK i \in DOMAIN t : t[i] = x
    BY <1>4 DEF Range
  <2>2. (s \o t)[Len(s) + i] = x /\ Len(s) + i \in DOMAIN (s \o t)
    BY <2>1
  <2> QED BY <2>2 DEF Range
<1> QED BY <1>1, <1>2, <1>3, <1>4

=============================================================================
