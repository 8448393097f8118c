--------------------------- MODULE LimiterProofs ----------------------------
(***************************************************************************)
(* The rate bound of a token bucket, for any number of connections, any    *)
(* sizes and rates.                                                        *)
(***************************************************************************)
EXTENDS RateLimiter, CollectionProofs

(* Facts about products.                                                   *)
LEMMA Product ==
    ASSUME NEW t \in Nat, NEW r \in Nat
    PROVE  t * r \in Nat /\ (t + 1) * r = t * r + r
OBVIOUS

\* A longer time gives at least as many tokens, and the difference is that of the times.
LEMMA ProductGrows ==
    ASSUME NEW u \in Nat, NEW t \in Nat, u <= t, NEW r \in Nat
    PROVE  u * r <= t * r /\ (t - u) * r = t * r - u * r
<1>1. t - u \in Nat /\ (t - u) * r \in Nat
  BY Product
<1>2. t = u + (t - u)
  OBVIOUS
<1>3. (u + (t - u)) * r = u * r + (t - u) * r
  BY <1>1
<1> QED BY <1>1, <1>2, <1>3, Product

(* A sleep is long enough, and not a tick longer than that.                *)
LEMMA CeilDivBounds ==
    ASSUME NEW a \in Nat, NEW r \in Nat \ {0}
    PROVE  /\ CeilDiv(a, r) \in Nat
           /\ a <= CeilDiv(a, r) * r
           /\ CeilDiv(a, r) * r < a + r
BY Z3 DEF CeilDiv

-----------------------------------------------------------------------------
(* What A, the waiters that have been charged and sleep, are owed: the     *)
(* bytes ch[w] pass in sl[w] ticks.  The contract has al left, the bucket  *)
(* R tokens, a burst b and a rate r.                                       *)
Due(A, sl, t) == {w \in A : sl[w] <= t}
Late(A, sl, t) == {w \in A : sl[w] > t}

(* The contract covers what falls due in any number of ticks, and what is  *)
(* in the bucket besides all sleepers; and what still sleeps after t ticks *)
(* is so deep in debt that the cap on the contract, a full bucket, takes   *)
(* nothing away that they will need.                                       *)
Covered(A, ch, sl, al, R, b, r) ==
    /\ \A t \in Nat : Total(ch, Due(A, sl, t)) <= al + t * r
    /\ Total(ch, A) + R <= al
    /\ \A t \in Nat : Late(A, sl, t) # {} => Total(ch, Late(A, sl, t)) + R + t * r <= b - 1
    /\ \A u, t \in Nat : u <= t =>
          Total(ch, Late(A, sl, u) \cap Due(A, sl, t)) <= b - 1 + (t - u) * r

Sleepers(A, ch, sl) ==
    IsFiniteSet(A) /\ \A w \in A : ch[w] \in Nat /\ sl[w] \in Nat

(* The sets and sums above are well defined.                               *)
LEMMA SumsTyped ==
    ASSUME NEW A, NEW ch, NEW sl, Sleepers(A, ch, sl)
    PROVE  \A S \in SUBSET A : IsFiniteSet(S) /\ Total(ch, S) \in Nat /\ Total(ch, S) <= Total(ch, A)
<1> SUFFICES ASSUME NEW S \in SUBSET A
             PROVE  IsFiniteSet(S) /\ Total(ch, S) \in Nat /\ Total(ch, S) <= Total(ch, A)
  OBVIOUS
<1>1. IsFiniteSet(S)
  BY FS_Subset DEF Sleepers
<1>2. \A w \in S : ch[w] \in Nat
  BY DEF Sleepers
<1>3. Total(ch, S) \in Nat
  BY <1>1, <1>2, TotalNat
<1>4. Total(ch, S) <= Total(ch, A)
  BY TotalPart DEF Sleepers
<1> QED BY <1>1, <1>3, <1>4

\* Those due and those late are among the sleepers.
LEMMA DueLateSubsets ==
    ASSUME NEW A, NEW sl
    PROVE  \A u, t \in Nat : /\ Due(A, sl, t) \in SUBSET A
                             /\ Late(A, sl, t) \in SUBSET A
                             /\ Late(A, sl, u) \cap Due(A, sl, t) \in SUBSET A
BY DEF Due, Late

(* Only the values on A matter.                                            *)
LEMMA CoveredSame ==
    ASSUME NEW A, NEW ch, NEW sl, Sleepers(A, ch, sl), NEW al \in Int, NEW R \in Int,
           NEW b \in Int, NEW r \in Nat, Covered(A, ch, sl, al, R, b, r),
           NEW c2, NEW s2, \A w \in A : c2[w] = ch[w] /\ s2[w] = sl[w]
    PROVE  Covered(A, c2, s2, al, R, b, r)
<1>1. \A t \in Nat : Due(A, s2, t) = Due(A, sl, t) /\ Late(A, s2, t) = Late(A, sl, t)
  BY DEF Due, Late
<1>2. \A S \in SUBSET A : Total(c2, S) = Total(ch, S)
  <2> SUFFICES ASSUME NEW S \in SUBSET A PROVE Total(c2, S) = Total(ch, S)
    OBVIOUS
  <2>1. IsFiniteSet(S) /\ \A w \in S : c2[w] = ch[w]
    BY FS_Subset DEF Sleepers
  <2> QED BY <2>1, TotalSame
<1> QED BY <1>1, <1>2, DueLateSubsets, Zenon DEF Covered

(* n bytes pass that the bucket has, or the bucket loses more than the     *)
(* contract.                                                               *)
LEMMA CoveredTake ==
    ASSUME NEW A, NEW ch, NEW sl, Sleepers(A, ch, sl), NEW al \in Int, NEW R \in Int,
           NEW b \in Int, NEW r \in Nat, Covered(A, ch, sl, al, R, b, r),
           NEW n \in Nat, NEW R2 \in Int, R2 <= R - n, n = 0 \/ n <= R
    PROVE  Covered(A, ch, sl, al - n, R2, b, r)
<1>1. ASSUME NEW t \in Nat PROVE Total(ch, Due(A, sl, t)) <= (al - n) + t * r
  <2>1. /\ Total(ch, Due(A, sl, t)) \in Nat /\ Total(ch, A) \in Nat
        /\ Total(ch, Due(A, sl, t)) <= Total(ch, A)
    BY SumsTyped, DueLateSubsets, Zenon
  <2>2. t * r \in Nat
    BY Product
  <2>3. Total(ch, Due(A, sl, t)) <= al + t * r /\ Total(ch, A) + R <= al
    BY DEF Covered
  <2> QED BY <2>1, <2>2, <2>3
<1>2. Total(ch, A) + R2 <= al - n
  <2>1. Total(ch, A) \in Nat /\ Total(ch, A) + R <= al
    BY SumsTyped DEF Covered
  <2> QED BY <2>1
<1>3. ASSUME NEW t \in Nat, Late(A, sl, t) # {}
      PROVE  Total(ch, Late(A, sl, t)) + R2 + t * r <= b - 1
  <2>1. Total(ch, Late(A, sl, t)) \in Nat /\ t * r \in Nat
    BY SumsTyped, DueLateSubsets, Product
  <2>2. Total(ch, Late(A, sl, t)) + R + t * r <= b - 1
    BY <1>3 DEF Covered
  <2> QED BY <2>1, <2>2
<1> QED BY <1>1, <1>2, <1>3 DEF Covered

(* A sleeper that is due passes.                                           *)
LEMMA CoveredLeave ==
    ASSUME NEW A, NEW ch, NEW sl, Sleepers(A, ch, sl), NEW al \in Int, NEW R \in Int,
           NEW b \in Int, NEW r \in Nat, Covered(A, ch, sl, al, R, b, r),
           NEW w \in A, sl[w] = 0
    PROVE  Covered(A \ {w}, ch, sl, al - ch[w], R, b, r)
<1> DEFINE B == A \ {w}
<1>0. ch[w] \in Nat /\ w \notin B
  BY DEF Sleepers
<1>1. ASSUME NEW t \in Nat PROVE Total(ch, Due(B, sl, t)) <= (al - ch[w]) + t * r
  <2>1. w \in Due(A, sl, t) /\ Due(B, sl, t) = Due(A, sl, t) \ {w}
    BY DEF Due
  <2>2. Due(A, sl, t) \in SUBSET A
    BY DueLateSubsets, Zenon
  <2>a. IsFiniteSet(Due(A, sl, t))
    BY <2>2, SumsTyped
  <2>b. \A x \in Due(A, sl, t) : ch[x] \in Int
    BY <2>2 DEF Sleepers
  <2>3. Total(ch, Due(A, sl, t)) = ch[w] + Total(ch, Due(A, sl, t) \ {w})
    BY <2>1, <2>a, <2>b, TotalRemove
  <2>4. Due(B, sl, t) \in SUBSET A
    BY <2>1, DueLateSubsets, Zenon
  <2>5. Total(ch, Due(B, sl, t)) \in Nat /\ t * r \in Nat
    BY <2>4, SumsTyped, Product
  <2>6. Total(ch, Due(A, sl, t)) <= al + t * r
    BY DEF Covered
  <2>7. Total(ch, Due(A, sl, t)) = ch[w] + Total(ch, Due(B, sl, t))
    BY <2>1, <2>3, Zenon
  <2> HIDE DEF B
  <2> QED BY <1>0, <2>5, <2>6, <2>7
<1>2. Total(ch, B) + R <= al - ch[w]
  <2>1. Total(ch, A) = ch[w] + Total(ch, B)
    BY TotalRemove DEF Sleepers
  <2>2. Total(ch, B) \in Nat /\ Total(ch, A) + R <= al
    BY SumsTyped DEF Covered
  <2> QED BY <1>0, <2>1, <2>2
<1>3. \A u \in Nat : Late(B, sl, u) = Late(A, sl, u)
  BY DEF Late
<1>4. \A u, t \in Nat : Late(B, sl, u) \cap Due(B, sl, t) = Late(A, sl, u) \cap Due(A, sl, t)
  BY DEF Late, Due
<1> HIDE DEF B
<1>5. Covered(B, ch, sl, al - ch[w], R, b, r)
  BY <1>1, <1>2, <1>3, <1>4, Zenon DEF Covered
<1> QED BY <1>5 DEF B

(* A waiter goes into debt and sleeps.                                     *)
LEMMA CoveredJoin ==
    ASSUME NEW A, NEW ch, NEW sl, NEW w, w \notin A, Sleepers(A \cup {w}, ch, sl),
           NEW al \in Int, NEW R \in Int, NEW b \in Int, NEW r \in Nat \ {0},
           Covered(A, ch, sl, al, R, b, r),
           ch[w] <= b, R < ch[w], ch[w] - R <= sl[w] * r, sl[w] * r < ch[w] - R + r
    PROVE  Covered(A \cup {w}, ch, sl, al, R - ch[w], b, r)
<1> DEFINE B == A \cup {w}
           c == ch[w]
           s == sl[w]
<1>0. Sleepers(A, ch, sl) /\ IsFiniteSet(B) /\ c \in Nat /\ s \in Nat
  BY FS_Subset DEF Sleepers
<1>1. \A S \in SUBSET A : IsFiniteSet(S) /\ Total(ch, S) \in Nat /\ Total(ch, S) <= Total(ch, A)
  BY <1>0, SumsTyped
<1>2. \A S \in SUBSET A : Total(ch, S \cup {w}) = Total(ch, S) + c
  <2> SUFFICES ASSUME NEW S \in SUBSET A PROVE Total(ch, S \cup {w}) = Total(ch, S) + c
    OBVIOUS
  <2>1. IsFiniteSet(S) /\ w \notin S
    BY <1>1
  <2>2. \A x \in S \cup {w} : ch[x] \in Int
    BY DEF Sleepers
  <2> QED BY <2>1, <2>2, TotalAdd
<1>3. ASSUME NEW t \in Nat, s <= t PROVE c - R <= t * r /\ t * r \in Nat
  <2>1. s * r <= t * r /\ s * r \in Nat /\ t * r \in Nat
    BY <1>0, <1>3, ProductGrows, Product
  <2> QED BY <1>0, <2>1
<1>4. ASSUME NEW t \in Nat, t < s PROVE t * r < c - R /\ t * r \in Nat
  <2>1. t + 1 \in Nat /\ t + 1 <= s
    BY <1>0, <1>4
  <2>2. (t + 1) * r <= s * r /\ (t + 1) * r = t * r + r /\ t * r \in Nat /\ s * r \in Nat
    BY <1>0, <2>1, ProductGrows, Product
  <2> QED BY <1>0, <2>2
<1>5. \A t \in Nat : Due(B, sl, t) = IF s <= t THEN Due(A, sl, t) \cup {w} ELSE Due(A, sl, t)
  BY DEF Due
<1>6. \A t \in Nat : Late(B, sl, t) = IF t < s THEN Late(A, sl, t) \cup {w} ELSE Late(A, sl, t)
  BY <1>0 DEF Late
<1>7. \A u, t \in Nat : Late(B, sl, u) \cap Due(B, sl, t) =
          IF u < s /\ s <= t THEN (Late(A, sl, u) \cap Due(A, sl, t)) \cup {w}
          ELSE Late(A, sl, u) \cap Due(A, sl, t)
  BY <1>0 DEF Late, Due
<1> HIDE DEF B, c, s
<1>a. c <= b /\ R < c
  BY DEF c
<1>8. ASSUME NEW t \in Nat PROVE Total(ch, Due(B, sl, t)) <= al + t * r
  <2> DEFINE D == Total(ch, Due(A, sl, t))
  <2>1. D \in Nat /\ D <= Total(ch, A) /\ Total(ch, A) \in Nat
    BY <1>1, DueLateSubsets, Zenon
  <2>2. D <= al + t * r /\ Total(ch, A) + R <= al
    BY DEF Covered
  <2>3. CASE s <= t
    <3>1. Total(ch, Due(B, sl, t)) = D + c
      BY <1>2, <1>5, <2>3, DueLateSubsets, Zenon
    <3>2. c - R <= t * r /\ t * r \in Nat
      BY <1>3, <2>3
    <3> HIDE DEF D
    <3> QED BY <1>0, <2>1, <2>2, <3>1, <3>2
  <2>4. CASE ~(s <= t)
    BY <1>5, <2>2, <2>4
  <2> QED BY <2>3, <2>4
<1>9. Total(ch, B) + (R - c) <= al
  <2>1. Total(ch, B) = Total(ch, A) + c /\ Total(ch, A) \in Nat
    BY <1>1, <1>2 DEF B
  <2>2. Total(ch, A) + R <= al
    BY DEF Covered
  <2> QED BY <1>0, <2>1, <2>2
<1>10. ASSUME NEW t \in Nat, Late(B, sl, t) # {}
       PROVE  Total(ch, Late(B, sl, t)) + (R - c) + t * r <= b - 1
  <2> DEFINE L == Total(ch, Late(A, sl, t))
  <2>1. L \in Nat /\ t * r \in Nat
    BY <1>1, DueLateSubsets, Product
  <2>2. Late(A, sl, t) # {} => L + R + t * r <= b - 1
    BY DEF Covered
  <2>3. Late(A, sl, t) = {} => L = 0
    BY TotalEmpty
  <2>4. CASE t < s
    <3>1. Total(ch, Late(B, sl, t)) = L + c
      BY <1>2, <1>6, <2>4, DueLateSubsets
    <3>2. t * r < c - R
      BY <1>4, <2>4
    <3> HIDE DEF L
    <3> QED BY <1>0, <1>a, <2>1, <2>2, <2>3, <3>1, <3>2
  <2>5. CASE ~(t < s)
    <3>1. Late(B, sl, t) = Late(A, sl, t)
      BY <1>6, <2>5
    <3>2. L + R + t * r <= b - 1
      BY <1>10, <2>2, <3>1
    <3>3. Total(ch, Late(B, sl, t)) = L
      BY <3>1
    <3> HIDE DEF L
    <3> QED BY <1>0, <2>1, <3>2, <3>3
  <2> QED BY <2>4, <2>5
<1>11. ASSUME NEW u \in Nat, NEW t \in Nat, u <= t
       PROVE  Total(ch, Late(B, sl, u) \cap Due(B, sl, t)) <= b - 1 + (t - u) * r
  <2> DEFINE M == Total(ch, Late(A, sl, u) \cap Due(A, sl, t))
             L == Total(ch, Late(A, sl, u))
  <2>1. M \in Nat /\ L \in Nat
    BY <1>1, DueLateSubsets
  <2>2. M <= b - 1 + (t - u) * r
    BY <1>11 DEF Covered
  <2>3. CASE u < s /\ s <= t
    <3>1. Total(ch, Late(B, sl, u) \cap Due(B, sl, t)) = M + c
      BY <1>2, <1>7, <2>3, DueLateSubsets
    <3>2. c - R <= t * r /\ t * r \in Nat /\ u * r \in Nat /\ u + 1 \in Nat /\ u + 1 <= t
      BY <1>0, <1>3, <2>3, Product
    <3>3. (t - u) * r = t * r - u * r
      BY <1>11, ProductGrows
    <3>4. CASE Late(A, sl, u) # {}
      <4>1. L + R + u * r <= b - 1
        BY <3>4 DEF Covered
      <4>2. M <= L
        <5>1. IsFiniteSet(Late(A, sl, u)) /\ Late(A, sl, u) \in SUBSET A
          BY <1>1, DueLateSubsets
        <5>2. \A x \in Late(A, sl, u) : ch[x] \in Nat
          BY <1>0, <5>1 DEF Sleepers
        <5>3. Late(A, sl, u) \cap Due(A, sl, t) \in SUBSET Late(A, sl, u)
          OBVIOUS
        <5> QED BY <5>1, <5>2, <5>3, TotalPart
      <4> HIDE DEF L, M
      <4> QED BY <1>0, <2>1, <3>1, <3>2, <3>3, <4>1, <4>2
    <3>5. CASE Late(A, sl, u) = {}
      <4>1. Late(A, sl, u) \cap Due(A, sl, t) = {}
        BY <3>5
      <4>2. M = 0
        BY <4>1, TotalEmpty, Zenon
      <4>3. (u + 1) * r <= t * r /\ (u + 1) * r = u * r + r
        BY <3>2, ProductGrows, Product
      <4> HIDE DEF M
      <4> QED BY <1>0, <1>a, <3>1, <3>2, <3>3, <4>2, <4>3
    <3> QED BY <3>4, <3>5
  <2>4. CASE ~(u < s /\ s <= t)
    BY <1>7, <2>2, <2>4, Zenon
  <2> QED BY <2>3, <2>4
<1>12. Covered(B, ch, sl, al, R - c, b, r)
  BY <1>8, <1>9, <1>10, <1>11, Zenon DEF Covered
<1> QED BY <1>12 DEF B, c

(* A tick, with nobody due: the contract and the bucket get the rate, up   *)
(* to their caps.                                                          *)
LEMMA CoveredTick ==
    ASSUME NEW A, NEW ch, NEW sl, Sleepers(A, ch, sl), \A w \in A : sl[w] > 0,
           NEW al \in Int, NEW R \in Int, NEW b \in Int, NEW r \in Nat \ {0},
           Covered(A, ch, sl, al, R, b, r),
           NEW s2, \A w \in A : s2[w] = sl[w] - 1,
           NEW R2 \in Int, R2 <= R + r, R2 <= b
    PROVE  Covered(A, ch, s2, Least(b + r - 1, al + r), R2, b, r)
<1>1. ASSUME NEW t \in Nat
      PROVE  Due(A, s2, t) = Due(A, sl, t + 1) /\ Late(A, s2, t) = Late(A, sl, t + 1)
  BY DEF Due, Late, Sleepers
<1>2. \A S \in SUBSET A : Total(ch, S) \in Nat
  BY SumsTyped
<1>3. ASSUME NEW t \in Nat
      PROVE  Total(ch, Due(A, s2, t)) <= Least(b + r - 1, al + r) + t * r
  <2> DEFINE D == Total(ch, Due(A, sl, t + 1))
  <2>1. D = Total(ch, Due(A, s2, t)) /\ D \in Nat
    BY <1>1, <1>2, DueLateSubsets
  <2>2. D <= al + (t + 1) * r
    BY DEF Covered
  <2>3. Late(A, sl, 0) \cap Due(A, sl, t + 1) = Due(A, sl, t + 1)
    BY DEF Late, Due
  <2>4. D <= b - 1 + ((t + 1) - 0) * r
    <3>0. \A u, v \in Nat : u <= v =>
             Total(ch, Late(A, sl, u) \cap Due(A, sl, v)) <= b - 1 + (v - u) * r
      BY Zenon DEF Covered
    <3> 0 \in Nat /\ t + 1 \in Nat /\ 0 <= t + 1
      OBVIOUS
    <3>1. Total(ch, Late(A, sl, 0) \cap Due(A, sl, t + 1)) <= b - 1 + ((t + 1) - 0) * r
      BY <3>0, Zenon
    <3> QED BY <2>3, <3>1, Zenon
  <2>5. (t + 1) * r = t * r + r /\ (t + 1) - 0 = t + 1 /\ t * r \in Nat
    BY Product
  <2> HIDE DEF D
  <2> QED BY <2>1, <2>2, <2>4, <2>5 DEF Least
<1>4. Total(ch, A) + R2 <= Least(b + r - 1, al + r)
  <2>1. Total(ch, A) \in Nat /\ Total(ch, A) + R <= al
    BY <1>2 DEF Covered
  <2>2. CASE A = {}
    <3>1. Total(ch, A) = 0
      BY <2>2, TotalEmpty
    <3> QED BY <2>1, <3>1 DEF Least
  <2>3. CASE A # {}
    <3>1. Late(A, sl, 0) = A
      BY DEF Late
    <3>2. Total(ch, A) + R + 0 * r <= b - 1
      BY <2>3, <3>1 DEF Covered
    <3>3. 0 * r = 0
      OBVIOUS
    <3> QED BY <2>1, <3>2, <3>3 DEF Least
  <2> QED BY <2>2, <2>3
<1>5. ASSUME NEW t \in Nat, Late(A, s2, t) # {}
      PROVE  Total(ch, Late(A, s2, t)) + R2 + t * r <= b - 1
  <2>1. Total(ch, Late(A, sl, t + 1)) + R + (t + 1) * r <= b - 1
    BY <1>1, <1>5 DEF Covered
  <2>2. Total(ch, Late(A, sl, t + 1)) \in Nat
    BY <1>2, DueLateSubsets
  <2>3. (t + 1) * r = t * r + r /\ t * r \in Nat
    BY Product
  <2> QED BY <1>1, <2>1, <2>2, <2>3
<1>6. ASSUME NEW u \in Nat, NEW t \in Nat, u <= t
      PROVE  Total(ch, Late(A, s2, u) \cap Due(A, s2, t)) <= b - 1 + (t - u) * r
  <2>1. Total(ch, Late(A, sl, u + 1) \cap Due(A, sl, t + 1)) <= b - 1 + ((t + 1) - (u + 1)) * r
    BY <1>6 DEF Covered
  <2>2. (t + 1) - (u + 1) = t - u
    OBVIOUS
  <2> QED BY <1>1, <2>1, <2>2, Zenon
<1> QED BY <1>3, <1>4, <1>5, <1>6 DEF Covered

(* Nobody sleeps: what the bucket holds is covered.                        *)
LEMMA CoveredNobody ==
    ASSUME NEW ch, NEW sl, NEW al \in Nat, NEW R \in Int, NEW b \in Nat \ {0}, NEW r \in Nat, R <= al
    PROVE  Covered({}, ch, sl, al, R, b, r)
<1>1. \A u, t \in Nat : /\ Due({}, sl, t) = {} /\ Late({}, sl, t) = {}
                        /\ Late({}, sl, u) \cap Due({}, sl, t) = {}
  BY DEF Due, Late
<1>2. \A t \in Nat : t * r \in Nat
  BY Product
<1>3. \A u, t \in Nat : u <= t => (t - u) * r \in Nat
  <2> SUFFICES ASSUME NEW u \in Nat, NEW t \in Nat, u <= t PROVE (t - u) * r \in Nat
    OBVIOUS
  <2>1. t - u \in Nat
    OBVIOUS
  <2> QED BY <1>2, <2>1
<1>4. \A t \in Nat : Total(ch, Due({}, sl, t)) <= al + t * r
  BY <1>1, <1>2, TotalEmpty
<1>5. \A u, t \in Nat : u <= t => Total(ch, Late({}, sl, u) \cap Due({}, sl, t)) <= b - 1 + (t - u) * r
  <2> SUFFICES ASSUME NEW u \in Nat, NEW t \in Nat, u <= t
               PROVE  Total(ch, Late({}, sl, u) \cap Due({}, sl, t)) <= b - 1 + (t - u) * r
    OBVIOUS
  <2>1. Total(ch, Late({}, sl, u) \cap Due({}, sl, t)) = 0
    BY <1>1, TotalEmpty, Zenon
  <2>2. (t - u) * r \in Nat
    BY <1>3
  <2> QED BY <2>1, <2>2
<1>6. Total(ch, {}) + R <= al
  BY TotalEmpty
<1> QED BY <1>1, <1>4, <1>5, <1>6, Zenon DEF Covered

-----------------------------------------------------------------------------
(* The waiters whose chunk is charged to the bucket and not yet to the     *)
(* contract.                                                               *)
Asleep == {w \in Waiters \ inHand : pc[w] = "sleep"}

(* A chunk is part of what remains and fits into the bucket, unless the    *)
(* bucket changed since it was read.                                       *)
Chunks ==
    \A w \in Waiters : pc[w] \in {"reserve", "sleep"} =>
        /\ chunk[w] <= remaining[w]
        /\ w \notin inHand /\ ~Unlimited => chunk[w] <= burst

Bucket ==
    /\ Unlimited => tokens = 0
    /\ ~Unlimited => /\ burst >= MinBurst
                     /\ Covered(Asleep, chunk, sleep, allowance, Refilled, burst, rate)

(* The inductive invariant.                                                *)
LimiterInv == TypeOK /\ Chunks /\ RateBound /\ Bucket

(* What the types say of the refill.                                       *)
Refill(k, b, a, r) == Least(b, k + a * r)

\* A refill takes nothing away and stops at the burst.
LEMMA RefillType ==
    ASSUME NEW k \in Int, NEW b \in Nat, k <= b, NEW a \in Nat, NEW r \in Nat
    PROVE  /\ Refill(k, b, a, r) \in Int
           /\ Refill(k, b, a, r) <= b
           /\ k <= Refill(k, b, a, r)
           /\ a = 0 => Refill(k, b, a, r) = k
<1>1. a * r \in Nat /\ 0 * r = 0
  BY Product
<1> QED BY <1>1 DEF Refill, Least

\* What allow and reserve find in the bucket is at most the burst.
LEMMA RefilledType ==
    ASSUME TypeOK
    PROVE  Refilled \in Int /\ Refilled <= burst /\ tokens <= Refilled /\ rate \in Nat
<1>1. rate \in Nat
  BY RateAssumption DEF TypeOK
<1>2. Refilled = Refill(tokens, burst, age, rate)
  BY DEF Refilled, Refill
<1> QED BY <1>1, <1>2, RefillType DEF TypeOK

\* The same after a step; a bucket that was just refilled holds its tokens.
LEMMA RefilledNext ==
    ASSUME TypeOK'
    PROVE  Refilled' \in Int /\ rate' \in Nat /\ (age' = 0 => Refilled' = tokens')
<1>1. rate' \in Nat
  BY RateAssumption DEF TypeOK
<1>2. Refilled' = Refill(tokens', burst', age', rate')
  BY DEF Refilled, Refill
<1> QED BY <1>1, <1>2, RefillType DEF TypeOK

\* The callers asleep in Wait are finitely many, with chunks and times.
LEMMA AsleepTyped ==
    ASSUME TypeOK
    PROVE  Sleepers(Asleep, chunk, sleep)
<1>1. IsFiniteSet(Asleep)
  BY RateAssumption, FS_Subset DEF Asleep
<1> QED BY <1>1 DEF Sleepers, Asleep, TypeOK

(* The contract is kept as long as it covers the sleepers.                 *)
LEMMA CoveredBound ==
    ASSUME NEW A, NEW ch, NEW sl, Sleepers(A, ch, sl), NEW al \in Int, NEW R \in Int,
           NEW b \in Int, NEW r \in Nat, Covered(A, ch, sl, al, R, b, r)
    PROVE  al >= 0
<1>1. Due(A, sl, 0) \in SUBSET A
  BY DueLateSubsets
<1>2. Total(ch, Due(A, sl, 0)) \in Nat
  BY <1>1, SumsTyped
<1>3. Total(ch, Due(A, sl, 0)) <= al + 0 * r
  BY DEF Covered
<1>4. 0 * r = 0
  OBVIOUS
<1> QED BY <1>2, <1>3, <1>4

\* SetRate never makes the burst smaller than the floor.
LEMMA BurstType ==
    ASSUME NEW r \in Nat
    PROVE  Burst(r) \in Nat /\ Burst(r) >= MinBurst
<1>1. r * Window \in Nat
  BY RateAssumption, Product
<1> QED BY <1>1, RateAssumption DEF Burst, Greatest

-----------------------------------------------------------------------------
(* Types.                                                                  *)

\* A new limiter has its types.
LEMMA TypeInit == Init => TypeOK
<1> SUFFICES ASSUME Init PROVE TypeOK
  OBVIOUS
<1>1. disabled \in BOOLEAN /\ closed \in BOOLEAN
  BY Zenon DEF Init
<1>2. Burst(Rate0) \in Nat /\ Rate0 \in Nat
  BY RateAssumption, BurstType
<1> QED BY <1>1, <1>2, RateAssumption DEF Init, TypeOK, Full

(* Passed keeps the types of what it sets.                                 *)
LEMMA PassedType ==
    ASSUME TypeOK, Chunks, NEW w \in Waiters, pc[w] \in {"reserve", "sleep"}, Passed(w)
    PROVE  /\ pc' \in [Waiters -> {"idle", "look", "reserve", "sleep", "failed"}]
           /\ remaining' \in [Waiters -> Nat]
           /\ pc'[w] \notin {"reserve", "sleep"}
           /\ \A v \in Waiters \ {w} : pc'[v] = pc[v] /\ remaining'[v] = remaining[v]
<1>1. remaining[w] - chunk[w] \in Nat
  BY DEF Chunks, TypeOK
<1> QED BY <1>1 DEF TypeOK, Passed

\* The types of the ledger after a caller was charged.
LEMMA ChargeType ==
    ASSUME TypeOK, NEW w \in Waiters, Charge(w)
    PROVE  allowance' \in Int /\ inHand' \subseteq Waiters
BY DEF TypeOK, Charge, Spent, Greatest

\* reserve keeps the types in each of its outcomes.
LEMMA ReserveType ==
    ASSUME TypeOK, Chunks, NEW w \in Waiters, Reserve(w)
    PROVE  TypeOK'
<1>1. pc[w] = "reserve" /\ UNCHANGED <<rate, burst, disabled, closed, chunk>>
  BY DEF Reserve, bucketVars
<1>2. disabled' \in BOOLEAN /\ closed' \in BOOLEAN
  BY <1>1, Zenon DEF TypeOK
<1>3. CASE closed /\ pc' = [pc EXCEPT ![w] = "failed"] /\ remaining' = [remaining EXCEPT ![w] = 0]
           /\ inHand' = inHand \ {w} /\ UNCHANGED <<bucketVars, sleep, allowance>>
  BY <1>1, <1>2, <1>3 DEF TypeOK, bucketVars
<1>4. CASE Passed(w) /\ Charge(w) /\ UNCHANGED <<bucketVars, sleep>>
  BY <1>1, <1>2, <1>4, PassedType, ChargeType DEF TypeOK, bucketVars
<1>5. ASSUME NEW need, need = Least(chunk[w], burst), tokens' = Refilled - need, age' = 0,
             Passed(w) /\ Charge(w) /\ UNCHANGED sleep
      PROVE  TypeOK'
  <2>1. tokens' \in Int /\ tokens' <= burst
    BY <1>5, RefilledType DEF Least, TypeOK
  <2> QED BY <1>1, <1>2, <1>5, <2>1, PassedType, ChargeType DEF TypeOK
<1>6. ASSUME NEW need, need = Least(chunk[w], burst), tokens' = Refilled - need, age' = 0,
             ~Unlimited, ~(Refilled >= need),
             sleep' = [sleep EXCEPT ![w] = CeilDiv(need - Refilled, rate)],
             pc' = [pc EXCEPT ![w] = "sleep"], UNCHANGED <<remaining, history>>
      PROVE  TypeOK'
  <2>1. need \in Nat /\ tokens' \in Int /\ tokens' <= burst
    BY <1>6, RefilledType DEF Least, TypeOK
  <2>2. rate \in Nat \ {0} /\ need - Refilled \in Nat
    BY <1>6, <2>1, RefilledType DEF Unlimited
  <2>3. CeilDiv(need - Refilled, rate) \in Nat
    BY <2>2, CeilDivBounds
  <2> QED BY <1>1, <1>2, <1>6, <2>1, <2>3 DEF TypeOK, history
<1> QED BY <1>3, <1>4, <1>5, <1>6 DEF Reserve

\* Every step keeps the types.
LEMMA TypeStep == ASSUME TypeOK, Chunks, Next PROVE TypeOK'
<1>1. ASSUME NEW w \in Waiters, Wait(w) PROVE TypeOK'
  <2>1. disabled' \in BOOLEAN /\ closed' \in BOOLEAN
    BY <1>1, Zenon DEF TypeOK, Wait, bucketVars
  <2>2. Sizes \subseteq Nat
    BY RateAssumption
  <2> QED BY <1>1, <2>1, <2>2 DEF TypeOK, Wait, bucketVars, history
<1>2. ASSUME NEW w \in Waiters, ReadBurst(w) PROVE TypeOK'
  <2>1. disabled' \in BOOLEAN /\ closed' \in BOOLEAN
    BY <1>2, Zenon DEF TypeOK, ReadBurst, bucketVars
  <2>2. chunk' \in [Waiters -> Nat]
    BY <1>2 DEF TypeOK, ReadBurst, Least
  <2> QED BY <1>2, <2>1, <2>2 DEF TypeOK, ReadBurst, bucketVars, history
<1>3. ASSUME NEW w \in Waiters, Reserve(w) PROVE TypeOK'
  BY <1>3, ReserveType
<1>4. ASSUME NEW w \in Waiters, Wake(w) PROVE TypeOK'
  <2>1. disabled' \in BOOLEAN /\ closed' \in BOOLEAN
    BY <1>4, Zenon DEF TypeOK, Wake, bucketVars
  <2> QED BY <1>4, <2>1, PassedType, ChargeType DEF TypeOK, Wake, bucketVars
<1>5. ASSUME NEW n \in Packets, Allow(n) PROVE TypeOK'
  <2>1. disabled' \in BOOLEAN /\ closed' \in BOOLEAN
    BY <1>5, Zenon DEF TypeOK, Allow
  <2>2. n \in Nat
    BY RateAssumption
  <2>3. tokens' \in Int /\ tokens' <= burst
    BY <1>5, <2>2, RefilledType DEF Allow, Least, TypeOK
  <2>4. allowance' \in Int
    BY <1>5, <2>2 DEF Allow, Spent, Greatest, TypeOK
  <2> QED BY <1>5, <2>1, <2>3, <2>4 DEF TypeOK, Allow, waitVars
<1>6. ASSUME NEW r \in Rates, SetRate(r) PROVE TypeOK'
  <2>1. disabled' \in BOOLEAN /\ closed' \in BOOLEAN
    BY <1>6, Zenon DEF TypeOK, SetRate
  <2>2. r \in Nat /\ Burst(r) \in Nat
    BY RateAssumption, BurstType
  <2>3. tokens' \in Int /\ tokens' <= burst' /\ allowance' \in Int /\ burst' \in Nat /\ age' \in Nat
    BY <1>6, <2>2 DEF SetRate, TypeOK, Least
  <2> QED BY <1>6, <2>1, <2>3 DEF TypeOK, SetRate, waitVars
<1>7. ASSUME Close PROVE TypeOK'
  <2>1. disabled' \in BOOLEAN /\ closed' \in BOOLEAN
    BY <1>7, Zenon DEF Close
  <2> QED BY <1>7, <2>1 DEF TypeOK, Close, waitVars, history
<1>8. ASSUME Tick PROVE TypeOK'
  <2>1. disabled' \in BOOLEAN /\ closed' \in BOOLEAN
    BY <1>8, Zenon DEF TypeOK, Tick
  <2>2. age' \in Nat
    BY <1>8, RateAssumption DEF Tick, TypeOK, Least
  <2>3. sleep' \in [Waiters -> Nat]
    BY <1>8 DEF Tick, TypeOK
  <2>4. allowance' \in Int
    BY <1>8, RefilledType DEF Tick, TypeOK, Least, Full
  <2> QED BY <1>8, <2>1, <2>2, <2>3, <2>4 DEF TypeOK, Tick
<1> QED BY <1>1, <1>2, <1>3, <1>4, <1>5, <1>6, <1>7, <1>8 DEF Next, Step, TransferPacket

-----------------------------------------------------------------------------
(* Chunks.                                                                 *)

\* Every step keeps what is known of the chunks.
LEMMA ChunksStep == ASSUME TypeOK, Chunks, Bucket, Next PROVE Chunks'
<1>1. ASSUME NEW w \in Waiters, Wait(w) PROVE Chunks'
  BY <1>1 DEF Chunks, TypeOK, Wait, Unlimited, bucketVars, history
<1>2. ASSUME NEW w \in Waiters, ReadBurst(w) PROVE Chunks'
  <2>1. chunk'[w] <= remaining[w] /\ (~Unlimited => chunk'[w] <= burst)
    <3>1. ~Unlimited => burst > 0
      BY RateAssumption DEF Bucket, TypeOK
    <3> HIDE DEF Unlimited
    <3> QED BY <1>2, <3>1 DEF TypeOK, ReadBurst, Least
  <2>2. Unlimited' <=> Unlimited
    BY <1>2 DEF ReadBurst, bucketVars, Unlimited
  <2> HIDE DEF Unlimited
  <2> QED BY <1>2, <2>1, <2>2 DEF Chunks, TypeOK, ReadBurst, bucketVars, history
<1>3. ASSUME NEW w \in Waiters, Reserve(w) PROVE Chunks'
  <2>1. (Unlimited' <=> Unlimited) /\ UNCHANGED <<burst, chunk>>
    BY <1>3 DEF Reserve, bucketVars, Unlimited
  <2>2. pc[w] = "reserve" /\ inHand' \in {inHand, inHand \ {w}}
    BY <1>3 DEF Reserve, Charge, history
  <2>3. \A v \in Waiters \ {w} : pc'[v] = pc[v] /\ remaining'[v] = remaining[v]
    BY <1>3, <2>2, PassedType DEF Reserve, TypeOK
  <2>4. \/ pc'[w] \notin {"reserve", "sleep"}
        \/ remaining' = remaining /\ inHand' = inHand
    BY <1>3, <2>2, PassedType DEF Reserve, TypeOK, history
  <2> HIDE DEF Unlimited
  <2> QED BY <2>1, <2>2, <2>3, <2>4 DEF Chunks
<1>4. ASSUME NEW w \in Waiters, Wake(w) PROVE Chunks'
  <2>1. (Unlimited' <=> Unlimited) /\ UNCHANGED <<burst, chunk>>
    BY <1>4 DEF Wake, bucketVars, Unlimited
  <2>2. pc[w] = "sleep" /\ inHand' = inHand \ {w}
    BY <1>4 DEF Wake, Charge
  <2>3. /\ \A v \in Waiters \ {w} : pc'[v] = pc[v] /\ remaining'[v] = remaining[v]
        /\ pc'[w] \notin {"reserve", "sleep"}
    BY <1>4, <2>2, PassedType DEF Wake
  <2> HIDE DEF Unlimited
  <2> QED BY <2>1, <2>2, <2>3 DEF Chunks
<1>5. ASSUME NEW n \in Packets, Allow(n) PROVE Chunks'
  BY <1>5 DEF Chunks, Allow, waitVars, Unlimited
<1>6. ASSUME NEW r \in Rates, SetRate(r) PROVE Chunks'
  BY <1>6 DEF Chunks, SetRate, waitVars
<1>7. ASSUME Close PROVE Chunks'
  BY <1>7 DEF Chunks, Close, waitVars, history, Unlimited
<1>8. ASSUME Tick PROVE Chunks'
  BY <1>8 DEF Chunks, Tick, Unlimited
<1> QED BY <1>1, <1>2, <1>3, <1>4, <1>5, <1>6, <1>7, <1>8 DEF Next, Step, TransferPacket

-----------------------------------------------------------------------------
(* The contract.                                                           *)

(* A step that leaves the limiter off, or switches it off.                 *)
LEMMA OffStep ==
    ASSUME RateBound, Unlimited', tokens' = 0, allowance' = allowance
    PROVE  RateBound' /\ Bucket'
BY DEF RateBound, Bucket

(* A step that keeps the limiter on and leaves the sleepers covered.       *)
LEMMA OnStep ==
    ASSUME TypeOK', ~Unlimited', burst' >= MinBurst,
           Covered(Asleep', chunk', sleep', allowance', Refilled', burst', rate')
    PROVE  RateBound' /\ Bucket'
<1>1. Sleepers(Asleep', chunk', sleep')
  <2>1. IsFiniteSet(Asleep')
    BY RateAssumption, FS_Subset DEF Asleep
  <2> QED BY <2>1 DEF Sleepers, Asleep, TypeOK
<1>2. Refilled' \in Int /\ rate' \in Nat
  BY RefilledNext
<1>3. allowance' \in Int /\ burst' \in Int
  BY DEF TypeOK
<1>4. allowance' >= 0
  BY <1>1, <1>2, <1>3, CoveredBound
<1> QED BY <1>4 DEF RateBound, Bucket

(* What is left of the contract after n bytes, when it covers them.        *)
LEMMA SpentWhenCovered ==
    ASSUME ~Unlimited, NEW n \in Nat, allowance \in Int, allowance - n >= 0
    PROVE  Spent(n) = allowance - n
BY DEF Spent, Greatest

(* The limiter is on: what the invariant says of the sleepers.             *)
LEMMA OnFacts ==
    ASSUME TypeOK, Bucket, ~Unlimited
    PROVE  /\ Sleepers(Asleep, chunk, sleep)
           /\ Covered(Asleep, chunk, sleep, allowance, Refilled, burst, rate)
           /\ allowance \in Int /\ Refilled \in Int /\ burst \in Int /\ burst >= MinBurst
           /\ rate \in Nat /\ rate \in Nat \ {0}
<1>1. rate \in Nat \ {0}
  BY RefilledType DEF Unlimited
<1> QED BY <1>1, AsleepTyped, RefilledType DEF Bucket, TypeOK

(* A chunk that is not in hand is charged in full.                         *)
LEMMA NeedIsChunk ==
    ASSUME TypeOK, Chunks, ~Unlimited, NEW w \in Waiters, pc[w] = "reserve"
    PROVE  /\ Least(chunk[w], burst) \in Nat
           /\ w \notin inHand => Least(chunk[w], burst) = chunk[w]
BY DEF TypeOK, Chunks, Least

(* reserve when the bucket has enough.                                     *)
LEMMA ReservePasses ==
    ASSUME TypeOK, TypeOK', Chunks, Bucket, ~Unlimited, NEW w \in Waiters, pc[w] = "reserve",
           NEW need, need = Least(chunk[w], burst), Refilled >= need,
           tokens' = Refilled - need, age' = 0, Passed(w), Charge(w),
           UNCHANGED <<sleep, chunk, rate, burst, disabled, closed>>
    PROVE  RateBound' /\ Bucket'
<1> DEFINE n == IF w \in inHand THEN 0 ELSE need
<1>1. need \in Nat /\ n \in Nat /\ (w \notin inHand => need = chunk[w])
  BY NeedIsChunk
<1>2. /\ Sleepers(Asleep, chunk, sleep)
      /\ Covered(Asleep, chunk, sleep, allowance, Refilled, burst, rate)
      /\ allowance \in Int /\ Refilled \in Int /\ burst \in Int /\ burst >= MinBurst
      /\ rate \in Nat /\ rate \in Nat \ {0}
  BY OnFacts
<1>3. Refilled' = Refilled - need
  BY RefilledNext
<1>4. Asleep' = Asleep
  <2>1. inHand' = inHand \ {w}
    BY DEF Charge
  <2>2. pc'[w] # "sleep" /\ \A v \in Waiters \ {w} : pc'[v] = pc[v]
    BY PassedType
  <2> QED BY <2>1, <2>2 DEF Asleep
<1>5. Refilled' \in Int /\ Refilled' <= Refilled - n /\ (n = 0 \/ n <= Refilled)
  BY <1>1, <1>2, <1>3
<1> HIDE DEF n
<1>6. Covered(Asleep, chunk, sleep, allowance - n, Refilled', burst, rate)
  BY <1>1, <1>2, <1>5, CoveredTake, Zenon
<1>7. allowance - n \in Int /\ allowance - n >= 0
  BY <1>1, <1>2, <1>5, <1>6, CoveredBound
<1>8. allowance' = allowance - n
  <2>1. CASE w \in inHand
    BY <1>2, <2>1 DEF Charge, n
  <2>2. CASE w \notin inHand
    <3>1. n = chunk[w]
      BY <1>1, <2>2 DEF n
    <3>2. Spent(chunk[w]) = allowance - chunk[w]
      BY <1>1, <1>2, <1>7, <3>1, SpentWhenCovered
    <3> QED BY <2>2, <3>1, <3>2 DEF Charge
  <2> QED BY <2>1, <2>2
<1>9. ~Unlimited'
  BY DEF Unlimited
<1> QED BY <1>2, <1>4, <1>6, <1>8, <1>9, OnStep

(* Taking nothing changes nothing.                                         *)
LEMMA TakeNothing == 0 \in Nat /\ \A a \in Int : a - 0 = a
  OBVIOUS

(* reserve when the bucket has not enough.                                 *)
LEMMA ReserveSleeps ==
    ASSUME TypeOK, TypeOK', Chunks, Bucket, ~Unlimited, NEW w \in Waiters, pc[w] = "reserve",
           NEW need, need = Least(chunk[w], burst), ~(Refilled >= need),
           tokens' = Refilled - need, age' = 0,
           sleep' = [sleep EXCEPT ![w] = CeilDiv(need - Refilled, rate)],
           pc' = [pc EXCEPT ![w] = "sleep"],
           UNCHANGED <<remaining, history, chunk, rate, burst, disabled, closed>>
    PROVE  RateBound' /\ Bucket'
<1>1. need \in Nat /\ (w \notin inHand => need = chunk[w])
  BY NeedIsChunk
<1>2. /\ Sleepers(Asleep, chunk, sleep)
      /\ Covered(Asleep, chunk, sleep, allowance, Refilled, burst, rate)
      /\ allowance \in Int /\ Refilled \in Int /\ burst \in Int /\ burst >= MinBurst
      /\ rate \in Nat /\ rate \in Nat \ {0}
  BY OnFacts
<1>3. /\ Refilled' = Refilled - need /\ need - Refilled \in Nat /\ Refilled' <= Refilled - 0
      /\ Refilled' \in Int
  BY <1>1, <1>2, RefilledNext
<1>4. w \notin Asleep /\ \A v \in Asleep : chunk[v] = chunk[v] /\ sleep'[v] = sleep[v]
  BY DEF Asleep, TypeOK
<1>5. Covered(Asleep, chunk, sleep', allowance, Refilled, burst, rate)
  BY <1>2, <1>4, CoveredSame, Zenon
<1>6. Sleepers(Asleep, chunk, sleep')
  BY <1>2, <1>4 DEF Sleepers
<1>7. UNCHANGED <<allowance, inHand>> /\ ~Unlimited'
  BY ZenonT(30) DEF history, Unlimited
<1>8. CASE w \in inHand
  <2>1. Asleep' = Asleep
    BY <1>7, <1>8 DEF Asleep, TypeOK
  <2>4. 0 \in Nat /\ (0 = 0 \/ 0 <= Refilled) /\ Refilled' \in Int
    BY <1>3, TakeNothing, Zenon
  <2>2. Covered(Asleep, chunk, sleep', allowance - 0, Refilled', burst, rate)
    BY <2>4, <1>1, <1>2, <1>3, <1>5, <1>6, CoveredTake, Zenon
  <2>3. allowance - 0 = allowance
    BY <1>2, TakeNothing, Zenon
  <2> QED BY <1>2, <1>7, <2>1, <2>2, <2>3, OnStep
<1>9. CASE w \notin inHand
  <2>1. Asleep' = Asleep \cup {w}
    BY <1>7, <1>9 DEF Asleep, TypeOK
  <2>2. Sleepers(Asleep \cup {w}, chunk, sleep')
    <3>1. IsFiniteSet(Asleep \cup {w})
      BY <1>6, FS_AddElement DEF Sleepers
    <3>2. chunk[w] \in Nat /\ sleep'[w] \in Nat
      BY DEF TypeOK
    <3> QED BY <1>6, <3>1, <3>2 DEF Sleepers
  <2>3. sleep'[w] = CeilDiv(chunk[w] - Refilled, rate)
    BY <1>1, <1>9 DEF TypeOK
  <2>4. chunk[w] - Refilled \in Nat /\ chunk[w] \in Nat /\ chunk[w] <= burst /\ Refilled < chunk[w]
    BY <1>1, <1>2, <1>3, <1>9 DEF Chunks, TypeOK
  <2>5. /\ chunk[w] - Refilled <= sleep'[w] * rate
        /\ sleep'[w] * rate < chunk[w] - Refilled + rate
    BY <1>2, <2>3, <2>4, CeilDivBounds
  <2>6. Covered(Asleep \cup {w}, chunk, sleep', allowance, Refilled - chunk[w], burst, rate)
    BY <1>2, <1>4, <1>5, <2>2, <2>4, <2>5, CoveredJoin, Zenon
  <2>7. Refilled' = Refilled - chunk[w]
    BY <1>1, <1>3, <1>9
  <2> QED BY <1>2, <1>7, <2>1, <2>6, <2>7, OnStep, Zenon
<1> QED BY <1>8, <1>9

(* A sleeper wakes up and its chunk passes.                                *)
LEMMA WakePasses ==
    ASSUME TypeOK, TypeOK', Chunks, Bucket, ~Unlimited, NEW w \in Waiters, Wake(w)
    PROVE  RateBound' /\ Bucket'
<1>1. pc[w] = "sleep" /\ sleep[w] = 0 /\ inHand' = inHand \ {w} /\ UNCHANGED <<bucketVars, chunk, sleep>>
  BY DEF Wake, Charge
<1>2. /\ Sleepers(Asleep, chunk, sleep)
      /\ Covered(Asleep, chunk, sleep, allowance, Refilled, burst, rate)
      /\ allowance \in Int /\ Refilled \in Int /\ burst \in Int /\ burst >= MinBurst
      /\ rate \in Nat /\ rate \in Nat \ {0}
  BY OnFacts
<1>3. pc'[w] # "sleep" /\ \A v \in Waiters \ {w} : pc'[v] = pc[v]
  BY <1>1, PassedType DEF Wake
<1>4. Asleep' = Asleep \ {w}
  BY <1>1, <1>3 DEF Asleep
<1>5. UNCHANGED <<rate, burst>> /\ Refilled' = Refilled /\ ~Unlimited'
  BY <1>1 DEF bucketVars, Refilled, Unlimited
<1>6. CASE w \in inHand
  <2>1. Asleep \ {w} = Asleep /\ allowance' = allowance
    BY <1>6 DEF Asleep, Wake, Charge
  <2>2. Covered(Asleep', chunk', sleep', allowance', Refilled', burst', rate')
    BY <1>1, <1>2, <1>4, <1>5, <2>1
  <2> QED BY <1>2, <1>5, <2>2, OnStep
<1>7. CASE w \notin inHand
  <2>1. w \in Asleep
    BY <1>1, <1>7 DEF Asleep
  <2>2. Covered(Asleep \ {w}, chunk, sleep, allowance - chunk[w], Refilled, burst, rate)
    BY <1>1, <1>2, <2>1, CoveredLeave, Zenon
  <2>3. Sleepers(Asleep \ {w}, chunk, sleep)
    BY <1>2, FS_Subset DEF Sleepers
  <2>4. chunk[w] \in Nat /\ allowance - chunk[w] \in Int
    BY <1>2 DEF TypeOK
  <2>5. allowance - chunk[w] >= 0
    BY <1>2, <2>2, <2>3, <2>4, CoveredBound, Zenon
  <2>6. allowance' = allowance - chunk[w]
    <3>1. Spent(chunk[w]) = allowance - chunk[w]
      BY <1>2, <2>4, <2>5, SpentWhenCovered, Zenon
    <3> QED BY <1>7, <3>1, Zenon DEF Wake, Charge
  <2>7. Covered(Asleep', chunk', sleep', allowance', Refilled', burst', rate')
    BY <1>1, <1>4, <1>5, <2>2, <2>6
  <2> QED BY <1>2, <1>5, <2>7, OnStep
<1> QED BY <1>6, <1>7

(* A packet passes or is dropped.                                          *)
LEMMA AllowPasses ==
    ASSUME TypeOK, TypeOK', Bucket, NEW n \in Packets, Allow(n)
    PROVE  RateBound' /\ Bucket'
<1>1. ~Unlimited /\ ~Unlimited' /\ age' = 0 /\ UNCHANGED <<rate, burst, pc, chunk, sleep, inHand>>
  BY DEF Allow, Unlimited, waitVars
<1>2. /\ Sleepers(Asleep, chunk, sleep)
      /\ Covered(Asleep, chunk, sleep, allowance, Refilled, burst, rate)
      /\ allowance \in Int /\ Refilled \in Int /\ burst \in Int /\ burst >= MinBurst
      /\ rate \in Nat /\ rate \in Nat \ {0}
  BY <1>1, OnFacts
<1>3. n \in Nat /\ Least(n, burst) = n
  BY <1>2, RateAssumption DEF Least
<1>4. Asleep' = Asleep /\ Refilled' = tokens' /\ Refilled' \in Int
  BY <1>1, RefilledNext DEF Asleep
<1>5. CASE Refilled >= n
  <2>1. tokens' = Refilled - n /\ allowance' = Spent(n)
    BY <1>3, <1>5 DEF Allow
  <2>2. Refilled' <= Refilled - n /\ (n = 0 \/ n <= Refilled)
    BY <1>2, <1>3, <1>4, <1>5, <2>1
  <2>3. Covered(Asleep, chunk, sleep, allowance - n, Refilled', burst, rate)
    BY <1>2, <1>3, <1>4, <2>2, CoveredTake, Zenon
  <2>4. allowance - n \in Int
    BY <1>2, <1>3
  <2>5. allowance - n >= 0
    BY <1>2, <1>4, <2>3, <2>4, CoveredBound, Zenon
  <2>6. allowance' = allowance - n
    BY <1>1, <1>2, <1>3, <2>1, <2>5, SpentWhenCovered
  <2>7. Covered(Asleep', chunk', sleep', allowance', Refilled', burst', rate')
    BY <1>1, <1>4, <2>3, <2>6
  <2> QED BY <1>1, <1>2, <2>7, OnStep
<1>6. CASE ~(Refilled >= n)
  <2>1. tokens' = Refilled /\ allowance' = allowance
    BY <1>3, <1>6 DEF Allow
  <2>2. Covered(Asleep', chunk', sleep', allowance', Refilled', burst', rate')
    BY <1>1, <1>2, <1>4, <2>1
  <2> QED BY <1>1, <1>2, <2>2, OnStep
<1> QED BY <1>5, <1>6

(* The rate changes.                                                       *)
LEMMA SetRateCovers ==
    ASSUME TypeOK, TypeOK', RateBound, Bucket, NEW r \in Rates, SetRate(r)
    PROVE  RateBound' /\ Bucket'
<1>1. r \in Nat /\ Burst(r) \in Nat /\ Burst(r) >= MinBurst /\ MinBurst \in Nat \ {0}
  BY RateAssumption, BurstType
<1>2. CASE r = 0
  <2>1. Unlimited' /\ tokens' = 0 /\ allowance' = allowance
    BY <1>2 DEF SetRate, Unlimited
  <2> QED BY <2>1, OffStep
<1>3. CASE r # 0
  <2>a. ~disabled'
    BY <1>3, Zenon DEF SetRate
  <2>1. ~Unlimited' /\ rate' = r /\ burst' = Burst(r) /\ age' = 0
    BY <1>1, <1>3, <2>a DEF SetRate, Unlimited
  <2>2. allowance' = Least(Burst(r) + r - 1, allowance)
    BY <1>3 DEF SetRate
  <2>3. Asleep' = {}
    BY DEF SetRate, Asleep, waitVars
  <2>4. tokens <= allowance
    <3>1. CASE Unlimited
      BY <3>1 DEF Bucket, RateBound
    <3>2. CASE ~Unlimited
      <4>1. Total(chunk, Asleep) + Refilled <= allowance
        BY <3>2 DEF Bucket, Covered
      <4>2. Asleep \in SUBSET Asleep
        OBVIOUS
      <4>3. Total(chunk, Asleep) \in Nat
        BY <4>2, AsleepTyped, SumsTyped
      <4> QED BY <4>1, <4>3, RefilledType DEF TypeOK
    <3> QED BY <3>1, <3>2
  <2>5. tokens' <= allowance' /\ allowance' \in Nat
    BY <1>1, <1>3, <2>2, <2>4 DEF SetRate, TypeOK, Least, RateBound
  <2>6. Refilled' = tokens' /\ Refilled' \in Int /\ Refilled' <= allowance'
    BY <2>1, <2>5, RefilledNext
  <2>7. burst' \in Nat \ {0} /\ rate' \in Nat /\ burst' >= MinBurst
    BY <1>1, <2>1
  <2>8. Covered(Asleep', chunk', sleep', allowance', Refilled', burst', rate')
    BY <2>3, <2>5, <2>6, <2>7, CoveredNobody, Zenon
  <2> QED BY <2>1, <2>7, <2>8, OnStep
<1> QED BY <1>2, <1>3

(* Time passes.                                                            *)
LEMMA TickCovers ==
    ASSUME TypeOK, TypeOK', RateBound, Bucket, Tick
    PROVE  RateBound' /\ Bucket'
<1>1. CASE Unlimited
  <2>1. Unlimited' /\ tokens' = 0 /\ allowance' = allowance
    BY <1>1 DEF Tick, Unlimited, Bucket
  <2> QED BY <2>1, OffStep
<1>2. CASE ~Unlimited
  <2>1. ~Unlimited' /\ UNCHANGED <<rate, burst, tokens, pc, chunk, inHand>>
    BY <1>2, Zenon DEF Tick, Unlimited
  <2>2. /\ Sleepers(Asleep, chunk, sleep)
        /\ Covered(Asleep, chunk, sleep, allowance, Refilled, burst, rate)
        /\ allowance \in Int /\ Refilled \in Int /\ burst \in Int /\ burst >= MinBurst
        /\ rate \in Nat /\ rate \in Nat \ {0}
    BY <1>2, OnFacts
  <2>3. Asleep' = Asleep
    BY <2>1 DEF Asleep
  <2>4. \A w \in Asleep : sleep[w] > 0
    BY DEF Tick, Asleep
  <2>5. \A w \in Asleep : sleep'[w] = sleep[w] - 1
    BY DEF Tick, Asleep
  <2>6. allowance' = Least(burst + rate - 1, allowance + rate)
    BY <1>2 DEF Tick, Full
  <2>7. Refilled' \in Int /\ Refilled' <= Refilled + rate /\ Refilled' <= burst
    <3>1. age \in Nat /\ age' \in Nat /\ age' <= age + 1 /\ age + 1 \in Nat
      BY RateAssumption DEF Tick, TypeOK, Least
    <3>2. age' * rate <= (age + 1) * rate /\ (age + 1) * rate = age * rate + rate
      BY <2>2, <3>1, ProductGrows, Product, Zenon
    <3>3. age * rate \in Nat /\ age' * rate \in Nat
      BY <2>2, <3>1, Product, Zenon
    <3> DEFINE x == age * rate
               y == age' * rate
    <3>4. Refilled' = Least(burst, tokens + y) /\ Refilled = Least(burst, tokens + x)
      BY <2>1 DEF Refilled
    <3>5. x \in Nat /\ y \in Nat /\ y <= x + rate
      BY <3>2, <3>3
    <3>6. tokens \in Int
      BY DEF TypeOK
    <3> HIDE DEF x, y
    <3> QED BY <2>2, <3>4, <3>5, <3>6 DEF Least
  <2>8. Covered(Asleep, chunk, sleep', Least(burst + rate - 1, allowance + rate), Refilled', burst, rate)
    BY <2>2, <2>4, <2>5, <2>7, CoveredTick, Zenon
  <2>9. Covered(Asleep', chunk', sleep', allowance', Refilled', burst', rate')
    BY <2>1, <2>3, <2>6, <2>8
  <2> QED BY <2>1, <2>2, <2>9, OnStep
<1> QED BY <1>1, <1>2

\* The bound and what it rests on hold of a new limiter.
LEMMA BoundInit == Init => Chunks /\ RateBound /\ Bucket
<1> SUFFICES ASSUME Init PROVE Chunks /\ RateBound /\ Bucket
  OBVIOUS
<1>1. TypeOK
  BY TypeInit
<1>2. Burst(Rate0) \in Nat /\ Burst(Rate0) >= MinBurst /\ Rate0 \in Nat /\ MinBurst \in Nat \ {0}
  BY RateAssumption, BurstType
<1>3. allowance \in Nat /\ burst \in Nat \ {0} /\ burst >= MinBurst /\ rate \in Nat /\ tokens = 0
  BY <1>2 DEF Init, Full
<1>4. Asleep = {}
  BY DEF Init, Asleep
<1>5. Refilled \in Int /\ Refilled <= allowance
  <2>1. 0 * rate = 0
    BY <1>3
  <2> QED BY <1>1, <1>3, <2>1, RefilledType DEF Init, Refilled, Least
<1>6. Covered(Asleep, chunk, sleep, allowance, Refilled, burst, rate)
  BY <1>3, <1>4, <1>5, CoveredNobody, Zenon
<1>7. Bucket
  BY <1>3, <1>6 DEF Bucket
<1>8. Chunks
  BY DEF Init, Chunks
<1>9. RateBound
  BY <1>3 DEF RateBound
<1> QED BY <1>7, <1>8, <1>9

(* A step that changes neither the bucket nor who sleeps.                  *)
LEMMA SameSleepers ==
    ASSUME TypeOK, TypeOK', RateBound, Bucket, UNCHANGED <<bucketVars, allowance, sleep>>,
           Asleep' = Asleep, \A w \in Asleep : chunk'[w] = chunk[w]
    PROVE  RateBound' /\ Bucket'
<1>1. (Unlimited' <=> Unlimited) /\ Refilled' = Refilled /\ UNCHANGED <<tokens, burst, rate>>
  BY DEF bucketVars, Unlimited, Refilled
<1>2. CASE Unlimited
  BY <1>1, <1>2, OffStep DEF Bucket
<1>3. CASE ~Unlimited
  <2>1. /\ Sleepers(Asleep, chunk, sleep)
        /\ Covered(Asleep, chunk, sleep, allowance, Refilled, burst, rate)
        /\ allowance \in Int /\ Refilled \in Int /\ burst \in Int /\ burst >= MinBurst
        /\ rate \in Nat /\ rate \in Nat \ {0}
    BY <1>3, OnFacts
  <2>2. \A w \in Asleep : chunk'[w] = chunk[w] /\ sleep'[w] = sleep[w]
    OBVIOUS
  <2>3. Covered(Asleep, chunk', sleep', allowance, Refilled, burst, rate)
    BY <2>1, <2>2, CoveredSame, Zenon
  <2>4. Covered(Asleep', chunk', sleep', allowance', Refilled', burst', rate')
    BY <1>1, <2>3
  <2> QED BY <1>1, <1>3, <2>1, <2>4, OnStep
<1> QED BY <1>2, <1>3

\* Every step keeps the bound and what it rests on.
LEMMA BoundStep ==
    ASSUME TypeOK, TypeOK', Chunks, RateBound, Bucket, Next
    PROVE  RateBound' /\ Bucket'
<1>1. ASSUME NEW w \in Waiters, Wait(w) PROVE RateBound' /\ Bucket'
  <2>1. UNCHANGED <<bucketVars, allowance, sleep, chunk, inHand>>
    BY <1>1 DEF Wait, history
  <2>2. Asleep' = Asleep
    BY <1>1, <2>1 DEF Wait, Asleep, TypeOK
  <2> QED BY <2>1, <2>2, SameSleepers
<1>2. ASSUME NEW w \in Waiters, ReadBurst(w) PROVE RateBound' /\ Bucket'
  <2>1. UNCHANGED <<bucketVars, allowance, sleep, inHand>>
    BY <1>2 DEF ReadBurst, history
  <2>2. Asleep' = Asleep
    BY <1>2, <2>1 DEF ReadBurst, Asleep, TypeOK
  <2>3. \A v \in Asleep : chunk'[v] = chunk[v]
    BY <1>2 DEF ReadBurst, Asleep, TypeOK
  <2> QED BY <2>1, <2>2, <2>3, SameSleepers
<1>3. ASSUME NEW w \in Waiters, Reserve(w) PROVE RateBound' /\ Bucket'
  <2>0. pc[w] = "reserve" /\ UNCHANGED chunk
    BY <1>3, Zenon DEF Reserve
  <2>1. CASE closed /\ pc' = [pc EXCEPT ![w] = "failed"] /\ inHand' = inHand \ {w}
             /\ UNCHANGED <<bucketVars, sleep, allowance>>
    <3>1. Asleep' = Asleep
      BY <2>0, <2>1 DEF Asleep, TypeOK
    <3> QED BY <2>0, <2>1, <3>1, SameSleepers
  <2>2. CASE (Unlimited \/ chunk[w] = 0) /\ Passed(w) /\ Charge(w) /\ UNCHANGED <<bucketVars, sleep>>
    <3>1. inHand' = inHand \ {w}
      BY <2>2 DEF Charge
    <3>2. pc'[w] # "sleep" /\ \A v \in Waiters \ {w} : pc'[v] = pc[v]
      BY <2>0, <2>2, PassedType
    <3>3. Asleep' = Asleep
      BY <2>0, <3>1, <3>2 DEF Asleep
    <3>4. allowance' = allowance
      BY <2>2 DEF Charge, Spent, Greatest, RateBound, TypeOK
    <3> QED BY <2>0, <2>2, <3>3, <3>4, SameSleepers
  <2>3. CASE /\ ~closed /\ ~(Unlimited \/ chunk[w] = 0)
             /\ LET need == Least(chunk[w], burst) IN
                /\ tokens' = Refilled - need
                /\ age' = 0
                /\ IF Refilled >= need
                   THEN Passed(w) /\ Charge(w) /\ UNCHANGED sleep
                   ELSE /\ sleep' = [sleep EXCEPT ![w] = CeilDiv(need - Refilled, rate)]
                        /\ pc' = [pc EXCEPT ![w] = "sleep"]
                        /\ UNCHANGED <<remaining, history>>
             /\ UNCHANGED <<rate, burst, disabled, closed>>
    <3> DEFINE need == Least(chunk[w], burst)
    <3>1. CASE Refilled >= need
      BY <2>0, <2>3, <3>1, ReservePasses, ZenonT(30)
    <3>2. CASE ~(Refilled >= need)
      BY <2>0, <2>3, <3>2, ReserveSleeps
    <3> QED BY <3>1, <3>2
  <2> QED BY <1>3, <2>1, <2>2, <2>3, ZenonT(30) DEF Reserve
<1>4. ASSUME NEW w \in Waiters, Wake(w) PROVE RateBound' /\ Bucket'
  <2>1. CASE Unlimited
    <3>1. Unlimited' /\ tokens' = 0 /\ allowance' = allowance
      BY <1>4, <2>1, Zenon DEF Wake, bucketVars, Charge, Spent, Unlimited, Bucket
    <3> QED BY <3>1, OffStep
  <2>2. CASE ~Unlimited
    BY <1>4, <2>2, WakePasses
  <2> QED BY <2>1, <2>2
<1>5. ASSUME NEW n \in Packets, Allow(n) PROVE RateBound' /\ Bucket'
  BY <1>5, AllowPasses
<1>6. ASSUME NEW r \in Rates, SetRate(r) PROVE RateBound' /\ Bucket'
  BY <1>6, SetRateCovers
<1>7. ASSUME Close PROVE RateBound' /\ Bucket'
  <2>1. Unlimited' /\ tokens' = 0 /\ allowance' = allowance
    BY <1>7 DEF Close, Unlimited, history
  <2> QED BY <2>1, OffStep
<1>8. ASSUME Tick PROVE RateBound' /\ Bucket'
  BY <1>8, TickCovers
<1> QED BY <1>1, <1>2, <1>3, <1>4, <1>5, <1>6, <1>7, <1>8 DEF Next, Step, TransferPacket

-----------------------------------------------------------------------------
(* The invariant is kept by a step that changes nothing.                   *)
LEMMA LimiterSame == ASSUME LimiterInv, UNCHANGED vars PROVE LimiterInv'
<1>1. UNCHANGED <<rate, burst, tokens, disabled, closed, age, pc, remaining, chunk, sleep, allowance, inHand>>
  BY DEF vars, bucketVars, waitVars, history
<1>2. TypeOK'
  BY <1>1, Zenon DEF LimiterInv, TypeOK
<1>3. Chunks'
  BY <1>1 DEF LimiterInv, Chunks, Unlimited
<1>4. Asleep' = Asleep
  BY <1>1 DEF Asleep
<1>5. UNCHANGED <<bucketVars, allowance, sleep>>
  BY <1>1 DEF bucketVars
<1>6. RateBound' /\ Bucket'
  BY <1>1, <1>2, <1>4, <1>5, SameSleepers DEF LimiterInv
<1> QED BY <1>2, <1>3, <1>6 DEF LimiterInv

(* The inductive invariant of the token bucket (counter/ratelimit.go).     *)
THEOREM LimiterInvariant == Spec => []LimiterInv
<1>1. Init => LimiterInv
  BY TypeInit, BoundInit DEF LimiterInv
<1>2. LimiterInv /\ [Next]_vars => LimiterInv'
  <2> SUFFICES ASSUME LimiterInv, [Next]_vars PROVE LimiterInv'
    OBVIOUS
  <2>1. CASE Next
    BY <2>1, TypeStep, ChunksStep, BoundStep DEF LimiterInv
  <2>2. CASE UNCHANGED vars
    BY <2>2, LimiterSame
  <2> QED BY <2>1, <2>2
<1> QED BY <1>1, <1>2, PTL DEF Spec

(* The variables of the bucket keep their types; the tokens never exceed   *)
(* the burst.                                                              *)
THEOREM LimiterTypes == Spec => []TypeOK
<1>1. LimiterInv => TypeOK
  BY DEF LimiterInv
<1> QED BY <1>1, LimiterInvariant, PTL

(* For any number of connections and any sizes, rates and bursts, reserve  *)
(* and Allow never let more pass than a full bucket and the rate allow.    *)
THEOREM BucketKeepsRate == Spec => []RateBound
<1>1. LimiterInv => RateBound
  BY DEF LimiterInv
<1> QED BY <1>1, LimiterInvariant, PTL

(* After Close no waiter passes that had not been charged before: reserve  *)
(* looks at closed first.                                                  *)
THEOREM ClosedBucketCutsOff == Spec => ClosedCutsOff
<1>1. LimiterInv /\ [Next]_vars =>
        [\A w \in Waiters : closed /\ pc[w] = "reserve" => pc'[w] \in {"reserve", "failed"}]_vars
  <2> SUFFICES ASSUME LimiterInv, Next, NEW w \in Waiters, closed, pc[w] = "reserve"
               PROVE  pc'[w] \in {"reserve", "failed"}
    OBVIOUS
  <2>0. pc \in [Waiters -> {"idle", "look", "reserve", "sleep", "failed"}]
    BY DEF LimiterInv, TypeOK
  <2>1. ASSUME NEW v \in Waiters, Wait(v) \/ ReadBurst(v) \/ Wake(v)
        PROVE  pc'[w] = pc[w]
    BY <2>0, <2>1 DEF Wait, ReadBurst, Wake, Passed
  <2>2. ASSUME NEW v \in Waiters, Reserve(v) PROVE pc'[w] \in {"reserve", "failed"}
    BY <2>0, <2>2, ZenonT(30) DEF Reserve
  <2>3. ASSUME \/ \E n \in Packets : Allow(n)
               \/ \E r \in Rates : SetRate(r)
               \/ Close \/ Tick
        PROVE  pc' = pc
    BY <2>3 DEF Allow, SetRate, Close, Tick, waitVars
  <2> QED BY <2>1, <2>2, <2>3 DEF Next, Step, TransferPacket
<1> QED BY <1>1, LimiterInvariant, PTL DEF Spec, ClosedCutsOff

=============================================================================
