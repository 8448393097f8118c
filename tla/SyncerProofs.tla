---------------------------- MODULE SyncerProofs ----------------------------
(***************************************************************************)
(* The pushes of a flush and the commit after them preserve the invariant  *)
(* of Syncer.  From it follow its safety properties and the refinement of  *)
(* UsageLedger.                                                            *)
(***************************************************************************)
EXTENDS SyncerInvariant

(* A step of the push phase: the counters, the snapshot and the control    *)
(* state stay, one client leaves the queue.                                *)
LEMMA PushStep ==
    ASSUME IInv, flush = "push",
           UNCHANGED <<counterVars, loopVars, flushMu, flush, reads, delta, settled, deleted>>,
           SyncTypeOK', AckInv', BilledOnce'
    PROVE  IInv'
<1>1. /\ CounterTypeOK' /\ StorageInv' /\ CommittedNeverAhead' /\ EveryByteAccounted'
      /\ \A k \in Keys, d \in Dirs : Pending(k, d)' = Pending(k, d)
  BY CounterStep
<1>2. ControlInv'
  BY DEF IInv, ControlInv, loopVars
<1>3. DeltaInv'
  BY <1>1 DEF IInv, DeltaInv
<1> QED
  BY <1>1, <1>2, <1>3 DEF IInv, TypeOK

(* What booking the snapshot of some keys makes of a book.                 *)
LEMMA PlusDeltaFact ==
    ASSUME SyncTypeOK, NEW f \in [Keys -> [Dirs -> Nat]], NEW S
    PROVE  /\ PlusDelta(f, S) \in [Keys -> [Dirs -> Nat]]
           /\ \A k \in Keys, d \in Dirs :
                PlusDelta(f, S)[k][d] = IF k \in S THEN f[k][d] + delta[k][d] ELSE f[k][d]
<1>1. \A k \in Keys, d \in Dirs : f[k][d] \in Nat /\ delta[k][d] \in Nat
  BY DEF SyncTypeOK
<1> QED
  BY <1>1 DEF PlusDelta

(* The panel books a client's push and its tags are acknowledged.  A       *)
(* covered key was not acknowledged before: its one client was in the      *)
(* queue.                                                                  *)
LEMMA PushAcceptedIInv == IInv /\ (\E cl \in Clients : PushAccepted(cl)) => IInv'
<1> SUFFICES ASSUME IInv, NEW cl \in Clients, PushAccepted(cl) PROVE IInv'
  OBVIOUS
<1>0. /\ SyncTypeOK /\ AckInv /\ BilledOnce
      /\ flush = "push" /\ cl \in queue /\ queue' = queue \ {cl}
      /\ billed' = PlusDelta(billed, Payload(cl))
      /\ acked' = acked \cup Acks(cl)
      /\ UNCHANGED <<counterVars, loopVars, flushMu, flush, reads, delta, failed,
                     lost, losses, settled, deleted>>
  BY DEF IInv, TypeOK, PushAccepted, ClientCalled
<1>1. /\ billed' \in [Keys -> [Dirs -> Nat]]
      /\ \A k \in Keys, d \in Dirs :
            billed'[k][d] = IF k \in Payload(cl) THEN billed[k][d] + delta[k][d] ELSE billed[k][d]
  BY <1>0, PlusDeltaFact DEF SyncTypeOK
<1>2. SyncTypeOK'
  <2>1. acked' \subseteq {TagOf(k) : k \in Keys}
    BY <1>0 DEF SyncTypeOK, Acks
  <2> QED
    BY <1>0, <1>1, <2>1 DEF SyncTypeOK, loopVars
<1>3. \A k \in Keys : TagOf(k) \in Acks(cl) => TagOf(k) \in Matches[cl]
  BY DEF Acks
<1>4. \A k \in Keys : InDelta(k) /\ TagOf(k) \in Matches[cl] => TagOf(k) \in Acks(cl)
  BY DEF Acks
<1>5. AckInv'
  <2>1. ASSUME NEW k \in Keys, TagOf(k) \in acked'
        PROVE  \E x \in Clients \ queue' : TagOf(k) \in Matches[x]
    <3>1. CASE TagOf(k) \in acked
      BY <1>0, <3>1 DEF AckInv
    <3>2. CASE TagOf(k) \in Acks(cl)
      BY <1>0, <1>3, <3>2
    <3> QED
      BY <1>0, <2>1, <3>1, <3>2
  <2>2. ASSUME ~failed, NEW x \in Clients \ queue', NEW k \in Keys,
               InDelta(k), TagOf(k) \in Matches[x]
        PROVE  TagOf(k) \in acked'
    BY <1>0, <1>4, <2>2 DEF AckInv
  <2>3. \A k \in Keys : InDelta(k)' <=> InDelta(k)
    BY <1>0 DEF InDelta
  <2> QED
    BY <1>0, <2>1, <2>2, <2>3 DEF AckInv
<1>6. BilledOnce'
  <2> SUFFICES ASSUME NEW k \in Keys, NEW d \in Dirs
               PROVE  /\ Covered(k) => billed'[k][d] = settled[k][d] + lost[k][d] + Outstanding(k, d)'
                      /\ ~isNumericUser(k) => billed'[k][d] = 0 /\ settled[k][d] = 0
    BY <1>0 DEF BilledOnce
  <2>1. /\ Covered(k) => billed[k][d] = settled[k][d] + lost[k][d] + Outstanding(k, d)
        /\ ~isNumericUser(k) => billed[k][d] = 0 /\ settled[k][d] = 0
    BY <1>0 DEF BilledOnce
  <2>t. /\ billed[k][d] \in Nat /\ settled[k][d] \in Nat /\ lost[k][d] \in Nat
        /\ delta[k][d] \in Nat
    BY <1>0 DEF SyncTypeOK
  <2>2. CASE k \in Payload(cl)
    <3>1. TagOf(k) \in Matches[cl] /\ InDelta(k) /\ isNumericUser(k)
      BY <2>2 DEF Payload
    <3>2. Outstanding(k, d)' = delta[k][d]
      BY <1>0, <1>4, <3>1 DEF Outstanding
    <3>3. Covered(k) => Outstanding(k, d) = 0
      <4>1. Covered(k) => TagOf(k) \notin acked
        BY <1>0, <3>1 DEF Covered, AckInv
      <4> QED
        BY <1>0, <4>1 DEF Outstanding
    <3> QED
      BY <1>1, <2>1, <2>2, <2>t, <3>1, <3>2, <3>3
  <2>3. CASE k \notin Payload(cl)
    <3>1. Covered(k) => Outstanding(k, d)' = Outstanding(k, d)
      <4>1. CASE TagOf(k) \in acked
        BY <1>0, <4>1 DEF Outstanding
      <4>2. CASE TagOf(k) \notin acked /\ TagOf(k) \notin Acks(cl)
        BY <1>0, <4>2 DEF Outstanding
      <4>3. CASE TagOf(k) \notin acked /\ TagOf(k) \in Acks(cl)
        <5>1. Covered(k) => ~InDelta(k)
          BY <1>3, <2>3, <4>3 DEF Payload, Covered
        <5>2. Covered(k) => delta[k][d] = 0
          BY <5>1, <2>t DEF InDelta
        <5> QED
          BY <1>0, <4>3, <5>2 DEF Outstanding
      <4> QED
        BY <4>1, <4>2, <4>3
    <3> QED
      BY <1>1, <2>1, <2>3, <3>1
  <2> QED
    BY <2>2, <2>3
<1> QED
  BY <1>0, <1>2, <1>5, <1>6, PushStep

(* A client fails without the panel having booked anything.                *)
LEMMA PushFailedIInv == IInv /\ (\E cl \in Clients : PushFailed(cl)) => IInv'
<1> SUFFICES ASSUME IInv, NEW cl \in Clients, PushFailed(cl) PROVE IInv'
  OBVIOUS
<1>0. /\ SyncTypeOK /\ AckInv /\ BilledOnce
      /\ flush = "push" /\ queue' = queue \ {cl} /\ failed' = TRUE
      /\ UNCHANGED <<counterVars, loopVars, flushMu, flush, reads, delta, acked,
                     panelVars, settled, deleted>>
  BY DEF IInv, TypeOK, PushFailed, ClientCalled
<1> USE DEF panelVars
<1>1. SyncTypeOK'
  <2>1. failed' \in BOOLEAN
    BY <1>0, Zenon
  <2> QED
    BY <1>0, <2>1 DEF SyncTypeOK, loopVars
<1>2. AckInv'
  BY <1>0 DEF AckInv
<1>3. BilledOnce'
  BY <1>0 DEF BilledOnce, Outstanding
<1> QED
  BY <1>0, <1>1, <1>2, <1>3, PushStep

(* A client's push is booked and its answer lost: both books grow alike.   *)
LEMMA PushLostIInv == IInv /\ (\E cl \in Clients : PushLost(cl)) => IInv'
<1> SUFFICES ASSUME IInv, NEW cl \in Clients, PushLost(cl) PROVE IInv'
  OBVIOUS
<1>0. /\ SyncTypeOK /\ AckInv /\ BilledOnce
      /\ flush = "push" /\ queue' = queue \ {cl} /\ failed' = TRUE
      /\ billed' = PlusDelta(billed, Payload(cl))
      /\ lost' = PlusDelta(lost, Payload(cl))
      /\ losses < MaxLost /\ losses' = losses + 1
      /\ UNCHANGED <<counterVars, loopVars, flushMu, flush, reads, delta, acked,
                     settled, deleted>>
  BY DEF IInv, TypeOK, PushLost, ClientCalled
<1>1. /\ billed' \in [Keys -> [Dirs -> Nat]]
      /\ \A k \in Keys, d \in Dirs :
            billed'[k][d] = IF k \in Payload(cl) THEN billed[k][d] + delta[k][d] ELSE billed[k][d]
  BY <1>0, PlusDeltaFact DEF SyncTypeOK
<1>2. /\ lost' \in [Keys -> [Dirs -> Nat]]
      /\ \A k \in Keys, d \in Dirs :
            lost'[k][d] = IF k \in Payload(cl) THEN lost[k][d] + delta[k][d] ELSE lost[k][d]
  <2>1. lost \in [Keys -> [Dirs -> Nat]] /\ lost' = PlusDelta(lost, Payload(cl))
    BY <1>0 DEF SyncTypeOK
  <2> QED
    BY <1>0, <2>1, PlusDeltaFact
<1>3. SyncTypeOK'
  <2>1. failed' \in BOOLEAN
    BY <1>0, Zenon
  <2>2. losses' \in 0..MaxLost
    BY <1>0, PanelAssumption DEF SyncTypeOK
  <2> QED
    BY <1>0, <1>1, <1>2, <2>1, <2>2 DEF SyncTypeOK, loopVars
<1>4. AckInv'
  BY <1>0 DEF AckInv
<1>5. BilledOnce'
  <2> SUFFICES ASSUME NEW k \in Keys, NEW d \in Dirs
               PROVE  /\ Covered(k) => billed'[k][d] = settled[k][d] + lost'[k][d] + Outstanding(k, d)'
                      /\ ~isNumericUser(k) => billed'[k][d] = 0 /\ settled[k][d] = 0
    BY <1>0 DEF BilledOnce
  <2>1. /\ Covered(k) => billed[k][d] = settled[k][d] + lost[k][d] + Outstanding(k, d)
        /\ ~isNumericUser(k) => billed[k][d] = 0 /\ settled[k][d] = 0
    BY <1>0 DEF BilledOnce
  <2>2. Outstanding(k, d)' = Outstanding(k, d) /\ Outstanding(k, d) \in Nat
    BY <1>0 DEF Outstanding, SyncTypeOK
  <2>3. k \in Payload(cl) => isNumericUser(k)
    BY DEF Payload
  <2>4. /\ billed[k][d] \in Nat /\ settled[k][d] \in Nat /\ lost[k][d] \in Nat
        /\ delta[k][d] \in Nat
    BY <1>0 DEF SyncTypeOK
  <2> QED
    BY <1>1, <1>2, <2>1, <2>2, <2>3, <2>4
<1> QED
  BY <1>0, <1>3, <1>4, <1>5, PushStep

(* Every client is through: commit, or back when nobody acknowledged.      *)
(* Without an error every covered key of the snapshot is acknowledged.     *)
LEMMA PushDoneIInv == IInv /\ PushDone => IInv'
<1> SUFFICES ASSUME IInv, PushDone PROVE IInv'
  OBVIOUS
<1>0. /\ SyncTypeOK /\ ControlInv /\ DeltaInv /\ AckInv /\ BilledOnce
      /\ flush = "push" /\ queue = {}
  BY DEF IInv, TypeOK, PushDone
<1>1. CASE acked = {} /\ Return
  <2>1. \A k \in Keys, d \in Dirs : Covered(k) => Outstanding(k, d) = 0
    BY <1>0, <1>1 DEF Outstanding
  <2> QED
    BY <1>0, <1>1, <2>1, ReturnIInv
<1>2. CASE /\ flush' = "commit" /\ reads' = commitDelta \X Dirs
           /\ UNCHANGED <<counterVars, loopVars, flushMu, delta, queue, acked,
                          failed, panelVars, settled, deleted>>
  <2>1. /\ CounterTypeOK' /\ StorageInv' /\ CommittedNeverAhead' /\ EveryByteAccounted'
        /\ \A k \in Keys, d \in Dirs : Pending(k, d)' = Pending(k, d)
    BY <1>2, CounterStep
  <2> USE DEF loopVars, panelVars
  <2>2. commitDelta \subseteq Keys
    BY DEF commitDelta
  <2>3. SyncTypeOK'
    <3>1. reads' \subseteq Keys \X Dirs
      BY <1>2, <2>2
    <3> QED
      BY <1>0, <1>2, <3>1 DEF SyncTypeOK
  <2>4. ControlInv' /\ AckInv'
    BY <1>0, <1>2 DEF ControlInv, AckInv
  <2>5. DeltaInv'
    BY <1>0, <1>2, <2>1 DEF DeltaInv, commitDelta
  <2>6. BilledOnce'
    <3> SUFFICES ASSUME NEW k \in Keys, NEW d \in Dirs, Covered(k)
                 PROVE  Outstanding(k, d)' = Outstanding(k, d)
      BY <1>0, <1>2 DEF BilledOnce
    <3>1. delta[k][d] \in Nat /\ (~InDelta(k) => delta[k][d] = 0)
      BY <1>0 DEF SyncTypeOK, InDelta
    <3>2. <<k, d>> \in reads' <=> k \in commitDelta
      BY <1>2
    <3>3. k \in commitDelta <=> InDelta(k) /\ TagOf(k) \in acked
      <4>1. isNumericUser(k)
        BY DEF Covered
      <4>2. InDelta(k) /\ ~failed => TagOf(k) \in acked
        BY <1>0 DEF AckInv, Covered
      <4> QED
        BY <4>1, <4>2 DEF commitDelta
    <3> QED
      BY <1>0, <1>2, <3>1, <3>2, <3>3 DEF Outstanding
  <2> QED
    BY <2>1, <2>3, <2>4, <2>5, <2>6 DEF IInv, TypeOK
<1> QED
  BY <1>1, <1>2 DEF PushDone

(* A table of byte counts stays one when bytes are added to an entry.      *)
LEMMA AddedTyped ==
    ASSUME NEW A, NEW B, NEW f \in [A -> [B -> Nat]], NEW a \in A, NEW b \in B, NEW n \in Nat
    PROVE  [f EXCEPT ![a][b] = @ + n] \in [A -> [B -> Nat]]
  OBVIOUS

(* What is added to what is subtracted is taken from the difference.       *)
LEMMA SubtractSum == \A a, b, c \in Nat : a - (b + c) = (a - b) - c
  OBVIOUS

(* A part is at most what bounds the sum.                                  *)
LEMMA PartOfBound == \A a, b, c \in Nat : a + b <= c => a <= c
  OBVIOUS

(* A part is at most the sum.                                              *)
LEMMA PartOfSum == \A a, b, c \in Nat : a <= a + b + c
  OBVIOUS

(* One counter is committed: the map still holds a storage with at least   *)
(* the delta uncommitted, and no other key holds that storage.             *)
LEMMA CommitSnapshotIInv == IInv /\ (\E k \in Keys, d \in Dirs : CommitSnapshot(k, d)) => IInv'
<1> SUFFICES ASSUME IInv, NEW k \in Keys, NEW d \in Dirs, CommitSnapshot(k, d) PROVE IInv'
  OBVIOUS
<1> USE BoundsAssumption
<1> DEFINE s == counters[k]
           n == delta[k][d]
<1>0. /\ CounterTypeOK /\ SyncTypeOK /\ StorageInv /\ ControlInv /\ DeltaInv
      /\ CommittedNeverAhead /\ EveryByteAccounted /\ BilledOnce
  BY DEF IInv, TypeOK
<1>1. /\ flush = "commit" /\ <<k, d>> \in reads /\ reads' = reads \ {<<k, d>>}
      /\ counters' = counters /\ counted' = counted
      /\ UNCHANGED <<allocs, owner, storage, moved, used,
                     loopVars, flushMu, flush, delta, queue, acked, failed,
                     panelVars, deleted>>
  BY DEF CommitSnapshot
<1>2. n \in Nat /\ n <= Pending(k, d) /\ isNumericUser(k)
  BY <1>0, <1>1 DEF SyncTypeOK, DeltaInv
<1>3. CASE s = 0
  <2>1. n = 0
    BY <1>2, <1>3 DEF Pending
  <2>2. committed' = committed /\ settled' = settled
    BY <1>3 DEF CommitSnapshot
  <2>3. /\ CounterTypeOK' /\ StorageInv' /\ CommittedNeverAhead' /\ EveryByteAccounted'
        /\ \A x \in Keys, e \in Dirs : Pending(x, e)' = Pending(x, e)
    BY <1>1, <2>2, CounterStep DEF counterVars
  <2>4. SyncTypeOK' /\ ControlInv' /\ AckInv'
    BY <1>0, <1>1, <2>2 DEF SyncTypeOK, ControlInv, AckInv, loopVars, panelVars
  <2>5. DeltaInv'
    BY <1>0, <1>1, <2>3, Zenon DEF DeltaInv
  <2>6. BilledOnce'
    <3>1. \A x \in Keys, e \in Dirs : Outstanding(x, e)' = Outstanding(x, e)
      BY <1>1, <2>1, Zenon DEF Outstanding
    <3> QED
      BY <1>0, <1>1, <2>2, <3>1, Zenon DEF BilledOnce, panelVars
  <2> QED
    BY <2>3, <2>4, <2>5, <2>6 DEF IInv, TypeOK
<1>4. CASE s # 0
  <2>1. /\ committed' = [committed EXCEPT ![s][d] = @ + n]
        /\ settled' = [settled EXCEPT ![k][d] = @ + n]
    BY <1>4 DEF CommitSnapshot
  <2>2. s \in Storages /\ counted[s][d] \in Nat /\ committed[s][d] \in Nat
    BY <1>0, <1>4 DEF CounterTypeOK, Storages
  <2>3. committed[s][d] + n <= counted[s][d]
    BY <1>2, <1>4, <2>2 DEF Pending, Uncommitted
  <2>4. \A x \in Keys : counters[x] = s => x = k
    BY <1>0, <1>4 DEF StorageInv
  <2> HIDE DEF s, n
  <2>5. \A x \in Storages, e \in Dirs :
           committed'[x][e] = IF x = s /\ e = d THEN committed[x][e] + n ELSE committed[x][e]
    BY <1>0, <2>1, <2>2 DEF CounterTypeOK
  <2>6. \A x \in Keys, e \in Dirs :
           settled'[x][e] = IF x = k /\ e = d THEN settled[x][e] + n ELSE settled[x][e]
    BY <1>0, <2>1 DEF SyncTypeOK
  <2>7. CounterTypeOK'
    BY <1>0, <1>1, <1>2, <2>1, <2>2 DEF CounterTypeOK
  <2>8. SyncTypeOK'
    <3>0. settled \in [Keys -> [Dirs -> Nat]]
      BY <1>0, Zenon DEF SyncTypeOK
    <3>1. settled' \in [Keys -> [Dirs -> Nat]]
      BY <1>2, <2>1, <3>0, AddedTyped, Zenon
    <3> QED
      BY <1>0, <1>1, <3>1 DEF SyncTypeOK, loopVars, panelVars
  <2>9. StorageInv'
    <3>1. s <= allocs
      BY <1>0, <1>4 DEF StorageInv, s
    <3>2. ASSUME NEW x \in Storages, NEW e \in Dirs, x > allocs
          PROVE  committed'[x][e] = committed[x][e]
      <4>1. x # s
        BY <1>0, <2>2, <3>1, <3>2 DEF CounterTypeOK, Storages
      <4> QED
        BY <2>5, <4>1
    <3>3. \A x \in Storages, e \in Dirs : x > allocs => counted[x][e] = 0 /\ committed'[x][e] = 0
      BY <1>0, <3>2 DEF StorageInv
    <3>4. UNCHANGED <<counters, allocs, owner, counted, storage, moved, deleted>>
      BY <1>1
    <3> QED
      BY <1>0, <3>3, <3>4 DEF StorageInv
  <2>10. ControlInv' /\ AckInv'
    BY <1>0, <1>1 DEF ControlInv, AckInv, loopVars
  <2>11. CommittedNeverAhead'
    BY <1>0, <1>1, <2>3, <2>5 DEF CommittedNeverAhead
  <2>12. ASSUME NEW x \in Keys, NEW e \in Dirs
         PROVE  /\ Pending(x, e) \in Int
                /\ Pending(x, e)' = IF x = k /\ e = d THEN Pending(x, e) - n ELSE Pending(x, e)
    <3>1. Pending(x, e) \in Int
      BY <1>0, PendingType
    <3>2. CASE counters[x] = 0
      <4>1. x # k
        BY <1>4, <3>2 DEF s
      <4> QED
        BY <1>1, <3>1, <3>2, <4>1, Zenon DEF Pending
    <3>3. CASE counters[x] # 0
      <4>1. counters[x] \in Storages
        BY <1>0, <3>3 DEF CounterTypeOK, Storages
      <4>2. counted[counters[x]][e] \in Nat /\ committed[counters[x]][e] \in Nat
        BY <1>0, <4>1 DEF CounterTypeOK
      <4>3. counters[x] = s <=> x = k
        BY <2>4 DEF s
      <4>4. committed'[counters[x]][e] = IF x = k /\ e = d THEN committed[counters[x]][e] + n
                                                          ELSE committed[counters[x]][e]
        BY <2>5, <4>1, <4>3, Zenon
      <4>5. /\ Pending(x, e) = counted[counters[x]][e] - committed[counters[x]][e]
            /\ Pending(x, e)' = counted[counters[x]][e] - committed'[counters[x]][e]
        BY <1>1, <3>3, Zenon DEF Pending, Uncommitted
      <4>6. counted[counters[x]][e] - (committed[counters[x]][e] + n)
              = (counted[counters[x]][e] - committed[counters[x]][e]) - n
        BY <1>2, <4>2, SubtractSum
      <4>7. CASE x = k /\ e = d
        <5>1. Pending(x, e)' = Pending(x, e) - n
          BY <4>4, <4>5, <4>6, <4>7, Zenon
        <5> QED
          BY <3>1, <4>7, <5>1, Zenon
      <4>8. CASE ~(x = k /\ e = d)
        <5>1. Pending(x, e)' = Pending(x, e)
          BY <4>4, <4>5, <4>8, Zenon
        <5> QED
          BY <3>1, <4>8, <5>1, Zenon
      <4> QED
        BY <4>7, <4>8, Zenon
    <3> QED
      BY <3>1, <3>2, <3>3
  <2>13. DeltaInv'
    BY <1>0, <1>1, <2>12 DEF DeltaInv
  <2>14. EveryByteAccounted'
    <3> SUFFICES ASSUME NEW x \in Keys, NEW e \in Dirs
                 PROVE  /\ settled'[x][e] + Pending(x, e)' <= used[x][e]
                        /\ x \notin deleted => settled'[x][e] + Pending(x, e)' = used[x][e]
      BY <1>1, Zenon DEF EveryByteAccounted
    <3>1. /\ settled[x][e] + Pending(x, e) <= used[x][e]
          /\ x \notin deleted => settled[x][e] + Pending(x, e) = used[x][e]
      BY <1>0 DEF EveryByteAccounted
    <3>2. settled[x][e] \in Nat /\ used[x][e] \in Nat
      BY <1>0 DEF SyncTypeOK, CounterTypeOK
    <3> QED
      BY <1>2, <2>6, <2>12, <3>1, <3>2
  <2>15. BilledOnce'
    <3> SUFFICES ASSUME NEW x \in Keys, NEW e \in Dirs
                 PROVE  /\ Covered(x) => billed[x][e] = settled'[x][e] + lost[x][e] + Outstanding(x, e)'
                        /\ ~isNumericUser(x) => billed[x][e] = 0 /\ settled'[x][e] = 0
      BY <1>1 DEF BilledOnce, panelVars
    <3>1. /\ Covered(x) => billed[x][e] = settled[x][e] + lost[x][e] + Outstanding(x, e)
          /\ ~isNumericUser(x) => billed[x][e] = 0 /\ settled[x][e] = 0
      BY <1>0 DEF BilledOnce
    <3>2. CASE x = k /\ e = d
      <4>1. Outstanding(x, e) = n /\ Outstanding(x, e)' = 0
        BY <1>1, <3>2 DEF Outstanding, n
      <4>2. settled[x][e] \in Nat /\ lost[x][e] \in Nat
        BY <1>0 DEF SyncTypeOK
      <4> QED
        BY <1>2, <2>6, <3>1, <3>2, <4>1, <4>2
    <3>3. CASE ~(x = k /\ e = d)
      <4>1. Outstanding(x, e)' = Outstanding(x, e)
        BY <1>1, <3>3 DEF Outstanding
      <4> QED
        BY <2>6, <3>1, <3>3, <4>1, Zenon
    <3> QED
      BY <3>2, <3>3, ZenonT(30)
  <2> QED
    BY <2>7, <2>8, <2>9, <2>10, <2>11, <2>13, <2>14, <2>15 DEF IInv, TypeOK
<1> QED
  BY <1>3, <1>4

(* The commit is complete.                                                 *)
LEMMA CommitDoneIInv == IInv /\ CommitDone => IInv'
<1> SUFFICES ASSUME IInv, CommitDone PROVE IInv'
  OBVIOUS
<1>1. \A k \in Keys, d \in Dirs : Covered(k) => Outstanding(k, d) = 0
  BY DEF CommitDone, Outstanding
<1> QED
  BY <1>1, ReturnIInv DEF CommitDone

-----------------------------------------------------------------------------
(* What is proved of Syncer *)

(* Every step keeps the invariant.                                         *)
LEMMA NextIInv == IInv /\ [Next]_vars => IInv'
<1> SUFFICES ASSUME IInv, [Next]_vars PROVE IInv'
  OBVIOUS
<1>1. CASE DataPath
  BY <1>1, RouteIInv, CarryIInv, AddIInv, HangupIInv DEF DataPath
<1>2. CASE FetchUsers \/ ApplyUsers \/ Tick \/ Stop \/ Signal \/ Join \/ CloseBox
  BY <1>2, FetchUsersIInv, ApplyUsersIInv, TickIInv, StopIInv, MainIInv
<1>3. CASE Prune
  BY <1>3, PruneVisitIInv, PruneDeleteIInv, PruneDoneIInv DEF Prune
<1>4. CASE Flush
  BY <1>4, FlushBeginIInv, SnapshotSkipIInv, SnapshotReadIInv, SnapshotDoneIInv,
     PushAcceptedIInv, PushFailedIInv, PushLostIInv, PushDoneIInv,
     CommitSnapshotIInv, CommitDoneIInv DEF Flush
<1>5. CASE UNCHANGED vars
  <2>1. SyncTypeOK'
    BY <1>5 DEF IInv, TypeOK, SyncTypeOK, vars, loopVars, flushVars, panelVars
  <2>2. ControlInv'
    BY <1>5 DEF IInv, ControlInv, vars, loopVars, flushVars
  <2> QED
    BY <1>5, <2>1, <2>2, LoopStep DEF vars
<1> QED
  BY <1>1, <1>2, <1>3, <1>4, <1>5 DEF Next, Exited

(* The invariant holds of every reachable state.                           *)
THEOREM Invariance == Spec => []IInv
<1> QED
  BY InitIInv, NextIInv, PTL DEF Spec

(* Every variable keeps its type in every reachable state.                 *)
THEOREM TypeCorrect == Spec => []TypeOK
<1>1. IInv => TypeOK
  BY DEF IInv
<1> QED
  BY <1>1, Invariance, PTL

(* CommitSnapshot never commits more than was counted, for any number of   *)
(* connections, users and nodes, although entries come and go between a    *)
(* snapshot and its commit.                                                *)
THEOREM CommitsAreCounted == Spec => []CommittedNeverAhead
<1>1. IInv => CommittedNeverAhead
  BY DEF IInv
<1> QED
  BY <1>1, Invariance, PTL

(* Until its entry is deleted a key loses no byte between the counter, the *)
(* snapshot and the commit.                                                *)
THEOREM NoByteLost == Spec => []EveryByteAccounted
<1>1. IInv => EveryByteAccounted
  BY DEF IInv
<1> QED
  BY <1>1, Invariance, PTL

(* The panel's books are the agent's commits plus lost answers, whatever   *)
(* clients fail in whatever order.                                         *)
THEOREM BillingExact == Spec => []BilledOnce
<1>1. IInv => BilledOnce
  BY DEF IInv
<1> QED
  BY <1>1, Invariance, PTL

-----------------------------------------------------------------------------
(* Once the box is closed the loop is gone, and with it every step that    *)
(* applies a list or prunes an entry.                                      *)
THEOREM LoopIsQuiet == Spec => QuietAfterClose
<1>1. IInv /\ [Next]_vars => [box = "closed" => UNCHANGED <<active, deleted, loop>>]_vars
  <2> SUFFICES ASSUME IInv, Next, box = "closed"
               PROVE  UNCHANGED <<active, deleted, loop>>
    OBVIOUS
  <2>1. loop = "done" /\ flushMu # "loop"
    BY DEF IInv, ControlInv
  <2>2. CASE DataPath
    BY <2>2 DEF DataPath, Route, Carry, Add, Hangup, syncVars, loopVars
  <2>3. CASE FetchUsers \/ ApplyUsers \/ Prune \/ Tick \/ Stop \/ Signal \/ Join \/ CloseBox
    BY <2>1, <2>3 DEF FetchUsers, ApplyUsers, Prune, PruneVisit, PruneDelete, PruneDone,
                      Tick, Stop, Signal, Join, CloseBox
  <2>4. CASE Flush
    <3>1. Return => UNCHANGED <<active, deleted, loop>>
      BY <2>1 DEF Return
    <3> QED
      BY <2>4, <3>1, Zenon DEF Flush, FlushBegin, SnapshotSkip, SnapshotRead, SnapshotDone,
         PushAccepted, PushFailed, PushLost, PushDone, CommitSnapshot, CommitDone, loopVars
  <2>5. CASE Exited
    BY <2>5 DEF Exited, vars, loopVars
  <2> QED
    BY <2>2, <2>3, <2>4, <2>5 DEF Next
<1> QED
  BY <1>1, Invariance, PTL DEF Spec, QuietAfterClose

-----------------------------------------------------------------------------
(* The steps that touch the books, one lemma each.  Bytes are used:        *)
LEMMA AddUses == IInv /\ IInv' /\ Add => Ledger!Use
<1> SUFFICES ASSUME IInv, IInv', NEW c \in Conns, NEW d \in Dirs,
                    AddBytes(c, d), UNCHANGED syncVars
             PROVE  Ledger!Use
  BY DEF Add
<1> DEFINE k == owner[storage[c]]
           n == moved[c][d]
<1>1. /\ used \in [Keys -> [Dirs -> Nat]] /\ used' \in [Keys -> [Dirs -> Nat]]
      /\ n \in Nat /\ used' = [used EXCEPT ![k][d] = @ + n]
      /\ billed' = billed /\ settled' = settled
  BY DEF IInv, TypeOK, CounterTypeOK, AddBytes, syncVars, panelVars
<1> HIDE DEF k, n
<1>2. \A x \in Keys, e \in Dirs : used[x][e] <= used'[x][e]
  BY <1>1
<1> QED
  BY <1>1, <1>2, Zenon DEF Ledger!Use, Ledger!Books, CoveredKeys

(* A client's push is booked, whether or not its answer arrives: no more   *)
(* than what is pending.                                                   *)
LEMMA PushBills ==
    ASSUME IInv, IInv', NEW cl \in Clients, flush = "push",
           billed' = PlusDelta(billed, Payload(cl)),
           used' = used, settled' = settled
    PROVE  Ledger!Bill
<1>1. /\ SyncTypeOK /\ CounterTypeOK
      /\ billed \in [Keys -> [Dirs -> Nat]] /\ billed' \in [Keys -> [Dirs -> Nat]]
  BY DEF IInv, TypeOK, SyncTypeOK
<1>2. \A k \in Keys, d \in Dirs :
         billed'[k][d] = IF k \in Payload(cl) THEN billed[k][d] + delta[k][d] ELSE billed[k][d]
  <2> DEFINE S == Payload(cl)
  <2> HIDE DEF S
  <2>1. \A k \in Keys, d \in Dirs :
           PlusDelta(billed, S)[k][d] = IF k \in S THEN billed[k][d] + delta[k][d] ELSE billed[k][d]
    BY <1>1, PlusDeltaFact
  <2> QED BY <2>1, Zenon DEF S
<1>3. ASSUME NEW k \in Keys, NEW d \in Dirs
      PROVE  /\ billed[k][d] <= billed'[k][d]
             /\ billed'[k][d] - billed[k][d] <= used[k][d] - settled[k][d]
  <2>1. delta[k][d] <= Pending(k, d) /\ settled[k][d] + Pending(k, d) <= used[k][d]
    BY ZenonT(30) DEF IInv, DeltaInv, EveryByteAccounted
  <2>2. Pending(k, d) \in Nat
    BY PendingNat, Zenon
  <2>3. /\ delta[k][d] \in Nat /\ billed[k][d] \in Nat
        /\ settled[k][d] \in Nat /\ used[k][d] \in Nat
    BY <1>1 DEF SyncTypeOK, CounterTypeOK
  <2>4. billed'[k][d] = billed[k][d] + delta[k][d] \/ billed'[k][d] = billed[k][d]
    BY <1>2, Zenon
  <2> DEFINE a == billed[k][d]
             b == billed'[k][d]
             x == delta[k][d]
             p == Pending(k, d)
             u == used[k][d]
             s == settled[k][d]
  <2>5. /\ a \in Nat /\ x \in Nat /\ p \in Nat /\ u \in Nat /\ s \in Nat
        /\ x <= p /\ s + p <= u /\ (b = a + x \/ b = a)
    BY <2>1, <2>2, <2>3, <2>4, Zenon
  <2>6. a <= b /\ b - a <= u - s
    <3> HIDE DEF a, b, x, p, u, s
    <3> QED BY <2>5
  <2> QED BY <2>6, Zenon
<1> QED
  BY <1>1, <1>3, ZenonT(30) DEF Ledger!Bill, Ledger!Books, CoveredKeys

(* Pending amounts after a step that keeps the invariant.                  *)
LEMMA PendingNatNext ==
    ASSUME IInv'
    PROVE  \A k \in Keys, d \in Dirs : Pending(k, d)' \in Nat
<1> SUFFICES ASSUME NEW k \in Keys, NEW d \in Dirs
             PROVE  Pending(k, d)' \in Nat
  OBVIOUS
<1>0. CounterTypeOK' /\ CommittedNeverAhead'
  BY DEF IInv, TypeOK
<1>1. counters'[k] # 0 => counters'[k] \in Storages
  BY <1>0, StorageNumber, Zenon DEF CounterTypeOK
<1> QED
  BY <1>0, <1>1 DEF Pending, Uncommitted, CommittedNeverAhead, CounterTypeOK

(* A commit settles what has been booked.                                  *)
LEMMA CommitSettles ==
    ASSUME IInv, IInv', NEW k \in Keys, NEW d \in Dirs, CommitSnapshot(k, d)
    PROVE  Ledger!Settle
<1>1. /\ SyncTypeOK /\ SyncTypeOK' /\ CounterTypeOK
      /\ EveryByteAccounted' /\ BilledOnce' /\ used' = used /\ billed' = billed
  BY DEF IInv, TypeOK, CommitSnapshot, panelVars
<1>2. ASSUME NEW x \in CoveredKeys, NEW e \in Dirs
      PROVE  /\ settled[x][e] <= settled'[x][e]
             /\ settled'[x][e] <= used[x][e]
             /\ settled'[x][e] <= billed[x][e]
  <2>1. x \in Keys /\ Covered(x)
    BY DEF CoveredKeys
  <2>2. settled[x][e] <= settled'[x][e]
    <3>1. \/ settled' = [settled EXCEPT ![k][d] = @ + delta[k][d]]
          \/ settled' = settled
      BY DEF CommitSnapshot
    <3>2. settled \in [Keys -> [Dirs -> Nat]] /\ delta[k][d] \in Nat
      BY <1>1 DEF SyncTypeOK
    <3> QED
      BY <2>1, <3>1, <3>2
  <2>3. settled'[x][e] <= used[x][e]
    <3>1. settled'[x][e] + Pending(x, e)' <= used[x][e]
      BY <1>1, <2>1, Zenon DEF EveryByteAccounted
    <3>2. Pending(x, e)' \in Nat /\ settled'[x][e] \in Nat /\ used[x][e] \in Nat
      <4>1. Pending(x, e)' \in Nat
        BY <2>1, PendingNatNext, Zenon
      <4>2. settled'[x][e] \in Nat
        BY <1>1, <2>1, Zenon DEF SyncTypeOK
      <4>3. used[x][e] \in Nat
        BY <1>1, <2>1, Zenon DEF CounterTypeOK
      <4> QED
        BY <4>1, <4>2, <4>3, Zenon
    <3> QED
      BY <3>1, <3>2, PartOfBound, Zenon
  <2>4. settled'[x][e] <= billed[x][e]
    <3>1. billed[x][e] = settled'[x][e] + lost'[x][e] + Outstanding(x, e)'
      BY <1>1, <2>1, Zenon DEF BilledOnce
    <3>2. settled'[x][e] \in Nat /\ lost'[x][e] \in Nat /\ delta'[x][e] \in Nat
      BY <1>1, <2>1, Zenon DEF SyncTypeOK
    <3>3. Outstanding(x, e)' \in Nat
      BY <3>2, Zenon DEF Outstanding
    <3>4. settled'[x][e] <= settled'[x][e] + lost'[x][e] + Outstanding(x, e)'
      BY <3>2, <3>3, PartOfSum, Zenon
    <3> QED
      BY <3>1, <3>4, Zenon
  <2> QED
    BY <2>2, <2>3, <2>4
<1>3. settled' \in [Keys -> [Dirs -> Nat]] /\ settled \in [Keys -> [Dirs -> Nat]]
  BY <1>1 DEF SyncTypeOK
<1> QED
  BY <1>1, <1>2, <1>3 DEF Ledger!Settle, Ledger!Books, CoveredKeys

(* The agent implements the ledger: bytes are used, billed and settled in  *)
(* that order and never more of them than in the step before.              *)
THEOREM LedgerImplemented == Spec => ImplementsLedger
<1>1. Init => Ledger!Init
  <2> SUFFICES ASSUME Init PROVE Ledger!Init
    OBVIOUS
  <2>1. \A k \in CoveredKeys : used[k] = NoBytes /\ billed[k] = NoBytes /\ settled[k] = NoBytes
    BY Zenon DEF Init, CounterInit, ZeroDelta, CoveredKeys
  <2> QED
    BY <2>1 DEF Ledger!Init, NoBytes
<1>2. IInv /\ IInv' /\ [Next]_vars => [Ledger!Next]_Ledger!vars
  <2> SUFFICES ASSUME IInv, IInv', [Next]_vars
               PROVE  Ledger!Next \/ UNCHANGED <<used, billed, settled>>
    BY DEF Ledger!vars
  <2>1. CASE DataPath
    <3>1. CASE Add
      BY <3>1, AddUses, Zenon DEF Ledger!Next
    <3>2. CASE Route \/ Carry \/ Hangup
      BY <3>2, Zenon DEF Route, Carry, Hangup, GetCounter, Transfer, CloseConn,
                  syncVars, panelVars
    <3> QED
      BY <2>1, <3>1, <3>2 DEF DataPath
  <2>2. CASE FetchUsers \/ ApplyUsers \/ Prune \/ Tick \/ Stop \/ Signal \/ Join \/ CloseBox
    BY <2>2, Zenon DEF FetchUsers, ApplyUsers, Prune, PruneVisit, PruneDelete, PruneDone,
                Tick, Stop, Signal, Join, CloseBox, counterVars, panelVars
  <2>3. CASE Flush
    <3>0. Return => UNCHANGED <<used, billed, settled>>
      BY DEF Return, counterVars, panelVars
    <3>1. CASE \E cl \in Clients : PushAccepted(cl) \/ PushLost(cl)
      BY <3>1, PushBills DEF PushAccepted, PushLost, ClientCalled, counterVars, Ledger!Next
    <3>2. CASE \E k \in Keys, d \in Dirs : CommitSnapshot(k, d)
      BY <3>2, CommitSettles DEF Ledger!Next
    <3>3. CASE \/ \E who \in {"loop", "main"} : FlushBegin(who)
               \/ \E k \in Keys : SnapshotSkip(k)
               \/ \E k \in Keys, d \in Dirs : SnapshotRead(k, d)
               \/ \E cl \in Clients : PushFailed(cl)
               \/ SnapshotDone \/ PushDone \/ CommitDone
      BY <3>0, <3>3, Zenon DEF FlushBegin, SnapshotSkip, SnapshotRead, PushFailed, SnapshotDone,
                        PushDone, CommitDone, counterVars, panelVars
    <3> QED
      BY <2>3, <3>1, <3>2, <3>3 DEF Flush
  <2>4. CASE UNCHANGED vars
    BY <2>4 DEF vars, counterVars, panelVars
  <2> QED
    BY <2>1, <2>2, <2>3, <2>4 DEF Next, Exited
<1> QED
  BY <1>1, <1>2, Invariance, PTL DEF Spec, ImplementsLedger, Ledger!Spec

=============================================================================
