-------------------------- MODULE SyncerInvariant ---------------------------
(***************************************************************************)
(* The inductive invariant of Syncer, IInv, and the steps of the           *)
(* connections, of the sync loop, of main and of the snapshot that begins  *)
(* a flush, which preserve it.  The proofs hold for every set of keys,     *)
(* users, connections, clients and every bound.                            *)
(***************************************************************************)
EXTENDS Syncer, TLAPS

(* Who points to what: a map entry holds the latest storage of its key,    *)
(* every storage of a key that was never deleted is that entry, and a      *)
(* connection with bytes in hand holds an allocated storage.               *)
StorageInv ==
    /\ \A k \in Keys : counters[k] # 0 => counters[k] <= allocs /\ owner[counters[k]] = k
    /\ \A s \in Storages : s <= allocs =>
          /\ owner[s] \in Keys
          /\ owner[s] \notin deleted => counters[owner[s]] = s
    /\ \A s \in Storages, d \in Dirs : s > allocs => counted[s][d] = 0 /\ committed[s][d] = 0
    /\ \A c \in Conns : storage[c] <= allocs
    /\ \A c \in Conns, d \in Dirs : moved[c][d] > 0 => storage[c] # 0

(* flush runs under the lock of the goroutine that is in it, and main gets *)
(* past the join only when the loop is gone: RemoveAbsent and flush never  *)
(* overlap.                                                                *)
ControlInv ==
    /\ flush = "idle" <=> flushMu = "free"
    /\ flushMu = "loop" => loop = "flush"
    /\ flushMu = "main" => main = "flush"
    /\ main \in {"close", "flush", "exit"} => loop = "done"
    /\ doomed # NoKey => loop = "prune"
    /\ box = "closed" => main \in {"flush", "exit"}

(* What is still to be committed is covered by the map.                    *)
DeltaInv ==
    /\ flush \in {"snap", "push"} => \A k \in Keys, d \in Dirs : delta[k][d] <= Pending(k, d)
    /\ flush = "commit" => \A k \in Keys, d \in Dirs : <<k, d>> \in reads =>
          /\ delta[k][d] <= Pending(k, d)
          /\ isNumericUser(k)

(* Acknowledged tags were pushed by a client that is through, and a flush  *)
(* without error has the tags of every client that is through.             *)
AckInv == flush = "push" =>
    /\ \A k \in Keys : TagOf(k) \in acked =>
          \E cl \in Clients \ queue : TagOf(k) \in Matches[cl]
    /\ ~failed => \A cl \in Clients \ queue, k \in Keys :
          InDelta(k) /\ TagOf(k) \in Matches[cl] => TagOf(k) \in acked

IInv ==
    /\ TypeOK
    /\ StorageInv
    /\ ControlInv
    /\ DeltaInv
    /\ AckInv
    /\ CommittedNeverAhead
    /\ EveryByteAccounted
    /\ BilledOnce

-----------------------------------------------------------------------------
(* The initial state satisfies the invariant.                              *)
LEMMA InitIInv == Init => IInv
<1> SUFFICES ASSUME Init PROVE IInv
  OBVIOUS
<1> USE BoundsAssumption, PanelAssumption DEF Init, CounterInit, NoBytes, ZeroDelta, Storages
<1>1. TypeOK
  <2>1. CounterTypeOK
    BY DEF CounterTypeOK
  <2>2. /\ delta \in [Keys -> [Dirs -> Nat]] /\ billed \in [Keys -> [Dirs -> Nat]]
        /\ settled \in [Keys -> [Dirs -> Nat]] /\ lost \in [Keys -> [Dirs -> Nat]]
        /\ losses \in 0..MaxLost
    OBVIOUS
  <2> QED
    BY <2>1, <2>2, Zenon DEF TypeOK, SyncTypeOK
<1>2. StorageInv
  BY DEF StorageInv
<1>3. ControlInv /\ DeltaInv /\ AckInv
  BY DEF ControlInv, DeltaInv, AckInv
<1>4. CommittedNeverAhead
  BY DEF CommittedNeverAhead
<1>5. EveryByteAccounted
  BY DEF EveryByteAccounted, Pending
<1>6. BilledOnce
  BY DEF BilledOnce, Outstanding
<1> QED
  BY <1>1, <1>2, <1>3, <1>4, <1>5, <1>6 DEF IInv

-----------------------------------------------------------------------------
(* A step of the data path leaves everything but the counters alone; what  *)
(* is to be committed stays covered as long as nothing pending disappears. *)
LEMMA DataStep ==
    ASSUME IInv, UNCHANGED syncVars,
           \A k \in Keys, d \in Dirs : Pending(k, d) <= Pending(k, d)',
           \A k \in Keys, d \in Dirs : Pending(k, d) \in Int /\ Pending(k, d)' \in Int
    PROVE  SyncTypeOK' /\ ControlInv' /\ DeltaInv' /\ AckInv' /\ BilledOnce'
<1> USE DEF syncVars, loopVars, flushVars, panelVars
<1>1. SyncTypeOK'
  BY DEF IInv, TypeOK, SyncTypeOK
<1>2. ControlInv'
  BY DEF IInv, ControlInv
<1>3. DeltaInv'
  BY DEF IInv, DeltaInv, TypeOK, SyncTypeOK
<1>4. AckInv'
  BY DEF IInv, AckInv, InDelta
<1>5. BilledOnce'
  BY Zenon DEF IInv, BilledOnce, Outstanding
<1> QED
  BY <1>1, <1>2, <1>3, <1>4, <1>5

(* Pending amounts are integers, also after a step that keeps the types.   *)
LEMMA PendingType ==
    ASSUME CounterTypeOK
    PROVE  \A k \in Keys, d \in Dirs : Pending(k, d) \in Int
<1> SUFFICES ASSUME NEW k \in Keys, NEW d \in Dirs
             PROVE  Pending(k, d) \in Int
  OBVIOUS
<1>1. CASE counters[k] = 0
  BY <1>1 DEF Pending
<1>2. CASE counters[k] # 0
  <2>1. counters[k] \in Storages
    BY <1>2, BoundsAssumption DEF CounterTypeOK, Storages
  <2>2. counted[counters[k]][d] \in Nat /\ committed[counters[k]][d] \in Nat
    BY <2>1 DEF CounterTypeOK
  <2> QED
    BY <1>2, <2>2 DEF Pending, Uncommitted
<1> QED
  BY <1>1, <1>2

\* The bytes that a key owes after a step are a number.
LEMMA PendingTypeNext ==
    ASSUME CounterTypeOK'
    PROVE  \A k \in Keys, d \in Dirs : Pending(k, d)' \in Int
<1> SUFFICES ASSUME NEW k \in Keys, NEW d \in Dirs
             PROVE  Pending(k, d)' \in Int
  OBVIOUS
<1>1. CASE counters'[k] = 0
  BY <1>1 DEF Pending
<1>2. CASE counters'[k] # 0
  <2>1. counters'[k] \in Storages
    BY <1>2, BoundsAssumption DEF CounterTypeOK, Storages
  <2>2. counted'[counters'[k]][d] \in Nat /\ committed'[counters'[k]][d] \in Nat
    BY <2>1 DEF CounterTypeOK
  <2> QED
    BY <1>2, <2>2 DEF Pending, Uncommitted
<1> QED
  BY <1>1, <1>2

(* A number of storage that is not 0 is one of the storages.               *)
LEMMA StorageNumber == \A s \in 0..MaxStorages : s # 0 => s \in Storages
  BY BoundsAssumption DEF Storages

(* A connection gets the storage of its key, an existing or a new one.     *)
LEMMA RouteIInv == IInv /\ Route => IInv'
<1> SUFFICES ASSUME IInv, NEW c \in Conns, NEW k \in Keys,
                    GetCounter(c, k), UNCHANGED syncVars
             PROVE  IInv'
  BY DEF Route
<1> USE BoundsAssumption
<1>0. /\ CounterTypeOK /\ StorageInv /\ CommittedNeverAhead /\ EveryByteAccounted
      /\ deleted' = deleted /\ settled' = settled
  BY DEF IInv, TypeOK, syncVars
<1>a. UNCHANGED <<counted, committed, moved, used>>
  BY DEF GetCounter
<1>3. CounterTypeOK' /\ StorageInv' /\ \A x \in Keys, d \in Dirs : Pending(x, d)' = Pending(x, d)
  <2>1. CASE counters[k] # 0 /\ storage' = [storage EXCEPT ![c] = counters[k]]
             /\ UNCHANGED <<counters, allocs, owner>>
    <3>1. CounterTypeOK'
      BY <1>0, <2>1, <1>a DEF CounterTypeOK
    <3>2. StorageInv'
      BY <1>0, <2>1, <1>a DEF StorageInv, CounterTypeOK
    <3>3. \A x \in Keys, d \in Dirs : Pending(x, d)' = Pending(x, d)
      BY <2>1, <1>a DEF Pending, Uncommitted
    <3> QED
      BY <3>1, <3>2, <3>3
  <2>2. CASE /\ counters[k] = 0
             /\ allocs < MaxStorages
             /\ allocs' = allocs + 1
             /\ counters' = [counters EXCEPT ![k] = allocs + 1]
             /\ owner' = [owner EXCEPT ![allocs + 1] = k]
             /\ storage' = [storage EXCEPT ![c] = allocs + 1]
    <3>0. allocs + 1 \in Storages /\ allocs + 1 # 0
      BY <1>0, <2>2 DEF CounterTypeOK, Storages
    <3>1. CounterTypeOK'
      <4>1. allocs + 1 \in 0..MaxStorages
        BY <1>0, <2>2 DEF CounterTypeOK
      <4>2. counters' \in [Keys -> 0..MaxStorages] /\ storage' \in [Conns -> 0..MaxStorages]
        BY <1>0, <2>2, <4>1, Zenon DEF CounterTypeOK
      <4>3. owner' \in [Storages -> Keys \cup {NoKey}]
        BY <1>0, <2>2, <3>0, Zenon DEF CounterTypeOK
      <4> QED
        BY <1>0, <1>a, <2>2, <4>1, <4>2, <4>3, Zenon DEF CounterTypeOK
    <3>2. StorageInv'
      BY <1>0, <2>2, <1>a, <3>0 DEF StorageInv, CounterTypeOK, Storages
    <3>3. ASSUME NEW x \in Keys, NEW d \in Dirs
          PROVE  Pending(x, d)' = Pending(x, d)
      <4>1. CASE x = k
        <5>1. counted[allocs + 1][d] = 0 /\ committed[allocs + 1][d] = 0
          BY <1>0, <3>0 DEF StorageInv, CounterTypeOK
        <5>2. counters'[x] = allocs + 1
          BY <1>0, <2>2, <4>1 DEF CounterTypeOK
        <5> QED
          BY <1>a, <2>2, <3>0, <4>1, <5>1, <5>2 DEF Pending, Uncommitted
      <4>2. CASE x # k
        <5>1. counters'[x] = counters[x]
          BY <1>0, <2>2, <4>2 DEF CounterTypeOK
        <5> QED
          BY <1>a, <5>1 DEF Pending, Uncommitted
      <4> QED
        BY <4>1, <4>2
    <3> QED
      BY <3>1, <3>2, <3>3
  <2> QED
    BY <2>1, <2>2 DEF GetCounter
<1>4. SyncTypeOK' /\ ControlInv' /\ DeltaInv' /\ AckInv' /\ BilledOnce'
  BY <1>0, <1>3, PendingType, DataStep
<1>5. CommittedNeverAhead'
  BY <1>0, <1>a DEF CommittedNeverAhead
<1>6. EveryByteAccounted'
  BY <1>0, <1>3, <1>a DEF EveryByteAccounted
<1> QED
  BY <1>3, <1>4, <1>5, <1>6 DEF IInv, TypeOK

(* Bytes move; no counter changes yet.                                     *)
LEMMA CarryIInv == IInv /\ Carry => IInv'
<1> SUFFICES ASSUME IInv, NEW c \in Conns, NEW d \in Dirs,
                    Transfer(c, d), UNCHANGED syncVars
             PROVE  IInv'
  BY DEF Carry
<1> USE BoundsAssumption
<1>0. /\ CounterTypeOK /\ StorageInv /\ CommittedNeverAhead /\ EveryByteAccounted
      /\ deleted' = deleted /\ settled' = settled
  BY DEF IInv, TypeOK, syncVars
<1>1. PICK n \in 1..MaxChunk : moved' = [moved EXCEPT ![c][d] = n]
  BY Zenon DEF Transfer
<1>a. UNCHANGED <<counters, allocs, owner, counted, committed, storage, used>> /\ storage[c] # 0
  BY DEF Transfer
<1>2. CounterTypeOK'
  BY <1>0, <1>1, <1>a DEF CounterTypeOK
<1>3. StorageInv'
  BY <1>0, <1>1, <1>a DEF StorageInv, CounterTypeOK
<1>4. \A x \in Keys, e \in Dirs : Pending(x, e)' = Pending(x, e)
  BY <1>a DEF Pending, Uncommitted
<1>5. SyncTypeOK' /\ ControlInv' /\ DeltaInv' /\ AckInv' /\ BilledOnce'
  BY <1>0, <1>4, PendingType, DataStep
<1>6. CommittedNeverAhead' /\ EveryByteAccounted'
  BY <1>0, <1>4, <1>a DEF CommittedNeverAhead, EveryByteAccounted
<1> QED
  BY <1>2, <1>3, <1>5, <1>6 DEF IInv, TypeOK

(* A connection ends.                                                      *)
LEMMA HangupIInv == IInv /\ Hangup => IInv'
<1> SUFFICES ASSUME IInv, NEW c \in Conns, CloseConn(c), UNCHANGED syncVars
             PROVE  IInv'
  BY DEF Hangup
<1> USE BoundsAssumption
<1>0. /\ CounterTypeOK /\ StorageInv /\ CommittedNeverAhead /\ EveryByteAccounted
      /\ deleted' = deleted /\ settled' = settled
  BY DEF IInv, TypeOK, syncVars
<1>a. /\ UNCHANGED <<counters, allocs, owner, counted, committed, moved, used>>
      /\ storage' = [storage EXCEPT ![c] = 0]
      /\ \A d \in Dirs : moved[c][d] = 0
  BY DEF CloseConn, NoBytes
<1>2. CounterTypeOK'
  BY <1>0, <1>a DEF CounterTypeOK
<1>3. StorageInv'
  BY <1>0, <1>a DEF StorageInv, CounterTypeOK
<1>4. \A x \in Keys, e \in Dirs : Pending(x, e)' = Pending(x, e)
  BY <1>a DEF Pending, Uncommitted
<1>5. SyncTypeOK' /\ ControlInv' /\ DeltaInv' /\ AckInv' /\ BilledOnce'
  BY <1>0, <1>4, PendingType, DataStep
<1>6. CommittedNeverAhead' /\ EveryByteAccounted'
  BY <1>0, <1>4, <1>a DEF CommittedNeverAhead, EveryByteAccounted
<1> QED
  BY <1>2, <1>3, <1>5, <1>6 DEF IInv, TypeOK

(* The bytes arrive in the storage the connection holds: in the map entry  *)
(* of its key or, after a deletion, in a storage nobody reads any more.    *)
LEMMA AddIInv == IInv /\ Add => IInv'
<1> SUFFICES ASSUME IInv, NEW c \in Conns, NEW d \in Dirs,
                    AddBytes(c, d), UNCHANGED syncVars
             PROVE  IInv'
  BY DEF Add
<1> USE BoundsAssumption
<1> DEFINE s == storage[c]
           k == owner[s]
           n == moved[c][d]
<1>0. /\ CounterTypeOK /\ StorageInv /\ CommittedNeverAhead /\ EveryByteAccounted
      /\ deleted' = deleted /\ settled' = settled
  BY DEF IInv, TypeOK, syncVars
<1>a. /\ UNCHANGED <<counters, allocs, owner, committed, storage>>
      /\ counted' = [counted EXCEPT ![s][d] = @ + n]
      /\ used' = [used EXCEPT ![k][d] = @ + n]
      /\ moved' = [moved EXCEPT ![c][d] = 0]
      /\ n > 0
  BY DEF AddBytes
<1>b. n \in Nat /\ s \in Storages /\ s <= allocs /\ k \in Keys
  BY <1>0, <1>a DEF StorageInv, CounterTypeOK, Storages
<1>c. k \notin deleted => counters[k] = s
  BY <1>0, <1>b DEF StorageInv
<1> HIDE DEF s, k, n
<1>1. CounterTypeOK'
  BY <1>0, <1>a, <1>b DEF CounterTypeOK
<1>2. StorageInv'
  <2>1. \A x \in Conns, e \in Dirs : moved'[x][e] > 0 => moved[x][e] > 0
    BY <1>0, <1>a DEF CounterTypeOK
  <2>2. \A x \in Storages, e \in Dirs : x > allocs => counted'[x][e] = counted[x][e]
    BY <1>0, <1>a, <1>b DEF CounterTypeOK, Storages
  <2> QED
    BY <1>0, <1>a, <2>1, <2>2 DEF StorageInv
<1>3. \A x \in Storages, e \in Dirs :
         counted'[x][e] = IF x = s /\ e = d THEN counted[x][e] + n ELSE counted[x][e]
  BY <1>0, <1>a, <1>b DEF CounterTypeOK
<1>4. \A x \in Keys, e \in Dirs :
         used'[x][e] = IF x = k /\ e = d THEN used[x][e] + n ELSE used[x][e]
  BY <1>0, <1>a, <1>b DEF CounterTypeOK
<1>5. ASSUME NEW x \in Keys, NEW e \in Dirs
      PROVE  /\ Pending(x, e) \in Int
             /\ Pending(x, e)' = IF counters[x] = s /\ e = d THEN Pending(x, e) + n ELSE Pending(x, e)
  <2>1. Pending(x, e) \in Int
    BY <1>0, PendingType
  <2>2. CASE counters[x] = 0
    BY <1>a, <1>b, <2>1, <2>2 DEF Pending, Storages
  <2>3. CASE counters[x] # 0
    <3>1. counters[x] \in Storages
      BY <1>0, <2>3 DEF CounterTypeOK, Storages
    <3>2. counted[counters[x]][e] \in Nat /\ committed[counters[x]][e] \in Nat
      BY <1>0, <3>1 DEF CounterTypeOK
    <3> QED
      BY <1>a, <1>b, <1>3, <2>1, <2>3, <3>1, <3>2 DEF Pending, Uncommitted
  <2> QED
    BY <2>1, <2>2, <2>3
<1>6. SyncTypeOK' /\ ControlInv' /\ DeltaInv' /\ AckInv' /\ BilledOnce'
  <2>1. \A x \in Keys, e \in Dirs : /\ Pending(x, e) <= Pending(x, e)'
                                    /\ Pending(x, e) \in Int /\ Pending(x, e)' \in Int
    BY <1>b, <1>5
  <2> QED
    BY <2>1, DataStep
<1>7. CommittedNeverAhead'
  BY <1>0, <1>a, <1>b, <1>3 DEF CommittedNeverAhead, CounterTypeOK
<1>8. EveryByteAccounted'
  <2> SUFFICES ASSUME NEW x \in Keys, NEW e \in Dirs
               PROVE  /\ settled[x][e] + Pending(x, e)' <= used'[x][e]
                      /\ x \notin deleted => settled[x][e] + Pending(x, e)' = used'[x][e]
    BY <1>0 DEF EveryByteAccounted
  <2>1. counters[x] = s => x = k
    BY <1>0, <1>b DEF StorageInv, Storages, k
  <2>2. settled[x][e] \in Nat /\ used[x][e] \in Nat
    BY <1>0 DEF CounterTypeOK, IInv, TypeOK, SyncTypeOK
  <2>3. /\ settled[x][e] + Pending(x, e) <= used[x][e]
        /\ x \notin deleted => settled[x][e] + Pending(x, e) = used[x][e]
    BY <1>0 DEF EveryByteAccounted
  <2> QED
    BY <1>b, <1>c, <1>4, <1>5, <2>1, <2>2, <2>3
<1> QED
  BY <1>1, <1>2, <1>6, <1>7, <1>8 DEF IInv, TypeOK

-----------------------------------------------------------------------------
(* The sync loop, main and the snapshot *)

(* A step that leaves the counters and the commits alone keeps what is     *)
(* said of them.                                                           *)
LEMMA CounterStep ==
    ASSUME IInv, UNCHANGED <<counterVars, settled, deleted>>
    PROVE  /\ CounterTypeOK' /\ StorageInv' /\ CommittedNeverAhead' /\ EveryByteAccounted'
           /\ \A k \in Keys, d \in Dirs : Pending(k, d)' = Pending(k, d)
<1> USE DEF counterVars
<1>1. CounterTypeOK'
  BY DEF IInv, TypeOK, CounterTypeOK
<1>2. StorageInv'
  BY DEF IInv, StorageInv
<1>3. CommittedNeverAhead'
  BY DEF IInv, CommittedNeverAhead
<1>4. \A k \in Keys, d \in Dirs : Pending(k, d)' = Pending(k, d)
  BY DEF Pending, Uncommitted
<1>5. EveryByteAccounted'
  BY <1>4 DEF IInv, EveryByteAccounted
<1> QED
  BY <1>1, <1>2, <1>3, <1>4, <1>5

(* A step of the loop or of main outside flush has only the control state  *)
(* to answer for.                                                          *)
LEMMA LoopStep ==
    ASSUME IInv, UNCHANGED <<counterVars, flushVars, panelVars, settled, deleted>>,
           SyncTypeOK', ControlInv'
    PROVE  IInv'
<1>1. /\ CounterTypeOK' /\ StorageInv' /\ CommittedNeverAhead' /\ EveryByteAccounted'
      /\ \A k \in Keys, d \in Dirs : Pending(k, d)' = Pending(k, d)
  BY CounterStep
<1> USE DEF flushVars, panelVars
<1>2. DeltaInv'
  BY <1>1 DEF IInv, DeltaInv
<1>3. AckInv'
  BY DEF IInv, AckInv, InDelta
<1>4. BilledOnce'
  BY Zenon DEF IInv, BilledOnce, Outstanding
<1> QED
  BY <1>1, <1>2, <1>3, <1>4 DEF IInv, TypeOK

(* The list is fetched or not.                                             *)
LEMMA FetchUsersIInv == IInv /\ FetchUsers => IInv'
<1> SUFFICES ASSUME IInv, FetchUsers PROVE IInv'
  OBVIOUS
<1>1. SyncTypeOK'
  BY DEF IInv, TypeOK, SyncTypeOK, FetchUsers, flushVars, panelVars
<1>2. ControlInv'
  BY DEF IInv, ControlInv, FetchUsers, flushVars, TypeOK, SyncTypeOK
<1> QED
  BY <1>1, <1>2, LoopStep DEF FetchUsers

(* The list is applied or refused.                                         *)
LEMMA ApplyUsersIInv == IInv /\ ApplyUsers => IInv'
<1> SUFFICES ASSUME IInv, ApplyUsers PROVE IInv'
  OBVIOUS
<1>1. SyncTypeOK'
  BY DEF IInv, TypeOK, SyncTypeOK, ApplyUsers, flushVars, panelVars
<1>2. ControlInv'
  BY DEF IInv, ControlInv, ApplyUsers, flushVars, TypeOK, SyncTypeOK
<1> QED
  BY <1>1, <1>2, LoopStep DEF ApplyUsers

(* RemoveAbsent decides on one entry.                                      *)
LEMMA PruneVisitIInv == IInv /\ (\E k \in Keys : PruneVisit(k)) => IInv'
<1> SUFFICES ASSUME IInv, NEW k \in Keys, PruneVisit(k) PROVE IInv'
  OBVIOUS
<1>1. SyncTypeOK'
  <2>1. doomed' \in Keys \cup {NoKey} /\ absent' \subseteq Keys
    BY DEF IInv, TypeOK, SyncTypeOK, PruneVisit
  <2> QED
    BY <2>1 DEF IInv, TypeOK, SyncTypeOK, PruneVisit, flushVars, panelVars
<1>2. ControlInv'
  BY DEF IInv, ControlInv, PruneVisit, flushVars
<1> QED
  BY <1>1, <1>2, LoopStep DEF PruneVisit

(* RemoveAbsent has visited every entry.                                   *)
LEMMA PruneDoneIInv == IInv /\ PruneDone => IInv'
<1> SUFFICES ASSUME IInv, PruneDone PROVE IInv'
  OBVIOUS
<1>1. SyncTypeOK'
  BY DEF IInv, TypeOK, SyncTypeOK, PruneDone, flushVars, panelVars
<1>2. ControlInv'
  BY DEF IInv, ControlInv, PruneDone, flushVars, TypeOK, SyncTypeOK
<1> QED
  BY <1>1, <1>2, LoopStep DEF PruneDone

(* The ticker starts another round.                                        *)
LEMMA TickIInv == IInv /\ Tick => IInv'
<1> SUFFICES ASSUME IInv, Tick PROVE IInv'
  OBVIOUS
<1>1. SyncTypeOK'
  BY DEF IInv, TypeOK, SyncTypeOK, Tick, flushVars, panelVars
<1>2. ControlInv'
  BY DEF IInv, ControlInv, Tick, flushVars, TypeOK, SyncTypeOK
<1> QED
  BY <1>1, <1>2, LoopStep DEF Tick

(* The loop sees the cancelled context.                                    *)
LEMMA StopIInv == IInv /\ Stop => IInv'
<1> SUFFICES ASSUME IInv, Stop PROVE IInv'
  OBVIOUS
<1>1. SyncTypeOK'
  BY DEF IInv, TypeOK, SyncTypeOK, Stop, flushVars, panelVars
<1>2. ControlInv'
  BY DEF IInv, ControlInv, Stop, flushVars, TypeOK, SyncTypeOK
<1> QED
  BY <1>1, <1>2, LoopStep DEF Stop

(* main is signalled, finds the loop gone, and closes the box.             *)
LEMMA MainIInv == IInv /\ (Signal \/ Join \/ CloseBox) => IInv'
<1> SUFFICES ASSUME IInv, Signal \/ Join \/ CloseBox PROVE IInv'
  OBVIOUS
<1>1. SyncTypeOK'
  BY ZenonT(30) DEF IInv, TypeOK, SyncTypeOK, Signal, Join, CloseBox, flushVars, panelVars
<1>2. ControlInv'
  BY DEF IInv, ControlInv, Signal, Join, CloseBox, flushVars, TypeOK, SyncTypeOK
<1> QED
  BY <1>1, <1>2, LoopStep DEF Signal, Join, CloseBox

(* The entry is deleted: no flush runs beside it, so nothing that is to be *)
(* committed loses its cover, and the key is known as deleted from then on.*)
LEMMA PruneDeleteIInv == IInv /\ PruneDelete => IInv'
<1> SUFFICES ASSUME IInv, PruneDelete PROVE IInv'
  OBVIOUS
<1> USE BoundsAssumption
<1> DEFINE k == doomed
<1>0. /\ CounterTypeOK /\ SyncTypeOK /\ StorageInv /\ ControlInv /\ CommittedNeverAhead
      /\ EveryByteAccounted /\ BilledOnce
  BY DEF IInv, TypeOK
<1>1. /\ k \in Keys /\ loop = "prune" /\ flush = "idle"
      /\ counters' = [counters EXCEPT ![k] = 0]
      /\ deleted' = deleted \cup {k} /\ doomed' = NoKey
      /\ UNCHANGED <<allocs, owner, counted, committed, storage, moved, used,
                     loop, main, cancelled, box, active, absent,
                     flushVars, panelVars, settled>>
  BY <1>0 DEF PruneDelete, SyncTypeOK, ControlInv
<1> HIDE DEF k
<1> USE DEF flushVars, panelVars
<1>2. CounterTypeOK'
  BY <1>0, <1>1 DEF CounterTypeOK
<1>3. SyncTypeOK'
  BY <1>0, <1>1 DEF SyncTypeOK
<1>4. StorageInv'
  BY <1>0, <1>1 DEF StorageInv, CounterTypeOK
<1>5. ControlInv' /\ DeltaInv' /\ AckInv'
  BY <1>0, <1>1 DEF ControlInv, DeltaInv, AckInv
<1>6. CommittedNeverAhead'
  BY <1>0, <1>1 DEF CommittedNeverAhead
<1>7. BilledOnce'
  BY <1>0, <1>1 DEF BilledOnce, Outstanding
<1>8. EveryByteAccounted'
  <2> SUFFICES ASSUME NEW x \in Keys, NEW d \in Dirs
               PROVE  /\ settled[x][d] + Pending(x, d)' <= used[x][d]
                      /\ x \notin deleted' => settled[x][d] + Pending(x, d)' = used[x][d]
    BY <1>1, Zenon DEF EveryByteAccounted
  <2>1. /\ settled[x][d] + Pending(x, d) <= used[x][d]
        /\ x \notin deleted => settled[x][d] + Pending(x, d) = used[x][d]
    BY <1>0 DEF EveryByteAccounted
  <2>2. CASE x # k
    <3>1. counters'[x] = counters[x]
      BY <1>0, <1>1, <2>2 DEF CounterTypeOK
    <3>2. counted' = counted /\ committed' = committed
      BY <1>1
    <3>3. Pending(x, d)' = Pending(x, d)
      BY <3>1, <3>2, Zenon DEF Pending, Uncommitted
    <3> QED
      BY <1>1, <2>1, <3>3, Zenon
  <2>3. CASE x = k
    <3>1. Pending(x, d)' = 0
      BY <1>0, <1>1, <2>3 DEF CounterTypeOK, Pending
    <3>2. Pending(x, d) >= 0 /\ Pending(x, d) \in Int
      <4>1. counters[x] # 0 => counters[x] \in Storages
        BY <1>0, StorageNumber, Zenon DEF CounterTypeOK
      <4> QED
        BY <1>0, <4>1 DEF Pending, Uncommitted, CommittedNeverAhead, CounterTypeOK
    <3>3. settled[x][d] \in Nat /\ used[x][d] \in Nat
      BY <1>0 DEF SyncTypeOK, CounterTypeOK
    <3>4. x \in deleted'
      BY <1>1, <2>3, Zenon
    <3>5. settled[x][d] + 0 <= used[x][d]
      BY <2>1, <3>2, <3>3
    <3> QED
      BY <3>1, <3>4, <3>5, Zenon
  <2> QED
    BY <2>2, <2>3
<1> QED
  BY <1>2, <1>3, <1>4, <1>5, <1>6, <1>7, <1>8 DEF IInv, TypeOK

-----------------------------------------------------------------------------
(* Nothing pending is negative.                                            *)
LEMMA PendingNat ==
    ASSUME IInv
    PROVE  \A k \in Keys, d \in Dirs : Pending(k, d) \in Nat
<1> SUFFICES ASSUME NEW k \in Keys, NEW d \in Dirs
             PROVE  Pending(k, d) \in Nat
  OBVIOUS
<1>0. CounterTypeOK /\ CommittedNeverAhead
  BY DEF IInv, TypeOK
<1>1. counters[k] # 0 => counters[k] \in Storages
  BY <1>0, BoundsAssumption DEF CounterTypeOK, Storages
<1> QED
  BY <1>0, <1>1 DEF Pending, Uncommitted, CommittedNeverAhead, CounterTypeOK

(* flush takes the lock.                                                   *)
LEMMA FlushBeginIInv == IInv /\ (\E who \in {"loop", "main"} : FlushBegin(who)) => IInv'
<1> SUFFICES ASSUME IInv, NEW who \in {"loop", "main"}, FlushBegin(who) PROVE IInv'
  OBVIOUS
<1>0. /\ SyncTypeOK /\ ControlInv /\ BilledOnce /\ flush = "idle"
      /\ UNCHANGED <<counterVars, loopVars, queue, acked, failed, panelVars, settled, deleted>>
  BY DEF IInv, TypeOK, FlushBegin, ControlInv
<1>1. /\ CounterTypeOK' /\ StorageInv' /\ CommittedNeverAhead' /\ EveryByteAccounted'
      /\ \A k \in Keys, d \in Dirs : Pending(k, d)' = Pending(k, d)
  BY <1>0, CounterStep
<1> USE DEF loopVars, panelVars
<1>2. SyncTypeOK'
  <2>1. delta' \in [Keys -> [Dirs -> Nat]] /\ reads' \subseteq Keys \X Dirs
    BY DEF FlushBegin, ZeroDelta, NoBytes
  <2> QED
    BY <1>0, <2>1 DEF SyncTypeOK, FlushBegin
<1>3. ControlInv'
  BY <1>0 DEF ControlInv, FlushBegin
<1>4. DeltaInv' /\ AckInv'
  <2>1. flush' = "snap" /\ \A k \in Keys, d \in Dirs : delta'[k][d] = 0
    BY DEF FlushBegin, ZeroDelta, NoBytes
  <2>2. \A k \in Keys, d \in Dirs : delta'[k][d] <= Pending(k, d)'
    BY <1>1, <2>1, PendingNat
  <2> QED
    BY <2>1, <2>2, Zenon DEF DeltaInv, AckInv
<1>5. BilledOnce'
  <2>1. \A k \in Keys, d \in Dirs : Outstanding(k, d) = 0 /\ Outstanding(k, d)' = 0
    BY <1>0, Zenon DEF Outstanding, FlushBegin
  <2> QED
    BY <1>0, <2>1, Zenon DEF BilledOnce
<1> QED
  BY <1>1, <1>2, <1>3, <1>4, <1>5 DEF IInv, TypeOK

(* The snapshot passes over a key without an entry.                        *)
LEMMA SnapshotSkipIInv == IInv /\ (\E k \in Keys : SnapshotSkip(k)) => IInv'
<1> SUFFICES ASSUME IInv, NEW k \in Keys, SnapshotSkip(k) PROVE IInv'
  OBVIOUS
<1>0. /\ SyncTypeOK /\ ControlInv /\ BilledOnce /\ DeltaInv
      /\ flush = "snap" /\ reads' \subseteq reads
      /\ UNCHANGED <<counterVars, loopVars, flushMu, flush, delta, queue, acked,
                     failed, panelVars, settled, deleted>>
  BY DEF IInv, TypeOK, SnapshotSkip
<1>1. /\ CounterTypeOK' /\ StorageInv' /\ CommittedNeverAhead' /\ EveryByteAccounted'
      /\ \A x \in Keys, d \in Dirs : Pending(x, d)' = Pending(x, d)
  BY <1>0, CounterStep
<1> USE DEF loopVars, panelVars
<1>2. SyncTypeOK'
  BY <1>0 DEF SyncTypeOK
<1>3. ControlInv'
  BY <1>0 DEF ControlInv
<1>4. DeltaInv' /\ AckInv'
  BY <1>0, <1>1, ZenonT(30) DEF DeltaInv, AckInv
<1>5. BilledOnce'
  BY <1>0, Zenon DEF BilledOnce, Outstanding
<1> QED
  BY <1>1, <1>2, <1>3, <1>4, <1>5 DEF IInv, TypeOK

(* The snapshot reads one counter: exactly what is pending.                *)
LEMMA SnapshotReadIInv == IInv /\ (\E k \in Keys, d \in Dirs : SnapshotRead(k, d)) => IInv'
<1> SUFFICES ASSUME IInv, NEW k \in Keys, NEW d \in Dirs, SnapshotRead(k, d) PROVE IInv'
  OBVIOUS
<1>0. /\ SyncTypeOK /\ ControlInv /\ BilledOnce /\ DeltaInv
      /\ flush = "snap" /\ reads' \subseteq reads
      /\ UNCHANGED <<counterVars, loopVars, flushMu, flush, queue, acked,
                     failed, panelVars, settled, deleted>>
  BY DEF IInv, TypeOK, SnapshotRead
<1>1. /\ CounterTypeOK' /\ StorageInv' /\ CommittedNeverAhead' /\ EveryByteAccounted'
      /\ \A x \in Keys, e \in Dirs : Pending(x, e)' = Pending(x, e)
  BY <1>0, CounterStep
<1>a. delta' = [delta EXCEPT ![k][d] = Pending(k, d)] /\ Pending(k, d) \in Nat
  BY PendingNat DEF SnapshotRead, Pending
<1> USE DEF loopVars, panelVars
<1>2. SyncTypeOK'
  <2>1. delta' \in [Keys -> [Dirs -> Nat]]
    BY <1>0, <1>a DEF SyncTypeOK
  <2> QED
    BY <1>0, <2>1 DEF SyncTypeOK
<1>3. ControlInv'
  BY <1>0 DEF ControlInv
<1>4. DeltaInv'
  <2>1. \A x \in Keys, e \in Dirs : delta'[x][e] <= Pending(x, e)
    BY <1>0, <1>a DEF SyncTypeOK, DeltaInv
  <2> QED
    BY <1>0, <1>1, <2>1, ZenonT(30) DEF DeltaInv
<1>5. AckInv'
  BY <1>0, ZenonT(30) DEF AckInv
<1>6. BilledOnce'
  BY <1>0, Zenon DEF BilledOnce, Outstanding
<1> QED
  BY <1>1, <1>2, <1>3, <1>4, <1>5, <1>6 DEF IInv, TypeOK

(* flush may return when no acknowledged bytes are left to commit.         *)
LEMMA ReturnIInv ==
    ASSUME IInv, flush # "idle", Return,
           \A k \in Keys, d \in Dirs : Covered(k) => Outstanding(k, d) = 0
    PROVE  IInv'
<1>0. /\ SyncTypeOK /\ ControlInv /\ BilledOnce
      /\ flush' = "idle" /\ flushMu' = "free" /\ delta' = ZeroDelta
      /\ UNCHANGED <<counterVars, cancelled, box, active, absent, doomed, reads,
                     queue, panelVars, settled, deleted>>
  BY DEF IInv, TypeOK, Return
<1>1. /\ CounterTypeOK' /\ StorageInv' /\ CommittedNeverAhead' /\ EveryByteAccounted'
      /\ \A k \in Keys, d \in Dirs : Pending(k, d)' = Pending(k, d)
  BY <1>0, CounterStep
<1> USE DEF panelVars
<1>2. SyncTypeOK'
  <2>1. delta' \in [Keys -> [Dirs -> Nat]]
    BY <1>0 DEF ZeroDelta, NoBytes
  <2>2. failed' \in BOOLEAN /\ cancelled' \in BOOLEAN
    BY <1>0, Zenon DEF Return, SyncTypeOK
  <2>3. /\ loop' \in {"fetch", "apply", "prune", "flush", "wait", "done"}
        /\ main' \in {"run", "join", "close", "flush", "exit"}
    BY <1>0 DEF Return, SyncTypeOK
  <2>4. acked' = {}
    BY DEF Return
  <2> QED
    BY <1>0, <2>1, <2>2, <2>3, <2>4 DEF SyncTypeOK
<1>3. ControlInv'
  BY <1>0 DEF ControlInv, Return, SyncTypeOK
<1>4. DeltaInv' /\ AckInv'
  BY <1>0, ZenonT(30) DEF DeltaInv, AckInv
<1>5. BilledOnce'
  BY <1>0, Zenon DEF BilledOnce, Outstanding
<1> QED
  BY <1>1, <1>2, <1>3, <1>4, <1>5 DEF IInv, TypeOK

(* The snapshot is complete: to the panel, or back for want of traffic.    *)
LEMMA SnapshotDoneIInv == IInv /\ SnapshotDone => IInv'
<1> SUFFICES ASSUME IInv, SnapshotDone PROVE IInv'
  OBVIOUS
<1>0. SyncTypeOK /\ ControlInv /\ BilledOnce /\ DeltaInv /\ flush = "snap"
  BY DEF IInv, TypeOK, SnapshotDone
<1>1. CASE Return
  <2>1. \A k \in Keys, d \in Dirs : Covered(k) => Outstanding(k, d) = 0
    BY <1>0 DEF Outstanding
  <2> QED
    BY <1>0, <1>1, <2>1, ReturnIInv
<1>2. CASE /\ flush' = "push" /\ queue' = Clients /\ acked' = {} /\ failed' = FALSE
           /\ UNCHANGED <<counterVars, loopVars, flushMu, reads, delta, panelVars,
                          settled, deleted>>
  <2>1. /\ CounterTypeOK' /\ StorageInv' /\ CommittedNeverAhead' /\ EveryByteAccounted'
        /\ \A k \in Keys, d \in Dirs : Pending(k, d)' = Pending(k, d)
    BY <1>2, CounterStep
  <2> USE DEF loopVars, panelVars
  <2>2. SyncTypeOK'
    <3>1. failed' \in BOOLEAN
      BY <1>2, Zenon
    <3> QED
      BY <1>0, <1>2, <3>1 DEF SyncTypeOK
  <2>3. ControlInv'
    BY <1>0, <1>2 DEF ControlInv
  <2>4. DeltaInv'
    BY <1>0, <1>2, <2>1, Zenon DEF DeltaInv
  <2>5. AckInv'
    BY <1>2 DEF AckInv
  <2>6. BilledOnce'
    <3>1. \A k \in Keys, d \in Dirs : Outstanding(k, d) = 0 /\ Outstanding(k, d)' = 0
      BY <1>0, <1>2, Zenon DEF Outstanding
    <3> QED
      BY <1>0, <1>2, <3>1, Zenon DEF BilledOnce
  <2> QED
    BY <2>1, <2>2, <2>3, <2>4, <2>5, <2>6 DEF IInv, TypeOK
<1> QED
  BY <1>1, <1>2, Zenon DEF SnapshotDone

=============================================================================
