--------------------------- MODULE TrafficCounter ---------------------------
(***************************************************************************)
(* The traffic counters of the agent (counter/counter.go) and the hook     *)
(* that hands them to connections (Hook in cmd/mini-sb-agent/main.go).     *)
(*                                                                         *)
(* The hook keeps one TrafficCounter per inbound tag and each of those     *)
(* maps a user key to a *TrafficStorage.  The two levels are one function  *)
(* here: a key is a pair <<tag, user>>.  Storages have identities because  *)
(* a connection keeps the pointer it was given: once RemoveAbsent has      *)
(* deleted the entry, the next connection of that user gets another        *)
(* storage while the old connection goes on adding to the first.           *)
(*                                                                         *)
(* Moving bytes and adding them to the counter are two steps, as they are  *)
(* in ConnCounter.Read ("n, err := Read(b)" and then "Add(n)"): anything   *)
(* may happen in between.                                                  *)
(***************************************************************************)
EXTENDS Integers

CONSTANTS
    Keys,         \* the <<tag, user>> pairs that may carry traffic
    NoKey,        \* the owner of a storage that is not allocated
    Conns,        \* connection slots
    Dirs,         \* directions, "up" and "down"
    MaxStorages,  \* bound: how many storages are ever allocated
    MaxBytes,     \* bound: no transfer starts once a key has used this much
    MaxChunk      \* bound: the most one read or write moves

ASSUME BoundsAssumption ==
    /\ MaxStorages \in Nat
    /\ MaxBytes \in Nat
    /\ MaxChunk \in Nat
    /\ NoKey \notin Keys

VARIABLES
    counters,   \* key -> its storage in the map, 0 when there is no entry
    allocs,     \* storages 1..allocs have been allocated
    owner,      \* storage -> the key it was created for (NoKey before)
    counted,    \* storage -> direction -> UpCounter / DownCounter
    committed,  \* storage -> direction -> CommittedUp / CommittedDown
    storage,    \* connection -> the storage pointer it holds, 0 when free
    moved,      \* connection -> direction -> bytes moved, not yet added
    used        \* history: key -> direction -> all bytes ever added

counterVars == <<counters, allocs, owner, counted, committed, storage, moved, used>>

Storages == 1..MaxStorages
NoBytes == [d \in Dirs |-> 0]

CounterTypeOK ==
    /\ counters \in [Keys -> 0..MaxStorages]
    /\ allocs \in 0..MaxStorages
    /\ owner \in [Storages -> Keys \cup {NoKey}]
    /\ counted \in [Storages -> [Dirs -> Nat]]
    /\ committed \in [Storages -> [Dirs -> Nat]]
    /\ storage \in [Conns -> 0..MaxStorages]
    /\ moved \in [Conns -> [Dirs -> Nat]]
    /\ used \in [Keys -> [Dirs -> Nat]]

CounterInit ==
    /\ counters = [k \in Keys |-> 0]
    /\ allocs = 0
    /\ owner = [s \in Storages |-> NoKey]
    /\ counted = [s \in Storages |-> NoBytes]
    /\ committed = [s \in Storages |-> NoBytes]
    /\ storage = [c \in Conns |-> 0]
    /\ moved = [c \in Conns |-> NoBytes]
    /\ used = [k \in Keys |-> NoBytes]

-----------------------------------------------------------------------------
(* What a storage has counted and not yet committed.                       *)
Uncommitted(s, d) == counted[s][d] - committed[s][d]

(* Connection c gets the storage of key k.  Load followed by LoadOrStore   *)
(* takes effect atomically at whichever of the two finds or stores the     *)
(* entry.                                                                  *)
GetCounter(c, k) ==
    /\ storage[c] = 0
    /\ \/ /\ counters[k] # 0
          /\ storage' = [storage EXCEPT ![c] = counters[k]]
          /\ UNCHANGED <<counters, allocs, owner>>
       \/ /\ counters[k] = 0
          /\ allocs < MaxStorages
          /\ allocs' = allocs + 1
          /\ counters' = [counters EXCEPT ![k] = allocs + 1]
          /\ owner' = [owner EXCEPT ![allocs + 1] = k]
          /\ storage' = [storage EXCEPT ![c] = allocs + 1]
    /\ UNCHANGED <<counted, committed, moved, used>>

(* The wrapped connection's Read, Write, ReadBuffer, WriteBuffer,          *)
(* ReadPacket or WritePacket returns with n bytes.                         *)
Transfer(c, d) ==
    /\ storage[c] # 0
    /\ moved[c][d] = 0
    /\ used[owner[storage[c]]][d] < MaxBytes
    /\ \E n \in 1..MaxChunk : moved' = [moved EXCEPT ![c][d] = n]
    /\ UNCHANGED <<counters, allocs, owner, counted, committed, storage, used>>

(* ... and the wrapper adds them to the storage it holds.                  *)
AddBytes(c, d) ==
    LET s == storage[c] IN
    /\ moved[c][d] > 0
    /\ counted' = [counted EXCEPT ![s][d] = @ + moved[c][d]]
    /\ used' = [used EXCEPT ![owner[s]][d] = @ + moved[c][d]]
    /\ moved' = [moved EXCEPT ![c][d] = 0]
    /\ UNCHANGED <<counters, allocs, owner, committed, storage>>

(* The connection ends once both copy loops have returned.                 *)
CloseConn(c) ==
    /\ storage[c] # 0
    /\ moved[c] = NoBytes
    /\ storage' = [storage EXCEPT ![c] = 0]
    /\ UNCHANGED <<counters, allocs, owner, counted, committed, moved, used>>

=============================================================================
