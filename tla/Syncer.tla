------------------------------- MODULE Syncer -------------------------------
(***************************************************************************)
(* Traffic accounting end to end: the data path and its counters           *)
(* (TrafficCounter), the periodic panel sync (panelapi/sync.go), the panel *)
(* clients it pushes to (client.go, multi.go, local.go and topologyPanel)  *)
(* and the shutdown sequence of main.                                      *)
(*                                                                         *)
(* Two goroutines run here beside the connections: the sync loop (Run) and *)
(* main, which after a signal waits for the loop, closes the box and       *)
(* flushes once more.  flush() is one piece of code run by either of them  *)
(* under flushMu; its locals are the variables below.                      *)
(*                                                                         *)
(* The panel is external: it books a push when it accepts one, and its     *)
(* answer may be lost after that.  billed is kept per key, that is, before *)
(* a client adds up the tags it reports for; the panel's account of a user *)
(* is the sum over the client's tags.                                      *)
(***************************************************************************)
EXTENDS TrafficCounter

CONSTANTS
    Users,      \* keys that isNumericUser accepts
    Oversized,  \* those of them that strconv.Atoi rejects (out of range)
    Clients,    \* panel clients: one per node; none with a local user file
    Matches,    \* client -> the tags it reports for (matchesInbound)
    MaxLost     \* bound: how many accepted pushes lose their answer

ASSUME PanelAssumption ==
    /\ Oversized \subseteq Users
    /\ MaxLost \in Nat

VARIABLES
    loop,       \* where Run is
    main,       \* where main is
    cancelled,  \* the signal context is done
    box,        \* the data path: "open" or "closed"
    active,     \* UserManager.ActiveIDs
    absent,     \* keys RemoveAbsent has still to visit
    doomed,     \* key RemoveAbsent found committed and is about to delete
    flushMu,    \* who holds flushMu: "loop", "main" or "free"
    flush,      \* where flush() is: "idle", "snap", "push" or "commit"
    reads,      \* <<key, direction>> still to be read or committed
    delta,      \* the snapshot: key -> direction -> bytes, all 0 if left out
    queue,      \* clients still to push
    acked,      \* tags acknowledged in this flush
    failed,     \* some client returned an error in this flush
    billed,     \* history: key -> direction -> bytes the panel booked
    settled,    \* history: key -> direction -> bytes committed
    lost,       \* history: key -> direction -> bytes booked, answer lost
    losses,     \* how many pushes lost their answer
    deleted     \* history: keys whose entry was ever deleted

loopVars == <<loop, main, cancelled, box, active, absent, doomed>>
flushVars == <<flushMu, flush, reads, delta, queue, acked, failed>>
panelVars == <<billed, lost, losses>>
vars == <<counterVars, loopVars, flushVars, panelVars, settled, deleted>>

TagOf(k) == k[1]
UserOf(k) == k[2]
ZeroDelta == [k \in Keys |-> NoBytes]

(* SnapshotDelta keeps an entry with traffic in either direction.          *)
InDelta(k) == \E d \in Dirs : delta[k][d] > 0
isNumericUser(k) == UserOf(k) \in Users

SyncTypeOK ==
    /\ loop \in {"fetch", "apply", "prune", "flush", "wait", "done"}
    /\ main \in {"run", "join", "close", "flush", "exit"}
    /\ cancelled \in BOOLEAN
    /\ box \in {"open", "closed"}
    /\ active \subseteq Users
    /\ absent \subseteq Keys
    /\ doomed \in Keys \cup {NoKey}
    /\ flushMu \in {"free", "loop", "main"}
    /\ flush \in {"idle", "snap", "push", "commit"}
    /\ reads \subseteq Keys \X Dirs
    /\ delta \in [Keys -> [Dirs -> Nat]]
    /\ queue \subseteq Clients
    /\ acked \subseteq {TagOf(k) : k \in Keys}
    /\ failed \in BOOLEAN
    /\ billed \in [Keys -> [Dirs -> Nat]]
    /\ settled \in [Keys -> [Dirs -> Nat]]
    /\ lost \in [Keys -> [Dirs -> Nat]]
    /\ losses \in 0..MaxLost
    /\ deleted \subseteq Keys

TypeOK == CounterTypeOK /\ SyncTypeOK

Init ==
    /\ CounterInit
    /\ loop = "fetch"
    /\ main = "run"
    /\ cancelled = FALSE
    /\ box = "open"
    /\ active = {}
    /\ absent = {}
    /\ doomed = NoKey
    /\ flushMu = "free"
    /\ flush = "idle"
    /\ reads = {}
    /\ delta = ZeroDelta
    /\ queue = {}
    /\ acked = {}
    /\ failed = FALSE
    /\ billed = ZeroDelta
    /\ settled = ZeroDelta
    /\ lost = ZeroDelta
    /\ losses = 0
    /\ deleted = {}

-----------------------------------------------------------------------------
(* The data path.  Hook.RoutedConnection and RoutedPacketConnection wrap a *)
(* connection that has a user; the others are not counted at all.  A       *)
(* closed box routes and carries nothing more, but what a copy loop has    *)
(* already moved is still added.                                           *)
syncVars == <<loopVars, flushVars, panelVars, settled, deleted>>

Route == box = "open" /\ (\E c \in Conns, k \in Keys : GetCounter(c, k)) /\ UNCHANGED syncVars
Carry == box = "open" /\ (\E c \in Conns, d \in Dirs : Transfer(c, d)) /\ UNCHANGED syncVars
Add == (\E c \in Conns, d \in Dirs : AddBytes(c, d)) /\ UNCHANGED syncVars
Hangup == (\E c \in Conns : CloseConn(c)) /\ UNCHANGED syncVars

-----------------------------------------------------------------------------
(* Syncer.syncOnce: fetch, apply and prune, and then flush whatever the    *)
(* fetch and the apply returned.  A request made with a cancelled context  *)
(* fails; a local user file is read without looking at the context.        *)
Reachable == Clients = {} \/ ~cancelled

(* Mutant: a failed fetch skips the flush.                                 *)
FetchUsersOrWait ==
    /\ loop = "fetch"
    /\ \/ Reachable /\ loop' = "apply"
       \/ loop' = "wait"
    /\ UNCHANGED <<counterVars, main, cancelled, box, active, absent, doomed,
                   flushVars, panelVars, settled, deleted>>

FetchUsers ==
    /\ loop = "fetch"
    /\ \/ Reachable /\ loop' = "apply"
       \/ loop' = "flush"
    /\ UNCHANGED <<counterVars, main, cancelled, box, active, absent, doomed,
                   flushVars, panelVars, settled, deleted>>

(* The new list becomes the active set, or the inbounds refuse it and      *)
(* nothing is pruned.  The id of a user on the list is an int.             *)
ApplyUsers ==
    /\ loop = "apply"
    /\ \/ /\ active' \in SUBSET (Users \ Oversized)
          /\ loop' = "prune"
          /\ absent' = Keys
       \/ /\ loop' = "flush"
          /\ UNCHANGED <<active, absent>>
    /\ UNCHANGED <<counterVars, main, cancelled, box, doomed,
                   flushVars, panelVars, settled, deleted>>

(* RemoveAbsent visits k: an entry of an absent user whose counters are    *)
(* all committed is deleted, in a later step.                              *)
PruneVisit(k) ==
    /\ loop = "prune"
    /\ doomed = NoKey
    /\ k \in absent
    /\ absent' = absent \ {k}
    /\ doomed' = IF /\ counters[k] # 0
                    /\ UserOf(k) \notin active
                    /\ \A d \in Dirs : Uncommitted(counters[k], d) = 0
                 THEN k ELSE NoKey
    /\ UNCHANGED <<counterVars, loop, main, cancelled, box, active,
                   flushVars, panelVars, settled, deleted>>

PruneDelete ==
    /\ loop = "prune"
    /\ doomed # NoKey
    /\ counters' = [counters EXCEPT ![doomed] = 0]
    /\ deleted' = deleted \cup {doomed}
    /\ doomed' = NoKey
    /\ UNCHANGED <<allocs, owner, counted, committed, storage, moved, used,
                   loop, main, cancelled, box, active, absent,
                   flushVars, panelVars, settled>>

PruneDone ==
    /\ loop = "prune"
    /\ doomed = NoKey
    /\ absent = {}
    /\ loop' = "flush"
    /\ UNCHANGED <<counterVars, main, cancelled, box, active, absent, doomed,
                   flushVars, panelVars, settled, deleted>>

-----------------------------------------------------------------------------
(* Syncer.flush, run by the loop at the end of syncOnce and by main as     *)
(* FinalFlush.                                                             *)
FlushBegin(who) ==
    /\ IF who = "loop" THEN loop = "flush" ELSE main = "flush"
    /\ flushMu = "free"
    /\ flushMu' = who
    /\ flush' = "snap"
    /\ reads' = Keys \X Dirs
    /\ delta' = ZeroDelta
    /\ UNCHANGED <<counterVars, loopVars, queue, acked, failed,
                   panelVars, settled, deleted>>

(* SnapshotDelta ranges over the maps while connections add and appear: a  *)
(* key stored during the range is seen or missed, and the two directions   *)
(* of one entry are read at different moments.                             *)
SnapshotSkip(k) ==
    /\ flush = "snap"
    /\ counters[k] = 0
    /\ \E d \in Dirs : <<k, d>> \in reads
    /\ reads' = reads \ ({k} \X Dirs)
    /\ UNCHANGED <<counterVars, loopVars, flushMu, flush, delta, queue, acked,
                   failed, panelVars, settled, deleted>>

(* Mutants: the snapshot takes the total instead of the difference, or     *)
(* takes the difference the wrong way round.                               *)
SnapshotReadTotal(k, d) ==
    /\ flush = "snap"
    /\ <<k, d>> \in reads
    /\ counters[k] # 0
    /\ reads' = reads \ {<<k, d>>}
    /\ delta' = [delta EXCEPT ![k][d] = counted[counters[k]][d]]
    /\ UNCHANGED <<counterVars, loopVars, flushMu, flush, queue, acked, failed,
                   panelVars, settled, deleted>>

SnapshotReadSwapped(k, d) ==
    /\ flush = "snap"
    /\ <<k, d>> \in reads
    /\ counters[k] # 0
    /\ reads' = reads \ {<<k, d>>}
    /\ delta' = [delta EXCEPT ![k][d] = -Uncommitted(counters[k], d)]
    /\ UNCHANGED <<counterVars, loopVars, flushMu, flush, queue, acked, failed,
                   panelVars, settled, deleted>>

SnapshotRead(k, d) ==
    /\ flush = "snap"
    /\ <<k, d>> \in reads
    /\ counters[k] # 0
    /\ reads' = reads \ {<<k, d>>}
    /\ delta' = [delta EXCEPT ![k][d] = Uncommitted(counters[k], d)]
    /\ UNCHANGED <<counterVars, loopVars, flushMu, flush, queue, acked, failed,
                   panelVars, settled, deleted>>

(* flush returns: its locals are gone, the deferred Unlock runs, and the   *)
(* caller goes on.                                                         *)
Return ==
    /\ flushMu' = "free"
    /\ flush' = "idle"
    /\ delta' = ZeroDelta
    /\ acked' = {}
    /\ failed' = FALSE
    /\ loop' = IF flushMu = "loop" THEN "wait" ELSE loop
    /\ main' = IF flushMu = "main" THEN "exit" ELSE main
    /\ UNCHANGED <<counterVars, cancelled, box, active, absent, doomed, reads,
                   queue, panelVars, settled, deleted>>

(* Nothing is pushed unless some numeric user has traffic.                 *)
SnapshotDone ==
    /\ flush = "snap"
    /\ reads = {}
    /\ IF \E k \in Keys : InDelta(k) /\ isNumericUser(k)
       THEN /\ flush' = "push"
            /\ queue' = Clients
            /\ acked' = {}
            /\ failed' = FALSE
            /\ UNCHANGED <<counterVars, loopVars, flushMu, reads, delta,
                           panelVars, settled, deleted>>
       ELSE Return

(* Client.PushTraffic: the keys a client reports, and the tags it then     *)
(* acknowledges.  A client with nothing to report acknowledges without a   *)
(* request.  topologyPanel acknowledges the tag of its node even when the  *)
(* snapshot does not have it; that commits nothing.                        *)
Payload(cl) == {k \in Keys : /\ TagOf(k) \in Matches[cl]
                             /\ InDelta(k)
                             /\ isNumericUser(k)
                             /\ UserOf(k) \notin Oversized}
Acks(cl) == {TagOf(k) : k \in {x \in Keys : InDelta(x) /\ TagOf(x) \in Matches[cl]}}

(* The amounts in f raised by the snapshot of the keys in S.               *)
PlusDelta(f, S) == [k \in Keys |-> [d \in Dirs |->
                      f[k][d] + (IF k \in S THEN delta[k][d] ELSE 0)]]

(* The context of this flush still allows requests: FinalFlush has one of  *)
(* its own.                                                                *)
CanSend == flushMu = "main" \/ ~cancelled

(* MultiPanel and topologyPanel call every client, also after one has      *)
(* failed.  They go through a list; here the order is left open.           *)
ClientCalled(cl) ==
    /\ flush = "push"
    /\ cl \in queue
    /\ queue' = queue \ {cl}

PushAccepted(cl) ==
    /\ ClientCalled(cl)
    /\ Payload(cl) = {} \/ CanSend
    /\ billed' = PlusDelta(billed, Payload(cl))
    /\ acked' = acked \cup Acks(cl)
    /\ UNCHANGED <<counterVars, loopVars, flushMu, flush, reads, delta, failed,
                   lost, losses, settled, deleted>>

(* The request fails before the panel has booked it.                       *)
PushFailed(cl) ==
    /\ ClientCalled(cl)
    /\ Payload(cl) # {}
    /\ failed' = TRUE
    /\ UNCHANGED <<counterVars, loopVars, flushMu, flush, reads, delta, acked,
                   panelVars, settled, deleted>>

(* The panel books the push and the answer never arrives.                  *)
PushLost(cl) ==
    /\ ClientCalled(cl)
    /\ Payload(cl) # {}
    /\ CanSend
    /\ losses < MaxLost
    /\ failed' = TRUE
    /\ billed' = PlusDelta(billed, Payload(cl))
    /\ lost' = PlusDelta(lost, Payload(cl))
    /\ losses' = losses + 1
    /\ UNCHANGED <<counterVars, loopVars, flushMu, flush, reads, delta, acked,
                   settled, deleted>>

(* Mutant: a partial failure commits every tag.                            *)
commitEverything == {k \in Keys : InDelta(k) /\ isNumericUser(k)}

(* commitDelta: on an error only the acknowledged tags, else every tag.    *)
commitDelta == {k \in Keys : /\ InDelta(k)
                             /\ isNumericUser(k)
                             /\ failed => TagOf(k) \in acked}

PushDone ==
    /\ flush = "push"
    /\ queue = {}
    /\ IF failed /\ acked = {}
       THEN Return
       ELSE /\ flush' = "commit"
            /\ reads' = commitDelta \X Dirs
            /\ UNCHANGED <<counterVars, loopVars, flushMu, delta, queue, acked,
                           failed, panelVars, settled, deleted>>

(* Mutant: the commit marks everything counted by now as committed.        *)
CommitCurrent(k, d) ==
    /\ flush = "commit"
    /\ <<k, d>> \in reads
    /\ reads' = reads \ {<<k, d>>}
    /\ IF counters[k] # 0
       THEN /\ committed' = [committed EXCEPT ![counters[k]][d] = counted[counters[k]][d]]
            /\ settled' = [settled EXCEPT ![k][d] = @ + delta[k][d]]
       ELSE UNCHANGED <<committed, settled>>
    /\ UNCHANGED <<counters, allocs, owner, counted, storage, moved, used,
                   loopVars, flushMu, flush, delta, queue, acked, failed,
                   panelVars, deleted>>

(* CommitSnapshot adds the delta to whatever storage the map now holds.    *)
CommitSnapshot(k, d) ==
    /\ flush = "commit"
    /\ <<k, d>> \in reads
    /\ reads' = reads \ {<<k, d>>}
    /\ IF counters[k] # 0
       THEN /\ committed' = [committed EXCEPT ![counters[k]][d] = @ + delta[k][d]]
            /\ settled' = [settled EXCEPT ![k][d] = @ + delta[k][d]]
       ELSE UNCHANGED <<committed, settled>>
    /\ UNCHANGED <<counters, allocs, owner, counted, storage, moved, used,
                   loopVars, flushMu, flush, delta, queue, acked, failed,
                   panelVars, deleted>>

CommitDone ==
    /\ flush = "commit"
    /\ reads = {}
    /\ Return

-----------------------------------------------------------------------------
(* Syncer.Run between two rounds.  select takes any ready case, so a tick  *)
(* may win over a context that is already done.                            *)
Tick ==
    /\ loop = "wait"
    /\ loop' = "fetch"
    /\ UNCHANGED <<counterVars, main, cancelled, box, active, absent, doomed,
                   flushVars, panelVars, settled, deleted>>

(* Mutant: Run has no case for ctx.Done.                                   *)
StopIgnored == loop = "wait" /\ cancelled /\ loop' = "fetch" /\ UNCHANGED <<counterVars, main,
    cancelled, box, active, absent, doomed, flushVars, panelVars, settled, deleted>>

Stop ==
    /\ loop = "wait"
    /\ cancelled
    /\ loop' = "done"
    /\ UNCHANGED <<counterVars, main, cancelled, box, active, absent, doomed,
                   flushVars, panelVars, settled, deleted>>

(* main: the signal, waiting for the loop, closing the box.                *)
Signal ==
    /\ main = "run"
    /\ main' = "join"
    /\ cancelled' = TRUE
    /\ UNCHANGED <<counterVars, loop, box, active, absent, doomed,
                   flushVars, panelVars, settled, deleted>>

(* Mutant: main does not wait for the loop.                                *)
JoinAtOnce ==
    /\ main = "join"
    /\ main' = "close"
    /\ UNCHANGED <<counterVars, loop, cancelled, box, active, absent, doomed,
                   flushVars, panelVars, settled, deleted>>

Join ==
    /\ main = "join"
    /\ loop = "done"
    /\ main' = "close"
    /\ UNCHANGED <<counterVars, loop, cancelled, box, active, absent, doomed,
                   flushVars, panelVars, settled, deleted>>

CloseBox ==
    /\ main = "close"
    /\ box' = "closed"
    /\ main' = "flush"
    /\ UNCHANGED <<counterVars, loop, cancelled, active, absent, doomed,
                   flushVars, panelVars, settled, deleted>>

-----------------------------------------------------------------------------
DataPath == Route \/ Carry \/ Add \/ Hangup

Prune == (\E k \in Keys : PruneVisit(k)) \/ PruneDelete \/ PruneDone

Flush ==
    \/ \E who \in {"loop", "main"} : FlushBegin(who)
    \/ \E k \in Keys : SnapshotSkip(k)
    \/ \E k \in Keys, d \in Dirs : SnapshotRead(k, d)
    \/ SnapshotDone
    \/ \E cl \in Clients : PushAccepted(cl) \/ PushFailed(cl) \/ PushLost(cl)
    \/ PushDone
    \/ \E k \in Keys, d \in Dirs : CommitSnapshot(k, d)
    \/ CommitDone

(* The process has exited.                                                 *)
Exited == main = "exit" /\ UNCHANGED vars

Next ==
    \/ /\ main # "exit"
       /\ \/ DataPath
          \/ FetchUsers \/ ApplyUsers \/ Prune \/ Tick \/ Stop
          \/ Flush
          \/ Signal \/ Join \/ CloseBox
    \/ Exited

Spec == Init /\ [][Next]_vars

(* Fairness.  The goroutines of the loop and of main keep running: every   *)
(* request has a deadline and nothing else blocks them.  The panel accepts *)
(* a client's push if it is asked again and again.  A select whose two     *)
(* cases stay ready picks each of them eventually.                         *)
SyncStep == main # "exit" /\ (FetchUsers \/ ApplyUsers \/ Prune \/ Tick \/ Stop \/ Flush \/ Join \/ CloseBox)

FairSpec ==
    /\ Spec
    /\ WF_vars(SyncStep)
    /\ SF_vars(Stop)
    /\ \A cl \in Clients : SF_vars(main # "exit" /\ PushAccepted(cl))

-----------------------------------------------------------------------------
(* Bytes in the map that no successful flush has covered yet.              *)
Pending(k, d) == IF counters[k] = 0 THEN 0 ELSE Uncommitted(counters[k], d)

(* A key the panel can bill exactly once per push: a numeric user of a tag *)
(* that exactly one client reports for.                                    *)
Covered(k) ==
    /\ isNumericUser(k)
    /\ UserOf(k) \notin Oversized
    /\ \E cl \in Clients : /\ TagOf(k) \in Matches[cl]
                           /\ \A other \in Clients \ {cl} : TagOf(k) \notin Matches[other]

(* Booked and acknowledged in the running flush, not committed yet.        *)
Outstanding(k, d) ==
    IF \/ flush = "push" /\ TagOf(k) \in acked
       \/ flush = "commit" /\ <<k, d>> \in reads
    THEN delta[k][d] ELSE 0

(* No storage ever has more committed than counted: what CommitSnapshot    *)
(* adds was counted in that very storage, although the map was released    *)
(* between the snapshot and the commit, and entries are deleted and        *)
(* created in the meantime (counter.go CommitSnapshot, RemoveAbsent).      *)
CommittedNeverAhead ==
    \A s \in Storages, d \in Dirs : committed[s][d] <= counted[s][d]

(* Until its entry is deleted, every byte counted for a key is committed   *)
(* or still waits in the map; after a deletion bytes may be missing but    *)
(* none are invented (SnapshotDelta / CommitSnapshot: "New traffic         *)
(* arriving between SnapshotDelta and CommitSnapshot is intentionally left *)
(* for the next snapshot").                                                *)
EveryByteAccounted ==
    \A k \in Keys, d \in Dirs :
        /\ settled[k][d] + Pending(k, d) <= used[k][d]
        /\ k \notin deleted => settled[k][d] + Pending(k, d) = used[k][d]

(* The panel's books equal what the agent committed, what it is about to   *)
(* commit, and what was booked by a push whose answer was lost: partial    *)
(* failure of other clients never bills a confirmed tag again and never    *)
(* commits an unconfirmed one (Syncer.flush, commitDelta).  A key that is  *)
(* not a number, the raw secret of a user the agent could not resolve, is  *)
(* neither billed nor committed.                                           *)
BilledOnce ==
    \A k \in Keys, d \in Dirs :
        /\ Covered(k) => billed[k][d] = settled[k][d] + lost[k][d] + Outstanding(k, d)
        /\ ~isNumericUser(k) => billed[k][d] = 0 /\ settled[k][d] = 0

(* The counters, the sync loop and the panel clients together implement    *)
(* the ledger, one account per key the panel can bill.                     *)
CoveredKeys == {k \in Keys : Covered(k)}

Ledger == INSTANCE UsageLedger WITH
    Accounts <- CoveredKeys,
    used <- [k \in CoveredKeys |-> used[k]],
    billed <- [k \in CoveredKeys |-> billed[k]],
    settled <- [k \in CoveredKeys |-> settled[k]]

(* Every step of the agent is a step of UsageLedger or leaves the books    *)
(* alone: a push never bills more than what is unsettled, and nothing is   *)
(* committed that the panel has not booked (Syncer.flush, PushTraffic).    *)
ImplementsLedger == Ledger!Spec

(* The loop and main never flush or apply side by side: by the time main   *)
(* has closed the box the loop is gone, and no user list is applied and no *)
(* entry pruned from then on (main.go shutdown, Syncer.Start).             *)
QuietAfterClose == [][box = "closed" => UNCHANGED <<active, deleted, loop>>]_vars

(* With a panel that answers in the end, what is counted for a key is      *)
(* billed and committed, unless the agent is told to stop or the entry is  *)
(* deleted, however many pushes fail before and however the fetches fail.  *)
EventuallySettled ==
    \A k \in Keys, d \in Dirs, n \in 1..MaxBytes :
        (Covered(k) /\ used[k][d] >= n) ~> (settled[k][d] >= n \/ cancelled \/ k \in deleted)

(* main closes the box "so the final snapshot includes the last bytes of   *)
(* every connection" (main.go): when the final flush is over, no           *)
(* connection has moved bytes that are not counted yet.                    *)
FinalSnapshotComplete ==
    main = "exit" => \A c \in Conns : moved[c] = NoBytes

(* CommitSnapshot is "called serially and exactly once for a successfully  *)
(* pushed snapshot" (counter.go): what is committed has been pushed to and *)
(* booked by the panel, whatever tags the configured clients report for.   *)
OnlyPushedIsCommitted ==
    \A k \in Keys, d \in Dirs : settled[k][d] <= billed[k][d]

(* A signal always ends the process: main does not wait for ever on the    *)
(* loop, on the lock or on the panel.                                      *)
ShutdownCompletes == cancelled ~> main = "exit"

=============================================================================
