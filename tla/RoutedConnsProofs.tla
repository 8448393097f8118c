---------------------------- MODULE RoutedConnsProofs ----------------------------
(***************************************************************************)
(* What the lock of dns/client.go and the connection manager keep, for any *)
(* number of lookups, names and connections, however the ends behave.      *)
(***************************************************************************)
EXTENDS RoutedConns, TLAPS

(***************************************************************************)
(* The lock: an inductive invariant of dnsVars, and from it AskedOnce.     *)
(***************************************************************************)
\* No further query of q is counted: it is answered from the cache, or an answer
\* was not kept.
Settled(q) == Cached(q) \/ queried[q] = "spoiled"

\* A lock belongs to a task that asks its question and has not deleted it.
LockInv ==
    \A q \in Questions : cacheLock[q] # NoTask =>
        /\ cacheLock[q] \in Tasks /\ Asks[cacheLock[q]] = q
        /\ pc[cacheLock[q]] \in {"load", "query", "delete"}

\* A task waits for one with the same question.  Whoever is past the query, and
\* whoever reads the cache without the lock, finds the question settled.
TaskInv ==
    \A t \in Tasks :
        /\ pc[t] = "wait" => cond[t] \in Tasks /\ Asks[cond[t]] = Asks[t]
        /\ pc[t] = "load" /\ cacheLock[Asks[t]] # t => Settled(Asks[t])
        /\ pc[t] \in {"delete", "close"} => Settled(Asks[t])

\* A question that went out is answered, or the holder of its lock is at it.
QueryInv ==
    \A q \in Questions :
        /\ queried[q] # "again"
        /\ queried[q] = "once" => 
            Cached(q) \/ (cacheLock[q] # NoTask /\ pc[cacheLock[q]] = "query")

\* The tasks of a lookup that has not begun are idle.
IdleInv == \A c \in Conns : lookup[c] = "none" => \A t \in TasksOf(c) : pc[t] = "idle"

DNSInv ==
    /\ TypeOKDNS /\ lookup \in [Conns -> {"none", "asking", "resolved"}]
    /\ LockInv /\ TaskInv /\ QueryInv /\ IdleInv

USE DEF Cached, Settled

-----------------------------------------------------------------------------
\* A lookup belongs to one connection.
LEMMA TaskOwner ==
    ASSUME NEW c \in Conns, NEW x \in Conns, NEW t \in TasksOf(c), t \in TasksOf(x)
    PROVE  c = x
BY DEF TasksOf

\* The lookups of a connection are lookups.
LEMMA OwnTasks == ASSUME NEW c \in Conns PROVE TasksOf(c) \subseteq Tasks
BY LookupAssumption DEF TasksOf

\* Each step of the DNS client keeps its invariant: first questionCache.
LEMMA QuestionCacheKeeps ==
    ASSUME DNSInv, NEW t \in Tasks, QuestionCache(t), UNCHANGED lookup
    PROVE  DNSInv'
<1> USE TasksAssumption DEF QuestionCache, Leave
<1>1. TypeOKDNS'
  BY Zenon DEF DNSInv, TypeOKDNS
<1>2. LockInv'
  BY DEF DNSInv, TypeOKDNS, LockInv
<1>3. TaskInv'
  BY DEF DNSInv, TypeOKDNS, TaskInv, LockInv
<1>4. QueryInv'
  BY DEF DNSInv, TypeOKDNS, QueryInv, LockInv, TaskInv
<1>5. IdleInv'
  BY OwnTasks DEF DNSInv, TypeOKDNS, IdleInv
<1> QED BY <1>1, <1>2, <1>3, <1>4, <1>5 DEF DNSInv

\* A caller takes the lock of its question, or waits for it.
LEMMA LoadOrStoreKeeps ==
    ASSUME DNSInv, NEW t \in Tasks, LoadOrStore(t), UNCHANGED lookup
    PROVE  DNSInv'
<1> USE TasksAssumption DEF LoadOrStore, Leave
<1>1. TypeOKDNS'
  BY DEF DNSInv, TypeOKDNS
<1>2. LockInv'
  BY DEF DNSInv, TypeOKDNS, LockInv
<1>3. TaskInv'
  BY DEF DNSInv, TypeOKDNS, TaskInv, LockInv
<1>4. QueryInv'
  BY DEF DNSInv, TypeOKDNS, QueryInv, LockInv, TaskInv
<1>5. IdleInv'
  BY OwnTasks DEF DNSInv, TypeOKDNS, IdleInv
<1> QED BY <1>1, <1>2, <1>3, <1>4, <1>5 DEF DNSInv

\* A caller that waited, or took the lock, reads the cache again.
LEMMA LoadResponseKeeps ==
    ASSUME DNSInv, NEW t \in Tasks, LoadResponse(t), UNCHANGED lookup
    PROVE  DNSInv'
<1> USE TasksAssumption DEF LoadResponse, Leave
<1>1. TypeOKDNS'
  BY DEF DNSInv, TypeOKDNS
<1>2. LockInv'
  BY DEF DNSInv, TypeOKDNS, LockInv
<1>3. TaskInv'
  BY DEF DNSInv, TypeOKDNS, TaskInv, LockInv
<1>4. QueryInv'
  BY DEF DNSInv, TypeOKDNS, QueryInv, LockInv, TaskInv
<1>5. IdleInv'
  BY OwnTasks DEF DNSInv, TypeOKDNS, IdleInv
<1> QED BY <1>1, <1>2, <1>3, <1>4, <1>5 DEF DNSInv

\* The deferred function takes the lock out of the map.
LEMMA DeleteLockKeeps ==
    ASSUME DNSInv, NEW t \in Tasks, DeleteLock(t), UNCHANGED lookup
    PROVE  DNSInv'
<1> USE TasksAssumption DEF DeleteLock, Leave
<1>1. TypeOKDNS'
  BY Zenon DEF DNSInv, TypeOKDNS
<1>2. LockInv'
  BY DEF DNSInv, TypeOKDNS, LockInv
<1>3. TaskInv'
  BY DEF DNSInv, TypeOKDNS, TaskInv, LockInv
<1>4. QueryInv'
  BY DEF DNSInv, TypeOKDNS, QueryInv, LockInv, TaskInv
<1>5. IdleInv'
  BY OwnTasks DEF DNSInv, TypeOKDNS, IdleInv
<1> QED BY <1>1, <1>2, <1>3, <1>4, <1>5 DEF DNSInv

\* The deferred function wakes those that wait.
LEMMA CloseCondKeeps ==
    ASSUME DNSInv, NEW t \in Tasks, CloseCond(t), UNCHANGED lookup
    PROVE  DNSInv'
<1> USE TasksAssumption DEF CloseCond, Leave
<1>1. TypeOKDNS'
  BY DEF DNSInv, TypeOKDNS
<1>2. LockInv'
  BY DEF DNSInv, TypeOKDNS, LockInv
<1>3. TaskInv'
  BY DEF DNSInv, TypeOKDNS, TaskInv, LockInv
<1>4. QueryInv'
  BY DEF DNSInv, TypeOKDNS, QueryInv, LockInv, TaskInv
<1>5. IdleInv'
  BY OwnTasks DEF DNSInv, TypeOKDNS, IdleInv
<1> QED BY <1>1, <1>2, <1>3, <1>4, <1>5 DEF DNSInv

\* An answer is stored.
LEMMA AnsweredKeeps ==
    ASSUME DNSInv, NEW t \in Tasks, NEW r \in {"addrs", "empty"}, Answered(t, r), UNCHANGED lookup
    PROVE  DNSInv'
<1> USE TasksAssumption DEF Answered, Leave
<1>1. TypeOKDNS'
  BY Zenon DEF DNSInv, TypeOKDNS
<1>2. LockInv'
  BY DEF DNSInv, TypeOKDNS, LockInv
<1>3. TaskInv'
  <2>1. \A q \in Questions : Settled(q) => Settled(q)'
    BY DEF DNSInv, TypeOKDNS
  <2>2. Settled(Asks[t])'
    BY Zenon DEF DNSInv, TypeOKDNS
  <2>3. pc'[t] \in {"delete", "done"} /\ \A u \in Tasks : u # t => pc'[u] = pc[u]
    BY DEF DNSInv, TypeOKDNS
  <2>4. UNCHANGED <<cond, cacheLock>> /\ \A u \in Tasks : Asks[u] \in Questions
    OBVIOUS
  <2> HIDE DEF Settled
  <2> QED BY <2>1, <2>2, <2>3, <2>4 DEF DNSInv, TaskInv
<1>4. QueryInv'
  BY DEF DNSInv, TypeOKDNS, QueryInv, LockInv, TaskInv
<1>5. IdleInv'
  BY OwnTasks DEF DNSInv, TypeOKDNS, IdleInv
<1> QED BY <1>1, <1>2, <1>3, <1>4, <1>5 DEF DNSInv

\* An answer that is not stored.
LEMMA NotKeptKeeps ==
    ASSUME DNSInv, NEW t \in Tasks, NEW r \in {"addrs", "empty"}, NotKept(t, r), UNCHANGED lookup
    PROVE  DNSInv'
<1> USE TasksAssumption DEF NotKept, Leave
<1>1. TypeOKDNS'
  BY Zenon DEF DNSInv, TypeOKDNS
<1>2. LockInv'
  BY DEF DNSInv, TypeOKDNS, LockInv
<1>3. TaskInv'
  <2>1. \A q \in Questions : Settled(q) => Settled(q)'
    BY DEF DNSInv, TypeOKDNS
  <2>2. Settled(Asks[t])'
    BY Zenon DEF DNSInv, TypeOKDNS
  <2>3. pc'[t] \in {"delete", "done"} /\ \A u \in Tasks : u # t => pc'[u] = pc[u]
    BY DEF DNSInv, TypeOKDNS
  <2>4. UNCHANGED <<cond, cacheLock>> /\ \A u \in Tasks : Asks[u] \in Questions
    OBVIOUS
  <2> HIDE DEF Settled
  <2> QED BY <2>1, <2>2, <2>3, <2>4 DEF DNSInv, TaskInv
<1>4. QueryInv'
  BY DEF DNSInv, TypeOKDNS, QueryInv, LockInv, TaskInv
<1>5. IdleInv'
  BY OwnTasks DEF DNSInv, TypeOKDNS, IdleInv
<1> QED BY <1>1, <1>2, <1>3, <1>4, <1>5 DEF DNSInv

\* An answer leaves the cache.
LEMMA ForgetKeeps ==
    ASSUME DNSInv, NEW q \in Questions, Forget(q), UNCHANGED lookup
    PROVE  DNSInv'
<1> USE TasksAssumption DEF Forget
<1>1. TypeOKDNS' /\ LockInv' /\ IdleInv'
  BY DEF DNSInv, TypeOKDNS, LockInv, IdleInv
<1>2. TaskInv' /\ QueryInv'
  BY DEF DNSInv, TypeOKDNS, TaskInv, QueryInv
<1> QED BY <1>1, <1>2 DEF DNSInv

\* Router.Lookup starts the tasks of a connection, which were idle.
LEMMA LookupKeeps ==
    ASSUME DNSInv, NEW c \in Conns, Lookup(c)
    PROVE  DNSInv'
<1> USE TasksAssumption DEF Lookup
<1>1. \A t \in Tasks : t \in TasksOf(c) => pc[t] = "idle" /\ pc'[t] = "asked"
  BY OwnTasks DEF DNSInv, IdleInv
<1>2. \A t \in Tasks : t \notin TasksOf(c) => pc'[t] = pc[t]
  OBVIOUS
<1>3. TypeOKDNS' /\ lookup' \in [Conns -> {"none", "asking", "resolved"}]
  BY DEF DNSInv, TypeOKDNS
<1>4. LockInv'
  BY <1>1, <1>2 DEF DNSInv, TypeOKDNS, LockInv
<1>5. TaskInv'
  BY <1>1, <1>2 DEF DNSInv, TypeOKDNS, TaskInv
<1>6. QueryInv'
  BY <1>1, <1>2 DEF DNSInv, TypeOKDNS, QueryInv, LockInv
<1>7. IdleInv'
  <2> SUFFICES ASSUME NEW x \in Conns, lookup'[x] = "none", NEW t \in TasksOf(x)
               PROVE  pc'[t] = "idle"
    BY DEF IdleInv, TasksOf
  <2>1. x # c /\ lookup[x] = "none"
    BY DEF DNSInv
  <2>2. t \notin TasksOf(c)
    BY <2>1, TaskOwner
  <2> QED BY <1>2, <2>1, <2>2, OwnTasks DEF DNSInv, IdleInv
<1> QED BY <1>3, <1>4, <1>5, <1>6, <1>7 DEF DNSInv

\* An answer from the cache only moves lookup on.
LEMMA LookupCacheKeeps ==
    ASSUME DNSInv, NEW c \in Conns, LookupCache(c)
    PROVE  DNSInv'
<1>1. /\ UNCHANGED <<pc, result, cache, cacheLock, cond, queried>>
      /\ lookup' = lookup \/ lookup' = [lookup EXCEPT ![c] = "resolved"]
  BY DEF LookupCache, Resolved, dnsVars
<1>2. TypeOKDNS' /\ lookup' \in [Conns -> {"none", "asking", "resolved"}]
  BY <1>1 DEF DNSInv, TypeOKDNS
<1>3. LockInv' /\ TaskInv' /\ QueryInv'
  BY <1>1 DEF DNSInv, LockInv, TaskInv, QueryInv
<1>4. IdleInv'
  BY <1>1 DEF DNSInv, IdleInv, TasksOf
<1> QED BY <1>2, <1>3, <1>4 DEF DNSInv

\* The tasks of a group that returns were done and are gone.
LEMMA LookupReturnsKeeps ==
    ASSUME DNSInv, NEW c \in Conns, LookupReturns(c)
    PROVE  DNSInv'
<1> USE TasksAssumption
<1>1. /\ UNCHANGED <<cache, cacheLock, cond, queried>>
      /\ lookup' = lookup \/ lookup' = [lookup EXCEPT ![c] = "resolved"]
      /\ pc' = [t \in Tasks |-> IF t \in TasksOf(c) THEN "idle" ELSE pc[t]]
      /\ result' = [t \in Tasks |-> IF t \in TasksOf(c) THEN "none" ELSE result[t]]
  BY DEF LookupReturns, Resolved
<1>2. \A t \in Tasks : t \in TasksOf(c) => pc[t] = "done" /\ pc'[t] = "idle"
  BY <1>1 DEF LookupReturns
<1>3. \A t \in Tasks : t \notin TasksOf(c) => pc'[t] = pc[t]
  BY <1>1
<1>4. TypeOKDNS' /\ lookup' \in [Conns -> {"none", "asking", "resolved"}]
  BY <1>1 DEF DNSInv, TypeOKDNS
<1>5. LockInv'
  BY <1>1, <1>2, <1>3 DEF DNSInv, TypeOKDNS, LockInv
<1>6. TaskInv'
  BY <1>1, <1>2, <1>3 DEF DNSInv, TypeOKDNS, TaskInv
<1>7. QueryInv'
  BY <1>1, <1>2, <1>3 DEF DNSInv, TypeOKDNS, QueryInv, LockInv
<1>8. IdleInv'
  <2>1. \A x \in Conns : lookup'[x] = "none" => lookup[x] = "none"
    BY <1>1 DEF DNSInv
  <2> QED BY <1>2, <1>3, <2>1, OwnTasks DEF DNSInv, IdleInv, TasksOf
<1> QED BY <1>4, <1>5, <1>6, <1>7, <1>8 DEF DNSInv

-----------------------------------------------------------------------------
\* A new client satisfies the invariant.
LEMMA DNSInvInit == ASSUME Init PROVE DNSInv
<1> USE TasksAssumption DEF Init, InitDNS
<1>1. TypeOKDNS /\ lookup \in [Conns -> {"none", "asking", "resolved"}]
  BY DEF TypeOKDNS
<1>2. LockInv /\ TaskInv /\ QueryInv
  BY DEF LockInv, TaskInv, QueryInv
<1>3. IdleInv
  BY OwnTasks DEF IdleInv
<1> QED BY <1>1, <1>2, <1>3 DEF DNSInv

\* Every step of the composition keeps the invariant of the DNS client.
LEMMA DNSInvKept ==
    ASSUME DNSInv, [Next]_vars
    PROVE  DNSInv'
<1>1. CASE UNCHANGED <<dnsVars, lookup>>
  BY <1>1 DEF dnsVars, DNSInv, TypeOKDNS, LockInv, TaskInv, QueryInv, IdleInv, TasksOf
<1>2. ASSUME NEW t \in Tasks, ExchangeStep(t) PROVE DNSInv'
  BY <1>2, QuestionCacheKeeps, LoadOrStoreKeeps, LoadResponseKeeps, DeleteLockKeeps,
     CloseCondKeeps, AnsweredKeeps, NotKeptKeeps DEF ExchangeStep, Exchange
<1>3. ASSUME NEW q \in Questions, Forget(q), UNCHANGED lookup PROVE DNSInv'
  BY <1>3, ForgetKeeps
<1>4. ASSUME NEW c \in Conns, Dial(c) PROVE DNSInv'
  <2>1. CASE Connect(c)
    BY <1>1, <2>1 DEF Connect
  <2> QED BY <1>4, <2>1, LookupKeeps, LookupCacheKeeps, LookupReturnsKeeps DEF Dial
<1>5. ASSUME NEW c \in Conns, NEW d \in Dirs,
             \/ Steps(Accept(c)) \/ Begin(c) \/ Establish(c)
             \/ Copy(c, d) \/ Clean(c, d) \/ Steps(PeerFinishes(c, d))
      PROVE  DNSInv'
  BY <1>1, <1>5 DEF Begin, Establish, Copy, Clean, Steps
<1>6. ASSUME NEW c \in Conns, NEW s \in Sides, Steps(EndBreaks(c, s)) PROVE DNSInv'
  BY <1>1, <1>6 DEF Steps
<1>7. CASE CloseBox
  BY <1>1, <1>7 DEF CloseBox, Steps
<1>8. CASE UNCHANGED vars
  BY <1>1, <1>8 DEF vars
<1>9. "up" \in Dirs
  BY DEF Dirs
<1> QED BY <1>2, <1>3, <1>4, <1>5, <1>6, <1>7, <1>8, <1>9 DEF Next

\* The invariant of the lock holds of every behaviour of the composition.
THEOREM LockInvariant == Spec => []DNSInv
BY DNSInvInit, DNSInvKept, PTL DEF Spec

\* For any number of connections and names: while its answer is kept, a question
\* is sent to the server once, although the lock is deleted before its waiters
\* are woken and they query without taking it again.
THEOREM QuestionsAskedOnce == Spec => []AskedOnce
<1>1. ASSUME DNSInv PROVE AskedOnce
  BY <1>1 DEF DNSInv, QueryInv, AskedOnce
<1> QED BY <1>1, LockInvariant, PTL

HIDE DEF Cached, Settled

-----------------------------------------------------------------------------
(***************************************************************************)
(* The connections: an inductive invariant of connVars, and from it        *)
(* Released and HalfCloseKeepsDownload.                                    *)
(***************************************************************************)
Early == {"none", "route", "dial", "report"}
Pre == {"preUp", "preDown"}

\* The life of a connection: what its counters and flags are before it is listed,
\* while its handshake is owed, while it is copied, and at its end.  The flag done
\* tells of a finished direction; for a lazy stream it may come from the
\* handshake.
LifeInv(c) ==
    /\ returned[c] \cap finished[c] = {}
    /\ phase[c] \in Early =>
        closes[c] = 0 /\ ~done[c] /\ Over(c) = {} /\ c \notin connections
    /\ phase[c] \in {"route", "dial"} => open[c] = {"local"}
    /\ phase[c] \in Pre => Over(c) = {} /\ c \in Lazy
    /\ phase[c] \in {"ended", "dropped"} =>
        open[c] = {} /\ c \notin connections /\ returned[c] = {}
    /\ phase[c] = "ended" => closes[c] > 0 /\ (c \in Lazy \/ closes[c] = 1)
    /\ phase[c] = "copy" => finished[c] # Dirs /\ (finished[c] # {} => done[c])
    /\ phase[c] = "copy" /\ c \notin Lazy => (done[c] => finished[c] # {})
    /\ phase[c] = "copy" /\ c \in Streams \ Lazy => closes[c] = 0
    /\ phase[c] = "copy" /\ c \notin Streams =>
        /\ returned[c] = {}
        /\ ~done[c] => closes[c] = 0
        /\ done[c] => closes[c] = 1 /\ c \notin connections

\* A stream nothing has gone wrong with: both its ends are open until the
\* download is over, and done is not set by anything but a finished direction.
HalfInv(c) ==
    c \in Streams /\ broken[c] = {} /\ box # "closed" =>
        /\ phase[c] \in {"report"} \cup Pre => open[c] = Sides
        /\ phase[c] \in Pre => ~done[c]
        /\ phase[c] = "copy" /\ finished[c] = {} => ~done[c]
        /\ phase[c] = "copy" /\ "remote" \in Duplex[c] /\ "down" \notin Over(c) =>
            open[c] = Sides

ConnInv == TypeOKConns /\ \A c \in Conns : LifeInv(c) /\ HalfInv(c)

USE DEF Sides, Dirs, Source, Destination, Over, Early, Pre

-----------------------------------------------------------------------------
\* Each step of a connection keeps the invariant of them all: first the listener's.
LEMMA AcceptKeeps ==
    ASSUME ConnInv, NEW c \in Conns, Accept(c)
    PROVE  ConnInv'
<1> USE DEF Accept, copies
<1>1. TypeOKConns'
  <2>1. done' \in [Conns -> BOOLEAN]
    BY Zenon DEF ConnInv, TypeOKConns
  <2> QED BY <2>1 DEF ConnInv, TypeOKConns
<1>2. ASSUME NEW x \in Conns PROVE LifeInv(x)'
  BY ConnsAssumption DEF ConnInv, TypeOKConns, LifeInv
<1>3. ASSUME NEW x \in Conns PROVE HalfInv(x)'
  BY DEF ConnInv, TypeOKConns, HalfInv, LifeInv
<1> QED BY <1>1, <1>2, <1>3 DEF ConnInv

\* A connection that is refused before it is registered.
LEMMA RefuseKeeps ==
    ASSUME ConnInv, NEW c \in Conns, Refuse(c),
           phase[c] \in {"route", "dial", "report"}
    PROVE  ConnInv'
<1> USE DEF Refuse, copies
<1>1. TypeOKConns'
  <2>1. done' \in [Conns -> BOOLEAN]
    BY Zenon DEF ConnInv, TypeOKConns
  <2> QED BY <2>1 DEF ConnInv, TypeOKConns
<1>2. ASSUME NEW x \in Conns PROVE LifeInv(x)'
  BY ConnsAssumption DEF ConnInv, TypeOKConns, LifeInv
<1>3. ASSUME NEW x \in Conns PROVE HalfInv(x)'
  BY DEF ConnInv, TypeOKConns, HalfInv, LifeInv
<1> QED BY <1>1, <1>2, <1>3 DEF ConnInv

\* A connection that is routed.
LEMMA RouteKeeps ==
    ASSUME ConnInv, NEW c \in Conns, Route(c)
    PROVE  ConnInv'
<1> USE DEF Route, ends, copies
<1>1. TypeOKConns'
  <2>1. done' \in [Conns -> BOOLEAN]
    BY Zenon DEF ConnInv, TypeOKConns
  <2> QED BY <2>1 DEF ConnInv, TypeOKConns
<1>2. ASSUME NEW x \in Conns PROVE LifeInv(x)'
  BY ConnsAssumption DEF ConnInv, TypeOKConns, LifeInv
<1>3. ASSUME NEW x \in Conns PROVE HalfInv(x)'
  BY DEF ConnInv, TypeOKConns, HalfInv, LifeInv
<1> QED BY <1>1, <1>2, <1>3 DEF ConnInv

\* A dial that succeeds.
LEMMA DialKeeps ==
    ASSUME ConnInv, NEW c \in Conns, DialSucceeds(c)
    PROVE  ConnInv'
<1> USE DEF DialSucceeds, copies
<1>1. TypeOKConns'
  <2>1. done' \in [Conns -> BOOLEAN]
    BY Zenon DEF ConnInv, TypeOKConns
  <2> QED BY <2>1 DEF ConnInv, TypeOKConns
<1>2. ASSUME NEW x \in Conns PROVE LifeInv(x)'
  BY ConnsAssumption DEF ConnInv, TypeOKConns, LifeInv
<1>3. ASSUME NEW x \in Conns PROVE HalfInv(x)'
  BY DEF ConnInv, TypeOKConns, HalfInv, LifeInv
<1> QED BY <1>1, <1>2, <1>3 DEF ConnInv

\* A packet connection whose success cannot be reported.
LEMMA DropKeeps ==
    ASSUME ConnInv, NEW c \in Conns, ReportFails(c), c \notin Streams
    PROVE  ConnInv'
<1> USE DEF ReportFails, copies
<1>1. TypeOKConns'
  <2>1. done' \in [Conns -> BOOLEAN]
    BY Zenon DEF ConnInv, TypeOKConns
  <2> QED BY <2>1 DEF ConnInv, TypeOKConns
<1>2. ASSUME NEW x \in Conns PROVE LifeInv(x)'
  BY ConnsAssumption DEF ConnInv, TypeOKConns, LifeInv
<1>3. ASSUME NEW x \in Conns PROVE HalfInv(x)'
  BY DEF ConnInv, TypeOKConns, HalfInv, LifeInv
<1> QED BY <1>1, <1>2, <1>3 DEF ConnInv

\* The two goroutines are started.
LEMMA RegisterKeeps ==
    ASSUME ConnInv, NEW c \in Conns, Register(c)
    PROVE  ConnInv'
<1> USE DEF Register, ends, copies
<1>1. TypeOKConns'
  <2>1. done' \in [Conns -> BOOLEAN]
    BY Zenon DEF ConnInv, TypeOKConns
  <2> QED BY <2>1 DEF ConnInv, TypeOKConns
<1>2. ASSUME NEW x \in Conns PROVE LifeInv(x)'
  BY ConnsAssumption DEF ConnInv, TypeOKConns, LifeInv
<1>3. ASSUME NEW x \in Conns PROVE HalfInv(x)'
  BY DEF ConnInv, TypeOKConns, HalfInv, LifeInv
<1> QED BY <1>1, <1>2, <1>3 DEF ConnInv

\* The first write of an early connection.
LEMMA PreCopyKeeps ==
    ASSUME ConnInv, NEW c \in Conns, PreCopy(c)
    PROVE  ConnInv'
<1> USE DEF PreCopy, PreDone, ends, copies
<1>1. TypeOKConns'
  <2>1. done' \in [Conns -> BOOLEAN]
    BY Zenon DEF ConnInv, TypeOKConns
  <2> QED BY <2>1 DEF ConnInv, TypeOKConns
<1>2. ASSUME NEW x \in Conns PROVE LifeInv(x)'
  BY ConnsAssumption DEF ConnInv, TypeOKConns, LifeInv
<1>3. ASSUME NEW x \in Conns PROVE HalfInv(x)'
  BY DEF ConnInv, TypeOKConns, HalfInv, LifeInv
<1> QED BY <1>1, <1>2, <1>3 DEF ConnInv

\* The first write fails.
LEMMA PreCopyFailsKeeps ==
    ASSUME ConnInv, NEW c \in Conns, PreCopyFails(c)
    PROVE  ConnInv'
<1> USE DEF PreCopyFails, PreDone, OnClose, NoOnClose, CloseBoth, Works
<1>1. TypeOKConns'
  <2>1. done' \in [Conns -> BOOLEAN]
    BY Zenon DEF ConnInv, TypeOKConns
  <2> QED BY <2>1 DEF ConnInv, TypeOKConns
<1>2. ASSUME NEW x \in Conns PROVE LifeInv(x)'
  <2>1. CASE x = c
    <3>1. phase'[c] \in {"preDown", "copy"} /\ c \in Lazy /\ Lazy \subseteq Streams
      BY ConnsAssumption DEF ConnInv, TypeOKConns, LifeInv
    <3>2. returned'[c] = {} /\ finished'[c] = {}
      BY DEF ConnInv, TypeOKConns, LifeInv
    <3> QED BY <2>1, <3>1, <3>2 DEF LifeInv
  <2>2. CASE x # c
    BY <2>2 DEF ConnInv, TypeOKConns, LifeInv
  <2> QED BY <2>1, <2>2
<1>3. ASSUME NEW x \in Conns PROVE HalfInv(x)'
  BY DEF ConnInv, TypeOKConns, HalfInv, LifeInv
<1> QED BY <1>1, <1>2, <1>3 DEF ConnInv

\* A direction ends because its source is finished.
LEMMA CopyEndsKeeps ==
    ASSUME ConnInv, NEW c \in Conns, NEW d \in Dirs, CopyEnds(c, d)
    PROVE  ConnInv'
<1> USE DEF CopyEnds, Copying, Works
<1>1. TypeOKConns'
  <2>1. done' \in [Conns -> BOOLEAN]
    BY Zenon DEF ConnInv, TypeOKConns
  <2> QED BY <2>1 DEF ConnInv, TypeOKConns
<1>2. ASSUME NEW x \in Conns PROVE LifeInv(x)'
  BY ConnsAssumption DEF ConnInv, TypeOKConns, LifeInv
<1>3. ASSUME NEW x \in Conns PROVE HalfInv(x)'
  BY DEF ConnInv, TypeOKConns, HalfInv, LifeInv
<1> QED BY <1>1, <1>2, <1>3 DEF ConnInv

\* A direction ends because an end fails.
LEMMA CopyFailsKeeps ==
    ASSUME ConnInv, NEW c \in Conns, NEW d \in Dirs, CopyFails(c, d)
    PROVE  ConnInv'
<1> USE DEF CopyFails, Copying, CloseBoth, Works
<1>1. TypeOKConns'
  <2>1. done' \in [Conns -> BOOLEAN]
    BY Zenon DEF ConnInv, TypeOKConns
  <2> QED BY <2>1 DEF ConnInv, TypeOKConns
<1>2. ASSUME NEW x \in Conns PROVE LifeInv(x)'
  BY ConnsAssumption DEF ConnInv, TypeOKConns, LifeInv
<1>3. ASSUME NEW x \in Conns PROVE HalfInv(x)'
  BY DEF ConnInv, TypeOKConns, HalfInv, LifeInv
<1> QED BY <1>1, <1>2, <1>3 DEF ConnInv

\* The second of the goroutines closes both ends.
LEMMA FinishKeeps ==
    ASSUME ConnInv, NEW c \in Conns, NEW d \in Dirs, Finish(c, d)
    PROVE  ConnInv'
<1> USE DEF Finish, Return, OnClose, NoOnClose, CloseBoth
<1>1. TypeOKConns'
  <2>1. done' \in [Conns -> BOOLEAN]
    BY Zenon DEF ConnInv, TypeOKConns
  <2> QED BY <2>1 DEF ConnInv, TypeOKConns
<1>2. ASSUME NEW x \in Conns PROVE LifeInv(x)'
  <2>1. CASE x # c
    BY <2>1 DEF ConnInv, TypeOKConns, LifeInv
  <2>2. CASE x = c /\ ~done[c]
    <3>1. phase[c] = "copy" /\ finished[c] = {} /\ c \in Streams
      BY <2>2, ConnsAssumption DEF ConnInv, TypeOKConns, LifeInv
    <3>2. returned'[c] = returned[c] \ {d} /\ finished'[c] = {d}
      BY <3>1 DEF ConnInv, TypeOKConns
    <3>3. phase'[c] = "copy"
      <4>1. finished[c] \cup {d} # Dirs
        BY <3>1
      <4> QED BY <3>1, <4>1, Zenon DEF ConnInv, TypeOKConns
    <3>4. done'[c]
      BY Zenon DEF ConnInv, TypeOKConns
    <3>5. closes'[c] = closes[c] /\ connections' = connections
      BY <2>2
    <3>6. returned'[c] \cap finished'[c] = {} /\ finished'[c] # Dirs /\ finished'[c] # {}
      BY <3>2, ZenonT(30)
    <3>7. c \in Streams \ Lazy => closes[c] = 0
      BY <3>1 DEF ConnInv, LifeInv
    <3> QED BY <2>2, <3>1, <3>3, <3>4, <3>5, <3>6, <3>7, ZenonT(30) DEF LifeInv
  <2>3. CASE x = c /\ done[c]
    BY <2>3, ConnsAssumption DEF ConnInv, TypeOKConns, LifeInv
  <2> QED BY <2>1, <2>2, <2>3
<1>3. ASSUME NEW x \in Conns PROVE HalfInv(x)'
  BY DEF ConnInv, TypeOKConns, HalfInv, LifeInv
<1> QED BY <1>1, <1>2, <1>3 DEF ConnInv

\* A direction of a packet connection ends.
LEMMA PacketCopyEndsKeeps ==
    ASSUME ConnInv, NEW c \in Conns, NEW d \in Dirs, PacketCopyEnds(c, d)
    PROVE  ConnInv'
<1> USE DEF PacketCopyEnds, Copying, Return, OnClose, NoOnClose, CloseBoth, Works
<1>1. TypeOKConns'
  <2>1. done' \in [Conns -> BOOLEAN]
    BY Zenon DEF ConnInv, TypeOKConns
  <2> QED BY <2>1 DEF ConnInv, TypeOKConns
<1>2. ASSUME NEW x \in Conns PROVE LifeInv(x)'
  BY ConnsAssumption DEF ConnInv, TypeOKConns, LifeInv
<1>3. ASSUME NEW x \in Conns PROVE HalfInv(x)'
  BY DEF ConnInv, TypeOKConns, HalfInv, LifeInv
<1> QED BY <1>1, <1>2, <1>3 DEF ConnInv

\* A peer closes its writing side.
LEMMA PeerFinishesKeeps ==
    ASSUME ConnInv, NEW c \in Conns, NEW d \in Dirs, PeerFinishes(c, d)
    PROVE  ConnInv'
<1> USE DEF PeerFinishes, copies
<1>1. TypeOKConns'
  <2>1. done' \in [Conns -> BOOLEAN]
    BY Zenon DEF ConnInv, TypeOKConns
  <2> QED BY <2>1 DEF ConnInv, TypeOKConns
<1>2. ASSUME NEW x \in Conns PROVE LifeInv(x)'
  BY ConnsAssumption DEF ConnInv, TypeOKConns, LifeInv
<1>3. ASSUME NEW x \in Conns PROVE HalfInv(x)'
  BY DEF ConnInv, TypeOKConns, HalfInv, LifeInv
<1> QED BY <1>1, <1>2, <1>3, Zenon DEF ConnInv

\* An end breaks.
LEMMA EndBreaksKeeps ==
    ASSUME ConnInv, NEW c \in Conns, NEW s \in Sides, EndBreaks(c, s)
    PROVE  ConnInv'
<1> USE DEF EndBreaks, copies
<1>1. TypeOKConns'
  <2>1. done' \in [Conns -> BOOLEAN]
    BY Zenon DEF ConnInv, TypeOKConns
  <2> QED BY <2>1 DEF ConnInv, TypeOKConns
<1>2. ASSUME NEW x \in Conns PROVE LifeInv(x)'
  BY ConnsAssumption DEF ConnInv, TypeOKConns, LifeInv
<1>3. ASSUME NEW x \in Conns PROVE HalfInv(x)'
  BY DEF ConnInv, TypeOKConns, HalfInv, LifeInv
<1> QED BY <1>1, <1>2, <1>3, Zenon DEF ConnInv

\* Box.Close closes the inbounds.
LEMMA CloseInboundsKeeps ==
    ASSUME ConnInv, CloseInbounds
    PROVE  ConnInv'
<1> USE DEF CloseInbounds, ends, copies
<1>1. TypeOKConns'
  <2>1. done' \in [Conns -> BOOLEAN]
    BY Zenon DEF ConnInv, TypeOKConns
  <2> QED BY <2>1 DEF ConnInv, TypeOKConns
<1>2. ASSUME NEW x \in Conns PROVE LifeInv(x)'
  BY ConnsAssumption DEF ConnInv, TypeOKConns, LifeInv
<1>3. ASSUME NEW x \in Conns PROVE HalfInv(x)'
  BY DEF ConnInv, TypeOKConns, HalfInv, LifeInv
<1> QED BY <1>1, <1>2, <1>3 DEF ConnInv

\* Box.Close closes every registered connection.
LEMMA CloseManagerKeeps ==
    ASSUME ConnInv, CloseManager
    PROVE  ConnInv'
<1> USE DEF CloseManager, copies
<1>1. TypeOKConns'
  <2>1. done' \in [Conns -> BOOLEAN]
    BY Zenon DEF ConnInv, TypeOKConns
  <2> QED BY <2>1 DEF ConnInv, TypeOKConns
<1>2. ASSUME NEW x \in Conns PROVE LifeInv(x)'
  BY ConnsAssumption DEF ConnInv, TypeOKConns, LifeInv
<1>3. ASSUME NEW x \in Conns PROVE HalfInv(x)'
  BY DEF ConnInv, TypeOKConns, HalfInv, LifeInv
<1> QED BY <1>1, <1>2, <1>3 DEF ConnInv

-----------------------------------------------------------------------------
\* A step of the composition is one of the manager, or leaves it alone.
ConnStep(c) ==
    \/ Accept(c) \/ RouteFails(c) \/ Route(c) \/ DialFails(c) \/ DialSucceeds(c)
    \/ ReportFails(c) \/ Register(c) \/ PreCopy(c) \/ PreCopyFails(c)
    \/ \E d \in Dirs : \/ CopyEnds(c, d) \/ CopyFails(c, d) \/ Finish(c, d)
                       \/ PacketCopyEnds(c, d) \/ PeerFinishes(c, d)
    \/ \E s \in Sides : EndBreaks(c, s)

\* What a step of the composition does to the connections.
LEMMA StepsOfConns ==
    ASSUME [Next]_vars
    PROVE  \/ UNCHANGED connVars
           \/ \E c \in Conns : ConnStep(c)
           \/ CloseInbounds \/ CloseManager
<1>1. CASE \E c \in Conns : Dial(c)
  BY <1>1, Zenon DEF Dial, LookupCache, Lookup, LookupReturns, Connect, ConnStep
<1>2. CASE \E c \in Conns : Steps(Accept(c)) \/ Begin(c) \/ Establish(c)
  BY <1>2 DEF Begin, Establish, Steps, ConnStep
<1>3. CASE \E c \in Conns, d \in Dirs : Copy(c, d) \/ Clean(c, d) \/ Steps(PeerFinishes(c, d))
  BY <1>3 DEF Copy, Clean, Steps, ConnStep
<1>4. CASE \E c \in Conns, s \in Sides : Steps(EndBreaks(c, s))
  BY <1>4 DEF Steps, ConnStep
<1>5. CASE CloseBox
  BY <1>5 DEF CloseBox, Steps
<1>6. CASE \/ \E t \in Tasks : ExchangeStep(t)
           \/ \E q \in Questions : Forget(q) /\ UNCHANGED <<connVars, lookup>>
           \/ UNCHANGED vars
  BY <1>6 DEF ExchangeStep, vars
<1> QED BY <1>1, <1>2, <1>3, <1>4, <1>5, <1>6 DEF Next

\* Every step of the composition keeps the invariant of the connections.
LEMMA ConnInvKept ==
    ASSUME ConnInv, [Next]_vars
    PROVE  ConnInv'
<1>1. CASE UNCHANGED connVars
  <2>1. /\ UNCHANGED <<phase, open, fin, broken, returned, finished>>
        /\ UNCHANGED <<done, closes, connections, box>>
    BY <1>1 DEF connVars, ends, copies
  <2>2. TypeOKConns'
    BY <2>1 DEF ConnInv, TypeOKConns
  <2> QED BY <2>1, <2>2 DEF ConnInv, LifeInv, HalfInv
<1>2. ASSUME NEW c \in Conns, ConnStep(c) PROVE ConnInv'
  <2>1. CASE Accept(c) BY <2>1, AcceptKeeps
  <2>2. CASE RouteFails(c) BY <2>2, RefuseKeeps DEF RouteFails
  <2>3. CASE Route(c) BY <2>3, RouteKeeps
  <2>4. CASE DialFails(c) BY <2>4, RefuseKeeps DEF DialFails
  <2>5. CASE DialSucceeds(c) BY <2>5, DialKeeps
  <2>6. CASE ReportFails(c) BY <2>6, RefuseKeeps, DropKeeps DEF ReportFails
  <2>7. CASE Register(c) BY <2>7, RegisterKeeps
  <2>8. CASE PreCopy(c) BY <2>8, PreCopyKeeps
  <2>9. CASE PreCopyFails(c) BY <2>9, PreCopyFailsKeeps
  <2>10. ASSUME NEW d \in Dirs,
                \/ CopyEnds(c, d) \/ CopyFails(c, d) \/ Finish(c, d)
                \/ PacketCopyEnds(c, d) \/ PeerFinishes(c, d)
         PROVE  ConnInv'
    BY <2>10, CopyEndsKeeps, CopyFailsKeeps, FinishKeeps, PacketCopyEndsKeeps, PeerFinishesKeeps
  <2>11. ASSUME NEW s \in Sides, EndBreaks(c, s) PROVE ConnInv'
    BY <2>11, EndBreaksKeeps
  <2> QED BY <1>2, <2>1, <2>2, <2>3, <2>4, <2>5, <2>6, <2>7, <2>8, <2>9, <2>10, <2>11 DEF ConnStep
<1>3. CASE CloseInbounds BY <1>3, CloseInboundsKeeps
<1>4. CASE CloseManager BY <1>4, CloseManagerKeeps
<1> QED BY <1>1, <1>2, <1>3, <1>4, StepsOfConns

\* A manager without connections satisfies the invariant.
LEMMA ConnInvInit ==
    ASSUME Init
    PROVE  ConnInv
<1> USE DEF Init, InitConns
<1>1. done \in [Conns -> BOOLEAN]
  BY Zenon
<1>2. TypeOKConns
  BY <1>1 DEF TypeOKConns
<1> QED BY <1>2 DEF ConnInv, LifeInv, HalfInv

\* The invariant holds of every behaviour of the composition.
THEOREM ConnectionsInvariant == Spec => []ConnInv
BY ConnInvInit, ConnInvKept, PTL DEF Spec

\* Whatever the two copies, the peers, the handshake and Close do, a connection
\* whose goroutines are gone is closed at both ends, off the list, and its
\* onClose was called, once unless a handshake was owed.
THEOREM ConnectionsReleased == Spec => []Released
<1>1. ASSUME ConnInv PROVE Released
  BY <1>1 DEF ConnInv, LifeInv, Released
<1> QED BY <1>1, ConnectionsInvariant, PTL

\* For any number of connections: done.Swap cannot let the upload that ended
\* first close the remote end under the download.
THEOREM DownloadKept == Spec => []HalfCloseKeepsDownload
<1>1. ASSUME ConnInv PROVE HalfCloseKeepsDownload
  BY <1>1, ConnsAssumption DEF ConnInv, HalfInv, HalfCloseKeepsDownload
<1> QED BY <1>1, ConnectionsInvariant, PTL

\* Every variable of the connections, the lookups and the lock keeps its type,
\* and the list holds no connection before its registration or after its end.
THEOREM ConnTypes == Spec => []TypeOK
<1>1. ASSUME ConnInv PROVE \A c \in connections : phase[c] \in {"preUp", "preDown", "copy"}
  BY <1>1 DEF ConnInv, TypeOKConns, LifeInv
<1>2. ConnInv /\ DNSInv => TypeOK
  BY <1>1 DEF ConnInv, DNSInv, TypeOK
<1> QED BY <1>2, ConnectionsInvariant, LockInvariant, PTL

=============================================================================
