------------------------------ MODULE DNSClient ------------------------------
(***************************************************************************)
(* The DNS client of the sing-box fork (dns/client.go) as a dial uses it:  *)
(* lookupToExchange and Exchange, with the response cache and the lock     *)
(* that lets one caller ask a question while the others wait for it.       *)
(*                                                                         *)
(* A task is one lookupToExchange: a lookup runs one for the A and one for *)
(* the AAAA question of its domain.  An outcome is reduced to what a       *)
(* dialer sees of it: it has addresses or it is empty (no such name, no    *)
(* record of this type, an error, a time-out).                             *)
(***************************************************************************)
CONSTANTS
    Tasks,      \* calls of lookupToExchange
    Questions,  \* name and type
    Asks,       \* Asks[t]: the question of task t
    NoTask      \* "no lock"

ASSUME TasksAssumption ==
    /\ Asks \in [Tasks -> Questions]
    /\ NoTask \notin Tasks

VARIABLES
    pc,         \* pc[t]: where task t stands
    result,     \* result[t]: what it returns
    cache,      \* cache[q]: the answer kept for q, or "none"
    cacheLock,  \* cacheLock[q]: the task whose channel is stored under q
    cond,       \* cond[t]: the task whose channel t waits for
    queried     \* history: queried[q], how often q was sent to the server, until
                \* an answer is not kept or the cache forgets it ("spoiled")

dnsVars == <<pc, result, cache, cacheLock, cond, queried>>

InitDNS ==
    /\ pc = [t \in Tasks |-> "idle"]
    /\ result = [t \in Tasks |-> "none"]
    /\ cache = [q \in Questions |-> "none"]
    /\ cacheLock = [q \in Questions |-> NoTask]
    /\ cond = [t \in Tasks |-> NoTask]
    /\ queried = [q \in Questions |-> "never"]

-----------------------------------------------------------------------------
\* loadResponse
Cached(q) == cache[q] # "none"

\* A task leaves Exchange with r: the deferred function runs if it stored the
\* lock, and otherwise it is done.
Leave(t, r) ==
    /\ result' = [result EXCEPT ![t] = r]
    /\ pc' = [pc EXCEPT ![t] = IF cacheLock[Asks[t]] = t THEN "delete" ELSE "done"]

\* lookupToExchange looks into the cache first (questionCache).
QuestionCache(t) ==
    /\ pc[t] = "asked"
    /\ pc' = [pc EXCEPT ![t] = IF Cached(Asks[t]) THEN "done" ELSE "exchange"]
    /\ result' = [result EXCEPT ![t] = cache[Asks[t]]]
    /\ UNCHANGED <<cache, cacheLock, cond, queried>>

\* cond, loaded := c.cacheLock.LoadOrStore(question, make(chan struct{}))
LoadOrStore(t) ==
    /\ pc[t] = "exchange"
    /\ IF cacheLock[Asks[t]] = NoTask
       THEN /\ cacheLock' = [cacheLock EXCEPT ![Asks[t]] = t]
            /\ pc' = [pc EXCEPT ![t] = "load"]
            /\ UNCHANGED cond
       ELSE /\ cond' = [cond EXCEPT ![t] = cacheLock[Asks[t]]]
            /\ pc' = [pc EXCEPT ![t] = "wait"]
            /\ UNCHANGED cacheLock
    /\ UNCHANGED <<result, cache, queried>>

\* Mutant: the cache is not read again.
LoadResponseBlind(t) ==
    /\ pc[t] = "load"
    /\ pc' = [pc EXCEPT ![t] = "query"]
    /\ queried' = [queried EXCEPT ![Asks[t]] =
            CASE @ = "never" -> "once" [] @ = "once" -> "again" [] OTHER -> @]
    /\ UNCHANGED <<result, cache, cacheLock, cond>>

\* The cache is read again under the lock, and by a task that waited; if the
\* answer is not there the query is sent, whoever holds the lock.
LoadResponse(t) ==
    /\ pc[t] = "load"
    /\ IF Cached(Asks[t])
       THEN Leave(t, cache[Asks[t]]) /\ UNCHANGED queried
       ELSE /\ pc' = [pc EXCEPT ![t] = "query"]
            /\ queried' = [queried EXCEPT ![Asks[t]] =
                    CASE @ = "never" -> "once" [] @ = "once" -> "again" [] OTHER -> @]
            /\ UNCHANGED result
    /\ UNCHANGED <<cache, cacheLock, cond>>

\* transport.Exchange returns an answer that storeCache keeps, ...
Answered(t, r) ==
    /\ pc[t] = "query"
    /\ cache' = [cache EXCEPT ![Asks[t]] = r]
    /\ Leave(t, r)
    /\ UNCHANGED <<cacheLock, cond, queried>>

\* ... one it does not keep (a TTL of 0), or no answer at all: an error, the
\* time-out, or an rcode other than success and NXDOMAIN.
NotKept(t, r) ==
    /\ pc[t] = "query"
    /\ queried' = [queried EXCEPT ![Asks[t]] = "spoiled"]
    /\ Leave(t, r)
    /\ UNCHANGED <<cache, cacheLock, cond>>

\* The deferred function: c.cacheLock.Delete(question), then close(cond).
DeleteLock(t) ==
    /\ pc[t] = "delete"
    /\ cacheLock' = [cacheLock EXCEPT ![Asks[t]] = NoTask]
    /\ pc' = [pc EXCEPT ![t] = "close"]
    /\ UNCHANGED <<result, cache, cond, queried>>

\* Mutant: the channel is not closed.
CloseCondLost(t) ==
    /\ pc[t] = "close"
    /\ pc' = [pc EXCEPT ![t] = "done"]
    /\ UNCHANGED <<result, cache, cacheLock, cond, queried>>

CloseCond(t) ==
    /\ pc[t] = "close"
    /\ pc' = [u \in Tasks |->
                CASE u = t -> "done"
                  [] u # t /\ pc[u] = "wait" /\ cond[u] = t -> "load"
                  [] OTHER -> pc[u]]
    /\ cond' = [u \in Tasks |-> IF cond[u] = t THEN NoTask ELSE cond[u]]
    /\ UNCHANGED <<result, cache, cacheLock, queried>>

\* An entry expires, is evicted, or goes with the whole cache (ClearCache).
Forget(q) ==
    /\ Cached(q)
    /\ cache' = [cache EXCEPT ![q] = "none"]
    /\ queried' = [queried EXCEPT ![q] = "spoiled"]
    /\ UNCHANGED <<pc, result, cacheLock, cond>>

Exchange(t) ==
    \/ QuestionCache(t) \/ LoadOrStore(t) \/ LoadResponse(t)
    \/ \E r \in {"addrs", "empty"} : Answered(t, r) \/ NotKept(t, r)
    \/ DeleteLock(t) \/ CloseCond(t)

-----------------------------------------------------------------------------
(* Properties *)

TypeOKDNS ==
    /\ pc \in [Tasks -> {"idle", "asked", "exchange", "wait", "load", "query",
                         "delete", "close", "done"}]
    /\ result \in [Tasks -> {"none", "addrs", "empty"}]
    /\ cache \in [Questions -> {"none", "addrs", "empty"}]
    /\ cacheLock \in [Questions -> Tasks \cup {NoTask}]
    /\ cond \in [Tasks -> Tasks \cup {NoTask}]
    /\ queried \in [Questions -> {"never", "once", "again", "spoiled"}]

\* However many connections ask for the same name at once, the question goes out
\* once, as long as its answer can be kept and stays in the cache: the lock
\* keeps the others out and the cache is read again before a query is sent.
AskedOnce == \A q \in Questions : queried[q] # "again"

=============================================================================
