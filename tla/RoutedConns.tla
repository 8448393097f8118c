----------------------------- MODULE RoutedConns -----------------------------
(***************************************************************************)
(* Connections from the accept to their end: the router hands them to the  *)
(* ConnectionManager, whose dial resolves the destination through the      *)
(* DNSClient (common/dialer/resolve.go and dns/router.go) before it        *)
(* connects.                                                               *)
(***************************************************************************)
EXTENDS ConnectionManager, DNSClient

CONSTANTS
    Types,      \* Types[c]: the record types the dial of c asks for, by the
                \* domain strategy of its outbound: A, AAAA or both
    Domain,     \* Domain[c]: the name c is to reach, or NoDomain
    NoDomain    \* the destination is an IP address

ASSUME LookupAssumption == Tasks = UNION {{c} \X Types[c] : c \in Conns}

VARIABLE lookup \* lookup[c]: "none", "asking", or "resolved"

vars == <<connVars, dnsVars, lookup>>

Init == InitConns /\ InitDNS /\ lookup = [c \in Conns |-> "none"]

TasksOf(c) == {c} \X Types[c]
QuestionsOf(c) == {Asks[t] : t \in TasksOf(c)}

Resolved(c) == lookup' = [lookup EXCEPT ![c] = "resolved"]

-----------------------------------------------------------------------------
(* The dial *)

\* Router.Lookup answers from the cache when it holds an answer to every
\* question (LookupCache), ...
LookupCache(c) ==
    /\ phase[c] = "dial" /\ lookup[c] = "none" /\ Domain[c] # NoDomain
    /\ \A q \in QuestionsOf(c) : Cached(q)
    /\ IF \E q \in QuestionsOf(c) : cache[q] = "addrs"
       THEN Resolved(c) /\ UNCHANGED connVars
       ELSE DialFails(c) /\ UNCHANGED lookup
    /\ UNCHANGED dnsVars

\* ... and asks otherwise, one task per type in a group.
Lookup(c) ==
    /\ phase[c] = "dial" /\ lookup[c] = "none" /\ Domain[c] # NoDomain
    /\ \E q \in QuestionsOf(c) : ~Cached(q)
    /\ lookup' = [lookup EXCEPT ![c] = "asking"]
    /\ pc' = [t \in Tasks |-> IF t \in TasksOf(c) THEN "asked" ELSE pc[t]]
    /\ UNCHANGED <<connVars, result, cache, cacheLock, cond, queried>>

\* The group has returned, its tasks are gone: one type with addresses is enough.
LookupReturns(c) ==
    /\ phase[c] = "dial" /\ lookup[c] = "asking"
    /\ \A t \in TasksOf(c) : pc[t] = "done"
    /\ IF \E t \in TasksOf(c) : result[t] = "addrs"
       THEN Resolved(c) /\ UNCHANGED connVars
       ELSE DialFails(c) /\ UNCHANGED lookup
    /\ pc' = [t \in Tasks |-> IF t \in TasksOf(c) THEN "idle" ELSE pc[t]]
    /\ result' = [t \in Tasks |-> IF t \in TasksOf(c) THEN "none" ELSE result[t]]
    /\ UNCHANGED <<cache, cacheLock, cond, queried>>

\* The addresses are tried, or the IP address the client named; block refuses
\* at once.
Connect(c) ==
    /\ Domain[c] = NoDomain \/ lookup[c] = "resolved"
    /\ DialSucceeds(c) \/ DialFails(c)
    /\ UNCHANGED <<dnsVars, lookup>>

Dial(c) == LookupCache(c) \/ Lookup(c) \/ LookupReturns(c) \/ Connect(c)

-----------------------------------------------------------------------------
Steps(A) == A /\ UNCHANGED <<dnsVars, lookup>>

Begin(c) == Steps(RouteFails(c) \/ Route(c))
Establish(c) == Steps(ReportFails(c) \/ Register(c) \/ PreCopy(c) \/ PreCopyFails(c))
Copy(c, d) == Steps(CopyEnds(c, d) \/ CopyFails(c, d) \/ PacketCopyEnds(c, d))
Clean(c, d) == Steps(Finish(c, d))
CloseBox == Steps(CloseInbounds \/ CloseManager)
ExchangeStep(t) == Exchange(t) /\ UNCHANGED <<connVars, lookup>>

Next ==
    \/ \E c \in Conns :
        \/ Steps(Accept(c)) \/ Begin(c) \/ Dial(c) \/ Establish(c)
        \/ \E d \in Dirs : Copy(c, d) \/ Clean(c, d) \/ Steps(PeerFinishes(c, d))
        \/ \E s \in Sides : Steps(EndBreaks(c, s))
    \/ \E t \in Tasks : ExchangeStep(t)
    \/ \E q \in Questions : Forget(q) /\ UNCHANGED <<connVars, lookup>>
    \/ CloseBox

Spec == Init /\ [][Next]_vars

\* A read that has something to return, be it the end or an error, returns; a
\* write fails only when there is something to write, so a copy whose source
\* stays silent may wait.
Silent(c, s) == Works(c, s) /\ s \notin fin[c]

\* Every goroutine runs on when it can: the one that serves c up to its copies,
\* the two that copy, the tasks of a lookup; dials and queries end by their
\* time-outs.  Nothing is assumed of the peers, of new connections and of the
\* signal that closes the box, except that Box.Close, once begun, goes on.
Fairness ==
    /\ \A c \in Conns : WF_vars(Begin(c) \/ Dial(c) \/ Establish(c))
    /\ \A c \in Conns, d \in Dirs : WF_vars((~Silent(c, Source(d)) /\ Copy(c, d)) \/ Clean(c, d))
    /\ \A t \in Tasks : WF_vars(ExchangeStep(t))
    /\ WF_vars(Steps(CloseManager))

FairSpec == Spec /\ Fairness

-----------------------------------------------------------------------------
(* Properties *)

\* Besides the types: the list holds only connections whose handshake has been
\* reported and whose copies are not over, the ones whose onClose takes them out.
TypeOK ==
    /\ TypeOKConns
    /\ \A c \in connections : phase[c] \in {"preUp", "preDown", "copy"}
    /\ TypeOKDNS
    /\ lookup \in [Conns -> {"none", "asking", "resolved"}]

\* Nobody waits for ever on the way to the copies: a connection that was
\* accepted is copied or refused, whatever the other connections asking for the
\* same name run into (a caller that waits for another's query is released when
\* that query fails).
DialReturns ==
    \A c \in Conns : (phase[c] = "route") ~> (phase[c] \in {"copy", "ended", "dropped"})

\* Closing the box ends the connections the manager has listed, both directions
\* and both ends.  Close shuts the client's end only, so one kind of listed
\* stream outlives it: the one whose client had finished sending, whose
\* destination stays silent.  (The connections that are still dialling are not
\* in the list and may outlive it as well.)
CloseEndsListed ==
    \A c \in Conns :
        (box = "closing" /\ c \in connections)
            ~> (phase[c] = "ended" \/ (finished[c] = {"up"} /\ Silent(c, "remote")))

=============================================================================
