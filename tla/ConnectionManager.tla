-------------------------- MODULE ConnectionManager --------------------------
(***************************************************************************)
(* The connection manager of the sing-box fork (route/conn.go): it dials   *)
(* the destination of a routed connection, enters the client's connection  *)
(* in its list, runs one copy goroutine per direction, and on Close cuts   *)
(* everything listed.                                                      *)
(*                                                                         *)
(* A connection has two ends, the client's ("local") and the               *)
(* destination's ("remote").  What the peers send is left out: an end is   *)
(* open or closed by the agent, its peer may have finished sending (EOF),  *)
(* and it may be broken (reset, idle time-out, or cut by the removal of    *)
(* its user).                                                              *)
(***************************************************************************)
EXTENDS Naturals, FiniteSets

CONSTANTS
    Conns,      \* connections and packet connections accepted by the inbounds
    Streams,    \* those of them that go through NewConnection
    Lazy,       \* streams whose handshake is still owed when they are copied
    Duplex      \* Duplex[c]: the ends of c that implement CloseWrite

Sides == {"local", "remote"}
Dirs == {"up", "down"}

ASSUME ConnsAssumption ==
    /\ Streams \subseteq Conns
    /\ Lazy \subseteq Streams
    /\ Duplex \in [Conns -> SUBSET Sides]

VARIABLES
    phase,        \* phase[c]: where the goroutines of c stand
    open,         \* open[c]: the ends the agent has opened and not closed
    fin,          \* fin[c]: the ends at which an EOF waits to be read
    broken,       \* broken[c]: the ends on which reads and writes fail
    returned,     \* returned[c]: directions whose copy is over, before the swap
    finished,     \* finished[c]: directions whose goroutine has returned
    done,         \* done[c]: the atomic flag the two directions share
    closes,       \* closes[c]: how often onClose was called
    connections,  \* the manager's list
    box           \* how far Box.Close has come

ends == <<open, fin, broken>>
copies == <<returned, finished, done>>
connVars == <<phase, ends, copies, closes, connections, box>>

Over(c) == returned[c] \cup finished[c]

Source(d) == IF d = "up" THEN "local" ELSE "remote"
Destination(d) == IF d = "up" THEN "remote" ELSE "local"

InitConns ==
    /\ phase = [c \in Conns |-> "none"]
    /\ open = [c \in Conns |-> {}]
    /\ fin = [c \in Conns |-> {}]
    /\ broken = [c \in Conns |-> {}]
    /\ returned = [c \in Conns |-> {}]
    /\ finished = [c \in Conns |-> {}]
    /\ done = [c \in Conns |-> FALSE]
    /\ closes = [c \in Conns |-> 0]
    /\ connections = {}
    /\ box = "serving"

-----------------------------------------------------------------------------
(* Up to the registration *)

\* A listener accepts a connection and starts its goroutine.  The inbounds are
\* the first thing Box.Close closes.
Accept(c) ==
    /\ box = "serving"
    /\ phase[c] = "none"
    /\ phase' = [phase EXCEPT ![c] = "route"]
    /\ open' = [open EXCEPT ![c] = {"local"}]
    /\ UNCHANGED <<fin, broken, copies, closes, connections, box>>

\* N.CloseOnHandshakeFailure(conn, onClose, err), after closing the remote end
\* if there is one.
Refuse(c) ==
    /\ phase' = [phase EXCEPT ![c] = "ended"]
    /\ open' = [open EXCEPT ![c] = {}]
    /\ closes' = [closes EXCEPT ![c] = @ + 1]
    /\ UNCHANGED <<fin, broken, copies, connections, box>>

\* routeConnection and routePacketConnection either return an error (rejected,
\* outbound not found, network not supported), and RouteConnectionEx refuses
\* the connection, or hand it to the manager.
RouteFails(c) == phase[c] = "route" /\ Refuse(c)

Route(c) ==
    /\ phase[c] = "route"
    /\ phase' = [phase EXCEPT ![c] = "dial"]
    /\ UNCHANGED <<ends, copies, closes, connections, box>>

DialFails(c) == phase[c] = "dial" /\ Refuse(c)

\* Mutant: the connection is listed before its handshake is reported.
DialSucceedsListed(c) ==
    /\ phase[c] = "dial"
    /\ phase' = [phase EXCEPT ![c] = "report"]
    /\ open' = [open EXCEPT ![c] = @ \cup {"remote"}]
    /\ connections' = connections \cup {c}
    /\ UNCHANGED <<fin, broken, copies, closes, box>>

DialSucceeds(c) ==
    /\ phase[c] = "dial"
    /\ phase' = [phase EXCEPT ![c] = "report"]
    /\ open' = [open EXCEPT ![c] = @ \cup {"remote"}]
    /\ UNCHANGED <<fin, broken, copies, closes, connections, box>>

\* The client cannot be told of the success.  NewConnection refuses the stream;
\* NewPacketConnection closes both ends and returns, and nobody calls onClose.
ReportFails(c) ==
    /\ phase[c] = "report"
    /\ \/ c \in Streams /\ Refuse(c)
       \/ /\ c \notin Streams
          /\ phase' = [phase EXCEPT ![c] = "dropped"]
          /\ open' = [open EXCEPT ![c] = {}]
          /\ UNCHANGED <<fin, broken, copies, closes, connections, box>>

\* The handshake is reported and the connection listed; a lazy stream owes the
\* handshake in both directions before its copies start.  Nothing asks whether
\* the manager is closed already.
Register(c) ==
    /\ phase[c] = "report"
    /\ connections' = connections \cup {c}
    /\ phase' = [phase EXCEPT ![c] = IF c \in Lazy THEN "preUp" ELSE "copy"]
    /\ UNCHANGED <<ends, copies, closes, box>>

-----------------------------------------------------------------------------
(* The copy goroutines *)

\* common.Close(source, destination)
CloseBoth(c) == open' = [open EXCEPT ![c] = {}]

\* The onClose the manager passes on: the caller's, then the removal from the
\* list.
OnClose(c) ==
    /\ closes' = [closes EXCEPT ![c] = @ + 1]
    /\ connections' = connections \ {c}

NoOnClose == UNCHANGED <<closes, connections>>

Works(c, s) == s \in open[c] /\ s \notin broken[c]

\* preConnectionCopy for the direction whose turn it is: the early write is done
\* or timed out, or it fails and both ends are closed.  The copies start either
\* way.
PreDone(c) ==
    phase' = [phase EXCEPT ![c] = IF @ = "preUp" THEN "preDown" ELSE "copy"]

PreCopy(c) ==
    /\ phase[c] \in {"preUp", "preDown"}
    /\ PreDone(c)
    /\ UNCHANGED <<ends, copies, closes, connections, box>>

PreCopyFails(c) ==
    /\ phase[c] \in {"preUp", "preDown"}
    /\ ~(Works(c, "local") /\ Works(c, "remote"))
    /\ PreDone(c)
    /\ IF done[c] THEN OnClose(c) ELSE NoOnClose
    /\ done' = [done EXCEPT ![c] = TRUE]
    /\ CloseBoth(c)
    /\ UNCHANGED <<fin, broken, returned, finished, box>>

Copying(c, d) == phase[c] = "copy" /\ d \notin Over(c)

\* CopyWithCounters returns nil at the end of the source.  The destination is
\* told by CloseWrite where it knows how (a failing CloseWrite closes both
\* ends), and closed otherwise.
CopyEnds(c, d) ==
    /\ c \in Streams
    /\ Copying(c, d)
    /\ Works(c, Source(d)) /\ Source(d) \in fin[c]
    /\ LET dst == Destination(d)
       IN  open' = [open EXCEPT ![c] =
                        CASE dst \notin Duplex[c] -> @ \ {dst}
                          [] dst \in Duplex[c] /\ Works(c, dst) -> @
                          [] OTHER -> {}]
    /\ fin' = [fin EXCEPT ![c] = @ \ {Source(d)}]
    /\ returned' = [returned EXCEPT ![c] = @ \cup {d}]
    /\ UNCHANGED <<phase, broken, finished, done, closes, connections, box>>

\* CopyWithCounters, or the write of a cached payload, fails (after a failed
\* payload the ends are closed behind the swap, once, instead of before it).
CopyFails(c, d) ==
    /\ c \in Streams
    /\ Copying(c, d)
    /\ ~(Works(c, "local") /\ Works(c, "remote"))
    /\ CloseBoth(c)
    /\ fin' = [fin EXCEPT ![c] = @ \ {Source(d)}]
    /\ returned' = [returned EXCEPT ![c] = @ \cup {d}]
    /\ UNCHANGED <<phase, broken, finished, done, closes, connections, box>>

\* The goroutine of direction d returns; the connection is over with the second,
\* and what its goroutines kept goes with them.
Return(c, d) ==
    LET last == finished[c] \cup {d} = Dirs
    IN  /\ finished' = [finished EXCEPT ![c] = @ \cup {d}]
        /\ phase' = [phase EXCEPT ![c] = IF last THEN "ended" ELSE @]
        /\ fin' = [fin EXCEPT ![c] = IF last THEN {} ELSE @]
        /\ broken' = [broken EXCEPT ![c] = IF last THEN {} ELSE @]

\* Mutants: the second direction forgets to close the ends, or the first one
\* cleans up.
FinishNoClose(c, d) ==
    /\ d \in returned[c]
    /\ returned' = [returned EXCEPT ![c] = @ \ {d}]
    /\ done' = [done EXCEPT ![c] = TRUE]
    /\ IF done[c] THEN OnClose(c) ELSE NoOnClose
    /\ Return(c, d)
    /\ UNCHANGED <<open, box>>

FinishFirst(c, d) ==
    /\ d \in returned[c]
    /\ returned' = [returned EXCEPT ![c] = @ \ {d}]
    /\ done' = [done EXCEPT ![c] = TRUE]
    /\ IF done[c] THEN NoOnClose /\ UNCHANGED open ELSE OnClose(c) /\ CloseBoth(c)
    /\ Return(c, d)
    /\ UNCHANGED box

\* if done.Swap(true) { onClose(err); common.Close(source, destination) }: the
\* second direction to get here cleans up.
Finish(c, d) ==
    /\ d \in returned[c]
    /\ returned' = [returned EXCEPT ![c] = @ \ {d}]
    /\ done' = [done EXCEPT ![c] = TRUE]
    /\ IF done[c] THEN OnClose(c) /\ CloseBoth(c) ELSE NoOnClose /\ UNCHANGED open
    /\ Return(c, d)
    /\ UNCHANGED box

\* packetConnectionCopy: the first direction to end calls onClose, and each
\* closes both ends.
PacketCopyEnds(c, d) ==
    /\ c \notin Streams
    /\ Copying(c, d)
    /\ ~(Works(c, "local") /\ Works(c, "remote"))
    /\ done' = [done EXCEPT ![c] = TRUE]
    /\ IF done[c] THEN NoOnClose ELSE OnClose(c)
    /\ CloseBoth(c)
    /\ Return(c, d)
    /\ UNCHANGED <<returned, box>>

-----------------------------------------------------------------------------
(* The peers, and the end of the box *)

\* The peer of an open end finishes sending, or the end stops working, while a
\* goroutine is there to notice.
PeerFinishes(c, d) ==
    /\ c \in Streams
    /\ phase[c] \in {"preUp", "preDown", "copy"}
    /\ d \notin Over(c)
    /\ Source(d) \in open[c] \ fin[c]
    /\ fin' = [fin EXCEPT ![c] = @ \cup {Source(d)}]
    /\ UNCHANGED <<phase, open, broken, copies, closes, connections, box>>

EndBreaks(c, s) ==
    /\ phase[c] \in {"preUp", "preDown", "copy"}
    /\ Over(c) # Dirs
    /\ s \in open[c] \ broken[c]
    /\ broken' = [broken EXCEPT ![c] = @ \cup {s}]
    /\ UNCHANGED <<phase, open, fin, copies, closes, connections, box>>

\* Box.Close: the inbounds first ...
CloseInbounds ==
    /\ box = "serving"
    /\ box' = "closing"
    /\ UNCHANGED <<phase, ends, copies, closes, connections>>

\* Mutant: the list is emptied, nothing is closed.
CloseManagerForgets ==
    /\ box = "closing"
    /\ box' = "closed"
    /\ connections' = {}
    /\ UNCHANGED <<phase, ends, copies, closes>>

\* ... and later ConnectionManager.Close, which closes the listed connections
\* and empties the list.  There is no flag that keeps later ones out of it.
CloseManager ==
    /\ box = "closing"
    /\ box' = "closed"
    /\ open' = [c \in Conns |-> IF c \in connections THEN open[c] \ {"local"} ELSE open[c]]
    /\ connections' = {}
    /\ UNCHANGED <<phase, fin, broken, copies, closes>>

-----------------------------------------------------------------------------
(* Properties *)

TypeOKConns ==
    /\ phase \in [Conns -> {"none", "route", "dial", "report", "preUp", "preDown",
                            "copy", "ended", "dropped"}]
    /\ open \in [Conns -> SUBSET Sides]
    /\ fin \in [Conns -> SUBSET Sides]
    /\ broken \in [Conns -> SUBSET Sides]
    /\ returned \in [Conns -> SUBSET Dirs]
    /\ finished \in [Conns -> SUBSET Dirs]
    /\ done \in [Conns -> BOOLEAN]
    /\ closes \in [Conns -> Nat]
    /\ connections \subseteq Conns
    /\ box \in {"serving", "closing", "closed"}

\* A connection whose goroutines are gone leaves nothing behind: both its ends
\* are closed, the list does not hold it, and its onClose was called, which is
\* what takes it out of the inbound's table of its user.  It was called once,
\* except for a stream whose handshake failed after it was listed.  Left out is
\* the packet connection that could not report its success ("dropped"): its ends
\* are closed, and its onClose is never called.
Released ==
    \A c \in Conns :
        /\ phase[c] \in {"ended", "dropped"} => open[c] = {} /\ c \notin connections
        /\ phase[c] = "ended" => closes[c] > 0 /\ (c \in Lazy \/ closes[c] = 1)

\* A client that finishes sending still gets its answer: as long as no end
\* breaks and the manager is not closed, a remote end that knows CloseWrite is
\* closed only after the download has come to its own end.
HalfCloseKeepsDownload ==
    \A c \in Streams :
        /\ phase[c] = "copy" /\ "remote" \in Duplex[c]
        /\ broken[c] = {} /\ box # "closed"
        /\ "remote" \notin open[c]
        => "down" \in Over(c)

=============================================================================
