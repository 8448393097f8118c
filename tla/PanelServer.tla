---------------------------- MODULE PanelServer -----------------------------
(***************************************************************************)
(* The reference control plane (panelserver/store.go, server.go) and the   *)
(* agents' client of it (panelapi/control_plane.go): agents are enrolled,  *)
(* get topologies and push batches of traffic that they retry, under the   *)
(* same batch id, until one push is answered.  Fetching a topology only    *)
(* reads the store and is left out, with the revision and the ETag.        *)
(*                                                                         *)
(* A request is handled in two critical sections of the store: requireAgent*)
(* and then the operation; admins and other requests come in between.  The *)
(* secrets of different agents are different: a secret is <<agent, n>>.    *)
(***************************************************************************)
EXTENDS Integers, FiniteSets, Collections

CONSTANTS
    Agents,
    Versions,    \* versions of an agent's secret, 1..n
    Nodes,       \* node keys: protocol and node id
    Users,       \* user ids, the valid ones are > 0
    Batches,     \* batch ids
    Items,       \* batch id -> set of [node, user, bytes]
    Requests     \* requests that can be under way

Topologies == SUBSET Nodes \ {{}}

ASSUME PanelAssumption ==
    /\ Versions \subseteq Nat \ {0}
    /\ \A b \in Batches : /\ IsFiniteSet(Items[b]) /\ Items[b] # {}
                          /\ Items[b] \subseteq [node : Nodes, user : Users, bytes : Int]

VARIABLES
    agents,      \* agent -> version of its secret, 0 if not enrolled
    topologies,  \* agent -> the nodes of its topology, {} if it has none
    usage,       \* agent, node, user -> bytes
    batches,     \* <<agent, batch id>> that were applied
    req,         \* request -> what it is doing
    acked,       \* <<agent, batch id>> whose push was answered with success
    applied      \* history: how often a batch changed the usage

storeVars == <<agents, topologies, usage, batches>>
vars == <<storeVars, req, acked, applied>>

Free == [pc |-> "free"]
Accounts == Agents \X Nodes \X Users
Keys == Agents \X Batches

TypeOK ==
    /\ agents \in [Agents -> Versions \cup {0}]
    /\ topologies \in [Agents -> SUBSET Nodes]
    /\ usage \in [Accounts -> Nat]
    /\ batches \subseteq Keys
    /\ \A r \in Requests : req[r].pc \in {"free", "sent", "authed", "done"}
    /\ acked \subseteq Keys
    /\ applied \in [Keys -> Nat]

Init ==
    /\ agents = [a \in Agents |-> 0]
    /\ topologies = [a \in Agents |-> {}]
    /\ usage = [k \in Accounts |-> 0]
    /\ batches = {}
    /\ req = [r \in Requests |-> Free]
    /\ acked = {}
    /\ applied = [k \in Keys |-> 0]

-----------------------------------------------------------------------------
(* The admin enrols an agent or changes its secret.                        *)
PutAgent(a, v) ==
    /\ agents' = [agents EXCEPT ![a] = v]
    /\ UNCHANGED <<topologies, usage, batches, req, acked, applied>>

(* The admin assigns a topology.                                           *)
PutTopology(a, nodes) ==
    /\ agents[a] # 0
    /\ topologies' = [topologies EXCEPT ![a] = nodes]
    /\ UNCHANGED <<agents, usage, batches, req, acked, applied>>

-----------------------------------------------------------------------------
(* ControlPlaneClient.PushTraffic: the first push of a batch or a retry.   *)
Push(r, a, v, b) ==
    /\ req[r].pc = "free"
    /\ <<a, b>> \notin acked
    /\ req' = [req EXCEPT ![r] = [pc |-> "sent", agent |-> a, secret |-> v, batch |-> b]]
    /\ UNCHANGED <<storeVars, acked, applied>>

AgentBySecret(a, v) == agents[a] = v

(* requireAgent: AgentBySecret under the read lock, or 401.                *)
requireAgent(r) ==
    /\ req[r].pc = "sent"
    /\ req' = [req EXCEPT ![r] =
         IF AgentBySecret(@.agent, @.secret) THEN [@ EXCEPT !.pc = "authed"] ELSE Free]
    /\ UNCHANGED <<storeVars, acked, applied>>

(* Mutant: the sign of the bytes is not looked at.                         *)
ValidItemUnsigned(item, nodes) == item.user > 0 /\ item.node \in nodes

(* An item that ApplyTraffic accepts for an agent with these nodes.        *)
ValidItem(item, nodes) == item.user > 0 /\ item.bytes >= 0 /\ item.node \in nodes

Booked(a, b, k) == {item \in Items[b] : k = <<a, item.node, item.user>>}

Bytes(items) == Total([item \in items |-> item.bytes], items)

(* Mutant: a batch id is known whichever agent used it.                    *)
KnownToAny(a, b) == \E any \in Agents : <<any, b>> \in batches

Known(a, b) == <<a, b>> \in batches

(* Mutant: the items before the bad one are booked.                        *)
ApplyTrafficPartly(r) ==
    LET a == req[r].agent
        b == req[r].batch
        nodes == topologies[a]
        good == {item \in Items[b] : ValidItem(item, nodes)}
        book == ~Known(a, b) /\ topologies[a] # {}
        ok == good = Items[b]
    IN
    /\ req[r].pc = "authed"
    /\ usage' = [k \in Accounts |-> IF book THEN usage[k] + Bytes(Booked(a, b, k) \cap good) ELSE usage[k]]
    /\ batches' = IF book /\ ok THEN batches \cup {<<a, b>>} ELSE batches
    /\ applied' = IF book THEN [applied EXCEPT ![<<a, b>>] = @ + 1] ELSE applied
    /\ req' = [req EXCEPT ![r] = [pc |-> "done", agent |-> a, batch |-> b, ok |-> ok]]
    /\ UNCHANGED <<agents, topologies, acked>>

(* ApplyTraffic under the lock: a known batch is answered with success and *)
(* changes nothing; a batch for an agent without topology, or with one     *)
(* item that is not valid, is refused as a whole.                          *)
ApplyTraffic(r) ==
    LET a == req[r].agent
        b == req[r].batch
        valid == topologies[a] # {} /\ \A item \in Items[b] : ValidItem(item, topologies[a])
        book == ~Known(a, b) /\ valid
    IN
    /\ req[r].pc = "authed"
    /\ usage' = [k \in Accounts |-> IF book THEN usage[k] + Bytes(Booked(a, b, k)) ELSE usage[k]]
    /\ batches' = IF book THEN batches \cup {<<a, b>>} ELSE batches
    /\ applied' = IF book THEN [applied EXCEPT ![<<a, b>>] = @ + 1] ELSE applied
    /\ req' = [req EXCEPT ![r] = [pc |-> "done", agent |-> a, batch |-> b,
                                  ok |-> Known(a, b) \/ valid]]
    /\ UNCHANGED <<agents, topologies, acked>>

(* PushTraffic's answer arrives: success, or an error after which the batch*)
(* is kept.                                                                *)
Answer(r) ==
    /\ req[r].pc = "done"
    /\ acked' = IF req[r].ok THEN acked \cup {<<req[r].agent, req[r].batch>>} ELSE acked
    /\ req' = [req EXCEPT ![r] = Free]
    /\ UNCHANGED <<storeVars, applied>>

(* The connection breaks or times out, before or after the request was     *)
(* handled.                                                                *)
Lost(r) ==
    /\ req[r].pc \in {"sent", "done"}
    /\ req' = [req EXCEPT ![r] = Free]
    /\ UNCHANGED <<storeVars, acked, applied>>

(* The process starts again: NewStore keeps nothing on disk.               *)
Restart ==
    /\ agents' = [a \in Agents |-> 0]
    /\ topologies' = [a \in Agents |-> {}]
    /\ usage' = [k \in Accounts |-> 0]
    /\ batches' = {}
    /\ req' = [r \in Requests |-> Free]
    /\ UNCHANGED <<acked, applied>>

-----------------------------------------------------------------------------
Next ==
    \/ \E a \in Agents :
          \/ \E v \in Versions : PutAgent(a, v)
          \/ \E nodes \in Topologies : PutTopology(a, nodes)
    \/ \E r \in Requests :
          \/ \E a \in Agents, v \in Versions, b \in Batches : Push(r, a, v, b)
          \/ requireAgent(r) \/ ApplyTraffic(r) \/ Answer(r) \/ Lost(r)

Spec == Init /\ [][Next]_vars

(* The panel process may die and be started again.                         *)
RestartSpec == Init /\ [][Next \/ Restart]_vars

-----------------------------------------------------------------------------
Remembered(a) == {b \in Batches : <<a, b>> \in batches}

(* "a rejected batch must leave usage unchanged" and "equal node ids       *)
(* across agents or protocols never share an account" (ApplyTraffic,       *)
(* Usage): through retries, refusals and changes of the topology, the      *)
(* usage of an account is exactly the sum of the batches of its agent that *)
(* the store remembers, each counted once.                                 *)
UsageIsBooked ==
    \A k \in Accounts :
        usage[k] = Total([b \in Batches |-> Bytes(Booked(k[1], b, k))], Remembered(k[1]))

(* "PushTraffic is safe to retry only when BatchID remains stable": a batch*)
(* that an agent was told is accepted, and that it therefore drops, has    *)
(* been booked for that agent.                                             *)
AckedIsBooked == acked \subseteq batches

(* "The panel must persist Idempotency-Key values before applying          *)
(* counters" (ControlPlaneClient.PushTraffic): no batch changes the usage  *)
(* twice.                                                                  *)
AppliedOnce == \A k \in Keys : applied[k] <= 1

=============================================================================
