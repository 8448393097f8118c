---------------------------- MODULE PanelProofs -----------------------------
(***************************************************************************)
(* The control plane's books, for any agents, nodes, batches and requests. *)
(***************************************************************************)
EXTENDS PanelServer, CollectionProofs

(* Pushes that have not been handled yet.                                  *)
Pushes == [pc : {"sent", "authed"}, agent : Agents, secret : Versions, batch : Batches]

(* What is known of a request under way.                                   *)
Requested(r) ==
    /\ req[r].pc \in {"free", "sent", "authed", "done"}
    /\ req[r].pc # "free" => req[r].agent \in Agents /\ req[r].batch \in Batches
    /\ req[r].pc \in {"sent", "authed"} => req[r] \in Pushes

RequestInv ==
    /\ req = [r \in Requests |-> req[r]]
    /\ \A r \in Requests : Requested(r)

(* The invariant of the store through its restarts.                        *)
PanelInv ==
    /\ TypeOK
    /\ RequestInv
    /\ \A a \in Agents : IsFiniteSet(Remembered(a))
    /\ UsageIsBooked

(* A push that will be answered with success has been booked.              *)
PushInv ==
    /\ AckedIsBooked
    /\ \A r \in Requests : req[r].pc = "done" /\ req[r].ok =>
          <<req[r].agent, req[r].batch>> \in batches

-----------------------------------------------------------------------------
(* Sums of bytes.                                                          *)

(* What a batch books on an account is an integer.                         *)
LEMMA BytesInt ==
    ASSUME NEW b \in Batches, NEW a, NEW k
    PROVE  Bytes(Booked(a, b, k)) \in Int
<1> DEFINE S == Booked(a, b, k)
           f == [item \in S |-> item.bytes]
<1>1. S \subseteq Items[b] /\ IsFiniteSet(S)
  BY PanelAssumption, FS_Subset DEF Booked
<1>2. \A item \in S : f[item] \in Int
  BY <1>1, PanelAssumption
<1> HIDE DEF S, f
<1>3. Total(f, S) \in Int
  BY <1>1, <1>2, TotalInt
<1> QED BY <1>3 DEF S, f, Bytes

(* ... and not negative once every item has been found valid.              *)
LEMMA BytesNat ==
    ASSUME NEW b \in Batches, NEW a, NEW k, NEW nodes,
           \A item \in Items[b] : ValidItem(item, nodes)
    PROVE  Bytes(Booked(a, b, k)) \in Nat
<1> DEFINE S == Booked(a, b, k)
           f == [item \in S |-> item.bytes]
<1>1. S \subseteq Items[b] /\ IsFiniteSet(S)
  BY PanelAssumption, FS_Subset DEF Booked
<1>2. \A item \in S : f[item] \in Nat
  BY <1>1, PanelAssumption DEF ValidItem
<1> HIDE DEF S, f
<1>3. Total(f, S) \in Nat
  BY <1>1, <1>2, TotalNat
<1> QED BY <1>3 DEF S, f, Bytes

(* A batch books nothing on another agent's accounts.                      *)
LEMMA BytesOther ==
    ASSUME NEW a, NEW b, NEW k, k[1] # a
    PROVE  Bytes(Booked(a, b, k)) = 0
<1>1. Booked(a, b, k) = {}
  BY DEF Booked
<1> QED BY <1>1, TotalEmpty DEF Bytes

-----------------------------------------------------------------------------
\* An empty store satisfies the invariant.
LEMMA PanelInit == Init => PanelInv /\ PushInv
<1> SUFFICES ASSUME Init PROVE PanelInv /\ PushInv
  OBVIOUS
<1>1. TypeOK
  BY PanelAssumption DEF Init, TypeOK, Free
<1>2. RequestInv
  BY DEF Init, RequestInv, Requested, Free
<1>3. \A a \in Agents : Remembered(a) = {}
  BY DEF Init, Remembered
<1>4. \A a \in Agents : IsFiniteSet(Remembered(a))
  BY <1>3, FS_EmptySet
<1>5. UsageIsBooked
  <2> SUFFICES ASSUME NEW k \in Accounts
               PROVE  usage[k] = Total([b \in Batches |-> Bytes(Booked(k[1], b, k))], Remembered(k[1]))
    BY DEF UsageIsBooked
  <2>1. Remembered(k[1]) = {}
    BY DEF Init, Remembered
  <2>2. usage[k] = 0
    BY DEF Init
  <2> QED BY <2>1, <2>2, TotalEmpty
<1>6. PushInv
  BY DEF Init, PushInv, AckedIsBooked, Free
<1> QED BY <1>1, <1>2, <1>4, <1>5, <1>6 DEF PanelInv

(* ApplyTraffic keeps the types and the books.                             *)
LEMMA ApplyTrafficBooks ==
    ASSUME PanelInv, NEW r \in Requests, ApplyTraffic(r)
    PROVE  /\ usage' \in [Accounts -> Nat]
           /\ batches' \subseteq Keys /\ batches \subseteq batches'
           /\ applied' \in [Keys -> Nat]
           /\ \A a \in Agents : IsFiniteSet(Remembered(a)')
           /\ UsageIsBooked'
<1> DEFINE a == req[r].agent
           b == req[r].batch
           valid == topologies[a] # {} /\ \A item \in Items[b] : ValidItem(item, topologies[a])
           book == ~Known(a, b) /\ valid
<1>1. a \in Agents /\ b \in Batches /\ <<a, b>> \in Keys
  <2>1. req[r].pc = "authed"
    BY DEF ApplyTraffic
  <2> QED BY <2>1 DEF PanelInv, RequestInv, Requested, Keys
<1>2. CASE book
  <2>1. /\ usage' = [k \in Accounts |-> usage[k] + Bytes(Booked(a, b, k))]
        /\ batches' = batches \cup {<<a, b>>}
        /\ applied' = [applied EXCEPT ![<<a, b>>] = @ + 1]
    BY <1>2 DEF ApplyTraffic
  <2>2. /\ <<a, b>> \notin batches
        /\ \A item \in Items[b] : ValidItem(item, topologies[a])
    BY <1>2 DEF Known
  <2> HIDE DEF a, b, valid, book
  <2>3. \A k \in Accounts : Bytes(Booked(a, b, k)) \in Nat
    BY <1>1, <2>2, BytesNat
  <2>4. usage' \in [Accounts -> Nat] /\ batches' \subseteq Keys /\ applied' \in [Keys -> Nat]
    <3>1. usage \in [Accounts -> Nat] /\ batches \subseteq Keys /\ applied \in [Keys -> Nat]
      BY DEF PanelInv, TypeOK
    <3>2. usage' \in [Accounts -> Nat]
      BY <2>1, <2>3, <3>1
    <3>3. batches' \subseteq Keys
      BY <1>1, <2>1, <3>1
    <3>4. applied' \in [Keys -> Nat]
      BY <1>1, <2>1, <3>1
    <3> QED BY <3>2, <3>3, <3>4
  <2>5. ASSUME NEW c \in Agents
        PROVE  Remembered(c)' = IF c = a THEN Remembered(a) \cup {b} ELSE Remembered(c)
    BY <1>1, <2>1 DEF Remembered
  <2>6. \A c \in Agents : IsFiniteSet(Remembered(c)')
    BY <1>1, <2>5, FS_AddElement DEF PanelInv
  <2>7. ASSUME NEW k \in Accounts
        PROVE  usage'[k] = Total([x \in Batches |-> Bytes(Booked(k[1], x, k))], Remembered(k[1])')
    <3> DEFINE f == [x \in Batches |-> Bytes(Booked(k[1], x, k))]
    <3>1. k[1] \in Agents
      BY DEF Accounts
    <3>2. usage[k] = Total(f, Remembered(k[1]))
      BY DEF PanelInv, UsageIsBooked
    <3>3. usage'[k] = usage[k] + Bytes(Booked(a, b, k))
      BY <2>1
    <3>4. CASE k[1] = a
      <4>1. f[b] = Bytes(Booked(a, b, k))
        BY <1>1, <3>4
      <4>2. \A x \in Remembered(a) \cup {b} : f[x] \in Int
        BY <1>1, BytesInt DEF Remembered
      <4>3. IsFiniteSet(Remembered(a)) /\ b \notin Remembered(a)
        BY <1>1, <2>2 DEF PanelInv, Remembered
      <4> HIDE DEF f
      <4>4. Total(f, Remembered(a) \cup {b}) = Total(f, Remembered(a)) + f[b]
        BY <4>2, <4>3, TotalAdd
      <4>5. Remembered(k[1])' = Remembered(a) \cup {b}
        BY <2>5, <3>1, <3>4
      <4>6. usage'[k] = Total(f, Remembered(k[1])')
        BY <3>2, <3>3, <3>4, <4>1, <4>4, <4>5
      <4> QED BY <4>6 DEF f
    <3>5. CASE k[1] # a
      <4>1. Bytes(Booked(a, b, k)) = 0
        BY <3>5, BytesOther
      <4>2. Remembered(k[1])' = Remembered(k[1])
        BY <2>5, <3>1, <3>5
      <4>3. usage[k] \in Nat
        BY DEF PanelInv, TypeOK
      <4> HIDE DEF f
      <4>4. usage'[k] = Total(f, Remembered(k[1])')
        BY <3>2, <3>3, <4>1, <4>2, <4>3
      <4> QED BY <4>4 DEF f
    <3> QED BY <3>4, <3>5
  <2>8. UsageIsBooked'
    BY <2>7 DEF UsageIsBooked
  <2> QED BY <2>1, <2>4, <2>6, <2>8
<1>3. CASE ~book
  <2>1. usage' = [k \in Accounts |-> usage[k]] /\ batches' = batches /\ applied' = applied
    BY <1>3 DEF ApplyTraffic
  <2>2. usage' = usage
    BY <2>1 DEF PanelInv, TypeOK
  <2>3. \A c : Remembered(c)' = Remembered(c)
    BY <2>1 DEF Remembered
  <2> QED BY <2>1, <2>2, <2>3 DEF PanelInv, TypeOK, UsageIsBooked
<1> QED BY <1>2, <1>3

-----------------------------------------------------------------------------
(* A step that leaves usage and batches alone leaves the books right.      *)
LEMMA BooksSame ==
    ASSUME PanelInv, UNCHANGED <<usage, batches>>
    PROVE  (\A a \in Agents : IsFiniteSet(Remembered(a)')) /\ UsageIsBooked'
<1>1. \A c : Remembered(c)' = Remembered(c)
  BY DEF Remembered
<1> QED BY <1>1 DEF PanelInv, UsageIsBooked

(* One request changes.                                                    *)
LEMMA RequestStep ==
    ASSUME RequestInv, NEW r \in Requests, NEW new, req' = [req EXCEPT ![r] = new], Requested(r)'
    PROVE  RequestInv'
<1>1. req = [q \in Requests |-> req[q]]
  BY DEF RequestInv
<1>2. req' = [q \in Requests |-> req'[q]] /\ \A q \in Requests \ {r} : req'[q] = req[q]
  BY <1>1
<1>3. \A q \in Requests : Requested(q)'
  BY <1>2 DEF RequestInv, Requested
<1> QED BY <1>2, <1>3 DEF RequestInv

(* Every step keeps what is known of the requests.                         *)
LEMMA RequestsStep == ASSUME RequestInv, Next \/ Restart PROVE RequestInv'
<1>0. \A r \in Requests : Requested(r)
  BY DEF RequestInv
<1>1. ASSUME NEW a \in Agents, \/ \E v \in Versions : PutAgent(a, v)
                              \/ \E nodes \in Topologies : PutTopology(a, nodes)
      PROVE  RequestInv'
  BY <1>1 DEF PutAgent, PutTopology, RequestInv, Requested
<1>2. ASSUME NEW r \in Requests, NEW a \in Agents, NEW v \in Versions, NEW b \in Batches, Push(r, a, v, b)
      PROVE  RequestInv'
  <2> DEFINE new == [pc |-> "sent", agent |-> a, secret |-> v, batch |-> b]
  <2>1. req' = [req EXCEPT ![r] = new]
    BY <1>2 DEF Push
  <2>2. req'[r] = new
    BY <2>1 DEF RequestInv
  <2>3. Requested(r)'
    BY <2>2 DEF Requested, Pushes
  <2> QED BY <2>1, <2>3, RequestStep, Zenon
<1>3. ASSUME NEW r \in Requests, requireAgent(r) PROVE RequestInv'
  <2> DEFINE new == IF AgentBySecret(req[r].agent, req[r].secret) THEN [req[r] EXCEPT !.pc = "authed"] ELSE Free
  <2>1. req' = [req EXCEPT ![r] = new] /\ req[r] \in Pushes
    BY <1>0, <1>3 DEF requireAgent, Requested
  <2>2. req'[r] = new
    BY <2>1 DEF RequestInv
  <2>3. Requested(r)'
    BY <2>1, <2>2 DEF Requested, Pushes, Free
  <2> QED BY <2>1, <2>3, RequestStep, Zenon
<1>4. ASSUME NEW r \in Requests, ApplyTraffic(r) PROVE RequestInv'
  <2> DEFINE a == req[r].agent
             b == req[r].batch
  <2>1. PICK ok : req' = [req EXCEPT ![r] = [pc |-> "done", agent |-> a, batch |-> b, ok |-> ok]]
    BY <1>4, Zenon DEF ApplyTraffic
  <2>2. req'[r] = [pc |-> "done", agent |-> a, batch |-> b, ok |-> ok] /\ req[r].pc = "authed"
    BY <1>4, <2>1 DEF RequestInv, ApplyTraffic
  <2>3. Requested(r)'
    BY <1>0, <2>2 DEF Requested
  <2> QED BY <2>1, <2>3, RequestStep, Zenon
<1>5. ASSUME NEW r \in Requests, Answer(r) \/ Lost(r) PROVE RequestInv'
  <2>1. req' = [req EXCEPT ![r] = Free]
    BY <1>5 DEF Answer, Lost
  <2>2. req'[r] = Free
    BY <2>1 DEF RequestInv
  <2>3. Requested(r)'
    BY <2>2 DEF Requested, Free
  <2> QED BY <2>1, <2>3, RequestStep, Zenon
<1>6. ASSUME Restart PROVE RequestInv'
  BY <1>6 DEF Restart, RequestInv, Requested, Free
<1> QED BY <1>1, <1>2, <1>3, <1>4, <1>5, <1>6 DEF Next

-----------------------------------------------------------------------------
(* The types and the books.                                                *)
LEMMA PanelStep == ASSUME PanelInv, Next \/ Restart PROVE PanelInv'
<1>0. RequestInv' /\ \A r \in Requests : Requested(r)'
  BY RequestsStep DEF PanelInv, RequestInv
<1>1. \A r \in Requests : req'[r].pc \in {"free", "sent", "authed", "done"}
  BY <1>0 DEF Requested
<1>2. ASSUME NEW a \in Agents, NEW v \in Versions, PutAgent(a, v) PROVE PanelInv'
  BY <1>0, <1>1, <1>2, BooksSame DEF PutAgent, PanelInv, TypeOK
<1>3. ASSUME NEW a \in Agents, NEW nodes \in Topologies, PutTopology(a, nodes) PROVE PanelInv'
  <2>1. topologies' \in [Agents -> SUBSET Nodes]
    BY <1>3 DEF PutTopology, PanelInv, TypeOK, Topologies
  <2> QED BY <1>0, <1>1, <1>3, <2>1, BooksSame DEF PutTopology, PanelInv, TypeOK
<1>4. ASSUME NEW r \in Requests, ApplyTraffic(r) PROVE PanelInv'
  <2>1. UNCHANGED <<agents, topologies, acked>>
    BY <1>4 DEF ApplyTraffic
  <2> QED BY <1>0, <1>1, <1>4, <2>1, ApplyTrafficBooks DEF PanelInv, TypeOK
<1>5. ASSUME NEW r \in Requests, Answer(r) PROVE PanelInv'
  <2>1. UNCHANGED <<storeVars, applied>> /\ req[r].pc = "done"
    BY <1>5 DEF Answer
  <2>2. acked' \subseteq Keys
    <3>1. acked \subseteq Keys /\ Requested(r)
      BY DEF PanelInv, TypeOK, RequestInv
    <3> QED BY <1>5, <2>1, <3>1 DEF Answer, Requested, Keys
  <2> QED BY <1>0, <1>1, <2>1, <2>2, BooksSame DEF PanelInv, TypeOK, storeVars
<1>6. ASSUME NEW r \in Requests,
             \/ \E a \in Agents, v \in Versions, b \in Batches : Push(r, a, v, b)
             \/ requireAgent(r) \/ Lost(r)
      PROVE  PanelInv'
  <2>1. UNCHANGED <<storeVars, acked, applied>>
    BY <1>6, Zenon DEF Push, requireAgent, Lost
  <2> QED BY <1>0, <1>1, <2>1, BooksSame DEF PanelInv, TypeOK, storeVars
<1>7. ASSUME Restart PROVE PanelInv'
  <2>1. TypeOK'
    BY <1>1, <1>7, PanelAssumption DEF Restart, PanelInv, TypeOK
  <2>2. \A c : Remembered(c)' = {}
    BY <1>7 DEF Restart, Remembered
  <2>3. \A a \in Agents : IsFiniteSet(Remembered(a)')
    BY <2>2, FS_EmptySet
  <2>4. ASSUME NEW k \in Accounts
        PROVE  usage'[k] = Total([b \in Batches |-> Bytes(Booked(k[1], b, k))], Remembered(k[1])')
    <3>1. usage'[k] = 0 /\ Remembered(k[1])' = {}
      BY <1>7, <2>2 DEF Restart
    <3> QED BY <3>1, TotalEmpty
  <2>5. UsageIsBooked'
    BY <2>4 DEF UsageIsBooked
  <2> QED BY <1>0, <2>1, <2>3, <2>5 DEF PanelInv
<1> QED BY <1>2, <1>3, <1>4, <1>5, <1>6, <1>7 DEF Next

(* Pushes, as long as the store keeps its memory.                          *)
LEMMA PushStep == ASSUME PanelInv, PushInv, Next PROVE PushInv'
<1>0. req = [r \in Requests |-> req[r]] /\ \A r \in Requests : Requested(r)
  BY DEF PanelInv, RequestInv
<1>1. ASSUME NEW r \in Requests, ApplyTraffic(r) PROVE PushInv'
  <2> DEFINE a == req[r].agent
             b == req[r].batch
             valid == topologies[a] # {} /\ \A item \in Items[b] : ValidItem(item, topologies[a])
  <2>1. /\ batches' = IF ~Known(a, b) /\ valid THEN batches \cup {<<a, b>>} ELSE batches
        /\ UNCHANGED acked
    BY <1>1 DEF ApplyTraffic
  <2>2. req' = [req EXCEPT ![r] = [pc |-> "done", agent |-> a, batch |-> b,
                                  ok |-> Known(a, b) \/ valid]]
    BY <1>1 DEF ApplyTraffic
  <2> HIDE DEF a, b, valid
  <2>3. /\ req'[r].agent = a /\ req'[r].batch = b
        /\ \A q \in Requests \ {r} : req'[q] = req[q]
    BY <1>0, <2>2
  <2>4. req'[r].ok => Known(a, b) \/ valid
    <3>1. req'[r] = [pc |-> "done", agent |-> a, batch |-> b, ok |-> Known(a, b) \/ valid]
      BY <1>0, <2>2, Zenon
    <3>2. req'[r].ok = (Known(a, b) \/ valid)
      BY <3>1
    <3> QED BY <3>2, Zenon
  <2>5. Known(a, b) \/ valid => <<a, b>> \in batches'
    BY <2>1 DEF Known
  <2>6. batches \subseteq batches'
    BY <2>1
  <2> QED BY <2>1, <2>3, <2>4, <2>5, <2>6 DEF PushInv, AckedIsBooked
<1>2. ASSUME NEW r \in Requests, Answer(r) PROVE PushInv'
  <2>1. UNCHANGED batches /\ req[r].pc = "done"
    BY <1>2 DEF Answer, storeVars
  <2>2. req'[r].pc = "free" /\ \A q \in Requests \ {r} : req'[q] = req[q]
    BY <1>0, <1>2 DEF Answer, Free
  <2>3. acked' \subseteq batches
    BY <1>2, <2>1 DEF Answer, PushInv, AckedIsBooked
  <2> QED BY <2>1, <2>2, <2>3 DEF PushInv, AckedIsBooked
<1>3. ASSUME NEW r \in Requests,
             \/ \E a \in Agents, v \in Versions, b \in Batches : Push(r, a, v, b)
             \/ requireAgent(r) \/ Lost(r)
      PROVE  PushInv'
  <2>1. UNCHANGED <<batches, acked>>
    BY <1>3, Zenon DEF Push, requireAgent, Lost, storeVars
  <2>2. \A q \in Requests \ {r} : req'[q] = req[q]
    BY <1>0, <1>3, Zenon DEF Push, requireAgent, Lost
  <2>3. req'[r].pc # "done"
    <3>1. ASSUME requireAgent(r) PROVE req'[r].pc # "done"
      <4>1. req[r] \in Pushes
        BY <1>0, <3>1 DEF requireAgent, Requested
      <4> QED BY <1>0, <3>1, <4>1 DEF requireAgent, Free, Pushes
    <3>2. ASSUME Lost(r) PROVE req'[r].pc # "done"
      BY <1>0, <3>2 DEF Lost, Free
    <3>3. ASSUME NEW a \in Agents, NEW v \in Versions, NEW b \in Batches, Push(r, a, v, b)
          PROVE  req'[r].pc # "done"
      BY <1>0, <3>3 DEF Push
    <3> QED BY <1>3, <3>1, <3>2, <3>3
  <2> QED BY <2>1, <2>2, <2>3 DEF PushInv, AckedIsBooked
<1>4. ASSUME NEW a \in Agents, \/ \E v \in Versions : PutAgent(a, v)
                              \/ \E nodes \in Topologies : PutTopology(a, nodes)
      PROVE  PushInv'
  BY <1>4 DEF PutAgent, PutTopology, PushInv, AckedIsBooked
<1> QED BY <1>1, <1>2, <1>3, <1>4 DEF Next

(* Nothing happens.                                                        *)
LEMMA PanelSame ==
    ASSUME UNCHANGED vars
    PROVE  (PanelInv => PanelInv') /\ (PushInv => PushInv')
<1>1. UNCHANGED <<agents, topologies, usage, batches, req, acked, applied>>
  BY DEF vars, storeVars
<1>2. ASSUME PanelInv PROVE PanelInv'
  <2>1. TypeOK'
    BY <1>1, <1>2 DEF PanelInv, TypeOK
  <2>2. RequestInv'
    BY <1>1, <1>2 DEF PanelInv, RequestInv, Requested
  <2> QED BY <1>1, <1>2, <2>1, <2>2, BooksSame DEF PanelInv
<1>3. PushInv => PushInv'
  BY <1>1 DEF PushInv, AckedIsBooked
<1> QED BY <1>2, <1>3

-----------------------------------------------------------------------------
(* The invariant of the store, also through restarts.                      *)
THEOREM StoreInvariant == RestartSpec => []PanelInv
<1>1. PanelInv /\ [Next \/ Restart]_vars => PanelInv'
  BY PanelStep, PanelSame
<1> QED BY <1>1, PanelInit, PTL DEF RestartSpec

(* A run without restarts is one of the runs with restarts.                *)
LEMMA NoRestart == Spec => RestartSpec
<1>1. [Next]_vars => [Next \/ Restart]_vars
  OBVIOUS
<1> QED BY <1>1, PTL DEF Spec, RestartSpec

(* The variables of the control plane keep their types.                    *)
THEOREM PanelTypes == Spec => []TypeOK
<1>1. PanelInv => TypeOK
  BY DEF PanelInv
<1> QED BY <1>1, NoRestart, StoreInvariant, PTL

(* ApplyTraffic keeps exact books, for any agents, batches, retries and    *)
(* topology changes: what an account shows is the sum of the batches of    *)
(* its agent that the store remembers, each counted once.                  *)
THEOREM UsageExact == Spec => []UsageIsBooked
<1>1. PanelInv => UsageIsBooked
  BY DEF PanelInv
<1> QED BY <1>1, NoRestart, StoreInvariant, PTL

(* A batch that an agent was told is accepted has been booked for it, as   *)
(* long as the store is not restarted.                                     *)
THEOREM AnsweredPushIsBooked == Spec => []AckedIsBooked
<1>1. Init => PanelInv /\ PushInv
  BY PanelInit
<1>2. (PanelInv /\ PushInv) /\ [Next]_vars => (PanelInv /\ PushInv)'
  BY PanelStep, PushStep, PanelSame
<1>3. PushInv => AckedIsBooked
  BY DEF PushInv
<1> QED BY <1>1, <1>2, <1>3, PTL DEF Spec

=============================================================================
