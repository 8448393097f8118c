-------------------------------- MODULE Startup --------------------------------
(***************************************************************************)
(* The agent from the start of its process to the moment it serves: main   *)
(* loads the topology, checks it, fetches the configuration of every node, *)
(* makes the certificates Hysteria2 nodes lack, writes config.json,        *)
(* creates the box and starts its outbounds and inbounds.  Every error on  *)
(* the way is fatal.  Under systemd the process is then started again      *)
(* (Restart=always in the unit install.sh writes); the OpenRC service of   *)
(* install.sh has no supervisor and starts it once.                        *)
(*                                                                         *)
(* Without -topology the configuration is the file the operator wrote, and *)
(* only the box is left to start.                                          *)
(*                                                                         *)
(* The disk survives the process.  A file holds nothing ("none"), the part *)
(* of a write that was interrupted ("torn"), or a whole certificate or key *)
(* of the pair that was there before ("old") or of one generated here      *)
(* ("new").                                                                *)
(***************************************************************************)
EXTENDS OutboundManager

CONSTANTS
    Setups,     \* what the agent may be set up with
    Builds,     \* what builds of the agent contain
    Disks,      \* certificate and key file at the beginning, for every path
    Paths,      \* names of certificate files
    MaxFaults   \* bound: failed calls and crashes together

ASSUME MaxFaultsAssumption == MaxFaults \in Nat

\* A topology is a list of nodes, a configuration file lists outbounds; nothing
\* else is assumed of what the operator writes.  No disk has a torn file yet.
Tag == Seq(STRING)
Node == [id : DOMAIN Safe, type : STRING, tag : DOMAIN Safe, out : STRING]
OutboundOptions == [tag : Tag, kind : STRING, owner : Seq(STRING), detour : Tag]

ASSUME SetupsAssumption ==
    /\ \A s \in Setups :
        /\ s.nodes \in Seq(Node) /\ s.file.outbounds \in Seq(OutboundOptions)
        /\ s.manager \in {"systemd", "OpenRC"}
    /\ {"cert.pem"} \cup ValidIds \subseteq Paths
    /\ Disks \subseteq {"none", "old"} \X {"none", "old"}

VARIABLES
    setup,      \* the topology (nodes) or the configuration without one (file), the
                \* nodes the panel has no usable configuration of (unusable), and
                \* the service manager (manager)
    caps,       \* the capabilities of this build
    proc,       \* where main stands
    node,       \* index of the node generateTopologyConfig works on
    cert, key,  \* what is on the disk
    config,     \* the configuration the box is made of
    listening,  \* inbounds that accept connections
    faults      \* how many faults have happened

mainVars == <<setup, caps, proc, node, cert, key, config, listening, faults>>
vars == <<mainVars, outVars>>

NoConfig == [inbounds |-> <<>>, outbounds |-> <<>>, rules |-> <<>>, final |-> <<>>]

\* -topology is given
IsTopology == setup.nodes # <<>>

Nodes == setup.nodes

Init ==
    /\ setup \in Setups /\ caps \in Builds
    /\ \E d \in Disks : cert = [p \in Paths |-> d[1]] /\ key = [p \in Paths |-> d[2]]
    /\ proc = "off" /\ node = 0 /\ config = NoConfig /\ listening = {}
    /\ faults = 0
    /\ NoOutbounds

-----------------------------------------------------------------------------
(* The process *)

\* The process is gone, and with it everything that is not on the disk.
Exit ==
    /\ proc' = "down" /\ node' = 0 /\ config' = NoConfig /\ listening' = {}
    /\ outbounds' = <<>> /\ started' = {} /\ index' = 1 /\ progress' = FALSE
    /\ tree' = <<>> /\ verdict' = ""

\* log.Fatal
Fatal == Exit /\ UNCHANGED <<setup, caps, cert, key, faults>>

\* The next call fails, or the process is killed.
Crash ==
    /\ proc \notin {"off", "down"}
    /\ faults < MaxFaults
    /\ faults' = faults + 1
    /\ Exit
    /\ UNCHANGED <<setup, caps, cert, key>>

Goto(place) == proc' = place /\ UNCHANGED <<setup, caps, listening, faults, outVars>>

\* The process is started: for the first time, by systemd whenever it has ended,
\* or by hand.
Restart ==
    /\ proc \in {"off", "down"}
    /\ Goto("load") /\ UNCHANGED <<node, cert, key, config>>

-----------------------------------------------------------------------------
(* generateTopologyConfig *)

\* Mutant: off by one.
NextNodeLate == node' = node + 1 /\ Goto(IF node <= Len(Nodes) THEN "fetch" ELSE "write")

\* The next node is fetched, or the configuration written.
NextNode == node' = node + 1 /\ Goto(IF node < Len(Nodes) THEN "fetch" ELSE "write")

\* LoadTopology and validateTopologyCapabilities; without a topology main reads
\* the configuration at once.
Load ==
    /\ proc = "load"
    /\ IF IsTopology
       THEN IF Validate(Nodes) /\ ValidCapabilities(Nodes, caps)
            THEN node' = 1 /\ Goto("fetch") /\ UNCHANGED <<cert, key, config>>
            ELSE Fatal
       ELSE config' = setup.file /\ Goto("options") /\ UNCHANGED <<node, cert, key>>

\* The panel's configuration of a node is one an inbound can be made of: of the
\* node's protocol, of Hysteria version 2, with a port, for VLESS with a key.
Usable(n) == NodeKey(n) \notin setup.unusable

\* FetchNodeConfig (an answer that does not come is a fault), validateNodeProtocol
\* and inboundFromNodeConfig.
Fetch ==
    /\ proc = "fetch"
    /\ IF Usable(Nodes[node])
       THEN /\ IF Nodes[node].type = "hysteria"
               THEN Goto("stat") /\ UNCHANGED node
               ELSE NextNode
            /\ UNCHANGED <<cert, key, config>>
       ELSE Fatal

Path == CertPath(Nodes, Nodes[node])

\* Mutant: the key file is not looked for.
StatCertificate ==
    /\ proc = "stat"
    /\ IF cert[Path] # "none" THEN NextNode ELSE Goto("openCert") /\ UNCHANGED node
    /\ UNCHANGED <<cert, key, config>>

\* ensureSelfSignedCert: nothing is done if both files are there, whatever is in
\* them.
Stat ==
    /\ proc = "stat"
    /\ IF cert[Path] # "none" /\ key[Path] # "none" THEN NextNode ELSE Goto("openCert") /\ UNCHANGED node
    /\ UNCHANGED <<cert, key, config>>

\* Mutant: a certificate that is there is not overwritten.
OpenCertExclusive ==
    /\ proc = "openCert"
    /\ IF cert[Path] = "none"
       THEN /\ cert' = [cert EXCEPT ![Path] = "torn"]
            /\ Goto("writeCert") /\ UNCHANGED <<node, key, config>>
       ELSE Fatal

\* The certificate is opened (and truncated) and written, then the key.
OpenCert ==
    /\ proc = "openCert"
    /\ cert' = [cert EXCEPT ![Path] = "torn"]
    /\ Goto("writeCert") /\ UNCHANGED <<node, key, config>>

WriteCert ==
    /\ proc = "writeCert"
    /\ cert' = [cert EXCEPT ![Path] = "new"]
    /\ Goto("openKey") /\ UNCHANGED <<node, key, config>>

OpenKey ==
    /\ proc = "openKey"
    /\ key' = [key EXCEPT ![Path] = "torn"]
    /\ Goto("writeKey") /\ UNCHANGED <<node, cert, config>>

WriteKey ==
    /\ proc = "writeKey"
    /\ key' = [key EXCEPT ![Path] = "new"]
    /\ NextNode /\ UNCHANGED <<cert, config>>

WriteConfig ==
    /\ proc = "write"
    /\ config' = topologyConfig(Nodes)
    /\ Goto("options") /\ UNCHANGED <<node, cert, key>>

-----------------------------------------------------------------------------
(* The box *)

\* tls.X509KeyPair accepts the two files.
KeyPair(p) == cert[p] = key[p] /\ cert[p] \in {"old", "new"}

Hysteria == {i \in DOMAIN Nodes : Nodes[i].type = "hysteria"}

Kinds(c) == {c.inbounds[i].kind : i \in DOMAIN c.inbounds}
            \cup {c.outbounds[i].kind : i \in DOMAIN c.outbounds}

Known == caps \cup {"direct", "block", "dns"}

UniqueTags(list) ==
    \A i, j \in DOMAIN list : i # j /\ list[i].tag = list[j].tag => list[i].tag = <<>>

\* Mutant: types are not looked up.
loadOptionsAnyType ==
    /\ proc = "options"
    /\ IF /\ UniqueTags(config.inbounds)
          /\ UniqueTags(config.outbounds)
       THEN Goto("new") /\ UNCHANGED <<node, cert, key, config>>
       ELSE Fatal

\* loadOptions reads the file: every type must be registered in this build, and
\* no two tags may be the same (checkOptions; those left out do not count).
loadOptions ==
    /\ proc = "options"
    /\ IF /\ Kinds(config) \subseteq Known
          /\ UniqueTags(config.inbounds)
          /\ UniqueTags(config.outbounds)
       THEN Goto("new") /\ UNCHANGED <<node, cert, key, config>>
       ELSE Fatal

\* direct.NewOutbound refuses a detour.
Constructible(list) == \A i \in DOMAIN list : list[i].kind = "direct" => list[i].detour = <<>>

\* box.New creates every inbound, which loads its certificate, and every
\* outbound, named by its place in the list if it has no tag.
New ==
    /\ proc = "new"
    /\ IF /\ \A i \in Hysteria : KeyPair(CertPath(Nodes, Nodes[i]))
          /\ Constructible(config.outbounds)
       THEN /\ outbounds' = Created(Named(config.outbounds))
            /\ proc' = "outbounds"
            /\ UNCHANGED <<setup, caps, node, cert, key, config, listening, faults,
                           started, index, progress, tree, verdict>>
       ELSE Fatal

\* preStart starts the outbounds before the inbounds.  A default that is not
\* there, or an outbound that cannot be started, closes the box.
StartOutbounds ==
    /\ proc = "outbounds"
    /\ IF config.final \in Tags(outbounds) \cup {<<>>}
       THEN \/ startOutbounds /\ UNCHANGED mainVars
            \/ /\ verdict = "started"
               /\ Goto("inbounds") /\ UNCHANGED <<node, cert, key, config>>
            \/ verdict \in {"circular", "not found"} /\ Fatal
       ELSE Fatal

\* The inbounds listen one after the other, then the box has started.
StartInbounds ==
    /\ proc = "inbounds"
    /\ LET silent == SelectSeq(config.inbounds, LAMBDA i : i.tag \notin listening)
       IN  IF silent = <<>>
           THEN Goto("serving") /\ UNCHANGED <<node, cert, key, config>>
           ELSE /\ listening' = listening \cup {silent[1].tag}
                /\ UNCHANGED <<setup, caps, proc, node, cert, key, config, faults, outVars>>

Main ==
    \/ Load \/ Fetch \/ Stat \/ OpenCert \/ WriteCert \/ OpenKey \/ WriteKey
    \/ WriteConfig \/ loadOptions \/ New \/ StartOutbounds \/ StartInbounds

Next == Restart \/ Main \/ Crash

Spec == Init /\ [][Next]_vars

\* main runs on; the service is started once, and again for as long as systemd
\* looks after it.  Nobody need start it by hand.
FairSpec ==
    /\ Spec
    /\ WF_vars((proc = "off" \/ setup.manager = "systemd") /\ Restart)
    /\ WF_vars(Main)

-----------------------------------------------------------------------------
(* Properties *)

Files == {"none", "torn", "old", "new"}

\* Where main stands agrees with what it works on: while it makes the
\* configuration there is a node to work on, outbounds exist from New on, and
\* nothing listens before they are started.
TypeOK ==
    /\ setup \in Setups /\ caps \in Builds /\ faults \in 0 .. MaxFaults
    /\ cert \in [Paths -> Files] /\ key \in [Paths -> Files]
    /\ proc \in {"fetch", "stat", "openCert", "writeCert", "openKey", "writeKey"} =>
            node \in DOMAIN Nodes
    /\ proc \in {"off", "down", "load"} => config = NoConfig /\ outbounds = <<>>
    /\ started \subseteq Tags(outbounds)
    /\ verdict # "started" => listening = {}

\* The outbound the first matching rule leads the connections of an inbound to
\* (route.go: the rules in order, then the default outbound).
ExitOf(inbound) ==
    LET match == Kept(config.rules, {r \in Range(config.rules) : r.inbound = inbound})
    IN  IF match = <<>> THEN config.final ELSE match[1].outbound

\* As soon as the inbound of a node accepts connections, they leave through the
\* node's own Shadowsocks outbound, created and started, or through the direct
\* outbound if the topology says direct: never through the outbound of another
\* node, never through one that is not there (generateTopologyConfig: "Each
\* inbound gets a stable tag and an inbound-matching route rule to its own
\* direct or Shadowsocks outbound").  What matches no rule is blocked.
OwnExit ==
    IsTopology =>
        /\ listening # {} => Outbound(config.final).kind = "block"
        /\ \A i \in DOMAIN Nodes : InboundTag(Nodes[i]) \in listening =>
            LET exit == ExitOf(InboundTag(Nodes[i]))
            IN  /\ exit \in started
                /\ IF Shadowsocks(Nodes[i])
                   THEN Outbound(exit).owner = NodeKey(Nodes[i])
                   ELSE Outbound(exit).kind = "direct"

\* Both files of a pair are there, but do not make a pair: ensureSelfSignedCert
\* will leave them alone and box.New will not load them.
Torn ==
    \E i \in Hysteria : LET p == CertPath(Nodes, Nodes[i])
                        IN  cert[p] # "none" /\ key[p] # "none" /\ ~KeyPair(p)

\* Without a fault every Hysteria2 inbound finds a certificate that loads,
\* whichever of the two files were there before.
WholePairs ==
    proc = "new" /\ faults = 0 => \A i \in Hysteria : KeyPair(CertPath(Nodes, Nodes[i]))

\* What the agent is set up with can be served by this build.  This is said of
\* the setup alone: the nodes by themselves, with the outbound types as they are
\* meant, and the panel's word on them; or the outbounds of the file.
Fit ==
    IF IsTopology
    THEN /\ Validate(Nodes)
         /\ \A i \in DOMAIN Nodes :
                /\ Usable(Nodes[i])
                /\ Nodes[i].type \in caps
                /\ Shadowsocks(Nodes[i]) => "ss" \in caps
    ELSE /\ Kinds(setup.file) \subseteq Known
         /\ UniqueTags(setup.file.inbounds) /\ UniqueTags(setup.file.outbounds)
         /\ Constructible(setup.file.outbounds)
         /\ LET outs == Created(Named(setup.file.outbounds))
            IN  setup.file.final \in Tags(outs) \cup {<<>>} /\ Sound(outs)

\* Nothing listens unless all of what the agent is set up with can be served:
\* no node alone, no node by way of an outbound this build lacks (main.go:
\* "verify build capabilities BEFORE any box is created").  No single check sees
\* to it: validateTopologyCapabilities misses an outbound type that is written
\* with spaces, which loadOptions finds later, the panel's answers come after
\* both, and the detours are looked at last.
ListensOnlyIfFit == listening # {} \/ proc = "serving" => Fit

\* A fault has ended the process, and the service manager does not mind.
LeftDown == proc = "down" /\ setup.manager = "OpenRC" /\ faults > 0

\* Once the faults are over the agent ends up serving, restarted as often as it
\* takes, with two exceptions: a fault has torn a certificate pair, which no
\* restart repairs, or it was the end under OpenRC.
EventuallyServes == Fit => <>[](proc = "serving" \/ Torn \/ LeftDown)

=============================================================================
