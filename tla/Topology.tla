------------------------------- MODULE Topology -------------------------------
(***************************************************************************)
(* The topology file of multi-node mode and the sing-box configuration     *)
(* main makes of it (panelapi/topology.go, capabilities.go and             *)
(* generateTopologyConfig).                                                *)
(*                                                                         *)
(* A node is a record with the fields id, type, tag and out.  A tag is the *)
(* sequence of the words it joins with "-", the empty tag being <<>>.      *)
(* Names stay abstract: Safe gives the words safeTagPart leaves of a name, *)
(* which may be the same for two different names.  type is the normalized  *)
(* node type; out is the outbound type, "padded" being a shadowsocks type  *)
(* written with spaces around it, "bad" one that is unsupported or lacks a *)
(* field.                                                                  *)
(***************************************************************************)
EXTENDS Collections

CONSTANTS
    Safe,       \* Safe[name]: safeTagPart(name)
    ValidIds    \* the ids validateNodeID accepts

ASSUME SafeAssumption ==
    DOMAIN Safe \subseteq STRING /\ \A name \in DOMAIN Safe : Safe[name] \in Seq(STRING)

-----------------------------------------------------------------------------
(* Names *)

\* normalizeNodeType names the protocol, and the tags say hy2 for hysteria.
Protocol(n) == IF n.type = "hysteria" THEN "hy2" ELSE n.type

NodeKey(n) == <<n.type, n.id>>

InboundTag(n) ==
    IF Safe[n.tag] # <<>> THEN Safe[n.tag] ELSE <<Protocol(n)>> \o Safe[n.id] \o <<"in">>

OutboundTag(n) == <<"node", Protocol(n)>> \o Safe[n.id] \o <<"out">>

Shadowsocks(n) == n.out \in {"ss", "padded"}

\* Validate rejects the first node that repeats the key, the inbound tag or the
\* outbound tag of one before it, or that is unsound by itself.
ValidNode(n) ==
    /\ n.id \in ValidIds
    /\ n.type \in {"vless", "hysteria"}
    /\ n.out = "direct" \/ Shadowsocks(n)

Validate(nodes) ==
    /\ nodes # <<>>
    /\ \A i \in DOMAIN nodes : ValidNode(nodes[i])
    /\ \A i, j \in DOMAIN nodes : i # j =>
            /\ NodeKey(nodes[i]) # NodeKey(nodes[j])
            /\ InboundTag(nodes[i]) # InboundTag(nodes[j])
            /\ OutboundTag(nodes[i]) # OutboundTag(nodes[j])

\* validateTopologyCapabilities compares the outbound type as it is written,
\* where Validate and generateTopologyConfig trim it first.
ValidCapabilities(nodes, caps) ==
    \A i \in DOMAIN nodes :
        /\ nodes[i].type \in caps
        /\ nodes[i].out = "ss" => "ss" \in caps

-----------------------------------------------------------------------------
(* The generated configuration *)

\* With more than one node every Hysteria2 node has certificate files of its own.
CertPath(nodes, n) == IF Len(nodes) > 1 THEN n.id ELSE "cert.pem"

\* The outbound a node's rule names: its own, or the common direct one.
RuleTag(n) == IF Shadowsocks(n) THEN OutboundTag(n) ELSE <<"direct">>

\* Outbounds carry the node they were made for; the three common ones belong to
\* nobody.
CommonOutbounds ==
    << [tag |-> <<"direct">>, kind |-> "direct", owner |-> <<>>, detour |-> <<>>],
       [tag |-> <<"block">>, kind |-> "block", owner |-> <<>>, detour |-> <<>>],
       [tag |-> <<"dns", "out">>, kind |-> "dns", owner |-> <<>>, detour |-> <<>>] >>

outboundFromNodeSpec(n) ==
    [tag |-> OutboundTag(n), kind |-> "ss", owner |-> NodeKey(n), detour |-> <<>>]

\* Mutant: the outbound type is compared as it is written.
topologyConfigUntrimmed(nodes) ==
    LET outs == Kept(nodes, {n \in Range(nodes) : n.out = "ss"})
    IN  [inbounds  |-> [i \in DOMAIN nodes |->
                            [tag |-> InboundTag(nodes[i]), kind |-> nodes[i].type,
                             owner |-> NodeKey(nodes[i])]],
         outbounds |-> CommonOutbounds
                        \o [i \in DOMAIN outs |-> outboundFromNodeSpec(outs[i])],
         rules     |-> [i \in DOMAIN nodes |->
                            [inbound |-> InboundTag(nodes[i]), outbound |-> RuleTag(nodes[i])]],
         final     |-> <<"block">>]

topologyConfig(nodes) ==
    LET outs == Kept(nodes, {n \in Range(nodes) : Shadowsocks(n)})
    IN  [inbounds  |-> [i \in DOMAIN nodes |->
                            [tag |-> InboundTag(nodes[i]), kind |-> nodes[i].type,
                             owner |-> NodeKey(nodes[i])]],
         outbounds |-> CommonOutbounds
                        \o [i \in DOMAIN outs |-> outboundFromNodeSpec(outs[i])],
         rules     |-> [i \in DOMAIN nodes |->
                            [inbound |-> InboundTag(nodes[i]), outbound |-> RuleTag(nodes[i])]],
         final     |-> <<"block">>]

=============================================================================
