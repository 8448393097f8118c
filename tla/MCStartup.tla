------------------------------- MODULE MCStartup -------------------------------
(***************************************************************************)
(* Topologies of one and two nodes out of a pool in which keys, inbound    *)
(* tags and outbound tags collide in every way two nodes can, and          *)
(* hand-written configurations in which every outbound dials through any   *)
(* of the three, through one that is missing, or directly.                 *)
(***************************************************************************)
EXTENDS Startup

\* "a.b" and "a b" leave the same words; the tag "vless-1-in" is the one node 1
\* gets without a tag of its own, "!" leaves nothing.
MCSafe ==
    [name \in {"", "1", "a.b", "a b", "../1", "vless-1-in", "!"} |->
        CASE name \in {"", "!"} -> <<>>
          [] name \in {"1", "../1"} -> <<"1">>
          [] name \in {"a.b", "a b"} -> <<"a", "b">>
          [] name = "vless-1-in" -> <<"vless", "1", "in">>]

MCValidIds == {"1", "a.b", "a b"}

MCPaths == {"cert.pem"} \cup MCValidIds

MCNode(id, type, tag, out) == [id |-> id, type |-> type, tag |-> tag, out |-> out]

Pool ==
    { MCNode("1", "vless", "", "direct"), MCNode("1", "vless", "!", "ss"),
      MCNode("1", "hysteria", "", "ss"), MCNode("1", "hysteria", "vless-1-in", "direct"),
      MCNode("a.b", "vless", "", "ss"), MCNode("a b", "vless", "1", "ss"),
      MCNode("a b", "hysteria", "", "direct"), MCNode("a.b", "hysteria", "", "padded"),
      MCNode("../1", "vless", "", "direct"), MCNode("1", "trojan", "", "direct"),
      MCNode("a b", "vless", "", "bad") }

NoFile == [inbounds |-> <<>>, outbounds |-> <<>>, rules |-> <<>>, final |-> <<>>]

MCSetup(nodes, file, unusable, manager) ==
    [nodes |-> nodes, file |-> file, unusable |-> unusable, manager |-> manager]

\* Every topology under systemd, and those of one node under OpenRC; the panel
\* serves every node, or none with the id "1".
Broken == {<<"vless", "1">>, <<"hysteria", "1">>}

Topologies ==
    {MCSetup(<<m>>, NoFile, u, s) : m \in Pool, u \in {{}, Broken}, s \in {"systemd", "OpenRC"}}
    \cup {MCSetup(<<m, n>>, NoFile, u, "systemd") : m, n \in Pool, u \in {{}, Broken}}

\* The third outbound is of the kind given, the others of kind ss.
File(tags, kind, detours, final) ==
    [inbounds |-> <<[tag |-> <<"in">>, kind |-> "vless", owner |-> <<>>]>>,
     outbounds |-> [i \in 1 .. 3 |-> [tag |-> tags[i], kind |-> IF i = 3 THEN kind ELSE "ss",
                                      owner |-> <<>>, detour |-> detours[i]]],
     rules |-> <<>>, final |-> final]

Names == << <<"x">>, <<"2">>, <<>> >>

Detours == {<<>>, <<"x">>, <<"y">>, <<"z">>, <<"gone">>}

HandWritten ==
    {File(<< <<"x">>, <<"y">>, <<"z">> >>, "ss", d, <<>>) : d \in [1 .. 3 -> Detours]}
    \cup {File(<< <<"x">>, <<"y">>, <<"z">> >>, "direct", << <<>>, <<"z">>, d>>, <<>>) : d \in Detours}
    \cup {File(Names, "ss", <<d, <<>>, <<>> >>, f) : d, f \in {<<>>, <<"2">>, <<"gone">>}}
    \cup {File(<< <<"x">>, <<"x">>, <<"z">> >>, "ss", << <<>>, <<>>, <<>> >>, <<>>)}

Configurations == {MCSetup(<<>>, f, {}, "systemd") : f \in HandWritten}

MCSetups == Topologies \cup Configurations

MCBuilds == {{"vless"}, {"vless", "hysteria"}, {"hysteria", "ss"}, {"vless", "hysteria", "ss"}}

MCDisks == {<<"none", "none">>, <<"old", "old">>, <<"old", "none">>, <<"none", "old">>}

=============================================================================
