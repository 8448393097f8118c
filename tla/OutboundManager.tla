---------------------------- MODULE OutboundManager ----------------------------
(***************************************************************************)
(* The outbounds of a box (adapter/outbound/manager.go): Create, the       *)
(* default outbound, and startOutbounds, which starts an outbound only     *)
(* after the one it dials through (its detour, the only dependency an      *)
(* outbound of this build can have).                                       *)
(***************************************************************************)
EXTENDS Topology, TLC

VARIABLES
    outbounds,  \* the manager's list, in the order of creation
    started,    \* tags startOutbounds has started
    index,      \* the outbound of the pass it looks at
    progress,   \* canContinue: something was started in this pass
    tree,       \* the path lintOutbound has walked
    verdict     \* "", or how startOutbounds ended

outVars == <<outbounds, started, index, progress, tree, verdict>>

NoOutbounds ==
    /\ outbounds = <<>> /\ started = {} /\ index = 1 /\ progress = FALSE
    /\ tree = <<>> /\ verdict = ""

Tags(outs) == {outs[i].tag : i \in DOMAIN outs}

\* An outbound without a tag is named by its index, counted from 0.
Named(outs) ==
    [i \in DOMAIN outs |->
        IF outs[i].tag = <<>> THEN [outs[i] EXCEPT !.tag = <<ToString(i - 1)>>] ELSE outs[i]]

\* Create removes an outbound of the same tag from the list and appends the new
\* one, so the last outbound of a tag is the one that stays.
Created(outs) ==
    LET last == {i \in DOMAIN outs : \A j \in DOMAIN outs : j > i => outs[j].tag # outs[i].tag}
        kept == Kept([i \in DOMAIN outs |-> i], last)
    IN  [k \in DOMAIN kept |-> outs[kept[k]]]

\* Manager.Outbound(tag)
IndexOf(tag) == CHOOSE i \in DOMAIN outbounds : outbounds[i].tag = tag
Outbound(tag) == outbounds[IndexOf(tag)]

-----------------------------------------------------------------------------
\* Mutant: the detour need only exist.
StartOutboundKnown ==
    /\ verdict = "" /\ tree = <<>>
    /\ index <= Len(outbounds)
    /\ LET out == outbounds[index]
           ready == out.tag \notin started /\ out.detour \in Tags(outbounds) \cup {<<>>}
       IN  /\ started' = IF ready THEN started \cup {out.tag} ELSE started
           /\ progress' = (progress \/ ready)
    /\ index' = index + 1
    /\ UNCHANGED <<outbounds, tree, verdict>>

\* One turn of the inner loop of startOutbounds: an outbound that is not started
\* is started once its detour is.
StartOutbound ==
    /\ verdict = "" /\ tree = <<>>
    /\ index <= Len(outbounds)
    /\ LET out == outbounds[index]
           ready == out.tag \notin started /\ (out.detour = <<>> \/ out.detour \in started)
       IN  /\ started' = IF ready THEN started \cup {out.tag} ELSE started
           /\ progress' = (progress \/ ready)
    /\ index' = index + 1
    /\ UNCHANGED <<outbounds, tree, verdict>>

\* The end of a pass: all are started, or another pass may start more, or
\* lintOutbound looks for the reason, from the first one that is left.
EndPass ==
    /\ verdict = "" /\ tree = <<>>
    /\ index > Len(outbounds)
    /\ \/ /\ started = Tags(outbounds)
          /\ verdict' = "started" /\ UNCHANGED <<index, progress, tree>>
       \/ /\ started # Tags(outbounds) /\ progress
          /\ index' = 1 /\ progress' = FALSE /\ UNCHANGED <<tree, verdict>>
       \/ /\ started # Tags(outbounds) /\ ~progress
          /\ \E i \in DOMAIN outbounds :
                /\ outbounds[i].tag \notin started
                /\ \A j \in DOMAIN outbounds : j < i => outbounds[j].tag \in started
                /\ tree' = <<outbounds[i].tag>>
          /\ UNCHANGED <<index, progress, verdict>>
    /\ UNCHANGED <<outbounds, started>>

\* lintOutbound follows the detours that are not started until one is not there
\* or closes a circle.
LintOutbound ==
    /\ verdict = "" /\ tree # <<>>
    /\ LET problem == Outbound(tree[Len(tree)]).detour
       IN  IF problem \in {tree[i] : i \in DOMAIN tree}
           THEN verdict' = "circular" /\ UNCHANGED tree
           ELSE IF problem \notin Tags(outbounds)
                THEN verdict' = "not found" /\ UNCHANGED tree
                ELSE tree' = Append(tree, problem) /\ UNCHANGED verdict
    /\ UNCHANGED <<outbounds, started, index, progress>>

startOutbounds == StartOutbound \/ EndPass \/ LintOutbound

-----------------------------------------------------------------------------
(* What the verdict should be, from the list alone *)

Missing(outs) == \E i \in DOMAIN outs : outs[i].detour \notin Tags(outs) \cup {<<>>}

\* Some outbounds dial through each other only.
Circular(outs) ==
    \E S \in SUBSET (DOMAIN outs) :
        S # {} /\ \A i \in S : \E j \in S : outs[i].detour = outs[j].tag

Sound(outs) == ~Missing(outs) /\ ~Circular(outs)

\* The box is started exactly when no detour is missing and none closes a
\* circle, whatever the order the outbounds are listed in, and the error it
\* stops with otherwise is a true one.
DependencyVerdict ==
    /\ verdict = "started" => Sound(outbounds)
    /\ verdict = "circular" => Circular(outbounds)
    /\ verdict = "not found" => Missing(outbounds)

=============================================================================
