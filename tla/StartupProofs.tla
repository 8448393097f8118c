---------------------------- MODULE StartupProofs -----------------------------
(***************************************************************************)
(* The start of the agent, for any topology or configuration file, any     *)
(* build, any disk and any number of faults.                               *)
(***************************************************************************)
EXTENDS Startup, CollectionProofs

-----------------------------------------------------------------------------
(* startOutbounds, for a list of any length with any detours *)

\* The strings, among them those that generateTopologyConfig writes.
Word == STRING \cup {"direct", "block", "dns", "ss", "node", "out", "hy2"}

\* Outbounds as they are in a configuration, and as they are in the manager,
\* where those without a tag have a name.
Options == [tag : Seq(Word), kind : Word, owner : Seq(Word), detour : Seq(Word)]

Listed ==
    [tag : Seq(Word) \cup {<<ToString(i - 1)>> : i \in Nat}, kind : Word,
     owner : Seq(Word), detour : Seq(Word)]

\* A list as Create leaves it: every tag once, none of them empty.
Listing ==
    /\ outbounds \in Seq(Listed)
    /\ \A i, j \in DOMAIN outbounds : outbounds[i].tag = outbounds[j].tag => i = j
    /\ \A i \in DOMAIN outbounds : outbounds[i].tag # <<>>

\* Whatever is started dials through what is started.
Closed ==
    /\ started \subseteq Tags(outbounds)
    /\ \A i \in DOMAIN outbounds : outbounds[i].tag \in started =>
            outbounds[i].detour \in started \cup {<<>>}

\* No circle among the started ones: the last of a set to be started dials
\* through one that was started before it.
NoCircle ==
    \A S \in SUBSET DOMAIN outbounds :
        S # {} /\ (\A i \in S : outbounds[i].tag \in started) =>
            \E i \in S : \A j \in S : outbounds[i].detour # outbounds[j].tag

\* An outbound that is left because of its detour.
Stuck(i) == outbounds[i].tag \in started \/ outbounds[i].detour \notin started \cup {<<>>}

\* As long as a pass starts nothing, what it has passed is stuck.
PassInv == progress \/ \A i \in DOMAIN outbounds : i < index => Stuck(i)

\* lintOutbound walks along detours through outbounds that are not started, when
\* all that are left are stuck.
LintInv ==
    /\ tree \in Seq(Tags(outbounds))
    /\ tree # <<>> => \A i \in DOMAIN outbounds : Stuck(i)
    /\ \A j \in DOMAIN tree : tree[j] \notin started
    /\ \A j \in DOMAIN tree, i \in DOMAIN outbounds :
            j + 1 \in DOMAIN tree /\ outbounds[i].tag = tree[j] =>
                outbounds[i].detour = tree[j + 1]

Counting == index \in Nat \ {0}

OutInv ==
    Listing /\ Counting /\ Closed /\ NoCircle /\ PassInv /\ LintInv /\ DependencyVerdict

-----------------------------------------------------------------------------
\* A tag of the list is the tag of the outbound Manager.Outbound finds.
LEMMA OutboundFound ==
    ASSUME NEW tag \in Tags(outbounds)
    PROVE  IndexOf(tag) \in DOMAIN outbounds /\ Outbound(tag).tag = tag
BY DEF Tags, IndexOf, Outbound

\* The conjuncts that a step leaves alone with the variables it leaves alone.
LEMMA ListingSame ==
    ASSUME Listing, UNCHANGED outbounds
    PROVE  Listing'
BY DEF Listing

\* So do the outbounds that are started,
LEMMA StartedSame ==
    ASSUME Closed, NoCircle, UNCHANGED <<outbounds, started>>
    PROVE  Closed' /\ NoCircle'
BY DEF Closed, NoCircle, Tags

\* what a pass has left,
LEMMA PassSame ==
    ASSUME PassInv, UNCHANGED <<outbounds, started, index, progress>>
    PROVE  PassInv'
BY DEF PassInv, Stuck

\* the walk of lintOutbound,
LEMMA LintSame ==
    ASSUME LintInv, UNCHANGED <<outbounds, started, tree>>
    PROVE  LintInv'
BY DEF LintInv, Stuck, Tags

\* and the verdict.
LEMMA VerdictSame ==
    ASSUME DependencyVerdict, UNCHANGED <<outbounds, verdict>>
    PROVE  DependencyVerdict'
BY Zenon DEF DependencyVerdict

\* An outbound is started, or passed.
LEMMA StartOutboundKeeps ==
    ASSUME OutInv, StartOutbound
    PROVE  OutInv'
<1> DEFINE out == outbounds[index]
           ready == out.tag \notin started /\ (out.detour = <<>> \/ out.detour \in started)
<1>0. index <= Len(outbounds)
  BY Zenon DEF StartOutbound
<1>1. index \in DOMAIN outbounds
  BY <1>0 DEF OutInv, Listing, Counting
<1>2. /\ outbounds' = outbounds /\ tree' = tree /\ tree = <<>> /\ verdict' = verdict
      /\ index' = index + 1
      /\ started' = IF ready THEN started \cup {out.tag} ELSE started
      /\ progress' = (progress \/ ready)
  BY Zenon DEF StartOutbound
<1>3. Listing' /\ Counting' /\ DependencyVerdict'
  <2>1. index' = index + 1 BY <1>2
  <2>2. Counting' BY <2>1 DEF OutInv, Counting
  <2> QED BY <1>2, <2>2, ListingSame, VerdictSame DEF OutInv
<1>6. LintInv'
  <2>1. tree' = <<>> BY <1>2
  <2> QED BY <2>1 DEF LintInv
<1>4. CASE ~ready
  <2>1. started' = started /\ (progress' <=> progress)
    BY <1>2, <1>4, Zenon
  <2>2. Closed' /\ NoCircle'
    BY <1>2, <2>1, StartedSame DEF OutInv
  <2>3. Stuck(index)
    BY <1>4 DEF Stuck
  <2>4. ASSUME \A i \in DOMAIN outbounds : i < index => Stuck(i)
        PROVE  \A i \in DOMAIN outbounds : i < index + 1 => Stuck(i)
    <3> HIDE DEF Stuck
    <3> SUFFICES ASSUME NEW i \in DOMAIN outbounds, i < index + 1 PROVE Stuck(i)
      OBVIOUS
    <3>1. i < index \/ i = index
      BY <1>1 DEF OutInv, Listing, Counting
    <3> QED BY <2>3, <2>4, <3>1
  <2>5. PassInv'
    BY <1>2, <2>1, <2>4 DEF OutInv, PassInv, Stuck
  <2> QED BY <1>3, <1>6, <2>2, <2>5 DEF OutInv
<1>5. CASE ready
  <2>1. started' = started \cup {out.tag} /\ progress'
    BY <1>2, <1>5, Zenon
  <2>2. Closed'
    BY <1>1, <1>2, <1>5, <2>1 DEF OutInv, Closed, Tags, Listing
  <2>3. PassInv'
    BY <2>1 DEF PassInv
  <2>4. NoCircle'
    <3> SUFFICES ASSUME NEW S \in SUBSET DOMAIN outbounds, S # {},
                        \A i \in S : outbounds[i].tag \in started \cup {out.tag},
                        \A i \in S : \E j \in S : outbounds[i].detour = outbounds[j].tag
                 PROVE  FALSE
      BY <1>2, <2>1 DEF NoCircle
    <3> DEFINE R == {i \in S : outbounds[i].tag \in started}
    <3>1. \A i \in R : \E j \in R : outbounds[i].detour = outbounds[j].tag
      BY ZenonT(30) DEF OutInv, Closed, Listing
    <3>2. R # {}
      BY <1>1, <1>5 DEF OutInv, Listing
    <3>3. R \in SUBSET DOMAIN outbounds /\ \A i \in R : outbounds[i].tag \in started
      OBVIOUS
    <3> QED BY <3>1, <3>2, <3>3, ZenonT(30) DEF OutInv, NoCircle
  <2> QED BY <1>3, <1>6, <2>2, <2>3, <2>4 DEF OutInv
<1> QED BY <1>4, <1>5

\* The end of a pass: another one, all started, or the walk begins.
LEMMA EndPassKeeps ==
    ASSUME OutInv, EndPass
    PROVE  OutInv'
<1>1. outbounds' = outbounds /\ started' = started /\ tree = <<>>
  BY Zenon DEF EndPass
<1>2. Listing' /\ Closed' /\ NoCircle'
  BY <1>1, ListingSame, StartedSame DEF OutInv
<1>3. CASE started = Tags(outbounds) /\ verdict' = "started" /\ UNCHANGED <<index, progress, tree>>
  <2>1. Counting' /\ PassInv' /\ LintInv'
    BY <1>1, <1>3, PassSame, LintSame DEF OutInv, Counting
  <2>2. ~Missing(outbounds)
    BY <1>3 DEF OutInv, Closed, Missing, Tags
  <2>3. ~Circular(outbounds)
    BY <1>3, Zenon DEF OutInv, NoCircle, Circular, Tags
  <2>4. DependencyVerdict'
    BY <1>1, <1>3, <2>2, <2>3 DEF DependencyVerdict, Sound
  <2> QED BY <1>2, <2>1, <2>4 DEF OutInv
<1>4. CASE index' = 1 /\ progress' = FALSE /\ UNCHANGED <<tree, verdict>>
  <2>1. LintInv' /\ DependencyVerdict'
    BY <1>1, <1>4, LintSame, VerdictSame DEF OutInv
  <2>2. index' = 1 /\ outbounds' = outbounds
    BY <1>1, <1>4
  <2>3. Counting'
    BY <2>2 DEF Counting
  <2>4. PassInv'
    <3>1. \A i \in DOMAIN outbounds : ~(i < 1)
      BY DEF OutInv, Listing
    <3> QED BY <2>2, <3>1 DEF PassInv
  <2> QED BY <1>2, <2>1, <2>3, <2>4 DEF OutInv
<1>5. ASSUME ~progress, UNCHANGED <<index, progress, verdict>>, NEW i \in DOMAIN outbounds,
             outbounds[i].tag \notin started, tree' = <<outbounds[i].tag>>
      PROVE  OutInv'
  <2>1. \A k \in DOMAIN outbounds : Stuck(k)
    <3> HIDE DEF Stuck
    <3>1. \A k \in DOMAIN outbounds : k < index => Stuck(k)
      BY <1>5 DEF OutInv, PassInv
    <3>2. index > Len(outbounds)
      BY Zenon DEF EndPass
    <3>3. \A k \in DOMAIN outbounds : k < index
      BY <3>2 DEF OutInv, Listing, Counting
    <3> QED BY <3>1, <3>3
  <2>2. Counting' /\ PassInv' /\ DependencyVerdict'
    BY <1>1, <1>5, PassSame, VerdictSame DEF OutInv, Counting
  <2>3. LintInv'
    BY <1>1, <1>5, <2>1 DEF LintInv, Stuck, Tags
  <2> QED BY <1>2, <2>2, <2>3 DEF OutInv
<1> QED BY <1>3, <1>4, <1>5, Zenon DEF EndPass

\* A step of the walk: along a detour, or to an error.
LEMMA LintOutboundKeeps ==
    ASSUME OutInv, LintOutbound
    PROVE  OutInv'
<1> DEFINE last == tree[Len(tree)]
           problem == Outbound(last).detour
<1>1. outbounds' = outbounds /\ started' = started /\ index' = index /\ progress' = progress
  BY Zenon DEF LintOutbound
<1>2. Listing' /\ Counting' /\ Closed' /\ NoCircle' /\ PassInv'
  BY <1>1, ListingSame, StartedSame, PassSame DEF OutInv, Counting
<1>0. tree # <<>> /\ tree \in Seq(Tags(outbounds))
  BY Zenon DEF OutInv, LintInv, LintOutbound
<1>3. Len(tree) \in DOMAIN tree /\ last \in Tags(outbounds) /\ last \notin started
  BY <1>0 DEF OutInv, LintInv
<1>4. IndexOf(last) \in DOMAIN outbounds /\ Outbound(last).tag = last
  BY <1>3, OutboundFound
<1>5. problem \notin started \cup {<<>>}
  BY <1>3, <1>4, Zenon DEF OutInv, LintInv, Stuck, LintOutbound, Outbound
<1>6. CASE /\ problem \in {tree[i] : i \in DOMAIN tree}
           /\ verdict' = "circular" /\ UNCHANGED tree
  <2>1. PICK k \in DOMAIN tree : problem = tree[k]
    BY <1>6
  <2> DEFINE S == {IndexOf(tree[j]) : j \in {i \in DOMAIN tree : i >= k}}
  <2>2. \A j \in DOMAIN tree : /\ IndexOf(tree[j]) \in DOMAIN outbounds
                               /\ outbounds[IndexOf(tree[j])].tag = tree[j]
    <3> TAKE j \in DOMAIN tree
    <3>1. tree[j] \in Tags(outbounds)
      BY DEF OutInv, LintInv
    <3> QED BY <3>1, OutboundFound DEF Outbound
  <2>3. S \in SUBSET DOMAIN outbounds /\ S # {}
    BY <2>1, <2>2 DEF OutInv, LintInv
  <2>4. ASSUME NEW j \in DOMAIN tree, j >= k
        PROVE  \E i \in S : outbounds[IndexOf(tree[j])].detour = outbounds[i].tag
    <3>1. CASE j = Len(tree)
      <4>1. IndexOf(tree[k]) \in S
        BY <2>1 DEF OutInv, LintInv
      <4> QED BY <2>1, <2>2, <3>1, <4>1 DEF Outbound
    <3>2. CASE j # Len(tree)
      <4>1. j + 1 \in DOMAIN tree /\ j + 1 >= k
        BY <2>4, <3>2, <2>1 DEF OutInv, LintInv
      <4>2. IndexOf(tree[j + 1]) \in S
        BY <4>1
      <4>3. outbounds[IndexOf(tree[j])].detour = tree[j + 1]
        BY <2>2, <4>1 DEF OutInv, LintInv
      <4> QED BY <2>2, <4>1, <4>2, <4>3
    <3> QED BY <3>1, <3>2
  <2>5. Circular(outbounds)
    BY <2>3, <2>4, ZenonT(30) DEF Circular
  <2>6. DependencyVerdict' /\ LintInv'
    BY <1>1, <1>6, <2>5, LintSame, Zenon DEF OutInv, DependencyVerdict
  <2> QED BY <1>2, <2>6 DEF OutInv
<1>7. CASE problem \notin Tags(outbounds) /\ verdict' = "not found" /\ UNCHANGED tree
  <2>1. Missing(outbounds)
    BY <1>4, <1>5, <1>7, Zenon DEF Missing, Outbound
  <2>2. DependencyVerdict' /\ LintInv'
    BY <1>1, <1>7, <2>1, LintSame, Zenon DEF OutInv, DependencyVerdict
  <2> QED BY <1>2, <2>2 DEF OutInv
<1>8. CASE problem \in Tags(outbounds) /\ tree' = Append(tree, problem) /\ UNCHANGED verdict
  <2>1. DependencyVerdict'
    BY <1>1, <1>8, VerdictSame DEF OutInv
  <2>2. tree' \in Seq(Tags(outbounds))
    BY <1>8 DEF OutInv, LintInv
  <2>3. \A j \in DOMAIN tree' : tree'[j] \notin started
    BY <1>5, <1>8 DEF OutInv, LintInv
  <2>4. ASSUME NEW j \in DOMAIN tree', j + 1 \in DOMAIN tree',
               NEW i \in DOMAIN outbounds, outbounds[i].tag = tree'[j]
        PROVE  outbounds[i].detour = tree'[j + 1]
    <3>1. CASE j = Len(tree)
      <4>1. tree'[j] = last /\ tree'[j + 1] = problem
        BY <1>0, <1>3, <1>8, <3>1
      <4>2. i = IndexOf(last)
        BY <1>4, <2>4, <4>1 DEF OutInv, Listing, Outbound
      <4> QED BY <4>1, <4>2 DEF Outbound
    <3>2. CASE j # Len(tree)
      <4>1. j \in DOMAIN tree /\ j + 1 \in DOMAIN tree
        BY <1>0, <1>8, <2>4, <3>2
      <4>2. tree'[j] = tree[j] /\ tree'[j + 1] = tree[j + 1]
        BY <1>0, <1>8, <4>1
      <4> QED BY <2>4, <4>1, <4>2 DEF OutInv, LintInv
    <3> QED BY <3>1, <3>2
  <2>5. \A i \in DOMAIN outbounds : Stuck(i)
    BY <1>0 DEF OutInv, LintInv
  <2>6. LintInv'
    BY <1>1, <2>2, <2>3, <2>4, <2>5 DEF LintInv, Stuck, Tags
  <2> QED BY <1>2, <2>1, <2>6 DEF OutInv
<1> QED BY <1>6, <1>7, <1>8, Zenon DEF LintOutbound

-----------------------------------------------------------------------------
(* main and generateTopologyConfig *)

AtCert == {"stat", "openCert", "writeCert", "openKey", "writeKey"}
AtNode == {"fetch"} \cup AtCert
Boxed == {"outbounds", "inbounds", "serving"}
Configured == {"options", "new"} \cup Boxed

\* What main has done by the time it stands where it does.
Where ==
    /\ proc \in {"off", "down", "load", "write"} \cup AtNode \cup Configured
    /\ proc \in {"off", "down", "load"} => config = NoConfig
    /\ proc \notin Boxed => NoOutbounds
    /\ proc \notin {"inbounds", "serving"} => listening = {}
    /\ proc \in {"inbounds", "serving"} => verdict = "started"
    /\ verdict = "started" => started = Tags(outbounds)
    /\ proc \in AtNode => node \in DOMAIN Nodes
    /\ proc \in AtCert => Nodes[node].type = "hysteria"
    /\ proc \in AtNode \cup {"write"} => IsTopology /\ Validate(Nodes)
    /\ proc \in Configured => IF IsTopology THEN Validate(Nodes) /\ config = topologyConfig(Nodes)
                              ELSE config = setup.file
    /\ proc \in Configured \ {"options"} =>
            Kinds(config) \subseteq Known /\ UniqueTags(config.outbounds)
    /\ proc \in Boxed => outbounds = Created(Named(config.outbounds))

\* Stat can tell whether the pair is there.
Fine(p) == "none" \in {cert[p], key[p]} \/ KeyPair(p)

\* Without a fault only the pair that is being written is in pieces, and the
\* nodes that have been dealt with have theirs.
Certificates ==
    faults = 0 =>
        /\ \A p \in Paths : (proc \in {"writeCert", "openKey", "writeKey"} /\ p = Path) \/ Fine(p)
        /\ proc \in {"openKey", "writeKey"} => cert[Path] = "new"
        /\ \A i \in Hysteria : (proc \in AtNode /\ i < node) \/ proc \in {"write", "options", "new"} =>
                KeyPair(CertPath(Nodes, Nodes[i]))

MainTyped ==
    /\ setup \in Setups /\ caps \in Builds /\ faults \in 0 .. MaxFaults
    /\ cert \in [Paths -> Files] /\ key \in [Paths -> Files]

StartInv == MainTyped /\ Where /\ Certificates /\ OutInv

-----------------------------------------------------------------------------
(* The configuration and the list made of it *)

\* Create leaves every tag once.
LEMMA CreatedList ==
    ASSUME NEW outs \in Seq(Listed), \A i \in DOMAIN outs : outs[i].tag # <<>>
    PROVE  /\ Created(outs) \in Seq(Listed)
           /\ \A a, b \in DOMAIN Created(outs) : Created(outs)[a].tag = Created(outs)[b].tag => a = b
           /\ \A a \in DOMAIN Created(outs) : Created(outs)[a].tag # <<>>
           /\ (\A i, j \in DOMAIN outs : i # j => outs[i].tag # outs[j].tag) =>
                  Range(outs) \subseteq Range(Created(outs))
<1> DEFINE E == DOMAIN outs
           all == [i \in E |-> i]
           last == {i \in E : \A j \in E : j > i => outs[j].tag # outs[i].tag}
           kept == Kept(all, last)
<1>1. E = 1..Len(outs) /\ Len(outs) \in Nat
  OBVIOUS
<1>2. all \in Seq(E) /\ DOMAIN all = E /\ Range(all) = E
  BY <1>1 DEF Range
<1>3. \A a, b \in DOMAIN all : all[a] = all[b] => a = b
  OBVIOUS
<1>4. Created(outs) = [k \in DOMAIN kept |-> outs[kept[k]]]
  BY DEF Created
<1> HIDE DEF all
<1>5. kept \in Seq(E) /\ Range(kept) = Range(all) \cap last
  <2> HIDE DEF E, last
  <2> QED BY <1>2, KeptRange
<1>6. \A a, b \in DOMAIN kept : kept[a] = kept[b] => a = b
  <2> HIDE DEF E, last
  <2> QED BY <1>2, <1>3, KeptOnce, Zenon
<1> HIDE DEF kept
<1>7. \A k \in DOMAIN kept : kept[k] \in last
  BY <1>5 DEF Range
<1>8. Created(outs) \in Seq(Listed) /\ DOMAIN Created(outs) = DOMAIN kept
  BY <1>1, <1>4, <1>5
<1>9. ASSUME NEW a \in DOMAIN kept, NEW b \in DOMAIN kept, outs[kept[a]].tag = outs[kept[b]].tag
      PROVE  a = b
  <2>1. kept[a] \in E /\ kept[b] \in E /\ ~(kept[a] > kept[b]) /\ ~(kept[b] > kept[a])
    BY <1>7, <1>9
  <2>2. kept[a] = kept[b]
    BY <1>1, <2>1
  <2> QED BY <1>6, <2>2
<1>10. \A a \in DOMAIN kept : outs[kept[a]].tag # <<>>
  BY <1>7
<1>11. ASSUME \A i, j \in DOMAIN outs : i # j => outs[i].tag # outs[j].tag,
              NEW o \in Range(outs)
       PROVE  o \in Range(Created(outs))
  <2>1. PICK i \in E : outs[i] = o
    BY DEF Range
  <2>2. i \in last
    BY <1>1, <1>11
  <2>3. PICK k \in DOMAIN kept : kept[k] = i
    BY <1>2, <1>5, <2>2, Zenon DEF Range
  <2> QED BY <1>4, <1>8, <2>1, <2>3 DEF Range
<1> QED BY <1>4, <1>8, <1>9, <1>10, <1>11

\* Naming leaves no tag empty, and a list without empty tags as it is.
LEMMA NamedList ==
    ASSUME NEW outs \in Seq(Options)
    PROVE  /\ Named(outs) \in Seq(Listed)
           /\ \A i \in DOMAIN Named(outs) : Named(outs)[i].tag # <<>>
           /\ (\A i \in DOMAIN outs : outs[i].tag # <<>>) => Named(outs) = outs
<1>1. DOMAIN outs = 1..Len(outs) /\ Len(outs) \in Nat
  OBVIOUS
<1>2. ASSUME NEW i \in DOMAIN outs
      PROVE  Named(outs)[i] \in Listed /\ Named(outs)[i].tag # <<>>
  <2>1. outs[i] \in Options /\ i \in Nat
    BY <1>1
  <2>2. CASE outs[i].tag = <<>>
    <3>1. Named(outs)[i] = [outs[i] EXCEPT !.tag = <<ToString(i - 1)>>]
      BY <2>2 DEF Named
    <3>2. <<ToString(i - 1)>> \in {<<ToString(j - 1)>> : j \in Nat} /\ <<ToString(i - 1)>> # <<>>
      BY <2>1
    <3> QED BY <2>1, <3>1, <3>2, Zenon DEF Options, Listed
  <2>3. CASE outs[i].tag # <<>>
    BY <2>1, <2>3 DEF Named, Options, Listed
  <2> QED BY <2>2, <2>3
<1>3. DOMAIN Named(outs) = DOMAIN outs
  BY DEF Named
<1>4. Named(outs) \in Seq(Listed)
  <2>1. Named(outs) = [i \in 1..Len(outs) |-> Named(outs)[i]]
    BY <1>1 DEF Named
  <2> HIDE DEF Named
  <2> QED BY <1>1, <1>2, <2>1
<1>5. ASSUME \A i \in DOMAIN outs : outs[i].tag # <<>> PROVE Named(outs) = outs
  BY <1>1, <1>5 DEF Named
<1> QED BY <1>2, <1>3, <1>4, <1>5

\* So New leaves the manager a list with every tag once.
LEMMA NewListing ==
    ASSUME NEW outs \in Seq(Options), outbounds' = Created(Named(outs))
    PROVE  Listing'
<1>1. Named(outs) \in Seq(Listed) /\ \A i \in DOMAIN Named(outs) : Named(outs)[i].tag # <<>>
  BY NamedList
<1> DEFINE named == Named(outs)
<1> HIDE DEF named
<1> QED BY <1>1, CreatedList DEF Listing, named

\* The tags of a node are sequences of words, and its outbound has one.
LEMMA NodeTags ==
    ASSUME NEW n \in Node
    PROVE  /\ OutboundTag(n) \in Seq(Word) /\ OutboundTag(n) # <<>>
           /\ outboundFromNodeSpec(n) \in Options
<1>1. Safe[n.id] \in Seq(STRING) /\ n.id \in STRING /\ n.type \in STRING
  BY SafeAssumption DEF Node
<1>2. /\ STRING \subseteq Word /\ "node" \in Word /\ "out" \in Word /\ "ss" \in Word
      /\ "hy2" \in Word
  BY DEF Word
<1> HIDE DEF Word
<1>3. Safe[n.id] \in Seq(Word) /\ n.id \in Word /\ n.type \in Word
  BY <1>1, <1>2, ListWidens, Zenon
<1>4. Protocol(n) \in Word
  BY <1>2, <1>3 DEF Protocol
<1>5. OutboundTag(n) \in Seq(Word) /\ OutboundTag(n) # <<>>
  BY <1>2, <1>3, <1>4 DEF OutboundTag
<1>6. NodeKey(n) \in Seq(Word) /\ <<>> \in Seq(Word)
  BY <1>3 DEF NodeKey
<1> QED BY <1>2, <1>5, <1>6 DEF outboundFromNodeSpec, Options

\* The outbounds of a topology: the common ones and one for every node that has
\* its own.
LEMMA TopologyOutbounds ==
    ASSUME NEW nodes \in Seq(Node)
    PROVE  LET outs == topologyConfig(nodes).outbounds
           IN  /\ outs \in Seq(Options)
               /\ \A i \in DOMAIN outs : outs[i].tag # <<>>
               /\ Range(CommonOutbounds) \subseteq Range(outs)
               /\ \A n \in Range(nodes) : Shadowsocks(n) => outboundFromNodeSpec(n) \in Range(outs)
<1> DEFINE own == {n \in Range(nodes) : Shadowsocks(n)}
           mine == Kept(nodes, own)
           made == [i \in DOMAIN mine |-> outboundFromNodeSpec(mine[i])]
<1>1. topologyConfig(nodes).outbounds = CommonOutbounds \o made
  BY DEF topologyConfig
<1>2. mine \in Seq(Node) /\ Range(mine) = Range(nodes) \cap own
  <2> HIDE DEF own
  <2> QED BY KeptRange
<1> HIDE DEF mine
<1>3. \A i \in DOMAIN mine : outboundFromNodeSpec(mine[i]) \in Options /\ made[i].tag # <<>>
  BY <1>2, NodeTags DEF outboundFromNodeSpec
<1>4. made \in Seq(Options) /\ DOMAIN made = DOMAIN mine /\ Len(made) = Len(mine)
  BY <1>2, <1>3
<1>5. ASSUME NEW n \in Range(nodes), Shadowsocks(n)
      PROVE  \E i \in DOMAIN made : made[i] = outboundFromNodeSpec(n)
  BY <1>2, <1>4, <1>5 DEF Range
<1>6. CommonOutbounds \in Seq(Options) /\ Len(CommonOutbounds) = 3
  <2>1. "direct" \in Word /\ "block" \in Word /\ "dns" \in Word /\ "out" \in Word
    BY DEF Word
  <2>2. <<"direct">> \in Seq(Word) /\ <<"block">> \in Seq(Word) /\ <<"dns", "out">> \in Seq(Word)
    BY <2>1
  <2> QED BY <2>1, <2>2 DEF CommonOutbounds, Options
<1>7. \A i \in DOMAIN CommonOutbounds : CommonOutbounds[i].tag # <<>>
  BY DEF CommonOutbounds
<1> HIDE DEF made
<1> DEFINE common == CommonOutbounds
<1> HIDE DEF common
<1>8. common \o made \in Seq(Options) /\ Range(common \o made) = Range(common) \cup Range(made)
  BY <1>4, <1>6, JoinedRange DEF common
<1>9. \A o \in Range(common) \cup Range(made) : o.tag # <<>>
  BY <1>3, <1>4, <1>7 DEF Range, common
<1>10. \A i \in DOMAIN (common \o made) : (common \o made)[i].tag # <<>>
  BY <1>8, <1>9 DEF Range
<1>11. ASSUME NEW n \in Range(nodes), Shadowsocks(n) PROVE outboundFromNodeSpec(n) \in Range(made)
  BY <1>5, <1>11 DEF Range
<1> QED BY <1>1, <1>8, <1>10, <1>11 DEF common

\* The rule of a node leads to its own outbound or to the direct one, since no
\* other rule has its inbound.
LEMMA RuleOfNode ==
    ASSUME NEW nodes \in Seq(Node), Validate(nodes), config = topologyConfig(nodes),
           NEW i \in DOMAIN nodes
    PROVE  ExitOf(InboundTag(nodes[i])) = RuleTag(nodes[i])
<1> DEFINE Rule(j) == [inbound |-> InboundTag(nodes[j]), outbound |-> RuleTag(nodes[j])]
           R == {Rule(j) : j \in DOMAIN nodes}
           rules == [j \in DOMAIN nodes |-> Rule(j)]
           keep == {r \in Range(rules) : r.inbound = InboundTag(nodes[i])}
           match == Kept(rules, keep)
<1>1. config.rules = rules
  BY DEF topologyConfig
<1>2. rules \in Seq(R) /\ Range(rules) = R
  <2>1. DOMAIN nodes = 1..Len(nodes) /\ Len(nodes) \in Nat
    OBVIOUS
  <2> QED BY <2>1 DEF Range
<1>3. \A j \in DOMAIN nodes : InboundTag(nodes[j]) = InboundTag(nodes[i]) => j = i
  BY DEF Validate
<1>4. ExitOf(InboundTag(nodes[i])) = IF match = <<>> THEN config.final ELSE match[1].outbound
  BY <1>1 DEF ExitOf
<1>5. Rule(i) \in keep /\ \A r \in keep : r = Rule(i)
  BY <1>2, <1>3
<1> HIDE DEF rules
<1>6. match \in Seq(R) /\ Range(match) = Range(rules) \cap keep
  <2> HIDE DEF keep, R
  <2> QED BY <1>2, KeptRange
<1>7. Rule(i) \in Range(match) /\ \A r \in Range(match) : r = Rule(i)
  <2> HIDE DEF match, Rule
  <2> QED BY <1>5, <1>6
<1>8. match # <<>> /\ match[1] \in Range(match)
  <2> HIDE DEF match, R, Rule
  <2>1. PICK k \in DOMAIN match : match[k] = Rule(i)
    BY <1>7 DEF Range
  <2>2. 1 \in DOMAIN match
    BY <1>6, <2>1
  <2> QED BY <2>2 DEF Range
<1>9. match[1] = Rule(i)
  BY <1>7, <1>8
<1> QED BY <1>4, <1>8, <1>9

\* Manager.Outbound finds an outbound of the list by its tag.
LEMMA OutboundOfTag ==
    ASSUME Listing, NEW o \in Range(outbounds)
    PROVE  Outbound(o.tag) = o /\ o.tag \in Tags(outbounds)
<1>1. PICK i \in DOMAIN outbounds : outbounds[i] = o
  BY DEF Range
<1>2. o.tag \in Tags(outbounds)
  BY <1>1 DEF Tags
<1>3. IndexOf(o.tag) \in DOMAIN outbounds /\ outbounds[IndexOf(o.tag)].tag = o.tag
  BY <1>2, OutboundFound DEF Outbound
<1>4. IndexOf(o.tag) = i
  BY <1>1, <1>3 DEF Listing
<1> QED BY <1>1, <1>2, <1>4 DEF Outbound

-----------------------------------------------------------------------------
(* The steps of main *)

\* Before startOutbounds has begun there is nothing to know but the list.
LEMMA FreshList ==
    /\ Listing /\ started = {} /\ index = 1 /\ tree = <<>> /\ verdict = "" => OutInv
    /\ (Listing /\ started = {} /\ index = 1 /\ tree = <<>> /\ verdict = "" => OutInv)'
<1>1. ASSUME Listing /\ started = {} /\ index = 1 /\ tree = <<>> /\ verdict = "" PROVE OutInv
  <2>1. Counting
    <3>1. index = 1
      BY <1>1, Zenon
    <3> QED BY <3>1 DEF Counting
  <2>2. Closed /\ NoCircle
    BY <1>1, Zenon DEF Closed, NoCircle
  <2>3. LintInv
    <3>1. tree = <<>>
      BY <1>1, Zenon
    <3> QED BY <3>1 DEF LintInv
  <2>4. DependencyVerdict
    BY <1>1, Zenon DEF DependencyVerdict
  <2>5. PassInv
    <3>1. index = 1
      BY <1>1, Zenon
    <3>2. outbounds \in Seq(Listed)
      BY <1>1, Zenon DEF Listing
    <3>3. \A i \in DOMAIN outbounds : ~(i < index)
      BY <3>1, <3>2
    <3> QED BY <3>3 DEF PassInv
  <2> QED BY <1>1, <2>1, <2>2, <2>3, <2>4, <2>5, Zenon DEF OutInv
<1> QED BY <1>1, PTL

\* The empty list of a process that has not come so far.
LEMMA NothingListed == NoOutbounds' => OutInv'
<1>1. ASSUME NoOutbounds'
      PROVE  outbounds' = <<>> /\ started' = {} /\ index' = 1 /\ tree' = <<>> /\ verdict' = ""
  BY <1>1, Zenon DEF NoOutbounds
<1>2. outbounds' = <<>> => Listing'
  BY DEF Listing
<1> QED BY <1>1, <1>2, FreshList, Zenon

\* A step that leaves the manager alone.
LEMMA OutSame ==
    ASSUME OutInv, UNCHANGED outVars PROVE OutInv'
BY ListingSame, StartedSame, PassSame, LintSame, VerdictSame DEF outVars, OutInv, Counting

\* A process that ends leaves the disk as it is.  Without a fault it does not
\* end in the middle of a pair.
LEMMA ExitKeeps ==
    ASSUME StartInv, Exit, UNCHANGED <<setup, caps, cert, key>>,
           faults' \in 0 .. MaxFaults,
           faults' = 0 => faults = 0 /\ proc \notin {"writeCert", "openKey", "writeKey"}
    PROVE  StartInv'
<1> USE DEF StartInv
<1>1. MainTyped'
  BY DEF MainTyped
<1>2. NoOutbounds'
  BY Zenon DEF Exit, NoOutbounds
<1>3. OutInv'
  BY <1>2, NothingListed
<1>4. Where'
  BY <1>2, Zenon DEF Where, Exit, NoOutbounds, AtNode, AtCert, Boxed, Configured
<1>5. Certificates'
  <2> SUFFICES ASSUME faults' = 0 PROVE \A p \in Paths : Fine(p)'
    BY Zenon DEF Certificates, Exit, AtNode, AtCert
  <2>1. \A p \in Paths : Fine(p)
    BY DEF Certificates
  <2> QED BY <2>1 DEF Fine, KeyPair
<1> QED BY <1>1, <1>3, <1>4, <1>5

\* What fails without a fault fails between the files.
LEMMA FatalKeeps ==
    ASSUME StartInv, Fatal, proc \notin AtCert PROVE StartInv'
<1>1. Exit /\ UNCHANGED <<setup, caps, cert, key, faults>> /\ faults \in 0 .. MaxFaults
  BY DEF Fatal, StartInv, MainTyped
<1>2. proc \notin {"writeCert", "openKey", "writeKey"}
  BY DEF AtCert
<1> QED BY <1>1, <1>2, ExitKeeps

\* The nodes of a topology.
LEMMA NodesTyped ==
    ASSUME MainTyped PROVE Nodes \in Seq(Node) /\ setup.file.outbounds \in Seq(OutboundOptions)
BY SetupsAssumption DEF MainTyped, Nodes

\* Two Hysteria2 nodes of a valid topology never share certificate files.
LEMMA OwnPaths ==
    ASSUME MainTyped, Validate(Nodes), NEW i \in Hysteria
    PROVE  /\ CertPath(Nodes, Nodes[i]) \in Paths
           /\ \A j \in Hysteria : j # i => CertPath(Nodes, Nodes[j]) # CertPath(Nodes, Nodes[i])
<1>1. Nodes \in Seq(Node)
  BY NodesTyped
<1>2. i \in DOMAIN Nodes /\ Nodes[i].type = "hysteria" /\ Nodes[i].id \in ValidIds
  BY DEF Hysteria, Validate, ValidNode
<1>3. CertPath(Nodes, Nodes[i]) \in Paths
  BY <1>2, SetupsAssumption DEF CertPath
<1>4. ASSUME NEW j \in Hysteria, j # i
      PROVE  CertPath(Nodes, Nodes[j]) # CertPath(Nodes, Nodes[i])
  <2>1. j \in DOMAIN Nodes /\ Nodes[j].type = "hysteria"
    BY DEF Hysteria
  <2>2. Nodes[j].id # Nodes[i].id
    BY <1>2, <1>4, <2>1 DEF Validate, NodeKey
  <2>3. Len(Nodes) > 1
    BY <1>1, <1>2, <1>4, <2>1
  <2> QED BY <2>2, <2>3 DEF CertPath
<1> QED BY <1>3, <1>4

\* The steps from one node to the next, as far as they leave the disk.
LEMMA MovesKeepWhere ==
    ASSUME Where, UNCHANGED <<setup, caps, listening, config, outVars>>,
           proc \in AtNode, proc' \in AtNode \cup {"write"},
           proc' \in AtNode => node' \in DOMAIN Nodes,
           proc' \in AtCert => Nodes[node'].type = "hysteria"
    PROVE  Where'
<1>1. proc \notin Boxed /\ proc' \notin Boxed /\ proc' \notin Configured /\ proc' \notin {"off", "down", "load"}
  BY DEF AtNode, AtCert, Boxed, Configured
<1>2. NoOutbounds' /\ listening' = {} /\ (verdict = "started" => started = Tags(outbounds))'
  BY <1>1, Zenon DEF Where, NoOutbounds, outVars, Tags, Boxed
<1>3. IsTopology' /\ Validate(Nodes)'
  BY DEF Where, IsTopology, Nodes
<1> HIDE DEF NoOutbounds
<1> QED BY <1>1, <1>2, <1>3 DEF Where, Nodes, Boxed

\* What NextNode leaves: the nodes before the next one are dealt with.
LEMMA NextNodeKeeps ==
    ASSUME StartInv, NextNode, UNCHANGED config, proc \in AtNode, MainTyped',
           \A p \in Paths : faults = 0 => Fine(p)',
           \A i \in Hysteria : faults = 0 /\ i <= node => KeyPair(CertPath(Nodes, Nodes[i]))'
    PROVE  StartInv'
<1> USE DEF StartInv
<1>1. /\ node' = node + 1 /\ proc' = IF node < Len(Nodes) THEN "fetch" ELSE "write"
      /\ UNCHANGED <<setup, caps, listening, faults, outVars>>
  BY DEF NextNode, Goto
<1>2. node \in 1..Len(Nodes) /\ Len(Nodes) \in Nat /\ DOMAIN Nodes = 1..Len(Nodes)
  BY NodesTyped DEF Where
<1>3. OutInv'
  BY <1>1, OutSame
<1>4. proc' \in AtNode \cup {"write"} /\ (proc' \in AtNode => node' \in DOMAIN Nodes) /\ proc' \notin AtCert
  BY <1>1, <1>2 DEF AtNode, AtCert
<1>5. Where'
  BY <1>1, <1>4, MovesKeepWhere
<1>6. Certificates'
  <2> SUFFICES ASSUME faults' = 0 PROVE Certificates'
    BY DEF Certificates
  <2>1. ASSUME NEW i \in Hysteria, proc' = "fetch" => i < node'
        PROVE  KeyPair(CertPath(Nodes, Nodes[i]))'
    <3>1. i \in 1..Len(Nodes)
      BY <1>2 DEF Hysteria
    <3>2. i <= node
      BY <1>1, <1>2, <2>1, <3>1
    <3> QED BY <1>1, <3>2
  <2>2. proc' \in {"fetch", "write"}
    BY <1>1
  <2>3. Hysteria' = Hysteria
    BY <1>1 DEF Hysteria, Nodes
  <2>4. \A p \in Paths : Fine(p)'
    BY <1>1
  <2>5. \A i \in Hysteria' : (proc' \in AtNode /\ i < node') \/ proc' \in {"write", "options", "new"} =>
            KeyPair(CertPath(Nodes, Nodes[i]))'
    BY <2>1, <2>2, <2>3
  <2>6. /\ \A p \in Paths : (proc' \in {"writeCert", "openKey", "writeKey"} /\ p = Path') \/ Fine(p)'
        /\ proc' \in {"openKey", "writeKey"} => cert'[Path'] = "new"
    BY <2>2, <2>4
  <2> QED BY <2>5, <2>6, Zenon DEF Certificates
<1> QED BY <1>3, <1>5, <1>6

\* Fetch: a node that needs no certificate is dealt with.
LEMMA FetchKeeps ==
    ASSUME StartInv, Fetch PROVE StartInv'
<1> USE DEF StartInv
<1>0. proc = "fetch" /\ node \in DOMAIN Nodes
  BY DEF Fetch, Where, AtNode
<1>4. CASE Fatal
  BY <1>0, <1>4, FatalKeeps DEF AtCert
<1>5. SUFFICES ASSUME UNCHANGED <<cert, key, config>> PROVE StartInv'
  BY <1>4 DEF Fetch
<1>1. proc = "fetch" /\ UNCHANGED <<cert, key, config>> /\ node \in DOMAIN Nodes
  BY <1>0, <1>5
<1>2. CASE Nodes[node].type = "hysteria" /\ Goto("stat") /\ UNCHANGED node
  <2>1. proc' = "stat" /\ UNCHANGED <<setup, caps, listening, faults, outVars>>
    BY <1>2 DEF Goto
  <2>2. MainTyped' /\ OutInv'
    BY <1>1, <2>1, OutSame DEF MainTyped
  <2>3. Where'
    BY <1>1, <1>2, <2>1, MovesKeepWhere DEF AtNode, AtCert
  <2>4. Certificates'
    BY <1>1, <1>2, <2>1 DEF Certificates, Fine, KeyPair, Hysteria, Nodes, AtNode, AtCert
  <2> QED BY <2>2, <2>3, <2>4
<1>3. CASE Nodes[node].type # "hysteria" /\ NextNode
  <2>1. UNCHANGED <<setup, caps, faults>>
    BY <1>3 DEF NextNode, Goto
  <2>2. MainTyped'
    BY <1>1, <2>1 DEF MainTyped
  <2>3. \A p \in Paths : faults = 0 => Fine(p)'
    BY <1>1 DEF Certificates, Fine, KeyPair
  <2>4. ASSUME NEW i \in Hysteria, faults = 0, i <= node
        PROVE  KeyPair(CertPath(Nodes, Nodes[i]))'
    <3>1. i # node /\ i \in Nat /\ node \in Nat
      BY <1>1, <1>3, NodesTyped DEF Hysteria
    <3>2. KeyPair(CertPath(Nodes, Nodes[i]))
      BY <1>1, <2>4, <3>1 DEF Certificates, AtNode
    <3> QED BY <1>1, <2>1, <3>2 DEF KeyPair, Nodes
  <2> QED BY <1>1, <1>3, <2>2, <2>3, <2>4, NextNodeKeeps DEF AtNode
<1> QED BY <1>2, <1>3, <1>4 DEF Fetch

\* The files of the node that is worked on, and of the nodes before it.
LEMMA AtPath ==
    ASSUME StartInv, proc \in AtCert
    PROVE  /\ Path \in Paths /\ node \in Hysteria /\ node \in Nat
           /\ \A i \in Hysteria : i \in Nat /\ (i # node => CertPath(Nodes, Nodes[i]) # Path)
<1>1. node \in DOMAIN Nodes /\ Nodes[node].type = "hysteria" /\ Validate(Nodes) /\ MainTyped
  BY DEF StartInv, Where, AtNode
<1>2. node \in Hysteria
  BY <1>1 DEF Hysteria
<1>3. Path \in Paths /\ \A i \in Hysteria : i # node => CertPath(Nodes, Nodes[i]) # Path
  BY <1>1, <1>2, OwnPaths DEF Path
<1>4. node \in Nat /\ \A i \in Hysteria : i \in Nat
  BY <1>1, NodesTyped DEF Hysteria
<1> QED BY <1>2, <1>3, <1>4

\* ensureSelfSignedCert is done with a node once its two files are a pair.
LEMMA PairKeeps ==
    ASSUME StartInv, proc \in AtCert, NextNode, UNCHANGED config, MainTyped',
           \A p \in Paths : p # Path => cert'[p] = cert[p] /\ key'[p] = key[p],
           faults = 0 => cert'[Path] = key'[Path] /\ cert'[Path] \in {"old", "new"},
           proc = "stat" \/ proc \in {"writeCert", "openKey", "writeKey"}
    PROVE  StartInv'
<1>1. /\ Path \in Paths /\ node \in Hysteria /\ node \in Nat
      /\ \A i \in Hysteria : i \in Nat /\ (i # node => CertPath(Nodes, Nodes[i]) # Path)
  BY AtPath
<1>2. UNCHANGED <<setup, faults>>
  BY DEF NextNode, Goto
<1>3. ASSUME NEW p \in Paths, faults = 0 PROVE Fine(p)'
  <2>1. CASE p = Path
    BY <1>3, <2>1 DEF Fine, KeyPair
  <2>2. CASE p # Path
    <3>1. Fine(p)
      BY <1>3, <2>2 DEF StartInv, Certificates
    <3> QED BY <2>2, <3>1 DEF Fine, KeyPair
  <2> QED BY <2>1, <2>2
<1>4. ASSUME NEW i \in Hysteria, faults = 0, i <= node
      PROVE  KeyPair(CertPath(Nodes, Nodes[i]))'
  <2> DEFINE p == CertPath(Nodes, Nodes[i])
  <2>1. CertPath(Nodes, Nodes[i])' = p
    BY <1>2 DEF Nodes, CertPath
  <2>2. CASE i = node
    <3>1. p = Path
      BY <2>2 DEF Path
    <3> QED BY <1>4, <2>1, <3>1 DEF KeyPair
  <2>3. CASE i # node
    <3>1. p \in Paths
      BY OwnPaths DEF StartInv, Where, AtNode
    <3>2. KeyPair(p)
      BY <1>1, <1>4, <2>3 DEF StartInv, Certificates, AtNode
    <3>3. p # Path
      BY <1>1, <2>3, Zenon
    <3> HIDE DEF p
    <3> QED BY <2>1, <3>1, <3>2, <3>3 DEF KeyPair
  <2> QED BY <2>2, <2>3
<1> QED BY <1>3, <1>4, NextNodeKeeps DEF AtNode

\* A step inside ensureSelfSignedCert.
LEMMA WritingKeeps ==
    ASSUME StartInv, proc \in AtCert, proc' \in {"writeCert", "openKey", "writeKey"},
           UNCHANGED <<setup, caps, listening, faults, outVars, node, config>>, MainTyped',
           \A p \in Paths : p # Path => cert'[p] = cert[p] /\ key'[p] = key[p],
           proc' \in {"openKey", "writeKey"} /\ faults = 0 => cert'[Path] = "new"
    PROVE  StartInv'
<1>1. /\ Path \in Paths /\ node \in Hysteria /\ node \in Nat
      /\ \A i \in Hysteria : i \in Nat /\ (i # node => CertPath(Nodes, Nodes[i]) # Path)
  BY AtPath
<1>2. Path' = Path /\ Hysteria' = Hysteria /\ Nodes' = Nodes
  BY DEF Path, Nodes, CertPath, Hysteria
<1>3. OutInv'
  BY OutSame DEF StartInv
<1>4. Where'
  <2>1. node \in DOMAIN Nodes /\ Nodes[node].type = "hysteria" /\ proc \in AtNode /\ proc' \in AtNode
    BY DEF StartInv, Where, AtNode, AtCert
  <2> QED BY <2>1, MovesKeepWhere DEF StartInv
<1>5. Certificates'
  <2> SUFFICES ASSUME faults = 0 PROVE Certificates'
    BY DEF Certificates
  <2>1. ASSUME NEW p \in Paths, p # Path PROVE Fine(p)'
    <3>1. Fine(p)
      BY <2>1 DEF StartInv, Certificates
    <3> QED BY <2>1, <3>1 DEF Fine, KeyPair
  <2>2. ASSUME NEW i \in Hysteria, i < node PROVE KeyPair(CertPath(Nodes, Nodes[i]))'
    <3> DEFINE p == CertPath(Nodes, Nodes[i])
    <3>1. p \in Paths /\ p # Path
      <4>1. MainTyped /\ Validate(Nodes)
        BY DEF StartInv, Where, AtNode
      <4>2. p \in Paths
        BY <4>1, OwnPaths
      <4>3. i # node
        BY <1>1, <2>2
      <4> QED BY <1>1, <4>2, <4>3, Zenon
    <3>2. KeyPair(p)
      BY <2>2 DEF StartInv, Certificates, AtNode
    <3>3. CertPath(Nodes, Nodes[i])' = p
      BY <1>2 DEF CertPath
    <3> HIDE DEF p
    <3> QED BY <3>1, <3>2, <3>3 DEF KeyPair
  <2>3. /\ \A p \in Paths : (proc' \in {"writeCert", "openKey", "writeKey"} /\ p = Path') \/ Fine(p)'
        /\ proc' \in {"openKey", "writeKey"} => cert'[Path'] = "new"
    BY <1>2, <2>1
  <2>4. \A i \in Hysteria' : (proc' \in AtNode /\ i < node') \/ proc' \in {"write", "options", "new"} =>
            KeyPair(CertPath(Nodes, Nodes[i]))'
    BY <1>2, <2>2
  <2> QED BY <2>3, <2>4, Zenon DEF Certificates
<1> QED BY <1>3, <1>4, <1>5 DEF StartInv

\* ensureSelfSignedCert, step by step.
LEMMA CertStepKeeps ==
    ASSUME StartInv, Stat \/ OpenCert \/ WriteCert \/ OpenKey \/ WriteKey
    PROVE  StartInv'
<1>0. cert \in [Paths -> Files] /\ key \in [Paths -> Files]
  BY DEF StartInv, MainTyped
<1>1. CASE Stat
  <2>1. proc = "stat" /\ UNCHANGED <<cert, key, config>> /\ Path \in Paths /\ proc \in AtCert
    BY <1>1, AtPath DEF Stat, AtCert
  <2>2. CASE cert[Path] # "none" /\ key[Path] # "none" /\ NextNode
    <3>1. MainTyped'
      BY <2>1, <2>2 DEF StartInv, MainTyped, NextNode, Goto
    <3>2. faults = 0 => Fine(Path)
      BY <2>1 DEF StartInv, Certificates
    <3>3. faults = 0 => cert[Path] = key[Path] /\ cert[Path] \in {"old", "new"}
      BY <2>2, <3>2 DEF Fine, KeyPair
    <3> QED BY <2>1, <2>2, <3>1, <3>3, PairKeeps
  <2>3. CASE (cert[Path] = "none" \/ key[Path] = "none") /\ Goto("openCert") /\ UNCHANGED node
    <3>1. proc' = "openCert" /\ UNCHANGED <<setup, caps, listening, faults, outVars>>
      BY <2>3 DEF Goto
    <3>2. MainTyped' /\ OutInv'
      BY <2>1, <3>1, OutSame DEF StartInv, MainTyped
    <3>3. Where'
      <4>1. node \in DOMAIN Nodes /\ Nodes[node].type = "hysteria"
        BY <2>1 DEF StartInv, Where, AtNode
      <4> QED BY <2>1, <2>3, <3>1, <4>1, MovesKeepWhere DEF StartInv, AtNode, AtCert
    <3>4. Certificates'
      BY <2>1, <2>3, <3>1, Zenon DEF StartInv, Certificates, Fine, KeyPair, Hysteria, Nodes, AtNode, AtCert
    <3> QED BY <3>2, <3>3, <3>4 DEF StartInv
  <2> QED BY <1>1, <2>2, <2>3 DEF Stat
<1>2. CASE OpenCert
  <2>1. /\ proc = "openCert" /\ proc \in AtCert /\ proc' = "writeCert" /\ Path \in Paths
        /\ cert' = [cert EXCEPT ![Path] = "torn"]
        /\ UNCHANGED <<setup, caps, listening, faults, outVars, node, key, config>>
    BY <1>2, AtPath DEF OpenCert, AtCert, Goto
  <2>2. MainTyped'
    BY <2>1 DEF StartInv, MainTyped, Files
  <2> QED BY <1>0, <2>1, <2>2, WritingKeeps
<1>3. CASE WriteCert
  <2>1. /\ proc = "writeCert" /\ proc \in AtCert /\ proc' = "openKey" /\ Path \in Paths
        /\ cert' = [cert EXCEPT ![Path] = "new"]
        /\ UNCHANGED <<setup, caps, listening, faults, outVars, node, key, config>>
    BY <1>3, AtPath DEF WriteCert, AtCert, Goto
  <2>2. MainTyped'
    BY <2>1 DEF StartInv, MainTyped, Files
  <2> QED BY <1>0, <2>1, <2>2, WritingKeeps
<1>4. CASE OpenKey
  <2>1. /\ proc = "openKey" /\ proc \in AtCert /\ proc' = "writeKey" /\ Path \in Paths
        /\ key' = [key EXCEPT ![Path] = "torn"]
        /\ UNCHANGED <<setup, caps, listening, faults, outVars, node, cert, config>>
    BY <1>4, AtPath DEF OpenKey, AtCert, Goto
  <2>2. MainTyped'
    BY <2>1 DEF StartInv, MainTyped, Files
  <2>3. faults = 0 => cert'[Path] = "new"
    BY <2>1 DEF StartInv, Certificates
  <2> QED BY <1>0, <2>1, <2>2, <2>3, WritingKeeps
<1>5. CASE WriteKey
  <2>1. /\ proc = "writeKey" /\ proc \in AtCert /\ Path \in Paths
        /\ key' = [key EXCEPT ![Path] = "new"] /\ NextNode /\ UNCHANGED <<cert, config>>
    BY <1>5, AtPath DEF WriteKey, AtCert
  <2>2. MainTyped'
    BY <2>1 DEF StartInv, MainTyped, Files, NextNode, Goto
  <2>3. faults = 0 => cert'[Path] = "new"
    BY <2>1 DEF StartInv, Certificates
  <2> QED BY <1>0, <2>1, <2>2, <2>3, PairKeeps
<1> QED BY <1>1, <1>2, <1>3, <1>4, <1>5

\* Steps before the box that change neither the disk nor the list.
LEMMA PlainKeeps ==
    ASSUME StartInv, proc \notin Boxed, proc' \notin Boxed,
           UNCHANGED <<setup, caps, cert, key, listening, faults, outVars>>,
           proc \notin AtCert, proc' \notin AtCert
    PROVE  /\ MainTyped' /\ OutInv' /\ NoOutbounds' /\ listening' = {}
           /\ (verdict = "started" => started = Tags(outbounds))'
           /\ \A p \in Paths : faults' = 0 => Fine(p)'
<1>1. MainTyped'
  BY DEF StartInv, MainTyped
<1>2. OutInv'
  BY OutSame DEF StartInv
<1>3. NoOutbounds' /\ listening' = {}
  BY Zenon DEF StartInv, Where, NoOutbounds, outVars, Boxed
<1>4. (verdict = "started" => started = Tags(outbounds))'
  BY DEF StartInv, Where, outVars, Tags
<1>5. \A p \in Paths : faults' = 0 => Fine(p)'
  BY DEF StartInv, Certificates, Fine, KeyPair, AtCert
<1> QED BY <1>1, <1>2, <1>3, <1>4, <1>5

\* The steps of main keep the invariant: first the service manager's restart.
LEMMA RestartKeeps ==
    ASSUME StartInv, Restart PROVE StartInv'
<1>1. /\ proc \in {"off", "down"} /\ proc' = "load"
      /\ UNCHANGED <<setup, caps, cert, key, listening, faults, outVars, node, config>>
  BY DEF Restart, Goto
<1>2. /\ MainTyped' /\ OutInv' /\ NoOutbounds' /\ listening' = {}
      /\ (verdict = "started" => started = Tags(outbounds))'
      /\ \A p \in Paths : faults' = 0 => Fine(p)'
  BY <1>1, PlainKeeps DEF Boxed, AtCert
<1>3. Where'
  BY <1>1, <1>2, Zenon DEF StartInv, Where, AtNode, AtCert, Boxed, Configured
<1>4. Certificates'
  BY <1>1, <1>2 DEF Certificates, AtNode, AtCert
<1> QED BY <1>2, <1>3, <1>4 DEF StartInv

\* main reads its configuration.
LEMMA LoadKeeps ==
    ASSUME StartInv, Load PROVE StartInv'
<1>1. proc = "load"
  BY DEF Load
<1>2. CASE Fatal
  BY <1>1, <1>2, FatalKeeps DEF AtCert
<1>3. CASE IsTopology /\ Validate(Nodes) /\ node' = 1 /\ Goto("fetch") /\ UNCHANGED <<cert, key, config>>
  <2>1. proc' = "fetch" /\ UNCHANGED <<setup, caps, cert, key, listening, faults, outVars, config>>
    BY <1>3 DEF Goto
  <2>2. /\ MainTyped' /\ OutInv' /\ NoOutbounds' /\ listening' = {}
        /\ (verdict = "started" => started = Tags(outbounds))'
        /\ \A p \in Paths : faults' = 0 => Fine(p)'
    BY <1>1, <2>1, PlainKeeps DEF Boxed, AtCert
  <2>3. node' \in DOMAIN Nodes' /\ \A i \in Hysteria' : ~(i < node')
    <3>1. Nodes \in Seq(Node) /\ Nodes # <<>> /\ Nodes' = Nodes /\ node' = 1
      BY <1>3, <2>1, NodesTyped DEF StartInv, IsTopology, Nodes
    <3> HIDE DEF Nodes
    <3> QED BY <3>1 DEF Hysteria
  <2>4. Validate(Nodes)' /\ IsTopology'
    BY <1>3, <2>1 DEF IsTopology, Nodes
  <2>5. Where'
    BY <2>1, <2>2, <2>3, <2>4, Zenon DEF StartInv, Where, AtNode, AtCert, Boxed, Configured
  <2>6. Certificates'
    BY <2>1, <2>2, <2>3 DEF Certificates, AtNode, AtCert
  <2> QED BY <2>2, <2>5, <2>6 DEF StartInv
<1>4. CASE ~IsTopology /\ config' = setup.file /\ Goto("options") /\ UNCHANGED <<node, cert, key>>
  <2>1. proc' = "options" /\ UNCHANGED <<setup, caps, cert, key, listening, faults, outVars>>
    BY <1>4 DEF Goto
  <2>2. /\ MainTyped' /\ OutInv' /\ NoOutbounds' /\ listening' = {}
        /\ (verdict = "started" => started = Tags(outbounds))'
        /\ \A p \in Paths : faults' = 0 => Fine(p)'
    BY <1>1, <2>1, PlainKeeps DEF Boxed, AtCert
  <2>3. Hysteria' = {}
    BY <1>4, <2>1 DEF Hysteria, IsTopology, Nodes
  <2>4. ~IsTopology' /\ config' = setup'.file
    BY <1>4, <2>1 DEF IsTopology
  <2>5. Where'
    BY <2>1, <2>2, <2>4, Zenon DEF StartInv, Where, AtNode, AtCert, Boxed, Configured
  <2>6. Certificates'
    BY <2>1, <2>2, <2>3 DEF Certificates, AtNode, AtCert
  <2> QED BY <2>2, <2>5, <2>6 DEF StartInv
<1> QED BY <1>2, <1>3, <1>4 DEF Load

\* Between the certificates and the box the pairs stay as they are.
LEMMA PairsStay ==
    ASSUME StartInv, proc \in {"write", "options"}, proc' \in {"options", "new"},
           UNCHANGED <<setup, cert, key, faults>>, \A p \in Paths : faults' = 0 => Fine(p)'
    PROVE  Certificates'
<1>1. faults = 0 => \A i \in Hysteria : KeyPair(CertPath(Nodes, Nodes[i]))
  BY DEF StartInv, Certificates
<1>2. faults' = 0 => \A i \in Hysteria' : KeyPair(CertPath(Nodes, Nodes[i]))'
  BY <1>1 DEF Hysteria, Nodes, KeyPair, CertPath
<1> QED BY <1>2 DEF Certificates

\* main generates the configuration of the topology.
LEMMA WriteConfigKeeps ==
    ASSUME StartInv, WriteConfig PROVE StartInv'
<1>1. /\ proc = "write" /\ proc' = "options" /\ config' = topologyConfig(Nodes)
      /\ UNCHANGED <<setup, caps, cert, key, listening, faults, outVars, node>>
  BY DEF WriteConfig, Goto
<1>2. /\ MainTyped' /\ OutInv' /\ NoOutbounds' /\ listening' = {}
      /\ (verdict = "started" => started = Tags(outbounds))'
      /\ \A p \in Paths : faults' = 0 => Fine(p)'
  BY <1>1, PlainKeeps DEF Boxed, AtCert
<1>3. IsTopology' /\ Validate(Nodes)' /\ config' = topologyConfig(Nodes')
  BY <1>1 DEF StartInv, Where, IsTopology, Nodes
<1>4. Where'
  BY <1>1, <1>2, <1>3, Zenon DEF StartInv, Where, AtNode, AtCert, Boxed, Configured
<1> QED BY <1>1, <1>2, <1>4, PairsStay DEF StartInv

\* The configuration is read back and its protocols are looked up.
LEMMA OptionsKeep ==
    ASSUME StartInv, loadOptions PROVE StartInv'
<1>1. proc = "options"
  BY DEF loadOptions
<1>2. CASE Fatal
  BY <1>1, <1>2, FatalKeeps DEF AtCert
<1>3. CASE /\ Kinds(config) \subseteq Known /\ UniqueTags(config.outbounds)
           /\ Goto("new") /\ UNCHANGED <<node, cert, key, config>>
  <2>1. proc' = "new" /\ UNCHANGED <<setup, caps, cert, key, listening, faults, outVars, config>>
    BY <1>3 DEF Goto
  <2>2. /\ MainTyped' /\ OutInv' /\ NoOutbounds' /\ listening' = {}
        /\ (verdict = "started" => started = Tags(outbounds))'
        /\ \A p \in Paths : faults' = 0 => Fine(p)'
    BY <1>1, <2>1, PlainKeeps DEF Boxed, AtCert
  <2>3. IF IsTopology' THEN Validate(Nodes)' /\ config' = topologyConfig(Nodes') ELSE config' = setup'.file
    BY <1>1, <2>1 DEF StartInv, Where, IsTopology, Nodes, Configured
  <2>4. Kinds(config)' \subseteq Known' /\ UniqueTags(config.outbounds)'
    BY <1>3, <2>1 DEF Kinds, Known, UniqueTags
  <2>5. Where'
    BY <2>1, <2>2, <2>3, <2>4, Zenon DEF StartInv, Where, AtNode, AtCert, Boxed, Configured
  <2> QED BY <1>1, <2>1, <2>2, <2>5, PairsStay DEF StartInv
<1> QED BY <1>2, <1>3 DEF loadOptions

\* The outbounds of the configuration, whoever wrote it.
LEMMA ConfigOutbounds ==
    ASSUME StartInv, proc \in Configured PROVE config.outbounds \in Seq(Options)
<1>1. Nodes \in Seq(Node) /\ setup.file.outbounds \in Seq(OutboundOptions)
  BY NodesTyped DEF StartInv
<1>2. CASE IsTopology
  <2>1. config = topologyConfig(Nodes)
    BY <1>2, Zenon DEF StartInv, Where
  <2> QED BY <1>1, <2>1, TopologyOutbounds
<1>3. CASE ~IsTopology
  <2>1. config = setup.file
    BY <1>3, Zenon DEF StartInv, Where
  <2>2. STRING \subseteq Word
    BY DEF Word
  <2> HIDE DEF Word
  <2>3. \A s \in Seq(STRING) : s \in Seq(Word)
    BY <2>2, ListWidens, Zenon
  <2>4. OutboundOptions \subseteq Options
    BY <2>2, <2>3, Zenon DEF OutboundOptions, Options, Tag
  <2> QED BY <1>1, <2>1, <2>4, ListWidens
<1> QED BY <1>2, <1>3

\* From New on the certificates are not looked at any more.
LEMMA BoxedPairs ==
    ASSUME StartInv, proc' \in Boxed, UNCHANGED <<cert, key, faults>>, proc \in Boxed \cup {"new"}
    PROVE  Certificates'
<1>1. faults = 0 => \A p \in Paths : Fine(p)
  BY DEF StartInv, Certificates, Boxed
<1>2. faults' = 0 => \A p \in Paths : Fine(p)'
  BY <1>1 DEF Fine, KeyPair
<1> QED BY <1>2 DEF Certificates, Boxed, AtNode, AtCert

\* What stays true of the configuration.
LEMMA ConfigStays ==
    ASSUME StartInv, proc \in {"new"} \cup Boxed, UNCHANGED <<setup, caps, config>>
    PROVE  /\ IF IsTopology' THEN Validate(Nodes)' /\ config' = topologyConfig(Nodes') ELSE config' = setup'.file
           /\ Kinds(config)' \subseteq Known' /\ UniqueTags(config.outbounds)'
<1>1. IF IsTopology' THEN Validate(Nodes)' /\ config' = topologyConfig(Nodes') ELSE config' = setup'.file
  BY DEF StartInv, Where, IsTopology, Nodes, Configured
<1>2. Kinds(config)' \subseteq Known' /\ UniqueTags(config.outbounds)'
  BY ZenonT(30) DEF StartInv, Where, Kinds, Known, UniqueTags, Configured, Boxed
<1> QED BY <1>1, <1>2

\* box.New creates the outbounds.
LEMMA NewKeeps ==
    ASSUME StartInv, New PROVE StartInv'
<1>1. proc = "new"
  BY DEF New
<1>2. CASE Fatal
  BY <1>1, <1>2, FatalKeeps DEF AtCert
<1>3. CASE /\ outbounds' = Created(Named(config.outbounds)) /\ proc' = "outbounds"
           /\ UNCHANGED <<setup, caps, node, cert, key, config, listening, faults,
                          started, index, progress, tree, verdict>>
  <2>1. MainTyped'
    BY <1>3 DEF StartInv, MainTyped
  <2>2. started = {} /\ index = 1 /\ tree = <<>> /\ verdict = "" /\ listening = {}
    BY <1>1, Zenon DEF StartInv, Where, NoOutbounds, Boxed
  <2>3. config.outbounds \in Seq(Options)
    BY <1>1, ConfigOutbounds DEF Configured
  <2>4. Listing'
    BY <1>3, <2>3, NewListing
  <2>5. OutInv'
    BY <1>3, <2>2, <2>4, FreshList, Zenon
  <2>6. outbounds' = Created(Named(config'.outbounds)) /\ listening' = {} /\ verdict' = ""
    BY <1>3, <2>2, Zenon
  <2>7. /\ IF IsTopology' THEN Validate(Nodes)' /\ config' = topologyConfig(Nodes') ELSE config' = setup'.file
        /\ Kinds(config)' \subseteq Known' /\ UniqueTags(config.outbounds)'
    BY <1>1, <1>3, ConfigStays
  <2>8. Where'
    BY <1>3, <2>6, <2>7, Zenon DEF Where, AtNode, AtCert, Boxed, Configured
  <2>9. Certificates'
    BY <1>1, <1>3, BoxedPairs DEF Boxed
  <2> QED BY <2>1, <2>5, <2>8, <2>9 DEF StartInv
<1> QED BY <1>2, <1>3 DEF New

\* Box.Start starts the outbounds.
LEMMA StartOutboundsKeeps ==
    ASSUME StartInv, StartOutbounds PROVE StartInv'
<1>1. proc = "outbounds"
  BY Zenon DEF StartOutbounds
<1>2. CASE Fatal
  BY <1>1, <1>2, FatalKeeps DEF AtCert
<1>3. CASE startOutbounds /\ UNCHANGED mainVars
  <2>1. UNCHANGED <<setup, caps, proc, node, cert, key, config, listening, faults>>
    BY <1>3 DEF mainVars
  <2>2. MainTyped'
    BY <2>1 DEF StartInv, MainTyped
  <2>3. OutInv'
    BY <1>3, StartOutboundKeeps, EndPassKeeps, LintOutboundKeeps DEF startOutbounds, StartInv
  <2>4. outbounds' = outbounds /\ (verdict' = "started" => started' = Tags(outbounds))
    <3>1. CASE StartOutbound
      <4>1. verdict = "" /\ UNCHANGED <<outbounds, verdict>>
        BY <3>1, Zenon DEF StartOutbound
      <4> QED BY <4>1, Zenon
    <3>2. CASE EndPass
      BY <3>2, Zenon DEF EndPass
    <3>3. CASE LintOutbound
      BY <3>3, Zenon DEF LintOutbound
    <3> QED BY <1>3, <3>1, <3>2, <3>3 DEF startOutbounds
  <2>5. /\ IF IsTopology' THEN Validate(Nodes)' /\ config' = topologyConfig(Nodes') ELSE config' = setup'.file
        /\ Kinds(config)' \subseteq Known' /\ UniqueTags(config.outbounds)'
    BY <1>1, <2>1, ConfigStays DEF Boxed
  <2>6. proc' = "outbounds" /\ listening' = {} /\ outbounds' = Created(Named(config'.outbounds))
    BY <1>1, <2>1, <2>4, Zenon DEF StartInv, Where, Boxed
  <2>7. (verdict = "started" => started = Tags(outbounds))'
    BY <2>4
  <2>8. Where'
    BY <2>5, <2>6, <2>7, Zenon DEF Where, AtNode, AtCert, Boxed, Configured
  <2>9. Certificates'
    BY <1>1, <2>1, BoxedPairs DEF Boxed
  <2> QED BY <2>2, <2>3, <2>8, <2>9 DEF StartInv
<1>4. CASE verdict = "started" /\ Goto("inbounds") /\ UNCHANGED <<node, cert, key, config>>
  <2>1. proc' = "inbounds" /\ UNCHANGED <<setup, caps, cert, key, config, listening, faults, outVars>>
    BY <1>4 DEF Goto
  <2>2. MainTyped' /\ OutInv'
    BY <2>1, OutSame DEF StartInv, MainTyped
  <2>3. /\ IF IsTopology' THEN Validate(Nodes)' /\ config' = topologyConfig(Nodes') ELSE config' = setup'.file
        /\ Kinds(config)' \subseteq Known' /\ UniqueTags(config.outbounds)'
    BY <1>1, <2>1, ConfigStays DEF Boxed
  <2>4. /\ verdict' = "started" /\ outbounds' = Created(Named(config'.outbounds))
        /\ (verdict = "started" => started = Tags(outbounds))'
    <3>1. UNCHANGED <<outbounds, started, verdict>>
      BY <2>1 DEF outVars
    <3> QED BY <1>1, <1>4, <2>1, <3>1, Zenon DEF StartInv, Where, Boxed, Tags
  <2>5. Where'
    BY <2>1, <2>3, <2>4, Zenon DEF Where, AtNode, AtCert, Boxed, Configured
  <2>6. Certificates'
    BY <1>1, <2>1, BoxedPairs DEF Boxed
  <2> QED BY <2>2, <2>5, <2>6 DEF StartInv
<1> QED BY <1>2, <1>3, <1>4, Zenon DEF StartOutbounds

\* Box.Start starts the inbounds.
LEMMA StartInboundsKeeps ==
    ASSUME StartInv, StartInbounds PROVE StartInv'
<1>1. /\ proc = "inbounds" /\ proc' \in {"inbounds", "serving"}
      /\ UNCHANGED <<setup, caps, cert, key, config, faults, outVars>>
  BY Zenon DEF StartInbounds, Goto
<1>2. MainTyped' /\ OutInv'
  BY <1>1, OutSame DEF StartInv, MainTyped
<1>3. /\ IF IsTopology' THEN Validate(Nodes)' /\ config' = topologyConfig(Nodes') ELSE config' = setup'.file
      /\ Kinds(config)' \subseteq Known' /\ UniqueTags(config.outbounds)'
  BY <1>1, ConfigStays DEF Boxed
<1>4. /\ verdict' = "started" /\ outbounds' = Created(Named(config'.outbounds))
      /\ (verdict = "started" => started = Tags(outbounds))'
  <2>1. UNCHANGED <<outbounds, started, verdict>>
    BY <1>1 DEF outVars
  <2> QED BY <1>1, <2>1 DEF StartInv, Where, Boxed, Tags
<1>5. Where'
  BY <1>1, <1>3, <1>4, Zenon DEF Where, AtNode, AtCert, Boxed, Configured
<1>6. Certificates'
  BY <1>1, BoxedPairs DEF Boxed
<1> QED BY <1>2, <1>5, <1>6 DEF StartInv

\* A fault ends the process, at any point.
LEMMA CrashKeeps ==
    ASSUME StartInv, Crash PROVE StartInv'
<1>1. /\ faults < MaxFaults /\ faults' = faults + 1 /\ Exit /\ UNCHANGED <<setup, caps, cert, key>>
      /\ faults \in 0 .. MaxFaults
  BY DEF Crash, StartInv, MainTyped
<1>2. faults' \in 0 .. MaxFaults /\ faults' # 0
  BY <1>1, MaxFaultsAssumption
<1> QED BY <1>1, <1>2, ExitKeeps

-----------------------------------------------------------------------------
(* What has been checked on the way *)

\* Every check is passed before main goes on, and none of them expires: the nodes
\* up to the one that is worked on are usable, then all of them, then the tags of
\* the inbounds are different, the outbounds can be made, the default is there.
CheckInv ==
    /\ proc \in AtNode => \A i \in DOMAIN Nodes :
            i < node \/ (i = node /\ proc \in AtCert) => Usable(Nodes[i])
    /\ proc \in {"write"} \cup Configured => \A i \in DOMAIN Nodes : Usable(Nodes[i])
    /\ proc \in {"new"} \cup Boxed => UniqueTags(config.inbounds)
    /\ proc \in Boxed => Constructible(config.outbounds)
    /\ proc \in {"inbounds", "serving"} => config.final \in Tags(outbounds) \cup {<<>>}

\* A process that has ended, or that starts, has checked nothing.
LEMMA NothingChecked ==
    ASSUME proc' \in {"off", "down", "load"} PROVE CheckInv'
BY DEF CheckInv, AtNode, AtCert, Boxed, Configured

\* A step to the next node, after one that is usable.
LEMMA NextNodeChecked ==
    ASSUME StartInv, CheckInv, proc \in AtNode, NextNode, Usable(Nodes[node])
    PROVE  CheckInv'
<1>1. /\ node' = node + 1 /\ setup' = setup
      /\ proc' = IF node < Len(Nodes) THEN "fetch" ELSE "write"
  BY DEF NextNode, Goto
<1>2. node \in 1..Len(Nodes) /\ Len(Nodes) \in Nat /\ DOMAIN Nodes = 1..Len(Nodes)
  BY NodesTyped DEF StartInv, Where
<1>3. ASSUME NEW i \in DOMAIN Nodes, i <= node PROVE Usable(Nodes[i])
  <2>1. i < node \/ i = node
    BY <1>2, <1>3
  <2> QED BY <2>1 DEF CheckInv
<1>4. Nodes' = Nodes /\ \A i \in DOMAIN Nodes : Usable(Nodes[i])' <=> Usable(Nodes[i])
  BY <1>1 DEF Nodes, Usable
<1>5. CASE node < Len(Nodes)
  <2>1. proc' = "fetch"
    BY <1>1, <1>5
  <2>2. \A i \in DOMAIN Nodes : i < node' => Usable(Nodes[i])
    BY <1>1, <1>2, <1>3
  <2> QED BY <1>4, <2>1, <2>2 DEF CheckInv, AtCert, Boxed, Configured
<1>6. CASE ~(node < Len(Nodes))
  <2>1. proc' = "write"
    BY <1>1, <1>6
  <2>2. \A i \in DOMAIN Nodes : Usable(Nodes[i])
    BY <1>2, <1>3, <1>6
  <2> QED BY <1>4, <2>1, <2>2 DEF CheckInv, AtNode, AtCert, Boxed, Configured
<1> QED BY <1>5, <1>6

\* The steps up to the configuration.
LEMMA NodesChecked ==
    ASSUME StartInv, CheckInv,
           Load \/ Fetch \/ Stat \/ OpenCert \/ WriteCert \/ OpenKey \/ WriteKey \/ WriteConfig
    PROVE  CheckInv'
<1>1. CASE Fatal
  BY <1>1, NothingChecked DEF Fatal, Exit
<1>2. CASE proc \in AtCert /\ NextNode
  <2>1. node \in DOMAIN Nodes
    BY <1>2 DEF StartInv, Where, AtNode
  <2>2. Usable(Nodes[node])
    BY <1>2, <2>1 DEF CheckInv, AtNode
  <2> QED BY <1>2, <2>2, NextNodeChecked DEF AtNode
<1>3. CASE proc \in AtCert /\ proc' \in AtCert /\ UNCHANGED <<setup, node>>
  BY <1>3 DEF CheckInv, AtNode, AtCert, Boxed, Configured, Nodes, Usable
<1>4. CASE Load /\ ~Fatal
  <2>1. CASE IsTopology /\ node' = 1 /\ Goto("fetch")
    <3>1. proc' = "fetch" /\ setup' = setup /\ node' = 1 /\ Nodes' = Nodes
      BY <2>1 DEF Goto, Nodes
    <3>2. \A i \in DOMAIN Nodes : ~(i < 1)
      BY NodesTyped DEF StartInv
    <3> QED BY <3>1, <3>2 DEF CheckInv, AtNode, AtCert, Boxed, Configured
  <2>2. CASE ~IsTopology /\ Goto("options")
    <3>1. proc' = "options" /\ DOMAIN Nodes' = {}
      BY <2>2 DEF Goto, Nodes, IsTopology
    <3> QED BY <3>1 DEF CheckInv, AtNode, AtCert, Boxed, Configured
  <2> QED BY <1>4, <2>1, <2>2 DEF Load
<1>5. CASE Fetch /\ ~Fatal
  <2>1. proc = "fetch" /\ proc \in AtNode /\ Usable(Nodes[node])
    BY <1>5 DEF Fetch, AtNode
  <2>2. CASE Goto("stat") /\ UNCHANGED node
    <3>1. proc' = "stat" /\ setup' = setup /\ node' = node
      BY <2>2 DEF Goto
    <3> QED BY <2>1, <3>1 DEF CheckInv, AtNode, AtCert, Boxed, Configured, Nodes, Usable
  <2>3. CASE NextNode
    BY <2>1, <2>3, NextNodeChecked
  <2> QED BY <1>5, <2>2, <2>3 DEF Fetch
<1>6. CASE WriteConfig
  BY <1>6 DEF WriteConfig, Goto, CheckInv, AtNode, AtCert, Boxed, Configured, Nodes, Usable
<1>7. CASE Stat
  BY <1>2, <1>3, <1>7 DEF Stat, Goto, AtCert
<1>8. CASE OpenCert \/ WriteCert \/ OpenKey
  BY <1>3, <1>8 DEF OpenCert, WriteCert, OpenKey, Goto, AtCert
<1>9. CASE WriteKey
  BY <1>2, <1>9 DEF WriteKey, AtCert
<1> QED BY <1>1, <1>4, <1>5, <1>6, <1>7, <1>8, <1>9

\* The steps of the box.
LEMMA BoxChecked ==
    ASSUME StartInv, CheckInv, loadOptions \/ New \/ StartOutbounds \/ StartInbounds
    PROVE  CheckInv'
<1>1. CASE Fatal
  BY <1>1, NothingChecked DEF Fatal, Exit
<1>2. ASSUME UNCHANGED <<setup, config>>, proc \in Configured, proc' \in Configured,
             proc' \in {"new"} \cup Boxed => UniqueTags(config.inbounds),
             proc' \in Boxed => Constructible(config.outbounds),
             proc' \in {"inbounds", "serving"} => config.final \in Tags(outbounds') \cup {<<>>}
      PROVE  CheckInv'
  <2>1. \A i \in DOMAIN Nodes : Usable(Nodes[i])
    BY <1>2 DEF CheckInv
  <2>2. \A i \in DOMAIN Nodes' : Usable(Nodes[i])'
    BY <1>2, <2>1 DEF Nodes, Usable
  <2>3. proc' \notin AtNode
    BY <1>2 DEF AtNode, AtCert, Configured, Boxed
  <2> QED BY <1>2, <2>2, <2>3, Zenon DEF CheckInv, UniqueTags, Constructible, Tags
<1>3. CASE loadOptions /\ ~Fatal
  <2>1. proc = "options" /\ proc' = "new" /\ UNCHANGED <<setup, config>> /\ UniqueTags(config.inbounds)
    BY <1>3 DEF loadOptions, Goto
  <2> QED BY <1>2, <2>1 DEF Configured, Boxed
<1>4. CASE New /\ ~Fatal
  <2>1. proc = "new" /\ proc' = "outbounds" /\ UNCHANGED <<setup, config>> /\ Constructible(config.outbounds)
    BY <1>4, Zenon DEF New
  <2>2. UniqueTags(config.inbounds)
    BY <2>1 DEF CheckInv
  <2> QED BY <1>2, <2>1, <2>2 DEF Configured, Boxed
<1>5. CASE StartOutbounds /\ ~Fatal
  <2>1. proc = "outbounds" /\ config.final \in Tags(outbounds) \cup {<<>>}
    BY <1>5, Zenon DEF StartOutbounds
  <2>2. UniqueTags(config.inbounds) /\ Constructible(config.outbounds)
    BY <2>1 DEF CheckInv, Boxed
  <2>3. CASE UNCHANGED mainVars
    <3>1. proc' = "outbounds" /\ UNCHANGED <<setup, config>>
      BY <2>1, <2>3 DEF mainVars
    <3> QED BY <1>2, <2>1, <2>2, <3>1 DEF Configured, Boxed
  <2>4. CASE Goto("inbounds") /\ UNCHANGED config
    <3>1. proc' = "inbounds" /\ UNCHANGED <<setup, config, outbounds>>
      BY <2>4 DEF Goto, outVars
    <3> QED BY <1>2, <2>1, <2>2, <3>1 DEF Configured, Boxed
  <2> QED BY <1>5, <2>3, <2>4, Zenon DEF StartOutbounds
<1>6. CASE StartInbounds
  <2>1. /\ proc = "inbounds" /\ proc' \in {"inbounds", "serving"}
        /\ UNCHANGED <<setup, config, outVars>>
    BY <1>6, Zenon DEF StartInbounds, Goto
  <2>2. /\ UniqueTags(config.inbounds) /\ Constructible(config.outbounds)
        /\ config.final \in Tags(outbounds) \cup {<<>>} /\ outbounds' = outbounds
    BY <2>1 DEF CheckInv, Boxed, outVars
  <2> QED BY <1>2, <2>1, <2>2 DEF Configured, Boxed
<1> QED BY <1>1, <1>3, <1>4, <1>5, <1>6

-----------------------------------------------------------------------------
(* Results *)

\* The invariant of the start: what has been done by the time main stands where
\* it does, and what is on the disk.
THEOREM StartInvariant == Spec => []StartInv
<1>1. ASSUME Init PROVE StartInv
  <2>1. MainTyped
    BY <1>1, SetupsAssumption, MaxFaultsAssumption DEF Init, MainTyped, Files
  <2>2. proc = "off" /\ config = NoConfig /\ listening = {} /\ NoOutbounds
    BY <1>1, Zenon DEF Init
  <2>3. outbounds = <<>> /\ started = {} /\ index = 1 /\ tree = <<>> /\ verdict = ""
    BY <2>2, Zenon DEF NoOutbounds
  <2>4. Listing
    <3>1. outbounds = <<>>
      BY <2>3, Zenon
    <3> QED BY <3>1 DEF Listing
  <2>5. OutInv
    BY <2>3, <2>4, FreshList, ZenonT(30)
  <2>6. Where
    BY <2>2, <2>3, Zenon DEF Where, AtNode, AtCert, Boxed, Configured
  <2>7. \A p \in Paths : Fine(p)
    BY <1>1, SetupsAssumption DEF Init, Fine, KeyPair
  <2>8. Certificates
    BY <2>2, <2>7 DEF Certificates, AtNode, AtCert
  <2> QED BY <2>1, <2>5, <2>6, <2>8 DEF StartInv
<1>2. ASSUME StartInv, Next PROVE StartInv'
  BY <1>2, RestartKeeps, CrashKeeps, LoadKeeps, FetchKeeps, CertStepKeeps, WriteConfigKeeps,
     OptionsKeep, NewKeeps, StartOutboundsKeeps, StartInboundsKeeps DEF Next, Main
<1>3. ASSUME StartInv, UNCHANGED vars PROVE StartInv'
  <2>1. UNCHANGED mainVars /\ UNCHANGED outVars
    BY <1>3 DEF vars
  <2>2. UNCHANGED <<setup, caps, proc, node, cert, key, config, listening, faults>>
    BY <2>1 DEF mainVars
  <2>3. MainTyped' /\ OutInv'
    BY <1>3, <2>1, <2>2, OutSame DEF StartInv, MainTyped
  <2>4. Certificates'
    BY <1>3, <2>2 DEF StartInv, Certificates, Fine, KeyPair, Hysteria, Nodes, Path
  <2>5. Where'
    <3>1. NoOutbounds' <=> NoOutbounds
      BY <2>1, Zenon DEF NoOutbounds, outVars
    <3>2. UNCHANGED <<outbounds, started, verdict>>
      BY <2>1 DEF outVars
    <3> QED BY <1>3, <2>2, <3>1, <3>2, ZenonT(30)
            DEF StartInv, Where, Nodes, IsTopology, Kinds, Known, UniqueTags, Tags
  <2> QED BY <2>3, <2>4, <2>5 DEF StartInv
<1> QED BY <1>1, <1>2, <1>3, PTL DEF Spec

\* Where main stands agrees with what it has: a node to work on, outbounds and
\* listening inbounds only in their time.
THEOREM StartTypes == Spec => []TypeOK
<1>1. ASSUME StartInv PROVE TypeOK
  <2>1. started \subseteq Tags(outbounds)
    BY <1>1 DEF StartInv, OutInv, Closed
  <2>2. proc \in {"off", "down", "load"} => outbounds = <<>>
    BY <1>1, Zenon DEF StartInv, Where, Boxed, NoOutbounds
  <2> QED BY <1>1, <2>1, <2>2, Zenon DEF StartInv, MainTyped, Where, TypeOK, AtNode, AtCert, Boxed
<1> QED BY <1>1, StartInvariant, PTL

\* startOutbounds starts a list exactly as far as it is sound: for every list of
\* every configuration "started" means that no detour is missing or circular,
\* and the error it returns is true of the list.
THEOREM VerdictCorrect == Spec => []DependencyVerdict
<1>1. StartInv => DependencyVerdict
  BY DEF StartInv, OutInv
<1> QED BY <1>1, StartInvariant, PTL

\* For every topology that Validate accepts, with any names and any tags, an
\* inbound that listens leads to its own node's outbound, which is started.
THEOREM NodesLeaveByTheirOwn == Spec => []OwnExit
<1>1. ASSUME StartInv, IsTopology PROVE OwnExit
  <2>1. Nodes \in Seq(Node)
    BY <1>1, NodesTyped DEF StartInv
  <2>2. SUFFICES ASSUME listening # {} PROVE OwnExit
    BY DEF OwnExit
  <2>3. proc \in {"inbounds", "serving"}
    BY <1>1, <2>2 DEF StartInv, Where
  <2>4. /\ Validate(Nodes) /\ config = topologyConfig(Nodes) /\ UniqueTags(config.outbounds)
        /\ outbounds = Created(Named(config.outbounds)) /\ started = Tags(outbounds)
    BY <1>1, <2>3 DEF StartInv, Where, Boxed, Configured
  <2>5. Listing
    BY <1>1 DEF StartInv, OutInv
  <2> DEFINE outs == config.outbounds
  <2>6. /\ outs \in Seq(Options) /\ \A i \in DOMAIN outs : outs[i].tag # <<>>
        /\ Range(CommonOutbounds) \subseteq Range(outs)
        /\ \A n \in Range(Nodes) : Shadowsocks(n) => outboundFromNodeSpec(n) \in Range(outs)
    BY <2>1, <2>4, TopologyOutbounds, ZenonT(30)
  <2>7. \A i, j \in DOMAIN outs : i # j => outs[i].tag # outs[j].tag
    BY <2>4, <2>6 DEF UniqueTags
  <2>8. Range(outs) \subseteq Range(outbounds)
    <3> HIDE DEF outs
    <3>1. Named(outs) = outs /\ outs \in Seq(Listed)
      BY <2>6, NamedList
    <3>2. outbounds = Created(outs)
      BY <2>4, <3>1 DEF outs
    <3> QED BY <2>6, <2>7, <3>1, <3>2, CreatedList
  <2> HIDE DEF outs
  <2>9. \A o \in Range(outs) : Outbound(o.tag) = o /\ o.tag \in started
    BY <2>4, <2>5, <2>8, OutboundOfTag
  <2>10. /\ Outbound(<<"direct">>).kind = "direct" /\ <<"direct">> \in started
         /\ Outbound(<<"block">>).kind = "block"
    <3>1. CommonOutbounds[1] \in Range(outs) /\ CommonOutbounds[2] \in Range(outs)
      <4>1. 1 \in DOMAIN CommonOutbounds /\ 2 \in DOMAIN CommonOutbounds
        BY DEF CommonOutbounds
      <4> QED BY <2>6, <4>1, Zenon DEF Range
    <3>2. /\ CommonOutbounds[1].tag = <<"direct">> /\ CommonOutbounds[1].kind = "direct"
          /\ CommonOutbounds[2].tag = <<"block">> /\ CommonOutbounds[2].kind = "block"
      BY DEF CommonOutbounds
    <3> QED BY <2>9, <3>1, <3>2
  <2>11. config.final = <<"block">>
    BY <2>4 DEF topologyConfig
  <2>12. ASSUME NEW i \in DOMAIN Nodes
         PROVE  LET exit == ExitOf(InboundTag(Nodes[i]))
                IN  /\ exit \in started
                    /\ IF Shadowsocks(Nodes[i]) THEN Outbound(exit).owner = NodeKey(Nodes[i])
                       ELSE Outbound(exit).kind = "direct"
    <3>1. ExitOf(InboundTag(Nodes[i])) = RuleTag(Nodes[i])
      BY <2>1, <2>4, RuleOfNode
    <3>2. CASE Shadowsocks(Nodes[i])
      <4> DEFINE o == outboundFromNodeSpec(Nodes[i])
      <4>1. o \in Range(outs)
        BY <2>6, <3>2 DEF Range
      <4>2. o.tag = RuleTag(Nodes[i]) /\ o.owner = NodeKey(Nodes[i])
        BY <3>2 DEF outboundFromNodeSpec, RuleTag
      <4> HIDE DEF o
      <4> QED BY <2>9, <3>1, <3>2, <4>1, <4>2
    <3>3. CASE ~Shadowsocks(Nodes[i])
      <4>1. RuleTag(Nodes[i]) = <<"direct">>
        BY <3>3 DEF RuleTag
      <4> QED BY <2>10, <3>1, <3>3, <4>1
    <3> QED BY <3>2, <3>3
  <2> QED BY <2>10, <2>11, <2>12 DEF OwnExit
<1>2. StartInv => OwnExit
  BY <1>1 DEF OwnExit
<1> QED BY <1>2, StartInvariant, PTL

\* Whatever the agent is set up with, nothing listens unless all of it can be
\* served.
THEOREM OnlyFitListens == Spec => []ListensOnlyIfFit
<1>1. Init => CheckInv
  BY DEF Init, CheckInv, AtNode, AtCert, Boxed, Configured
<1>2. ASSUME StartInv, CheckInv, Next PROVE CheckInv'
  <2>1. CASE Restart \/ Crash
    BY <2>1, NothingChecked DEF Restart, Goto, Crash, Exit
  <2> QED BY <1>2, <2>1, NodesChecked, BoxChecked DEF Next, Main
<1>3. ASSUME CheckInv, UNCHANGED vars PROVE CheckInv'
  <2>1. UNCHANGED <<setup, proc, node, config, outbounds>>
    BY <1>3 DEF vars, mainVars, outVars
  <2> QED BY <1>3, <2>1, ZenonT(30) DEF CheckInv, Nodes, Usable, UniqueTags, Constructible, Tags
<1>4. ASSUME StartInv, CheckInv, proc \in {"inbounds", "serving"} PROVE Fit
  <2>1. /\ IF IsTopology THEN Validate(Nodes) /\ config = topologyConfig(Nodes) ELSE config = setup.file
        /\ Kinds(config) \subseteq Known /\ UniqueTags(config.outbounds)
        /\ outbounds = Created(Named(config.outbounds)) /\ verdict = "started"
    BY <1>4 DEF StartInv, Where, Boxed, Configured
  <2>2. Sound(outbounds)
    BY <1>4, <2>1 DEF StartInv, OutInv, DependencyVerdict
  <2>3. /\ UniqueTags(config.inbounds) /\ Constructible(config.outbounds)
        /\ config.final \in Tags(outbounds) \cup {<<>>}
        /\ \A i \in DOMAIN Nodes : Usable(Nodes[i])
    BY <1>4 DEF CheckInv, Boxed, Configured
  <2>4. CASE ~IsTopology
    BY <2>1, <2>2, <2>3, <2>4, Zenon DEF Fit
  <2>5. CASE IsTopology
    <3>1. config = topologyConfig(Nodes) /\ Validate(Nodes) /\ Nodes \in Seq(Node)
      BY <1>4, <2>1, <2>5, NodesTyped DEF StartInv
    <3>2. ASSUME NEW i \in DOMAIN Nodes PROVE Nodes[i].type \in caps
      <4>1. Nodes[i].type \in Kinds(config)
        BY <3>1 DEF Kinds, topologyConfig
      <4>2. Nodes[i].type \in {"vless", "hysteria"}
        BY <3>1 DEF Validate, ValidNode
      <4> QED BY <2>1, <4>1, <4>2 DEF Known
    <3>3. ASSUME NEW i \in DOMAIN Nodes, Shadowsocks(Nodes[i]) PROVE "ss" \in caps
      <4>1. outboundFromNodeSpec(Nodes[i]) \in Range(config.outbounds)
        BY <3>1, <3>3, TopologyOutbounds DEF Range
      <4>2. "ss" \in Kinds(config)
        BY <4>1 DEF Range, Kinds, outboundFromNodeSpec
      <4> QED BY <2>1, <4>2 DEF Known
    <3> QED BY <2>3, <2>5, <3>1, <3>2, <3>3, Zenon DEF Fit
  <2> QED BY <2>4, <2>5
<1>5. ASSUME StartInv, CheckInv PROVE ListensOnlyIfFit
  <2>1. listening # {} \/ proc = "serving" => proc \in {"inbounds", "serving"}
    BY <1>5 DEF StartInv, Where
  <2> QED BY <1>4, <1>5, <2>1, Zenon DEF ListensOnlyIfFit
<1> QED BY <1>1, <1>2, <1>3, <1>5, StartInvariant, PTL DEF Spec

\* Without a fault box.New finds a whole pair for every Hysteria2 node, however
\* many there are and whichever files were there.
THEOREM PairsAreWhole == Spec => []WholePairs
<1>1. StartInv => WholePairs
  BY DEF StartInv, Certificates, WholePairs
<1> QED BY <1>1, StartInvariant, PTL

=============================================================================
