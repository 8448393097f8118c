----------------------------- MODULE UserProofs -----------------------------
(***************************************************************************)
(* What UserManager keeps true of its inbounds and its limiters, for any   *)
(* users, lists, inbounds and connections.                                 *)
(***************************************************************************)
EXTENDS UserManager, CollectionProofs

(* What stays of an inbound's list when the removed users are off it, as   *)
(* a set and by id.                                                        *)
Common(t) == Credential(t, byInbound[t], Ids \ removed(t))

Reduced(t) == [i \in Ids |-> IF i \in removed(t) THEN 0 ELSE Secret(t, byInbound[t])[i]]

(* The inbound t has exactly the users of a list.                          *)
Settled(t, list) ==
    /\ Range(users[t]) = Accepted(t, list)
    /\ table[t] = users[t]
    /\ t \in Hy2Tags => uid[t] = Secret(t, list)

AtTag == {"del", "updateDel", "add", "updateAdd"}

(* The inbound that is being worked on, stage by stage.                    *)
AtWork ==
    /\ phase = "del" => Settled(tag, byInbound[tag])
    /\ phase = "updateDel" => /\ Range(users[tag]) = Common(tag)
                              /\ Range(table[tag]) = Accepted(tag, byInbound[tag])
                              /\ tag \in Hy2Tags => uid[tag] = Reduced(tag)
    /\ phase = "add" => /\ Range(users[tag]) = Common(tag)
                        /\ table[tag] = users[tag]
                        /\ tag \in Hy2Tags => uid[tag] = Reduced(tag)
    /\ phase = "updateAdd" => /\ Range(users[tag]) = Accepted(tag, next[tag])
                              /\ Range(table[tag]) = Common(tag)
                              /\ tag \in Hy2Tags => uid[tag] = Secret(tag, next[tag])

(* How far the application of a list has got on every inbound.             *)
Progress ==
    /\ phase = "idle" => byInbound = next
    /\ phase \in AtTag => tag \in Tags \ todo
    /\ \A t \in todo : Settled(t, byInbound[t])
    /\ \A t \in Tags \ todo : phase \notin AtTag \/ t # tag => Settled(t, next[t])
    /\ AtWork

(* The types, with the inbounds' lists as sequences.                       *)
Typed ==
    /\ byInbound \in [Tags -> [Ids -> User]]
    /\ bySecret \subseteq Credentials
    /\ limiters \in [Ids -> Pairs \cup {0}]
    /\ closed \subseteq Ids \X Pairs
    /\ phase \in {"idle", "tags"} \cup AtTag
    /\ next \in [Tags -> [Ids -> User]]
    /\ todo \subseteq Tags
    /\ tag \in Tags \cup {NoTag}
    /\ users \in [Tags -> Seq(Credentials)]
    /\ table \in [Tags -> Seq(Credentials)]
    /\ uid \in [Hy2Tags -> [Ids -> Nat]]
    /\ userconns \subseteq Conns

(* What a connection carries at each of its steps.                         *)
Carries(c) ==
    /\ conn[c].pc \in {"free", "auth", "named", "tracked", "limited", "open", "panic"}
    /\ conn[c].pc = "auth" => conn[c].tag \in Tags /\ conn[c].cred \in Credentials
    /\ conn[c].pc \in {"named", "tracked", "limited", "open"} => conn[c].user \in Credentials
    /\ conn[c].pc \in {"limited", "open"} => conn[c].lim \in Pairs \cup {0}

ConnsTyped ==
    /\ conn = [c \in Conns |-> conn[c]]
    /\ \A c \in Conns : Carries(c)

UserInv == Typed /\ ConnsTyped /\ Progress /\ StableLimiters

-----------------------------------------------------------------------------
(* What an inbound authenticates is a number.                              *)
LEMMA SecretType ==
    ASSUME NEW t, NEW list \in [Ids -> User]
    PROVE  Secret(t, list) \in [Ids -> Nat]
BY DEF Secret, User

(* Equal users have equal secrets, and who is not listed has none.         *)
LEMMA SecretOf ==
    ASSUME NEW t, NEW f \in [Ids -> User], NEW g \in [Ids -> User], NEW i \in Ids
    PROVE  /\ f[i] = g[i] => Secret(t, f)[i] = Secret(t, g)[i]
           /\ f[i] = NoUser => Secret(t, f)[i] = 0
BY DEF Secret, NoUser

(* A list accepts one credential of an id, or none.                        *)
LEMMA CredentialOf ==
    ASSUME NEW t, NEW list \in [Ids -> User], NEW ids \in SUBSET Ids
    PROVE  /\ \A i, v : <<i, v>> \in Credential(t, list, ids) <=>
                            i \in ids /\ v = Secret(t, list)[i] /\ v # 0
           /\ Credential(t, list, ids) \subseteq Credentials
<1> DEFINE secret == Secret(t, list)
<1>1. secret \in [Ids -> Nat]
  BY SecretType
<1>2. Credential(t, list, ids) = {<<i, secret[i]>> : i \in {j \in ids : secret[j] # 0}}
  BY DEF Credential
<1> HIDE DEF secret
<1>3. \A i, v : <<i, v>> \in Credential(t, list, ids) <=> i \in ids /\ v = secret[i] /\ v # 0
  BY <1>2
<1>4. Credential(t, list, ids) \subseteq Credentials
  BY <1>1, <1>2 DEF Credentials
<1> QED BY <1>3, <1>4 DEF secret

(* The ids it accepts.                                                     *)
LEMMA CredentialIds ==
    ASSUME NEW t, NEW list, NEW ids
    PROVE  \A i : (\E cred \in Credential(t, list, ids) : cred[1] = i) <=>
                     i \in ids /\ Secret(t, list)[i] # 0
<1> DEFINE secret == Secret(t, list)
<1>1. Credential(t, list, ids) = {<<j, secret[j]>> : j \in {k \in ids : secret[k] # 0}}
  BY DEF Credential
<1> HIDE DEF secret
<1>2. \A cred \in Credential(t, list, ids) : cred[1] \in ids /\ secret[cred[1]] # 0
  BY <1>1
<1>3. ASSUME NEW i, i \in ids, secret[i] # 0
      PROVE  <<i, secret[i]>> \in Credential(t, list, ids) /\ <<i, secret[i]>>[1] = i
  BY <1>1, <1>3
<1> QED BY <1>2, <1>3, ZenonT(40) DEF secret

(* Sets of credentials are compared credential by credential.              *)
LEMMA SamePairs ==
    ASSUME NEW X \in SUBSET Credentials, NEW Y \in SUBSET Credentials,
           \A i \in Ids : \A v : <<i, v>> \in X <=> <<i, v>> \in Y
    PROVE  X = Y
BY DEF Credentials

(* A list accepts finitely many credentials.                               *)
LEMMA CredentialFinite ==
    ASSUME NEW t, NEW list \in [Ids -> User], NEW ids \in SUBSET Ids
    PROVE  IsFiniteSet(Credential(t, list, ids))
<1> DEFINE S == {j \in ids : Secret(t, list)[j] # 0}
           f == [i \in S |-> <<i, Secret(t, list)[i]>>]
<1>1. IsFiniteSet(S)
  BY TagsAssumption, FS_Subset
<1>2. f \in Surjection(S, Credential(t, list, ids))
  BY Zenon DEF Surjection, Credential
<1> QED BY <1>1, <1>2, FS_Surjection

(* A sequence of all elements of a set, without repetition, appended.      *)
LEMMA AppendedRange ==
    ASSUME NEW E, NEW s \in Seq(E), NEW S, S \subseteq E, IsFiniteSet(S),
           NEW order \in Orders(S)
    PROVE  /\ s \o order \in Seq(E)
           /\ Range(s \o order) = Range(s) \cup S
<1> DEFINE n == Cardinality(S)
<1>1. n \in Nat
  BY FS_CardinalityType
<1>2. order \in [1..n -> S] /\ order \in Surjection(1..n, S)
  BY DEF Orders, Bijection, Injection
<1> HIDE DEF n
<1>6. order \in Seq(E) /\ Len(order) = n /\ DOMAIN order = 1..n
  BY <1>1, <1>2
<1>7. \A x \in S : \E i \in 1..n : order[i] = x
  BY <1>2 DEF Surjection
<1>8. Range(order) = S
  BY <1>2, <1>6, <1>7 DEF Range
<1> QED BY <1>6, <1>8, JoinedRange

-----------------------------------------------------------------------------
(* How the secret of one user changes.                                     *)
LEMMA DeltaOf ==
    ASSUME Typed, NEW t \in Tags, NEW i \in Ids
    PROVE  LET old == Secret(t, byInbound[t])[i]
               new == Secret(t, next[t])[i]
           IN /\ i \notin removed(t) => old \in {0, new}
              /\ i \notin added(t) => new = IF i \in removed(t) THEN 0 ELSE old
              /\ i \in added(t) /\ i \notin removed(t) => old = 0
<1>1. byInbound[t] \in [Ids -> User] /\ next[t] \in [Ids -> User]
  BY DEF Typed
<1>2. i \in removed(t) <=> byInbound[t][i] # NoUser /\ byInbound[t][i] # next[t][i]
  BY DEF removed
<1>3. i \in added(t) <=> next[t][i] # NoUser /\ byInbound[t][i] # next[t][i]
  BY DEF added
<1>4. /\ byInbound[t][i] = next[t][i] => Secret(t, byInbound[t])[i] = Secret(t, next[t])[i]
      /\ byInbound[t][i] = NoUser => Secret(t, byInbound[t])[i] = 0
      /\ next[t][i] = NoUser => Secret(t, next[t])[i] = 0
  BY <1>1, SecretOf
<1> QED BY <1>2, <1>3, <1>4

(* The two deltas, in terms of what stays.                                 *)
LEMMA Deltas ==
    ASSUME Typed, NEW t \in Tags
    PROVE  /\ byInbound[t] \in [Ids -> User] /\ next[t] \in [Ids -> User]
           /\ Accepted(t, byInbound[t]) \ remove(t) = Common(t)
           /\ Common(t) \cup desired(t) = Accepted(t, next[t])
           /\ removed(t) \in SUBSET Ids /\ added(t) \in SUBSET Ids /\ Reduced(t) \in [Ids -> Nat]
           /\ remove(t) = {} => Common(t) = Accepted(t, byInbound[t]) /\ Reduced(t) = Secret(t, byInbound[t])
           /\ desired(t) = {} => Common(t) = Accepted(t, next[t]) /\ Reduced(t) = Secret(t, next[t])
<1> DEFINE old == Secret(t, byInbound[t])
           new == Secret(t, next[t])
<1>1. byInbound[t] \in [Ids -> User] /\ next[t] \in [Ids -> User]
  BY DEF Typed
<1>2. old \in [Ids -> Nat] /\ new \in [Ids -> Nat]
  BY <1>1, SecretType
<1>3. removed(t) \in SUBSET Ids /\ added(t) \in SUBSET Ids
  BY DEF removed, added
<1>4. /\ \A i, v : <<i, v>> \in Accepted(t, byInbound[t]) <=> i \in Ids /\ v = old[i] /\ v # 0
      /\ Accepted(t, byInbound[t]) \subseteq Credentials
  BY <1>1, CredentialOf, Zenon DEF Accepted
<1>5. /\ \A i, v : <<i, v>> \in Accepted(t, next[t]) <=> i \in Ids /\ v = new[i] /\ v # 0
      /\ Accepted(t, next[t]) \subseteq Credentials
  BY <1>1, CredentialOf, Zenon DEF Accepted
<1>6. /\ \A i, v : <<i, v>> \in remove(t) <=> i \in removed(t) /\ v = old[i] /\ v # 0
      /\ remove(t) \subseteq Credentials
  BY <1>1, <1>3, CredentialOf, Zenon DEF remove
<1>7. /\ \A i, v : <<i, v>> \in desired(t) <=> i \in added(t) /\ v = new[i] /\ v # 0
      /\ desired(t) \subseteq Credentials
  BY <1>1, <1>3, CredentialOf, Zenon DEF desired
<1>8. /\ \A i, v : <<i, v>> \in Common(t) <=> i \in Ids \ removed(t) /\ v = old[i] /\ v # 0
      /\ Common(t) \subseteq Credentials
  <2>1. Ids \ removed(t) \in SUBSET Ids
    OBVIOUS
  <2> QED BY <1>1, <2>1, CredentialOf, Zenon DEF Common
<1>9. \A i \in Ids : /\ i \notin removed(t) => old[i] \in {0, new[i]}
                     /\ i \notin added(t) => new[i] = IF i \in removed(t) THEN 0 ELSE old[i]
                     /\ i \in added(t) /\ i \notin removed(t) => old[i] = 0
  BY DeltaOf
<1>10. Reduced(t) = [i \in Ids |-> IF i \in removed(t) THEN 0 ELSE old[i]]
  BY DEF Reduced
<1> HIDE DEF old, new
<1>11. Accepted(t, byInbound[t]) \ remove(t) = Common(t)
  <2>1. \A i, v : <<i, v>> \in Accepted(t, byInbound[t]) \ remove(t) <=> <<i, v>> \in Common(t)
    BY <1>4, <1>6, <1>8, ZenonT(40)
  <2>2. Accepted(t, byInbound[t]) \ remove(t) \in SUBSET Credentials /\ Common(t) \in SUBSET Credentials
    BY <1>4, <1>8
  <2> QED BY <2>1, <2>2, SamePairs, Zenon
<1>12. Common(t) \cup desired(t) = Accepted(t, next[t])
  <2>1. ASSUME NEW i \in Ids, NEW v
        PROVE  <<i, v>> \in Common(t) \cup desired(t) <=> <<i, v>> \in Accepted(t, next[t])
    <3>1. CASE i \in added(t)
      BY <1>5, <1>7, <1>8, <1>9, <3>1
    <3>2. CASE i \notin added(t)
      BY <1>5, <1>7, <1>8, <1>9, <3>2
    <3> QED BY <3>1, <3>2
  <2>2. Common(t) \cup desired(t) \in SUBSET Credentials /\ Accepted(t, next[t]) \in SUBSET Credentials
    BY <1>5, <1>7, <1>8
  <2> QED BY <2>1, <2>2, SamePairs, Zenon
<1>13. ASSUME remove(t) = {} PROVE Reduced(t) = old
  <2>1. \A i \in removed(t) : old[i] = 0
    BY <1>6, <1>13
  <2> QED BY <1>2, <1>10, <2>1
<1>14. ASSUME desired(t) = {} PROVE Reduced(t) = new
  <2>1. \A i \in added(t) : new[i] = 0
    BY <1>7, <1>14
  <2>2. \A i \in Ids : new[i] = IF i \in removed(t) THEN 0 ELSE old[i]
    BY <1>2, <1>9, <2>1
  <2> QED BY <1>2, <1>10, <2>2
<1>15. Reduced(t) \in [Ids -> Nat]
  BY <1>2, <1>10
<1> QED BY <1>1, <1>3, <1>11, <1>12, <1>13, <1>14, <1>15, ZenonT(40) DEF old, new

(* The ids that DelUsers and AddUsers work on.                             *)
LEMMA RemovedIds ==
    ASSUME Typed, NEW t \in Tags
    PROVE  \A i \in Ids : (\E cred \in remove(t) : cred[1] = i) <=>
                              i \in removed(t) /\ Secret(t, byInbound[t])[i] # 0
<1> DEFINE list == byInbound[t]
           ids == removed(t)
<1>1. remove(t) = Credential(t, list, ids)
  BY DEF remove
<1> HIDE DEF list, ids
<1>2. \A i : (\E cred \in Credential(t, list, ids) : cred[1] = i) <=> i \in ids /\ Secret(t, list)[i] # 0
  BY CredentialIds, ZenonT(40)
<1> QED BY <1>1, <1>2 DEF list, ids

LEMMA AddedIds ==
    ASSUME Typed, NEW t \in Tags
    PROVE  \A i \in Ids : (\E cred \in desired(t) : cred[1] = i) <=>
                              i \in added(t) /\ Secret(t, next[t])[i] # 0
<1> DEFINE list == next[t]
           ids == added(t)
<1>1. desired(t) = Credential(t, list, ids)
  BY DEF desired
<1> HIDE DEF list, ids
<1>2. \A i : (\E cred \in Credential(t, list, ids) : cred[1] = i) <=> i \in ids /\ Secret(t, list)[i] # 0
  BY CredentialIds, ZenonT(40)
<1> QED BY <1>1, <1>2 DEF list, ids

(* Initially no inbound has users.                                         *)
LEMMA ProgressInit ==
    ASSUME Init PROVE Typed /\ Progress
<1>1. \A t \in Tags : Accepted(t, NoUsers) = {} /\ Secret(t, NoUsers) = Nothing
  BY ZenonT(40) DEF Accepted, Credential, Secret, NoUsers, NoUser, Nothing
<1>2. \A t \in Tags : Range(users[t]) = {}
  BY DEF Init, Range
<1>3. Typed
  BY TagsAssumption DEF Init, Typed, NoUsers, NoUser, Nothing, User, Tags
<1>4. Progress
  BY <1>1, <1>2, Zenon DEF Init, Progress, AtWork, AtTag, Settled, Tags
<1> QED BY <1>3, <1>4

(* What the manager does elsewhere leaves an application where it is.      *)
LEMMA ProgressSame ==
    ASSUME Progress, UNCHANGED <<byInbound, next, phase, todo, tag, inboundVars>>
    PROVE  Progress'
BY ZenonT(40) DEF Progress, AtWork, Settled, Common, Reduced, removed, inboundVars, AtTag

(* BeginApply: every inbound is still to be visited.                       *)
LEMMA ProgressBegin ==
    ASSUME Typed, Progress, BeginApply PROVE Typed' /\ Progress'
<1>1. next' \in [Tags -> [Ids -> User]]
  BY TagsAssumption DEF BeginApply
<1>2. Typed'
  BY <1>1, Zenon DEF Typed, BeginApply, managerVars, inboundVars, connVars
<1>3. \A t \in Tags : Settled(t, byInbound[t])
  BY DEF Progress, BeginApply, AtTag
<1>4. Progress'
  BY <1>3 DEF Progress, BeginApply, managerVars, inboundVars, AtWork, AtTag, Settled
<1> QED BY <1>2, <1>4

(* NextTag: without a delta the inbound has the new list already.          *)
LEMMA ProgressNextTag ==
    ASSUME Typed, Progress, NEW t \in Tags, NextTag(t) PROVE Typed' /\ Progress'
<1> USE DEF NextTag, managerVars, inboundVars, connVars
<1>1. phase' \in {"tags", "del", "add"}
  BY DEF applyDelta, applyAdded
<1>2. Typed'
  BY <1>1 DEF Typed, AtTag
<1>3. Settled(t, byInbound[t]) /\ t \in todo /\ tag' = t /\ phase = "tags"
  BY DEF Progress
<1>4. phase' = "tags" => Settled(t, next[t])
  <2>1. phase' = "tags" => remove(t) = {} /\ desired(t) = {}
    BY DEF applyDelta, applyAdded
  <2> QED BY <1>3, <2>1, Deltas DEF Settled
<1>5. phase' = "add" => remove(t) = {}
  BY DEF applyDelta, applyAdded
<1>6. phase' = "add" => Common(t) = Accepted(t, byInbound[t]) /\ Reduced(t) = Secret(t, byInbound[t])
  BY <1>5, Deltas
<1>7. AtWork'
  <2>1. phase' = "del" => Settled(t, byInbound[t])
    BY <1>3
  <2>2. phase' = "add" => /\ Range(users[t]) = Common(t)
                          /\ table[t] = users[t]
                          /\ t \in Hy2Tags => uid[t] = Reduced(t)
    BY <1>3, <1>6 DEF Settled
  <2> QED BY <1>1, <1>3, <2>1, <2>2 DEF AtWork, Settled, Common, Reduced, removed
<1>8. \A s \in todo' : Settled(s, byInbound[s])'
  BY DEF Progress, Settled
<1>9. ASSUME NEW s \in Tags, s \notin todo', phase' \notin AtTag \/ s # tag' PROVE Settled(s, next[s])'
  <2>1. CASE s = t
    BY <1>1, <1>3, <1>4, <1>9, <2>1 DEF Settled, AtTag
  <2>2. CASE s # t
    <3>1. Settled(s, next[s])
      BY <1>3, <1>9, <2>2 DEF Progress, AtTag
    <3> QED BY <3>1 DEF Settled
  <2> QED BY <2>1, <2>2
<1>10. Progress'
  BY <1>1, <1>3, <1>7, <1>8, <1>9 DEF Progress, AtTag
<1> QED BY <1>2, <1>10

(* An inbound that is not at work is left alone by DelUsers, AddUsers and  *)
(* UpdateUsers.                                                            *)
LEMMA OthersAlone ==
    ASSUME Progress, phase \in AtTag, phase' \in AtTag \cup {"tags"},
           UNCHANGED <<managerVars, next, todo, tag>>,
           \A t \in Tags \ {tag} : /\ users'[t] = users[t] /\ table'[t] = table[t]
                                   /\ t \in Hy2Tags => uid'[t] = uid[t],
           AtWork', phase' = "tags" => Settled(tag, next[tag])',
           todo \subseteq Tags
    PROVE  Progress'
<1>1. tag \in Tags /\ tag \notin todo
  BY DEF Progress
<1>2. \A t \in todo : Settled(t, byInbound[t])'
  BY <1>1 DEF Progress, Settled, managerVars
<1>3. ASSUME NEW t \in Tags \ todo, t # tag PROVE Settled(t, next[t])'
  BY <1>3 DEF Progress, Settled
<1> QED BY <1>1, <1>2, <1>3 DEF Progress, AtTag

(* DelUsers leaves what the two lists have in common.                      *)
LEMMA ProgressDel ==
    ASSUME Typed, Progress, DelUsers PROVE Typed' /\ Progress'
<1> DEFINE gone == remove(tag)
<1>1. tag \in Tags /\ phase = "del" /\ phase' = "updateDel" /\ Settled(tag, byInbound[tag])
  BY DEF DelUsers, Progress, AtWork, AtTag
<1>2. users' = [users EXCEPT ![tag] = Kept(users[tag], Range(users[tag]) \ gone)]
  BY DEF DelUsers
<1>3. users[tag] \in Seq(Credentials)
  BY <1>1 DEF Typed
<1>4. /\ users'[tag] \in Seq(Credentials)
      /\ Range(users'[tag]) = Range(users[tag]) \cap (Range(users[tag]) \ gone)
  BY <1>1, <1>2, <1>3, KeptRange DEF Typed
<1>5. Range(users'[tag]) = Common(tag)
  BY <1>1, <1>4, Deltas DEF Settled
<1>6. uid' = [t \in Hy2Tags |-> [i \in Ids |->
                 IF t = tag /\ \E cred \in gone : cred[1] = i THEN 0 ELSE uid[t][i]]]
  BY DEF DelUsers
<1>7. uid' \in [Hy2Tags -> [Ids -> Nat]]
  BY <1>6 DEF Typed
<1>8. tag \in Hy2Tags => uid'[tag] = Reduced(tag)
  <2>1. \A i \in Ids : (\E cred \in gone : cred[1] = i) <=>
                         i \in removed(tag) /\ Secret(tag, byInbound[tag])[i] # 0
    BY <1>1, Deltas, RemovedIds
  <2> HIDE DEF gone
  <2> QED BY <1>1, <1>6, <2>1 DEF Settled, Reduced
<1>9. \A t \in Tags \ {tag} : users'[t] = users[t] /\ table'[t] = table[t]
                              /\ (t \in Hy2Tags => uid'[t] = uid[t])
  <2>1. ASSUME NEW t \in Hy2Tags, t # tag PROVE uid'[t] = uid[t]
    <3>1. uid'[t] = [i \in Ids |-> uid[t][i]]
      BY <1>6, <2>1
    <3>2. uid[t] \in [Ids -> Nat]
      BY DEF Typed
    <3> QED BY <3>1, <3>2
  <2>2. table' = table
    BY DEF DelUsers
  <2> QED BY <1>2, <2>1, <2>2 DEF Typed
<1>10. users' \in [Tags -> Seq(Credentials)]
  BY <1>1, <1>2, <1>4 DEF Typed
<1>11. UNCHANGED <<managerVars, next, todo, tag, table>> /\ userconns' \subseteq userconns
  BY DEF DelUsers
<1>12. Typed'
  BY <1>1, <1>7, <1>10, <1>11 DEF Typed, managerVars, AtTag
<1>13. AtWork'
  BY <1>1, <1>5, <1>8, <1>11 DEF AtWork, Common, Reduced, removed, managerVars, Settled
<1>14. Progress'
  <2>1. phase \in AtTag /\ phase' \in AtTag \cup {"tags"} /\ todo \subseteq Tags
    BY <1>1 DEF AtTag, Typed
  <2> QED BY <1>1, <1>9, <1>11, <1>13, <2>1, OthersAlone
<1> QED BY <1>12, <1>14

(* AddUsers completes the inbound's own list.                              *)
LEMMA ProgressAdd ==
    ASSUME Typed, Progress, AddUsers PROVE Typed' /\ Progress'
<1>1. /\ tag \in Tags /\ phase = "add" /\ phase' = "updateAdd"
      /\ Range(users[tag]) = Common(tag) /\ table[tag] = users[tag]
      /\ tag \in Hy2Tags => uid[tag] = Reduced(tag)
  BY DEF AddUsers, Progress, AtWork, AtTag
<1>2. PICK order \in Orders(desired(tag)) : users' = [users EXCEPT ![tag] = users[tag] \o order]
  BY Zenon DEF AddUsers
<1>3. users[tag] \in Seq(Credentials)
  BY <1>1 DEF Typed
<1>4. desired(tag) \subseteq Credentials /\ IsFiniteSet(desired(tag))
  BY <1>1, Deltas, CredentialOf, CredentialFinite DEF desired
<1>5. /\ users'[tag] \in Seq(Credentials)
      /\ Range(users'[tag]) = Range(users[tag]) \cup desired(tag)
  <2>1. users'[tag] = users[tag] \o order
    BY <1>1, <1>2 DEF Typed
  <2>2. /\ users[tag] \o order \in Seq(Credentials)
        /\ Range(users[tag] \o order) = Range(users[tag]) \cup desired(tag)
    <3> DEFINE s == users[tag]
               S == desired(tag)
    <3>1. s \in Seq(Credentials) /\ S \subseteq Credentials /\ IsFiniteSet(S) /\ order \in Orders(S)
      BY <1>2, <1>3, <1>4
    <3> HIDE DEF s, S
    <3>2. s \o order \in Seq(Credentials) /\ Range(s \o order) = Range(s) \cup S
      BY <3>1, AppendedRange
    <3> QED BY <3>2 DEF s, S
  <2> QED BY <2>1, <2>2
<1>6. Range(users'[tag]) = Accepted(tag, next[tag])
  BY <1>1, <1>5, Deltas
<1>7. uid' = [t \in Hy2Tags |-> [i \in Ids |->
                 IF t = tag /\ \E cred \in desired(t) : cred[1] = i
                 THEN Secret(t, next[t])[i] ELSE uid[t][i]]]
  BY DEF AddUsers
<1>8. uid' \in [Hy2Tags -> [Ids -> Nat]]
  <2>1. \A t \in Hy2Tags : Secret(t, next[t]) \in [Ids -> Nat]
    BY SecretType DEF Typed, Tags
  <2> QED BY <1>7, <2>1 DEF Typed
<1>9. ASSUME tag \in Hy2Tags PROVE uid'[tag] = Secret(tag, next[tag])
  <2> DEFINE new == Secret(tag, next[tag])
  <2>1. ASSUME NEW i \in Ids PROVE uid'[tag][i] = new[i]
    <3>1. (\E cred \in desired(tag) : cred[1] = i) <=> i \in added(tag) /\ new[i] # 0
      BY <1>1, Deltas, AddedIds
    <3>2. uid'[tag][i] = IF i \in added(tag) /\ new[i] # 0 THEN new[i] ELSE uid[tag][i]
      BY <1>7, <1>9, <3>1
    <3>3. uid[tag][i] = IF i \in removed(tag) THEN 0 ELSE Secret(tag, byInbound[tag])[i]
      BY <1>1, <1>9 DEF Reduced
    <3> QED BY <1>1, <3>2, <3>3, DeltaOf
  <2>2. new \in [Ids -> Nat] /\ uid'[tag] \in [Ids -> Nat]
    BY <1>1, <1>8, <1>9, Deltas, SecretType
  <2> HIDE DEF new
  <2>3. uid'[tag] = new
    BY <2>1, <2>2
  <2> QED BY <2>3 DEF new
<1>10. \A t \in Tags \ {tag} : users'[t] = users[t] /\ table'[t] = table[t]
                               /\ (t \in Hy2Tags => uid'[t] = uid[t])
  <2>1. ASSUME NEW t \in Hy2Tags, t # tag PROVE uid'[t] = uid[t]
    <3>1. uid'[t] = [i \in Ids |-> uid[t][i]]
      BY <1>7, <2>1
    <3>2. uid[t] \in [Ids -> Nat]
      BY DEF Typed
    <3> QED BY <3>1, <3>2
  <2>2. table' = table
    BY DEF AddUsers
  <2> QED BY <1>2, <2>1, <2>2 DEF Typed
<1>11. users' \in [Tags -> Seq(Credentials)]
  BY <1>1, <1>2, <1>5 DEF Typed
<1>12. UNCHANGED <<managerVars, next, todo, tag, table, userconns>>
  BY DEF AddUsers, connVars
<1>13. Typed'
  BY <1>1, <1>8, <1>11, <1>12 DEF Typed, managerVars, AtTag
<1>14. AtWork'
  BY <1>1, <1>6, <1>9, <1>12 DEF AtWork, Common, removed, managerVars
<1>15. Progress'
  <2>1. phase \in AtTag /\ phase' \in AtTag \cup {"tags"} /\ todo \subseteq Tags
    BY <1>1 DEF AtTag, Typed
  <2> QED BY <1>1, <1>10, <1>12, <1>14, <2>1, OthersAlone
<1> QED BY <1>13, <1>15

(* UpdateUsers hands the inbound's own list to its service.                *)
LEMMA ProgressUpdate ==
    ASSUME Typed, Progress, UpdateUsers PROVE Typed' /\ Progress'
<1>1. /\ phase \in {"updateDel", "updateAdd"} /\ tag \in Tags
      /\ phase' = IF phase = "updateDel" THEN applyAdded(tag) ELSE "tags"
      /\ table' = [table EXCEPT ![tag] = users[tag]]
      /\ UNCHANGED <<managerVars, next, todo, tag, users, uid, userconns>>
  BY DEF UpdateUsers, Progress, AtTag, connVars
<1>2. phase' \in {"add", "tags"}
  BY <1>1 DEF applyAdded
<1>3. table'[tag] = users[tag]
  BY <1>1 DEF Typed
<1>4. phase' = "tags" => Settled(tag, next[tag])'
  <2>1. CASE phase = "updateDel"
    <3>1. /\ Range(users[tag]) = Common(tag)
          /\ tag \in Hy2Tags => uid[tag] = Reduced(tag)
      BY <2>1 DEF Progress, AtWork
    <3>2. phase' = "tags" => desired(tag) = {}
      BY <1>1, <2>1 DEF applyAdded
    <3> QED BY <1>1, <1>3, <3>1, <3>2, Deltas DEF Settled
  <2>2. CASE phase = "updateAdd"
    <3>1. /\ Range(users[tag]) = Accepted(tag, next[tag])
          /\ tag \in Hy2Tags => uid[tag] = Secret(tag, next[tag])
      BY <2>2 DEF Progress, AtWork
    <3> QED BY <1>1, <1>3, <3>1 DEF Settled
  <2> QED BY <1>1, <2>1, <2>2
<1>5. AtWork'
  <2>1. phase' = "add" => /\ Range(users[tag]) = Common(tag)
                          /\ tag \in Hy2Tags => uid[tag] = Reduced(tag)
    BY <1>1 DEF Progress, AtWork
  <2> QED BY <1>1, <1>2, <1>3, <2>1 DEF AtWork, Common, Reduced, removed, managerVars
<1>6. Typed'
  BY <1>1, <1>2 DEF Typed, AtTag, managerVars
<1>7. \A t \in Tags \ {tag} : users'[t] = users[t] /\ table'[t] = table[t]
                              /\ (t \in Hy2Tags => uid'[t] = uid[t])
  BY <1>1 DEF Typed
<1>8. phase \in AtTag /\ phase' \in AtTag \cup {"tags"} /\ todo \subseteq Tags
  BY <1>1, <1>2 DEF AtTag, Typed
<1>9. Progress'
  BY <1>1, <1>4, <1>5, <1>7, <1>8, OthersAlone
<1> QED BY <1>6, <1>9

-----------------------------------------------------------------------------
(* There is one pair more than connections, and 0 is none.                 *)
LEMMA PairsFinite ==
    /\ IsFiniteSet(Pairs) /\ Cardinality(Conns) < Cardinality(Pairs)
    /\ 0 \notin Pairs /\ Cardinality(Conns) \in Nat
<1>1. Cardinality(Conns) \in Nat
  BY TagsAssumption, FS_CardinalityType
<1>2. IsFiniteSet(Pairs) /\ Cardinality(Pairs) = Cardinality(Conns) + 1
  BY <1>1, FS_Interval DEF Pairs
<1> QED BY <1>1, <1>2 DEF Pairs

(* So a new pair is one that no connection of the user holds.              *)
LEMMA NewPair ==
    ASSUME NEW i
    PROVE  /\ newLimiterPair(i) \in Pairs
           /\ \A c \in Limited : conn[c].user[1] = i => conn[c].lim # newLimiterPair(i)
<1>1. \E p \in Pairs : \A c \in Limited : conn[c].user[1] = i => conn[c].lim # p
  <2>1. SUFFICES ASSUME \A p \in Pairs : \E c \in Conns : conn[c].lim = p
                 PROVE  FALSE
    BY DEF Limited
  <2> DEFINE holder == [p \in Pairs |-> CHOOSE c \in Conns : conn[c].lim = p]
  <2>2. \A p \in Pairs : holder[p] \in Conns /\ conn[holder[p]].lim = p
    BY <2>1
  <2>3. holder \in [Pairs -> Conns]
    BY <2>2
  <2> HIDE DEF holder
  <2>4. \E p, q \in Pairs : p # q /\ holder[p] = holder[q]
    BY <2>3, PairsFinite, TagsAssumption, FS_PigeonHole
  <2> QED BY <2>2, <2>4
<1> QED BY <1>1 DEF newLimiterPair

(* What secretsFrom knows are credentials.                                 *)
LEMMA SecretsTyped ==
    ASSUME NEW union \in [Ids -> User]
    PROVE  secretsFrom(union) \subseteq Credentials
BY DEF secretsFrom, User, Credentials

(* CommitUsers: a pair is made for a user who has none, and closed with    *)
(* the user.                                                               *)
LEMMA LimitersCommit ==
    ASSUME Typed, ConnsTyped, StableLimiters, CommitUsers
    PROVE  /\ StableLimiters'
           /\ limiters' \in [Ids -> Pairs \cup {0}]
           /\ closed' \subseteq Ids \X Pairs
           /\ bySecret' \subseteq Credentials
<1> DEFINE active == Listed(next)
           fresh == {<<i, limiters'[i]>> : i \in {j \in active : limiters[j] = 0}}
<1>1. /\ limiters' = updateLimiterLocked(active)
      /\ closed' = closeLimiterLocked(active) \ fresh
      /\ byInbound' = next
      /\ conn' = conn
  BY DEF CommitUsers, connVars
<1>2. bySecret' \subseteq Credentials
  <2>1. PICK last \in [Ids -> Tags] : bySecret' = secretsFrom([i \in Ids |-> next[last[i]][i]])
    BY Zenon DEF CommitUsers
  <2>2. \A i \in Ids : next[last[i]][i] \in User
    BY DEF Typed
  <2> QED BY <2>1, <2>2, SecretsTyped
<1>3. active \subseteq Ids
  BY DEF Listed
<1>4. ActiveIDs' = active
  BY <1>1 DEF ActiveIDs, Listed
<1> HIDE DEF active
<1>5. \A i \in Ids : limiters'[i] = IF i \notin active THEN 0
                                   ELSE IF limiters[i] = 0 THEN newLimiterPair(i) ELSE limiters[i]
  BY <1>1 DEF updateLimiterLocked
<1>6. limiters' \in [Ids -> Pairs \cup {0}]
  BY <1>1, NewPair DEF updateLimiterLocked, Typed
<1>7. closed' \subseteq Ids \X Pairs
  BY <1>1 DEF closeLimiterLocked, Typed
<1>8. ASSUME NEW i \in Ids
      PROVE  (limiters'[i] # 0 <=> i \in ActiveIDs') /\ <<i, limiters'[i]>> \notin closed'
  <2>1. CASE i \notin active
    BY <1>4, <1>5, <1>7, <2>1, PairsFinite
  <2>2. CASE i \in active /\ limiters[i] = 0
    <3>1. limiters'[i] \in Pairs
      BY <1>5, <2>2, NewPair
    <3>2. <<i, limiters'[i]>> \in fresh
      BY <2>2
    <3> QED BY <1>1, <1>4, <2>2, <3>1, <3>2, PairsFinite
  <2>3. CASE i \in active /\ limiters[i] # 0
    <3>1. limiters'[i] = limiters[i]
      BY <1>5, <2>3
    <3>2. <<i, limiters[i]>> \notin closed
      BY DEF StableLimiters
    <3>3. <<i, limiters[i]>> \notin closeLimiterLocked(active)
      BY <2>3, <3>2 DEF closeLimiterLocked
    <3> QED BY <1>1, <1>4, <2>3, <3>1, <3>3
  <2> QED BY <2>1, <2>2, <2>3
<1>9. Limited' = Limited
  BY <1>1 DEF Limited
<1>10. ASSUME NEW c \in Limited
       PROVE  <<conn[c].user[1], conn[c].lim>> \in closed' \/ conn[c].lim = limiters'[conn[c].user[1]]
  <2> DEFINE i == conn[c].user[1]
             lim == conn[c].lim
  <2>1. i \in Ids /\ lim # 0
    BY DEF Limited, ConnsTyped, Carries, Credentials
  <2>2. <<i, lim>> \in closed \/ lim = limiters[i]
    BY DEF StableLimiters
  <2>3. <<i, lim>> \in fresh => i \in active /\ limiters[i] = 0 /\ lim = newLimiterPair(i)
    BY <1>3, <1>5
  <2>4. <<i, lim>> \notin fresh
    BY <2>3, NewPair
  <2>5. CASE <<i, lim>> \in closed
    BY <1>1, <2>4, <2>5 DEF closeLimiterLocked
  <2>6. CASE lim = limiters[i] /\ i \in active
    BY <1>5, <2>1, <2>6
  <2>7. CASE lim = limiters[i] /\ i \notin active
    BY <1>1, <2>1, <2>4, <2>7 DEF closeLimiterLocked
  <2> QED BY <2>2, <2>5, <2>6, <2>7
<1>11. StableLimiters'
  BY <1>1, <1>8, <1>9, <1>10 DEF StableLimiters
<1> QED BY <1>2, <1>6, <1>7, <1>11

(* CommitUsers: the list that all inbounds have becomes the committed one. *)
LEMMA ProgressCommit ==
    ASSUME Typed, ConnsTyped, StableLimiters, Progress, CommitUsers
    PROVE  Typed' /\ Progress'
<1>1. /\ phase = "tags" /\ todo = {} /\ phase' = "idle" /\ tag' = NoTag /\ byInbound' = next
      /\ UNCHANGED <<next, todo, users, table, uid, userconns>>
  BY DEF CommitUsers, inboundVars, connVars
<1>2. Typed'
  <2>1. /\ limiters' \in [Ids -> Pairs \cup {0}]
        /\ closed' \subseteq Ids \X Pairs
        /\ bySecret' \subseteq Credentials
    BY LimitersCommit
  <2> QED BY <1>1, <2>1 DEF Typed
<1>3. \A t \in Tags : Settled(t, next[t])
  BY <1>1 DEF Progress, AtTag
<1>4. Progress'
  BY <1>1, <1>3, Zenon DEF Progress, AtWork, AtTag, Settled
<1> QED BY <1>2, <1>4

(* A connection that takes a step carries what it should, and any pair it  *)
(* holds is the user's or closed.                                          *)
LEMMA ConnChanged ==
    ASSUME ConnsTyped, StableLimiters, NEW c \in Conns, NEW new,
           conn' = [conn EXCEPT ![c] = new], UNCHANGED managerVars, Carries(c)',
           new.pc \in {"limited", "open"} /\ new.lim # 0 =>
               <<new.user[1], new.lim>> \in closed \/ new.lim = limiters[new.user[1]]
    PROVE  ConnsTyped' /\ StableLimiters'
<1>1. conn'[c] = new /\ \A d \in Conns \ {c} : conn'[d] = conn[d]
  BY DEF ConnsTyped
<1>2. conn' = [d \in Conns |-> conn'[d]]
  BY DEF ConnsTyped
<1>3. ASSUME NEW d \in Conns PROVE Carries(d)'
  <2>1. CASE d = c
    BY <2>1
  <2>2. CASE d # c
    BY <1>1, <2>2 DEF ConnsTyped, Carries
  <2> QED BY <2>1, <2>2
<1>4. ASSUME NEW d \in Limited'
      PROVE  <<conn'[d].user[1], conn'[d].lim>> \in closed \/ conn'[d].lim = limiters[conn'[d].user[1]]
  <2>1. CASE d = c
    BY <1>1, <2>1 DEF Limited
  <2>2. CASE d # c
    BY <1>1, <2>2 DEF Limited, StableLimiters
  <2> QED BY <2>1, <2>2
<1>5. StableLimiters'
  BY <1>4 DEF StableLimiters, managerVars, ActiveIDs, Listed
<1> QED BY <1>2, <1>3, <1>5 DEF ConnsTyped

(* The steps of a connection.                                              *)
LEMMA ConnStep ==
    ASSUME Typed, ConnsTyped, StableLimiters, NEW c \in Conns, Connection(c)
    PROVE  /\ ConnsTyped' /\ StableLimiters'
           /\ UNCHANGED <<managerVars, applyVars, inboundVars>> /\ userconns' \subseteq Conns
<1> DEFINE new == conn'[c]
<1>0. Carries(c) /\ conn = [d \in Conns |-> conn[d]]
  BY DEF ConnsTyped
<1>1. ASSUME NEW t \in Tags, NEW i \in DOMAIN table[t], Authenticate(c, t, i)
      PROVE  /\ conn' = [conn EXCEPT ![c] = new] /\ Carries(c)'
             /\ new.pc \notin {"limited", "open"}
  <2>1. table[t][i] \in Credentials
    BY DEF Typed
  <2>2. new = [pc |-> "auth", tag |-> t, cred |-> table[t][i], index |-> i]
    BY <1>0, <1>1 DEF Authenticate
  <2>3. conn' = [conn EXCEPT ![c] = new]
    BY <1>1, <2>2, Zenon DEF Authenticate
  <2> QED BY <2>1, <2>2, <2>3 DEF Carries
<1>2. ASSUME NewVlessConnection(c)
      PROVE  /\ conn' = [conn EXCEPT ![c] = new] /\ Carries(c)'
             /\ new.pc \notin {"limited", "open"}
  <2> DEFINE list == users[conn[c].tag]
             i == conn[c].index
  <2>1. list \in Seq(Credentials)
    BY <1>0, <1>2 DEF Typed, Carries, NewVlessConnection
  <2>2. new = IF i \in DOMAIN list
              THEN [pc |-> "named", tag |-> conn[c].tag, cred |-> conn[c].cred, user |-> list[i]]
              ELSE [pc |-> "panic"]
    BY <1>0, <1>2 DEF NewVlessConnection
  <2>3. conn' = [conn EXCEPT ![c] = new]
    BY <1>2, <2>2, Zenon DEF NewVlessConnection
  <2> HIDE DEF list, i
  <2>4. CASE i \in DOMAIN list
    <3>1. new.pc = "named" /\ new.user = list[i]
      BY <2>2, <2>4
    <3>2. list[i] \in Credentials
      BY <2>1, <2>4
    <3> QED BY <2>3, <3>1, <3>2 DEF Carries
  <2>5. CASE i \notin DOMAIN list
    <3>1. new.pc = "panic"
      BY <2>2, <2>5
    <3> QED BY <2>3, <3>1 DEF Carries
  <2> QED BY <2>4, <2>5
<1>3. ASSUME NewHy2Connection(c)
      PROVE  /\ conn' = [conn EXCEPT ![c] = new] /\ Carries(c)'
             /\ new.pc \notin {"limited", "open"}
  <2> DEFINE id == conn[c].cred[1]
             password == uid[conn[c].tag][id]
  <2>1. id \in Ids /\ password \in Nat
    BY <1>0, <1>3 DEF Typed, Carries, NewHy2Connection, Credentials
  <2>2. new = IF password # 0
              THEN [pc |-> "named", tag |-> conn[c].tag, cred |-> conn[c].cred, user |-> <<id, password>>]
              ELSE Free
    BY <1>0, <1>3 DEF NewHy2Connection
  <2>3. conn' = [conn EXCEPT ![c] = new]
    BY <1>3, <2>2, Zenon DEF NewHy2Connection
  <2> HIDE DEF id, password
  <2>4. CASE password # 0
    <3>1. new.pc = "named" /\ new.user = <<id, password>>
      BY <2>2, <2>4
    <3> QED BY <2>1, <2>3, <2>4, <3>1 DEF Carries, Credentials
  <2>5. CASE password = 0
    <3>1. new.pc = "free"
      BY <2>2, <2>5 DEF Free
    <3> QED BY <2>3, <3>1 DEF Carries
  <2> QED BY <2>4, <2>5
<1>4. ASSUME StoreUserConn(c)
      PROVE  /\ conn' = [conn EXCEPT ![c] = new] /\ Carries(c)'
             /\ new.pc \notin {"limited", "open"}
  <2>1. new = [conn[c] EXCEPT !.pc = "tracked"] /\ conn' = [conn EXCEPT ![c] = new]
    BY <1>0, <1>4 DEF StoreUserConn
  <2>2. new.user = conn[c].user /\ new.pc \in {"tracked", "named"}
    BY <1>4, <2>1 DEF StoreUserConn
  <2> QED BY <1>0, <1>4, <2>1, <2>2 DEF Carries, StoreUserConn
<1>5. ASSUME DirectionalLimiters(c)
      PROVE  /\ conn' = [conn EXCEPT ![c] = new] /\ Carries(c)'
             /\ new.lim # 0 => new.lim = limiters[new.user[1]]
  <2> DEFINE user == conn[c].user
             lim == IF user \in bySecret THEN limiters[user[1]] ELSE 0
  <2>1. new = [pc |-> "limited", tag |-> conn[c].tag, cred |-> conn[c].cred, user |-> user, lim |-> lim]
    BY <1>0, <1>5 DEF DirectionalLimiters
  <2>2. user \in Credentials /\ lim \in Pairs \cup {0}
    BY <1>0, <1>5 DEF DirectionalLimiters, Carries, Credentials, Typed
  <2>3. conn' = [conn EXCEPT ![c] = new]
    BY <1>5, <2>1, Zenon DEF DirectionalLimiters
  <2>4. new.pc = "limited" /\ new.user = user /\ new.lim = lim
    BY <2>1
  <2> QED BY <2>2, <2>3, <2>4 DEF Carries
<1>6. ASSUME Resolve(c)
      PROVE  /\ conn' = [conn EXCEPT ![c] = new] /\ Carries(c)'
             /\ new.user = conn[c].user /\ new.lim = conn[c].lim /\ conn[c].pc = "limited"
  <2>1. conn[c].pc = "limited"
    BY <1>6 DEF Resolve
  <2>2. new = [pc |-> "open", tag |-> conn[c].tag, cred |-> conn[c].cred, user |-> conn[c].user,
               lim |-> conn[c].lim, resolved |-> conn[c].user \in bySecret]
    BY <1>0, <1>6, Zenon DEF Resolve
  <2>3. conn' = [conn EXCEPT ![c] = new]
    BY <1>6, <2>2, Zenon DEF Resolve
  <2>4. new.pc = "open" /\ new.user = conn[c].user /\ new.lim = conn[c].lim
    BY <2>2
  <2> QED BY <1>0, <2>1, <2>3, <2>4 DEF Carries
<1>7. ASSUME CloseConn(c)
      PROVE  /\ conn' = [conn EXCEPT ![c] = new] /\ Carries(c)'
             /\ new.pc \notin {"limited", "open"}
  <2>1. new = Free /\ conn' = [conn EXCEPT ![c] = new]
    BY <1>0, <1>7 DEF CloseConn
  <2> QED BY <2>1 DEF Carries, Free
<1>8. UNCHANGED <<managerVars, applyVars, inboundVars>> /\ userconns' \subseteq Conns
  BY DEF Connection, Authenticate, NewVlessConnection, NewHy2Connection, StoreUserConn,
         DirectionalLimiters, Resolve, CloseConn, Typed
<1>9. /\ conn' = [conn EXCEPT ![c] = new] /\ Carries(c)'
      /\ new.pc \in {"limited", "open"} /\ new.lim # 0 =>
             <<new.user[1], new.lim>> \in closed \/ new.lim = limiters[new.user[1]]
  <2>1. CASE Resolve(c)
    <3>1. new.lim # 0 => c \in Limited
      BY <1>6, <2>1 DEF Limited
    <3> QED BY <1>6, <2>1, <3>1 DEF StableLimiters
  <2> HIDE DEF new
  <2>2. CASE ~Resolve(c)
    BY <1>1, <1>2, <1>3, <1>4, <1>5, <1>7, <2>2, Zenon DEF Connection
  <2> QED BY <2>1, <2>2
<1> HIDE DEF new
<1>10. ConnsTyped' /\ StableLimiters'
  BY <1>8, <1>9, ConnChanged, ZenonT(30)
<1> QED BY <1>8, <1>10

(* DelUsers only frees connections.                                        *)
LEMMA ConnsCut ==
    ASSUME ConnsTyped, StableLimiters, DelUsers
    PROVE  ConnsTyped' /\ StableLimiters'
<1>1. UNCHANGED managerVars /\ conn' = [c \in Conns |-> conn'[c]]
  BY DEF DelUsers
<1>2. \A c \in Conns : conn'[c] \in {Free, conn[c]}
  BY DEF DelUsers
<1>3. ConnsTyped'
  BY <1>1, <1>2 DEF ConnsTyped, Carries, Free
<1>4. \A c \in Limited' : c \in Limited /\ conn'[c] = conn[c]
  BY <1>2 DEF Limited, Free
<1>5. StableLimiters'
  BY <1>1, <1>4 DEF StableLimiters, managerVars, ActiveIDs, Listed
<1> QED BY <1>3, <1>5

(* Each step of the manager or of a connection keeps the invariant.        *)
LEMMA UserStep ==
    ASSUME UserInv, Next PROVE UserInv'
<1> USE DEF UserInv
<1>1. ASSUME UNCHANGED <<managerVars, conn>> PROVE ConnsTyped' /\ StableLimiters'
  BY <1>1 DEF ConnsTyped, Carries, StableLimiters, Limited, managerVars, ActiveIDs, Listed
<1>2. CASE BeginApply
  BY <1>1, <1>2, ProgressBegin DEF BeginApply, connVars
<1>3. ASSUME NEW t \in Tags, NextTag(t) PROVE UserInv'
  BY <1>1, <1>3, ProgressNextTag DEF NextTag, connVars
<1>4. CASE DelUsers
  BY <1>4, ProgressDel, ConnsCut
<1>5. CASE AddUsers
  BY <1>1, <1>5, ProgressAdd, Zenon DEF AddUsers, connVars
<1>6. CASE UpdateUsers
  BY <1>1, <1>6, ProgressUpdate DEF UpdateUsers, connVars
<1>7. CASE CommitUsers
  <2>1. ConnsTyped'
    BY <1>7 DEF CommitUsers, connVars, ConnsTyped, Carries
  <2> QED BY <1>7, <2>1, ProgressCommit, LimitersCommit
<1>8. ASSUME NEW c \in Conns, Connection(c) PROVE UserInv'
  <2>1. /\ ConnsTyped' /\ StableLimiters'
        /\ UNCHANGED <<managerVars, applyVars, inboundVars>> /\ userconns' \subseteq Conns
    BY <1>8, ConnStep
  <2>2. Progress'
    BY <2>1, ProgressSame DEF managerVars, applyVars
  <2>3. Typed'
    BY <2>1 DEF Typed, managerVars, applyVars, inboundVars
  <2> QED BY <2>1, <2>2, <2>3
<1> QED BY <1>2, <1>3, <1>4, <1>5, <1>6, <1>7, <1>8 DEF Next, Apply

(* The invariant: where an application has got to on every inbound, and    *)
(* who holds which limiter pair.                                           *)
THEOREM UserInvariant == Spec => []UserInv
<1>1. ASSUME Init PROVE UserInv
  <2>1. ConnsTyped
    BY <1>1 DEF Init, ConnsTyped, Carries, Free
  <2>2. StableLimiters
    BY <1>1 DEF Init, StableLimiters, Limited, ActiveIDs, Listed, NoUsers, Nothing, Free
  <2> QED BY <1>1, <2>1, <2>2, ProgressInit DEF UserInv
<1>2. ASSUME UserInv, UNCHANGED vars PROVE UserInv'
  <2>1. UNCHANGED <<managerVars, applyVars, inboundVars, connVars>>
    BY <1>2 DEF vars
  <2>2. Progress'
    BY <1>2, <2>1, ProgressSame DEF managerVars, applyVars, UserInv
  <2>3. Typed'
    BY <1>2, <2>1 DEF Typed, managerVars, applyVars, inboundVars, connVars, UserInv
  <2>4. ConnsTyped' /\ StableLimiters'
    BY <1>2, <2>1 DEF ConnsTyped, Carries, StableLimiters, Limited, managerVars, ActiveIDs, Listed, connVars, UserInv
  <2> QED BY <2>2, <2>3, <2>4 DEF UserInv
<1> QED BY <1>1, <1>2, UserStep, PTL DEF Spec

(* Every variable of the manager, the inbounds and the connections keeps   *)
(* its type.                                                               *)
THEOREM UserTypes == Spec => []TypeOK
<1>1. ASSUME UserInv PROVE TypeOK
  <2>1. \A t \in Tags : Range(users[t]) \cup Range(table[t]) \subseteq Credentials
    BY <1>1 DEF UserInv, Typed, Range
  <2> QED BY <1>1, <2>1 DEF UserInv, Typed, ConnsTyped, Carries, TypeOK, AtTag
<1> QED BY <1>1, UserInvariant, PTL

(* An inbound never accepts a credential that neither its committed list   *)
(* nor the one being applied has, and when ApplyBoxByInbound is done it    *)
(* accepts its list exactly, whatever lists were applied before.           *)
THEOREM InboundsAreIsolated == Spec => []NodeIsolation
<1>1. ASSUME UserInv PROVE NodeIsolation
  <2>1. ASSUME NEW t \in Tags
        PROVE  Range(table[t]) \subseteq Accepted(t, byInbound[t]) \cup Accepted(t, next[t])
    <3>1. CASE t \in todo \/ phase \notin AtTag \/ t # tag
      BY <1>1, <3>1 DEF UserInv, Progress, Settled
    <3>2. CASE phase \in AtTag /\ t = tag
      <4>1. Common(t) \subseteq Accepted(t, byInbound[t])
        BY <1>1, Deltas DEF UserInv
      <4> QED BY <1>1, <3>2, <4>1 DEF UserInv, Progress, AtWork, Settled, AtTag
    <3> QED BY <3>1, <3>2
  <2>2. ASSUME NEW t \in Tags, phase = "idle" PROVE Settled(t, byInbound[t])
    BY <1>1, <2>2 DEF UserInv, Progress, AtTag
  <2> QED BY <2>1, <2>2 DEF NodeIsolation, Settled
<1> QED BY <1>1, UserInvariant, PTL

(* An active user has one open limiter pair, and a connection holds that   *)
(* one or a closed one: closeLimiterLocked forgets nobody who holds a      *)
(* pair, however connections and applications interleave.                  *)
THEOREM LimitersAreStable == Spec => []StableLimiters
<1>1. UserInv => StableLimiters
  BY DEF UserInv
<1> QED BY <1>1, UserInvariant, PTL

(* Where an application has got to says who is accepted meanwhile.         *)
LEMMA StayersAccepted ==
    ASSUME UserInv, NEW t \in Tags, NEW i \in Ids, Stays(t, i)
    PROVE  Accepts(t, i)
<1> DEFINE secret == Secret(t, next[t])[i]
           cred == <<i, secret>>
<1>1. Typed /\ byInbound[t] \in [Ids -> User] /\ next[t] \in [Ids -> User]
  BY DEF UserInv, Typed
<1>2. i \notin removed(t) /\ Secret(t, byInbound[t])[i] = secret
  BY <1>1, SecretOf DEF Stays, removed
<1>3. SUFFICES ASSUME secret # 0
               PROVE  /\ cred \in Range(users[t]) /\ cred \in Range(table[t])
                      /\ t \in Hy2Tags => uid[t][i] = secret
  BY DEF Accepts
<1>4. cred \in Accepted(t, byInbound[t]) /\ cred \in Accepted(t, next[t])
  <2>1. \A j, v : <<j, v>> \in Accepted(t, byInbound[t]) <=>
                     j \in Ids /\ v = Secret(t, byInbound[t])[j] /\ v # 0
    BY <1>1, CredentialOf, Zenon DEF Accepted
  <2>2. \A j, v : <<j, v>> \in Accepted(t, next[t]) <=> j \in Ids /\ v = Secret(t, next[t])[j] /\ v # 0
    BY <1>1, CredentialOf, Zenon DEF Accepted
  <2> QED BY <1>2, <1>3, <2>1, <2>2
<1>5. cred \in Common(t)
  <2>1. Ids \ removed(t) \in SUBSET Ids /\ i \in Ids \ removed(t)
    BY <1>2
  <2>2. \A j, v : <<j, v>> \in Common(t) <=>
                     j \in Ids \ removed(t) /\ v = Secret(t, byInbound[t])[j] /\ v # 0
    BY <1>1, <2>1, CredentialOf, Zenon DEF Common
  <2> QED BY <1>2, <1>3, <2>1, <2>2
<1>6. Reduced(t)[i] = secret
  BY <1>2 DEF Reduced
<1> HIDE DEF secret, cred
<1>7. CASE t \in todo \/ phase \notin AtTag \/ t # tag
  <2>1. Settled(t, byInbound[t]) \/ Settled(t, next[t])
    BY <1>7 DEF UserInv, Progress
  <2> QED BY <1>2, <1>4, <2>1 DEF Settled, secret
<1>8. CASE phase \in AtTag /\ t = tag
  BY <1>2, <1>4, <1>5, <1>6, <1>8, ZenonT(40) DEF UserInv, Progress, AtWork, Settled, AtTag, secret
<1> QED BY <1>7, <1>8

(* Whoever is on the committed list of an inbound and, unchanged, on the   *)
(* one being applied is accepted throughout, and no application cuts one   *)
(* of their sessions.                                                      *)
THEOREM StayersUndisturbed == Spec => UnchangedUndisturbed
<1> DEFINE Staying == \A t \in Tags : \A i \in Ids : Stays(t, i) => Accepts(t, i)
<1>1. UserInv => Staying
  BY StayersAccepted
<1>2. ASSUME UserInv, Apply, NEW c \in userconns \ userconns'
      PROVE  ~Stays(conn[c].tag, conn[c].user[1])
  <2>1. DelUsers
    BY <1>2, ZenonT(40) DEF Apply, BeginApply, NextTag, AddUsers, UpdateUsers, CommitUsers, connVars
  <2>2. tag \in Tags /\ conn[c].tag = tag /\ conn[c].user \in remove(tag)
    BY <1>2, <2>1, ZenonT(40) DEF DelUsers, UserInv, Progress, AtTag
  <2>3. conn[c].user[1] \in removed(tag)
    <3>1. byInbound[tag] \in [Ids -> User] /\ removed(tag) \in SUBSET Ids
      BY <1>2, <2>2 DEF UserInv, Typed, removed
    <3> QED BY <2>2, CredentialIds, Zenon DEF remove
  <2> QED BY <2>2, <2>3 DEF Stays, removed
<1>3. ASSUME UserInv, Staying', [Next]_vars
      PROVE  [Apply => /\ \A t \in Tags : \A i \in Ids : Stays(t, i)' => Accepts(t, i)'
                       /\ \A c \in userconns \ userconns' : ~Stays(conn[c].tag, conn[c].user[1])]_vars
  BY <1>2, <1>3
<1> HIDE DEF Staying
<1> QED BY <1>1, <1>3, UserInvariant, PTL DEF Spec, UnchangedUndisturbed

=============================================================================
