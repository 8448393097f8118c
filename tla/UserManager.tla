---------------------------- MODULE UserManager -----------------------------
(***************************************************************************)
(* Applying a user list to the live inbounds: UserManager                  *)
(* (cmd/mini-sb-agent/user_manager.go), the deltas it computes             *)
(* (user_delta.go, user_apply_*_enabled.go), the user tables of the VLESS  *)
(* and Hysteria2 inbounds of the fork, and the connections that            *)
(* authenticate, are named, limited and resolved meanwhile.                *)
(*                                                                         *)
(* A list says for each id which UUID, password and name the user has, as  *)
(* numbers, 0 for an empty one.  VLESS authenticates the UUID and          *)
(* Hysteria2 the password.  A credential is <<id, secret>>: a secret is    *)
(* never given to another id.  bySecret maps a secret to its id, so the    *)
(* set of known credentials is all there is to it.                         *)
(*                                                                         *)
(* ApplyBoxByInbound holds applyMu but not mu while it works on the        *)
(* inbounds, and the inbounds have no lock at all: each assignment to a    *)
(* user table is a step, and so is each step of a new connection.          *)
(***************************************************************************)
EXTENDS Collections

CONSTANTS
    Ids,        \* panel user ids
    Lists,      \* tag -> the lists, id -> user, that the panel sends for it
    VlessTags,  \* tags of the VLESS inbounds
    Hy2Tags,    \* tags of the Hysteria2 inbounds
    NoTag,
    Conns       \* connection slots

Tags == VlessTags \cup Hy2Tags

(* A user, and the place of one who is not on a list.                      *)
User == [uuid : Nat, password : Nat, name : Nat]
NoUser == [uuid |-> 0, password |-> 0, name |-> 0]

ASSUME TagsAssumption ==
    /\ VlessTags \cap Hy2Tags = {}
    /\ NoTag \notin Tags
    /\ \A t \in Tags : Lists[t] \subseteq [Ids -> User]
    /\ IsFiniteSet(Ids)
    /\ IsFiniteSet(Conns)

VARIABLES
    byInbound,  \* tag -> id -> user: the committed snapshots
    bySecret,   \* the credentials Resolve knows
    limiters,   \* id -> its limiter pair, 0 for none
    closed,     \* <<id, pair>> that Close was called on
    phase,      \* where ApplyBoxByInbound is
    next,       \* the lists it applies
    todo,       \* tags it has still to visit
    tag,        \* the tag it is at
    users,      \* tag -> sequence of credentials: h.users, h.userNameList
    table,      \* tag -> the sequence the service authenticates against
    uid,        \* Hysteria2 tag -> id -> password, 0 for none: uidToUuid
    conn,       \* connection -> what it is doing
    userconns   \* Hysteria2 connections that DelUsers can find

managerVars == <<byInbound, bySecret, limiters, closed>>
applyVars == <<phase, next, todo, tag>>
inboundVars == <<users, table, uid>>
connVars == <<conn, userconns>>
vars == <<managerVars, applyVars, inboundVars, connVars>>

Credentials == Ids \X (Nat \ {0})
NoUsers == [i \in Ids |-> NoUser]
Nothing == [i \in Ids |-> 0]
Free == [pc |-> "free"]

(* What an inbound authenticates of each user of a list.                   *)
Secret(t, list) == [i \in Ids |-> IF t \in VlessTags THEN list[i].uuid ELSE list[i].password]

(* The credentials, of the users in ids, that an inbound with a list       *)
(* accepts: a user whose secret is empty has none.                         *)
Credential(t, list, ids) ==
    LET secret == Secret(t, list) IN {<<i, secret[i]>> : i \in {j \in ids : secret[j] # 0}}
Accepted(t, list) == Credential(t, list, Ids)

(* Limiter pairs are numbered for each user.  A pair that nobody holds any *)
(* more is garbage, and its number may be used again.                      *)
Pairs == 1..Cardinality(Conns) + 1

Listed(lists) == {i \in Ids : \E t \in Tags : lists[t][i] # NoUser}
ActiveIDs == Listed(byInbound)

TypeOK ==
    /\ byInbound \in [Tags -> [Ids -> User]]
    /\ bySecret \subseteq Credentials
    /\ limiters \in [Ids -> Pairs \cup {0}]
    /\ closed \subseteq Ids \X Pairs
    /\ phase \in {"idle", "tags", "del", "updateDel", "add", "updateAdd"}
    /\ next \in [Tags -> [Ids -> User]]
    /\ todo \subseteq Tags
    /\ tag \in Tags \cup {NoTag}
    /\ \A t \in Tags : Range(users[t]) \cup Range(table[t]) \subseteq Credentials
    /\ uid \in [Hy2Tags -> [Ids -> Nat]]
    /\ \A c \in Conns : conn[c].pc \in {"free", "auth", "named", "tracked", "limited", "open", "panic"}
    /\ userconns \subseteq Conns

Init ==
    /\ byInbound = [t \in Tags |-> NoUsers]
    /\ bySecret = {}
    /\ limiters = Nothing
    /\ closed = {}
    /\ phase = "idle"
    /\ next = [t \in Tags |-> NoUsers]
    /\ todo = {}
    /\ tag = NoTag
    /\ users = [t \in Tags |-> <<>>]
    /\ table = [t \in Tags |-> <<>>]
    /\ uid = [t \in Hy2Tags |-> Nothing]
    /\ conn = [c \in Conns |-> Free]
    /\ userconns = {}

-----------------------------------------------------------------------------
(* userChanges: a user is removed when the new list does not have the id   *)
(* with the same UUID, password and name, and added when the old list does *)
(* not.  So a new name, or a UUID on an inbound that authenticates the     *)
(* password, takes the user off the inbound and puts the same credential   *)
(* back.                                                                   *)

(* Mutants: every user counts as changed; the old list is the union over   *)
(* all inbounds.                                                           *)
removedAlways(t) == {i \in Ids : byInbound[t][i] # NoUser}
addedGlobally(t) == {i \in Ids : next[t][i] # NoUser /\ \A s \in Tags : byInbound[s][i] # next[t][i]}

removed(t) == {i \in Ids : byInbound[t][i] \notin {NoUser, next[t][i]}}
added(t) == {i \in Ids : next[t][i] \notin {NoUser, byInbound[t][i]}}

(* mergeUsersByNode: one id has one UUID and one password on all nodes,    *)
(* otherwise nothing is applied; names are not compared.                   *)
Mergeable(lists) ==
    \A s, t \in Tags, i \in Ids :
        \/ NoUser \in {lists[s][i], lists[t][i]}
        \/ lists[s][i].uuid = lists[t][i].uuid /\ lists[s][i].password = lists[t][i].password

(* topologyPanel.FetchUsers has fetched and merged the lists of all nodes  *)
(* and calls ApplyBoxByInbound; with ApplyBox all tags get one list.       *)
BeginApply ==
    /\ phase = "idle"
    /\ \E lists \in [Tags -> UNION {Lists[t] : t \in Tags}] :
          /\ \A t \in Tags : lists[t] \in Lists[t]
          /\ Mergeable(lists)
          /\ next' = lists
    /\ phase' = "tags"
    /\ todo' = Tags
    /\ UNCHANGED <<managerVars, tag, inboundVars, connVars>>

(* applyVLESSUsers and applyHysteria2Users: DelUsers with the secrets of   *)
(* the removed users, then AddUsers with those of the added ones, leaving  *)
(* out empty secrets and a call without any.                               *)
remove(t) == Credential(t, byInbound[t], removed(t))
desired(t) == Credential(t, next[t], added(t))

applyAdded(t) == IF desired(t) # {} THEN "add" ELSE "tags"
applyDelta(t) == IF remove(t) # {} THEN "del" ELSE applyAdded(t)

(* One iteration of the loop over the inbounds.                            *)
NextTag(t) ==
    /\ phase = "tags"
    /\ t \in todo
    /\ todo' = todo \ {t}
    /\ tag' = t
    /\ phase' = applyDelta(t)
    /\ UNCHANGED <<managerVars, next, inboundVars, connVars>>

(* DelUsers takes the credentials off the inbound's own list.  Hysteria2   *)
(* also forgets their ids and closes the connections it has stored.  VLESS *)
(* stores a connection before it has a name, so it finds none to close.    *)
DelUsers ==
    LET gone == remove(tag)
        cut == {c \in userconns : conn[c].tag = tag /\ conn[c].user \in gone}
    IN
    /\ phase = "del"
    /\ users' = [users EXCEPT ![tag] = Kept(@, Range(@) \ gone)]
    /\ uid' = [t \in Hy2Tags |-> [i \in Ids |->
                 IF t = tag /\ \E cred \in gone : cred[1] = i THEN 0 ELSE uid[t][i]]]
    /\ conn' = [c \in Conns |-> IF c \in cut THEN Free ELSE conn[c]]
    /\ userconns' = userconns \ cut
    /\ phase' = "updateDel"
    /\ UNCHANGED <<managerVars, next, todo, tag, table>>

(* AddUsers appends them, in the order of a map iteration.                 *)
AddUsers ==
    /\ phase = "add"
    /\ \E order \in Orders(desired(tag)) : users' = [users EXCEPT ![tag] = @ \o order]
    /\ uid' = [t \in Hy2Tags |-> [i \in Ids |->
                 IF t = tag /\ \E cred \in desired(t) : cred[1] = i
                 THEN Secret(t, next[t])[i] ELSE uid[t][i]]]
    /\ phase' = "updateAdd"
    /\ UNCHANGED <<managerVars, next, todo, tag, table, connVars>>

(* Both end with service.UpdateUsers, which replaces the service's table.  *)
UpdateUsers ==
    /\ phase \in {"updateDel", "updateAdd"}
    /\ table' = [table EXCEPT ![tag] = users[tag]]
    /\ phase' = IF phase = "updateDel" THEN applyAdded(tag) ELSE "tags"
    /\ UNCHANGED <<managerVars, next, todo, tag, users, uid, connVars>>

(* Mutants: the pair of a user who is gone is dropped but not closed; it   *)
(* is closed without a look whether there is one.                          *)
closeLimiterNot(active) == closed
closeLimiterNil(active) == closed \cup {<<i, limiters[i]>> : i \in Ids \ active}

(* The pair of a user who is gone is closed and dropped.                   *)
closeLimiterLocked(active) ==
    closed \cup {<<i, limiters[i]>> : i \in {j \in Ids \ active : limiters[j] # 0}}

(* The connections that have been given a limiter pair.                    *)
Limited == {c \in Conns : conn[c].pc \in {"limited", "open"} /\ conn[c].lim # 0}

newLimiterPair(i) ==
    CHOOSE p \in Pairs : \A c \in Limited : conn[c].user[1] = i => conn[c].lim # p

(* A user who stays keeps the pair (SetRate), a new user gets a new one.   *)
updateLimiterLocked(active) ==
    [i \in Ids |-> IF i \notin active THEN 0
                   ELSE IF limiters[i] = 0 THEN newLimiterPair(i) ELSE limiters[i]]

(* The UUID, the password and the name of a user, as far as there are any. *)
secretsFrom(union) ==
    UNION {{i} \X ({union[i].uuid, union[i].password, union[i].name} \ {0}) : i \in Ids}

(* Under mu: the snapshots, the known secrets and the limiters.  Where two *)
(* nodes have different names for a user, one of them is kept.             *)
CommitUsers ==
    LET active == Listed(next) IN
    /\ phase = "tags"
    /\ todo = {}
    /\ byInbound' = next
    /\ \E last \in [Ids -> Tags] :
          /\ \A i \in active : next[last[i]][i] # NoUser
          /\ bySecret' = secretsFrom([i \in Ids |-> next[last[i]][i]])
    /\ limiters' = updateLimiterLocked(active)
    /\ closed' = closeLimiterLocked(active) \ {<<i, limiters'[i]>> : i \in {j \in active : limiters[j] = 0}}
    /\ phase' = "idle"
    /\ tag' = NoTag
    /\ UNCHANGED <<next, todo, inboundVars, connVars>>

-----------------------------------------------------------------------------
(* A connection.  The service authenticates it against its table and hands *)
(* on the index (VLESS) or the id (Hysteria2).                             *)
Authenticate(c, t, i) ==
    /\ conn[c].pc = "free"
    /\ i \in DOMAIN table[t]
    /\ conn' = [conn EXCEPT ![c] = [pc |-> "auth", tag |-> t, cred |-> table[t][i], index |-> i]]
    /\ UNCHANGED <<managerVars, applyVars, inboundVars, userconns>>

(* VLESS looks the index up in its list as it is now; an index past the    *)
(* end is a Go panic, which ends the process.                              *)
NewVlessConnection(c) ==
    /\ conn[c].pc = "auth"
    /\ conn[c].tag \in VlessTags
    /\ LET list == users[conn[c].tag]
           i == conn[c].index
       IN conn' = [conn EXCEPT ![c] =
            IF i \in DOMAIN list
            THEN [pc |-> "named", tag |-> @.tag, cred |-> @.cred, user |-> list[i]]
            ELSE [pc |-> "panic"]]
    /\ UNCHANGED <<managerVars, applyVars, inboundVars, userconns>>

(* Hysteria2 looks the id up, or closes the connection.                    *)
NewHy2Connection(c) ==
    /\ conn[c].pc = "auth"
    /\ conn[c].tag \in Hy2Tags
    /\ LET id == conn[c].cred[1]
           password == uid[conn[c].tag][id]
       IN conn' = [conn EXCEPT ![c] =
            IF password # 0
            THEN [pc |-> "named", tag |-> @.tag, cred |-> @.cred, user |-> <<id, password>>]
            ELSE Free]
    /\ UNCHANGED <<managerVars, applyVars, inboundVars, userconns>>

(* ... and stores a stream for DelUsers in a step of its own; a packet     *)
(* connection is not stored.                                               *)
StoreUserConn(c) ==
    /\ conn[c].pc = "named"
    /\ conn[c].tag \in Hy2Tags
    /\ userconns' = userconns \cup {c}
    /\ conn' = [conn EXCEPT ![c].pc = "tracked"]
    /\ UNCHANGED <<managerVars, applyVars, inboundVars>>

(* Hook.RoutedConnection asks for the limiters and, in another critical    *)
(* section, for the id.                                                    *)
DirectionalLimiters(c) ==
    /\ conn[c].pc \in {"named", "tracked"}
    /\ LET user == conn[c].user
           lim == IF user \in bySecret THEN limiters[user[1]] ELSE 0
       IN conn' = [conn EXCEPT ![c] =
            [pc |-> "limited", tag |-> @.tag, cred |-> @.cred, user |-> user, lim |-> lim]]
    /\ UNCHANGED <<managerVars, applyVars, inboundVars, userconns>>

Resolve(c) ==
    /\ conn[c].pc = "limited"
    /\ conn' = [conn EXCEPT ![c] =
         [pc |-> "open", tag |-> @.tag, cred |-> @.cred, user |-> @.user, lim |-> @.lim,
          resolved |-> @.user \in bySecret]]
    /\ UNCHANGED <<managerVars, applyVars, inboundVars, userconns>>

CloseConn(c) ==
    /\ conn[c].pc # "free"
    /\ conn' = [conn EXCEPT ![c] = Free]
    /\ userconns' = userconns \ {c}
    /\ UNCHANGED <<managerVars, applyVars, inboundVars>>

-----------------------------------------------------------------------------
Apply == BeginApply \/ (\E t \in Tags : NextTag(t)) \/ DelUsers \/ AddUsers \/ UpdateUsers \/ CommitUsers

Connection(c) ==
    \/ \E t \in Tags : \E i \in DOMAIN table[t] : Authenticate(c, t, i)
    \/ NewVlessConnection(c) \/ NewHy2Connection(c) \/ StoreUserConn(c)
    \/ DirectionalLimiters(c) \/ Resolve(c) \/ CloseConn(c)

(* A panic in one goroutine ends the process.                              *)
Running == \A c \in Conns : conn[c].pc # "panic"

Next == Running /\ (Apply \/ \E c \in Conns : Connection(c))

Spec == Init /\ [][Next]_vars

-----------------------------------------------------------------------------
(* "users from node A must never authenticate on node B even when both     *)
(* nodes use the same protocol" (ApplyBoxByInbound): at every moment an    *)
(* inbound accepts only credentials of its own list, the committed one or  *)
(* the one being applied, and between two applications exactly the         *)
(* committed list, although only deltas are ever sent to it.               *)
NodeIsolation ==
    \A t \in Tags :
        /\ Range(table[t]) \subseteq Accepted(t, byInbound[t]) \cup Accepted(t, next[t])
        /\ phase = "idle" => /\ Range(table[t]) = Accepted(t, byInbound[t])
                             /\ users[t] = table[t]
                             /\ t \in Hy2Tags => uid[t] = Secret(t, byInbound[t])

(* "Keep one stable limiter pair per active user": every active user has   *)
(* one open pair, and a connection never holds an open pair that the       *)
(* manager no longer updates.  So the connections of a removed user that   *)
(* hold a pair are cut off by it (updateLimiterLocked,                     *)
(* closeLimiterLocked).                                                    *)
StableLimiters ==
    /\ \A i \in Ids : /\ limiters[i] # 0 <=> i \in ActiveIDs
                      /\ <<i, limiters[i]>> \notin closed
    /\ \A c \in Limited : LET i == conn[c].user[1] IN
          <<i, conn[c].lim>> \in closed \/ conn[c].lim = limiters[i]

(* Someone whom the committed list of an inbound and the list being        *)
(* applied both have, with the same UUID, password and name.               *)
Stays(t, i) == byInbound[t][i] = next[t][i]

(* The inbound accepts the user and finds the user under the id.           *)
Accepts(t, i) ==
    LET secret == Secret(t, next[t])[i] IN
    secret # 0 => /\ <<i, secret>> \in Range(users[t]) \cap Range(table[t])
                  /\ t \in Hy2Tags => uid[t][i] = secret

(* "Users whose credentials are unchanged (including speed-only changes)   *)
(* keep their live sessions; only added/removed/re-credentialed users are  *)
(* touched" (applyVLESSUsers, applyHysteria2Users): whoever stays is       *)
(* accepted after every step of the application, and no step of it cuts    *)
(* one of their sessions.  A user with the same secret and another name    *)
(* is not one of them: the inbound refuses that user for a moment, and     *)
(* Hysteria2 cuts the sessions.                                            *)
UnchangedUndisturbed ==
    [][Apply => /\ \A t \in Tags : \A i \in Ids : Stays(t, i)' => Accepts(t, i)'
                /\ \A c \in userconns \ userconns' : ~Stays(conn[c].tag, conn[c].user[1])]_vars

(* "Keep one stable limiter pair per active user even when the limit is 0: *)
(* live connections hold these pointers" (updateLimiterLocked): once an    *)
(* application is over, the live connections of an active credential hold  *)
(* the pair of that user.                                                  *)
LiveConnsHoldLimiters ==
    \A c \in Conns :
        phase = "idle" /\ conn[c].pc = "open" /\ conn[c].user \in bySecret => conn[c].lim # 0

(* "Individual user traffic statistics" and "isolated rate-limiting per    *)
(* user" (README_EN): a connection is named after the user whose           *)
(* credential it presented.                                                *)
NamedAfterItsUser ==
    \A c \in Conns : conn[c].pc \in {"named", "tracked", "limited", "open"} =>
        conn[c].user[1] = conn[c].cred[1]

=============================================================================
