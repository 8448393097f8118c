--------------------------- MODULE MCUserManager ----------------------------
(* Small instances of UserManager: two users.                              *)
EXTENDS UserManager

First == [uuid |-> 1, password |-> 1, name |-> 3]
Renamed == [First EXCEPT !.name = 4]
NewUUID == [First EXCEPT !.uuid = 2]
Other == [uuid |-> 0, password |-> 2, name |-> 3]

(* User 1 comes and goes on both nodes and, while on Hysteria2, may get    *)
(* another name, another UUID, or another password and no UUID.  User 2    *)
(* stays on the VLESS node.                                                *)
OneChanges == [t \in Tags |->
    IF t \in VlessTags THEN {list \in [Ids -> {NoUser, First}] : list[2] = First}
    ELSE {list \in [Ids -> {NoUser, First, Renamed, NewUUID, Other}] : list[2] = NoUser}]

NoneChanges == [t \in Tags |-> [Ids -> {NoUser, First}]]

=============================================================================
