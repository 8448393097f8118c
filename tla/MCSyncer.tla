------------------------------ MODULE MCSyncer ------------------------------
(* Small instances of Syncer: up to two nodes with a panel client each.    *)
(* Connections are only ever told apart by name, so they are symmetric in  *)
(* a run that checks no liveness.                                          *)
EXTENDS Syncer, TLC

CONSTANTS t1, t2, u1, big, raw, c1, c2, k1, k2

OneTag == {<<t1, u1>>}
TwoTags == {<<t1, u1>>, <<t2, u1>>}
TagBigRaw == {<<t1, u1>>, <<t1, big>>, <<t1, raw>>}
OwnTag == [cl \in {c1, c2} |-> IF cl = c1 THEN {t1} ELSE {t2}]
OnlyFirst == [cl \in {c1} |-> {t1}]
ConnSymmetry == Permutations({k1, k2})

=============================================================================
