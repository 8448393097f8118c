---------------------------- MODULE UsageLedger -----------------------------
(***************************************************************************)
(* What traffic accounting promises of one account: usage only grows, a    *)
(* bill never covers more than the usage that is still unsettled, and      *)
(* usage is settled only after it has been billed.  Billing is at least    *)
(* once: usage may be billed again until a bill for it is settled.         *)
(***************************************************************************)
EXTENDS Integers

CONSTANTS Accounts, Dirs

VARIABLES used, billed, settled

vars == <<used, billed, settled>>

Books == [Accounts -> [Dirs -> Nat]]

Init ==
    /\ used = [a \in Accounts |-> [d \in Dirs |-> 0]]
    /\ billed = used
    /\ settled = used

Use ==
    /\ used' \in Books
    /\ \A a \in Accounts, d \in Dirs : used[a][d] <= used'[a][d]
    /\ UNCHANGED <<billed, settled>>

Bill ==
    /\ billed' \in Books
    /\ \A a \in Accounts, d \in Dirs :
          /\ billed[a][d] <= billed'[a][d]
          /\ billed'[a][d] - billed[a][d] <= used[a][d] - settled[a][d]
    /\ UNCHANGED <<used, settled>>

Settle ==
    /\ settled' \in Books
    /\ \A a \in Accounts, d \in Dirs :
          /\ settled[a][d] <= settled'[a][d]
          /\ settled'[a][d] <= used[a][d]
          /\ settled'[a][d] <= billed[a][d]
    /\ UNCHANGED <<used, billed>>

Next == Use \/ Bill \/ Settle

Spec == Init /\ [][Next]_vars

=============================================================================
