----------------------------- MODULE StockLedger -----------------------------
(***************************************************************************)
(* What the inventory promises its callers, without documents, reads or    *)
(* transactions: claims on stock are granted while unclaimed pieces remain,*)
(* and each is settled once, by a sale or by being given back.  The module *)
(* Inventory implements it.                                                *)
(***************************************************************************)
EXTENDS Integers, FiniteSets

CONSTANTS
    Sku,            \* stock keeping units
    Reservation,    \* reservation ids
    Basket,         \* what may be claimed: functions from some SKUs to quantities
    OnHand0         \* pieces the warehouse holds at first, for the SKUs it stocks

VARIABLES
    sold,           \* [DOMAIN OnHand0 -> Nat]: pieces that left the warehouse
    claim           \* [Reservation -> state of the claim and what it holds]

vars == <<sold, claim>>

Nothing == [s \in {} |-> 0]
Free == [status |-> "absent", lines |-> Nothing]

Holding(s) == {r \in Reservation :
                 claim[r].status = "reserved" /\ s \in DOMAIN claim[r].lines}

\* How many pieces of s the open claims hold.
Held(s) == Cardinality(UNION {{r} \X (1..claim[r].lines[s]) : r \in Holding(s)})

Init ==
    /\ sold = [s \in DOMAIN OnHand0 |-> 0]
    /\ claim = [r \in Reservation |-> Free]

Grant(r, b) ==
    /\ claim[r].status = "absent"
    /\ \A s \in DOMAIN b : /\ s \in DOMAIN OnHand0
                           /\ sold[s] + Held(s) + b[s] <= OnHand0[s]
    /\ claim' = [claim EXCEPT ![r] = [status |-> "reserved", lines |-> b]]
    /\ UNCHANGED sold

Sell(r) ==
    /\ claim[r].status = "reserved"
    /\ claim' = [claim EXCEPT ![r].status = "committed"]
    /\ sold' = [s \in DOMAIN sold |->
                  IF s \in DOMAIN claim[r].lines THEN sold[s] + claim[r].lines[s]
                                                 ELSE sold[s]]

GiveBack(r) ==
    /\ claim[r].status = "reserved"
    /\ claim' = [claim EXCEPT ![r].status = "released"]
    /\ UNCHANGED sold

\* The record of a settled claim may be forgotten; an open claim may not.
Forget(r) ==
    /\ claim[r].status \in {"committed", "released"}
    /\ claim' = [claim EXCEPT ![r] = [status |-> "purged", lines |-> Nothing]]
    /\ UNCHANGED sold

Next == \E r \in Reservation : \/ \E b \in Basket : Grant(r, b)
                               \/ Sell(r)
                               \/ GiveBack(r)
                               \/ Forget(r)

Spec == Init /\ [][Next]_vars

=============================================================================
