------------------------------ MODULE StockBook ------------------------------
(***************************************************************************)
(* The inventory as its transactions would have it: each operation reads   *)
(* and writes its reservation and stock documents in one step.  Inventory  *)
(* refines this module, and this module refines StockLedger.               *)
(***************************************************************************)
EXTENDS StockDocs

VARIABLES
    stock,      \* the documents of collection inventory, by SKU
    book        \* the documents of collection stockReservations, by id

vars == <<stock, book>>

Exists(r) == book[r].status \notin {"absent", "purged"}

Init ==
    /\ stock = [s \in Stocked |-> StockDoc(OnHand0[s], 0)]
    /\ book = [r \in Reservation |-> NoReservation]

\* The effect of op on every stock document named by lines, if all allow it.
AdjustStock(op, lines) ==
    /\ \A s \in DOMAIN lines : s \in Stocked /\ StockOk(op, stock[s], lines[s])
    /\ stock' = [s \in Stocked |->
                   IF s \in DOMAIN lines THEN Adjusted(op, stock[s], lines[s])
                                         ELSE stock[s]]

Reserve(r, o, b) ==
    /\ ~Exists(r)
    /\ AdjustStock("reserve", b)
    /\ book' = [book EXCEPT ![r] = Reserved(o, b)]

Settle(op, r) ==
    /\ book[r].status = "reserved"
    /\ AdjustStock(op, book[r].lines)
    /\ book' = [book EXCEPT ![r].status = Final(op)]

Commit(r) == Settle("commit", r)
Release(r) == Settle("release", r)

\* Firestore deletes an expired document whatever its status.
Purge(r) ==
    /\ TtlPolicy
    /\ Exists(r)
    /\ book' = [book EXCEPT ![r] = Purged]
    /\ UNCHANGED stock

Next == \E r \in Reservation :
            \/ \E o \in OrderRef, b \in Basket : Reserve(r, o, b)
            \/ Commit(r)
            \/ Release(r)
            \/ Purge(r)

Spec == Init /\ [][Next]_vars

-----------------------------------------------------------------------------
(* Properties.                                                             *)

\* No overselling (the availability and counter checks before each write of
\* inventory_repository.go): the pieces promised never outnumber the pieces there
\* are, and the stored "available" that the low-stock query reads is what is left.
NoOversell ==
    \A s \in Stocked : /\ 0 <= stock[s].reserved
                       /\ stock[s].reserved <= stock[s].onHand
                       /\ stock[s].available = stock[s].onHand - stock[s].reserved

Holding(s) == {r \in Reservation :
                 book[r].status = "reserved" /\ s \in DOMAIN book[r].lines}

\* The pieces of s that the open reservations hold, numbered within each.
Pieces(s) == UNION {{r} \X (1..book[r].lines[s]) : r \in Holding(s)}

\* The counter "reserved" of a stock document is what the open reservation
\* documents hold: no piece is set aside for nobody.
ReservedAccounted ==
    \A s \in Stocked : stock[s].reserved = Cardinality(Pieces(s))

\* The checks of Commit and Release on the counters never refuse an open
\* reservation: what was reserved can be sold or given back, whatever happened to
\* the other reservations of the same SKU in between.
ClaimsCanSettle ==
    \A r \in Reservation : book[r].status = "reserved" =>
        \A s \in DOMAIN book[r].lines :
            StockOk("commit", stock[s], book[r].lines[s])

Ledger == INSTANCE StockLedger WITH
    sold <- [s \in Stocked |-> OnHand0[s] - stock[s].onHand],
    claim <- [r \in Reservation |-> [status |-> book[r].status, lines |-> book[r].lines]]

\* The counters in the stock documents implement a ledger that has no counters:
\* a claim is granted exactly within what was never sold and is not held, and is
\* settled once.
ImplementsLedger == Ledger!Spec

=============================================================================
