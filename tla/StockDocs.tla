------------------------------ MODULE StockDocs ------------------------------
(***************************************************************************)
(* The documents of the collections inventory and stockReservations, and   *)
(* what one line of a request requires of a stock document and does to it  *)
(* (repositories/firestore/inventory_repository.go).                       *)
(***************************************************************************)
EXTENDS Integers, FiniteSets

CONSTANTS
    Sku,            \* stock keeping units
    Reservation,    \* reservation ids
    OrderRef,       \* orders that reservations are made for
    Basket,         \* reservable lines: functions from some SKUs to quantities
    OnHand0,        \* stock on hand at first, for the SKUs that have a document
    TtlPolicy       \* whether Firestore deletes reservations past expiresAt

Stocked == DOMAIN OnHand0

ASSUME OnHandAssumption == Stocked \subseteq Sku /\ OnHand0 \in [Stocked -> Nat]
ASSUME BasketAssumption ==
    \A b \in Basket : /\ DOMAIN b \subseteq Sku /\ DOMAIN b # {}
                      /\ b \in [DOMAIN b -> Nat \ {0}]
ASSUME TtlAssumption == TtlPolicy \in BOOLEAN

None == "none"      \* no order reference
Empty == [s \in {} |-> 0]
Lines == Basket \cup {Empty}

Status == {"absent", "reserved", "committed", "released", "purged"}
Reservations == [status : Status, order : OrderRef \cup {None}, lines : Lines]
NoReservation == [status |-> "absent", order |-> None, lines |-> Empty]
Purged == [status |-> "purged", order |-> None, lines |-> Empty]

Reserved(o, b) == [status |-> "reserved", order |-> o, lines |-> b]

Docs == [onHand : Int, reserved : Int, available : Int]

\* The stock document with these counts; "available" is stored for queries.
StockDoc(onHand, reserved) ==
    [onHand |-> onHand, reserved |-> reserved, available |-> onHand - reserved]

\* A plausible bug: availability that ignores what is already reserved.
StockOkOnHandOnly(op, d, n) ==
    \/ op = "reserve" /\ d.onHand >= n
    \/ op = "commit" /\ d.reserved >= n /\ d.onHand >= n
    \/ op = "release" /\ d.reserved >= n

\* The checks on the stock document of a line for n pieces.
StockOk(op, d, n) ==
    \/ op = "reserve" /\ d.onHand - d.reserved >= n
    \/ op = "commit" /\ d.reserved >= n /\ d.onHand >= n
    \/ op = "release" /\ d.reserved >= n

\* A plausible bug: a commit that keeps the pieces reserved.
AdjustedKeepsReserved(op, d, n) ==
    CASE op = "reserve" -> StockDoc(d.onHand, d.reserved + n)
      [] op = "commit"  -> StockDoc(d.onHand - n, d.reserved)
      [] op = "release" -> StockDoc(d.onHand, d.reserved - n)

\* What the line makes of the stock document, recalculate() included.
Adjusted(op, d, n) ==
    CASE op = "reserve" -> StockDoc(d.onHand, d.reserved + n)
      [] op = "commit"  -> StockDoc(d.onHand - n, d.reserved - n)
      [] op = "release" -> StockDoc(d.onHand, d.reserved - n)

\* The status in which an operation leaves the reservation.
Final(op) == CASE op = "reserve" -> "reserved"
               [] op = "commit"  -> "committed"
               [] op = "release" -> "released"

=============================================================================
