------------------------------- MODULE Orders --------------------------------
(***************************************************************************)
(* services/order_service.go: concurrent requests that create, move,       *)
(* cancel and clone orders.  A request reads the order document, works on  *)
(* its copy, and stores the whole copy; a reservation is committed or      *)
(* released on the way, in a Firestore transaction of its own (StockBook,  *)
(* which Inventory refines).                                               *)
(*                                                                         *)
(* The deployment's UnitOfWork either groups the order writes of a request *)
(* into one transaction, or (noopUnitOfWork) does nothing.  Order numbers  *)
(* are drawn with the ids (Counters).  Publishing is left out: no          *)
(* publisher is wired in, and its failures are only logged.                *)
(***************************************************************************)
EXTENDS StockDocs

CONSTANTS
    OrderId,        \* what the id generator gives out for orders
    Request,        \* API requests in flight
    Target,         \* the statuses TransitionStatus is asked for
    Event,          \* the types of production events appended
    Units           \* the UnitOfWorks: TRUE, a transaction, and FALSE, none

Successors ==   \* orderStateTransitions
    [draft           |-> {"pending_payment", "canceled"},
     pending_payment |-> {"paid", "canceled"},
     paid            |-> {"in_production", "ready_to_ship", "canceled"},
     in_production   |-> {"ready_to_ship", "shipped", "canceled"},
     ready_to_ship   |-> {"shipped", "canceled"},
     shipped         |-> {"delivered"},
     delivered       |-> {"completed"},
     completed       |-> {},
     canceled        |-> {}]

Cancellable == {"draft", "pending_payment", "paid", "in_production", "ready_to_ship"}

EventStatus ==  \* productionEventStatusMapping
    [queued    |-> "in_production", engraving |-> "in_production",
     polishing |-> "in_production", qc        |-> "in_production",
     on_hold   |-> "in_production", rework    |-> "in_production",
     packed    |-> "ready_to_ship", completed |-> "ready_to_ship",
     in_transit |-> "shipped",      canceled  |-> "canceled"]

ASSUME TargetAssumption == Target \subseteq DOMAIN Successors
ASSUME EventAssumption == Event \subseteq DOMAIN EventStatus
ASSUME UnitAssumption == Units \subseteq BOOLEAN

VARIABLES
    stock, book,    \* the inventory, see StockBook
    orders,         \* the documents of collection orders, by id
    events,         \* [OrderId -> the types of the production events stored]
    issued,         \* the order ids given out
    req,            \* [Request -> what the request is doing]
    transactional   \* whether the deployment's UnitOfWork is a transaction

vars == <<stock, book, orders, events, issued, req, transactional>>

Book == INSTANCE StockBook

\* Timestamps are told by the status whose time they hold: PlacedAt, PaidAt,
\* ShippedAt, DeliveredAt, CompletedAt and CanceledAt.
Stamped == {"pending_payment", "paid", "shipped", "delivered", "completed", "canceled"}

NoOrder == [status |-> "absent", stamps |-> {}, reservation |-> None, event |-> None]
Idle == [pc |-> "idle", kind |-> None, id |-> None, doc |-> NoOrder,
         reservation |-> None, event |-> None, stale |-> FALSE]

Placed(o) == orders[o].status # "absent"

Init ==
    /\ Book!Init
    /\ orders = [o \in OrderId |-> NoOrder]
    /\ events = [o \in OrderId |-> {}]
    /\ issued = {}
    /\ req = [p \in Request |-> Idle]
    /\ transactional \in Units

-----------------------------------------------------------------------------
(* The operations, up to the order that they have read and changed.        *)

\* A plausible bug: the table is looked up the wrong way round as well.
CanTransitionBothWays(s, t) == s = t \/ t \in Successors[s] \/ s \in Successors[t]

CanTransition(s, t) == s = t \/ t \in Successors[s]

\* A plausible bug: the timestamps are only set by TransitionStatus.
MovedUnstamped(d, t) == [d EXCEPT !.status = t]

\* applyStatusTransition with updateTimestamps.
Moved(d, t) == IF d.status = t THEN d
               ELSE [d EXCEPT !.status = t, !.stamps = @ \cup ({t} \cap Stamped)]

Start(p, pc, kind, o, d, r, e) ==
    /\ req[p].pc = "idle"
    /\ req' = [req EXCEPT ![p] = [pc |-> pc, kind |-> kind, id |-> o, doc |-> d,
                                  reservation |-> r, event |-> e, stale |-> FALSE]]
    /\ UNCHANGED <<stock, book, orders, events, transactional>>

\* A plausible bug: the id generator repeats itself.
IssueAgain(o) == UNCHANGED issued

Issue(o) == o \notin issued /\ issued' = issued \cup {o}

CreateFromCart(p, o, r) ==
    /\ Issue(o)
    /\ Start(p, IF r = None THEN "write" ELSE "commit", "create", o,
             [NoOrder EXCEPT !.status = "pending_payment", !.stamps = {"pending_payment"},
                             !.reservation = r], r, None)

CloneForReorder(p, source, o) ==
    /\ orders[source].status \in {"delivered", "completed"}
    /\ Issue(o)
    /\ Start(p, "write", "create", o, [NoOrder EXCEPT !.status = "draft"], None, None)

TransitionStatus(p, o, t) ==
    /\ Placed(o)
    /\ CanTransition(orders[o].status, t)
    /\ Start(p, "write", "move", o, Moved(orders[o], t), None, None)
    /\ UNCHANGED issued

\* The caller names the reservation to release; a transaction applies the update
\* of the order after what the function in it did to the inventory.
Cancel(p, o, r) ==
    /\ orders[o].status \in Cancellable
    /\ Start(p, IF transactional /\ r # None THEN "release" ELSE "write", "cancel", o,
             Moved(orders[o], "canceled"), r, None)
    /\ UNCHANGED issued

AppendProductionEvent(p, o, e) ==
    /\ Placed(o)
    /\ Start(p, "event", "event", o, orders[o], None, e)
    /\ UNCHANGED issued

\* What the invoice request adds to the order's metadata is left out.
RequestInvoice(p, o) ==
    /\ Placed(o)
    /\ Start(p, "write", "invoice", o, orders[o], None, None)
    /\ UNCHANGED issued

-----------------------------------------------------------------------------
(* Their writes, inside runInTx.                                           *)

\* Request p goes on at pc, or ends.
Goto(p, pc) == req' = [req EXCEPT ![p] = IF pc = "idle" THEN Idle ELSE [@ EXCEPT !.pc = pc]]

\* The checks of inventory.CommitReservation; o is the id just generated.
MayCommit(r, o) == book[r].status = "reserved" /\ book[r].order = o

\* A plausible bug: the order is inserted although the commit was refused.
CommitReservationIgnoresError(p) ==
    LET r == req[p].reservation IN
    /\ req[p].pc = "commit"
    /\ IF MayCommit(r, req[p].id) THEN Book!Settle("commit", r) ELSE UNCHANGED <<stock, book>>
    /\ Goto(p, "write")
    /\ UNCHANGED <<orders, events, issued, transactional>>

CommitReservation(p) ==
    LET r == req[p].reservation IN
    /\ req[p].pc = "commit"
    /\ IF MayCommit(r, req[p].id)
       THEN Book!Settle("commit", r) /\ Goto(p, "write")
       ELSE UNCHANGED <<stock, book>> /\ Goto(p, "idle")
    /\ UNCHANGED <<orders, events, issued, transactional>>

\* A plausible bug: the order is updated although the event was not stored.
InsertEventIgnoresError(p) ==
    LET d == req[p].doc
        e == req[p].event
    IN  /\ req[p].pc = "event"
        /\ IF CanTransition(d.status, EventStatus[e])
           THEN req' = [req EXCEPT ![p].pc = "write",
                                   ![p].doc = [Moved(d, EventStatus[e]) EXCEPT !.event = e]]
           ELSE Goto(p, "idle")
        /\ UNCHANGED <<stock, book, orders, events, issued, transactional>>

\* production.Insert, and then the status transition that the event calls for.
InsertEvent(p) ==
    LET d == req[p].doc
        e == req[p].event
    IN  /\ req[p].pc = "event"
        /\ events' = IF transactional THEN events
                     ELSE [events EXCEPT ![req[p].id] = @ \cup {e}]
        /\ IF CanTransition(d.status, EventStatus[e])
           THEN req' = [req EXCEPT ![p].pc = "write",
                                   ![p].doc = [Moved(d, EventStatus[e]) EXCEPT !.event = e]]
           ELSE Goto(p, "idle")
        /\ UNCHANGED <<stock, book, orders, issued, transactional>>

\* A write to order o: whoever read it before works on an old copy.
Overtake(q, o) == [req[q] EXCEPT !.stale = @ \/ (req[q].pc # "idle" /\ req[q].id = o)]

\* orders.Insert or orders.Update: the whole document, whatever it is by now.
Store(p) ==
    LET t == req[p] IN
    /\ t.pc = "write"
    /\ orders' = [orders EXCEPT ![t.id] = t.doc]
    /\ events' = IF transactional
                 THEN [events EXCEPT ![t.id] = @ \cup ({t.event} \cap Event)] ELSE events
    /\ req' = [q \in Request |->
                  IF q # p THEN Overtake(q, t.id)
                  ELSE IF t.kind = "cancel" /\ t.reservation # None /\ ~transactional
                  THEN [t EXCEPT !.pc = "release"] ELSE Idle]
    /\ UNCHANGED <<stock, book, issued, transactional>>

\* inventory.ReleaseReservation; its error ends the request.
ReleaseReservation(p) ==
    LET r == req[p].reservation IN
    /\ req[p].pc = "release"
    /\ IF book[r].status = "reserved"
       THEN Book!Settle("release", r) /\ Goto(p, IF transactional THEN "write" ELSE "idle")
       ELSE UNCHANGED <<stock, book>> /\ Goto(p, "idle")
    /\ UNCHANGED <<orders, events, issued, transactional>>

\* A write fails, or the request's context or instance ends.
CutOff(p) ==
    /\ req[p].pc # "idle"
    /\ Goto(p, "idle")
    /\ UNCHANGED <<stock, book, orders, events, issued, transactional>>

\* Checkout reserves stock under an order reference of its own.
ReserveStocks(r, o, b) ==
    /\ Book!Reserve(r, o, b)
    /\ UNCHANGED <<orders, events, issued, req, transactional>>

Next ==
    \/ \E p \in Request, o \in OrderId :
          \/ \E r \in Reservation \cup {None} : CreateFromCart(p, o, r) \/ Cancel(p, o, r)
          \/ \E source \in OrderId : CloneForReorder(p, source, o)
          \/ \E t \in Target : TransitionStatus(p, o, t)
          \/ \E e \in Event : AppendProductionEvent(p, o, e)
          \/ RequestInvoice(p, o)
    \/ \E p \in Request : \/ CommitReservation(p)
                          \/ InsertEvent(p)
                          \/ Store(p)
                          \/ ReleaseReservation(p)
                          \/ CutOff(p)
    \/ \E r \in Reservation, o \in OrderRef, b \in Basket : ReserveStocks(r, o, b)

Spec == Init /\ [][Next]_vars

-----------------------------------------------------------------------------
(* Properties.                                                             *)

Orders == [status : DOMAIN Successors \cup {"absent"}, stamps : SUBSET Stamped,
           reservation : Reservation \cup {None}, event : Event \cup {None}]

\* The types, and that only an id that was given out has an order.
TypeOK ==
    /\ stock \in [Stocked -> Docs]
    /\ book \in [Reservation -> Reservations]
    /\ orders \in [OrderId -> Orders]
    /\ events \in [OrderId -> SUBSET Event]
    /\ issued \subseteq OrderId
    /\ transactional \in Units
    /\ \A o \in OrderId : Placed(o) => o \in issued
    /\ req \in [Request -> [pc : {"idle", "commit", "event", "write", "release"},
                            kind : {None, "create", "move", "cancel", "event", "invoice"},
                            id : OrderId \cup {None}, doc : Orders,
                            reservation : Reservation \cup {None},
                            event : Event \cup {None}, stale : BOOLEAN]]

\* An order that names a reservation has sold its stock, and no other order names
\* the reservation: two checkouts of one cart, or a retry of one, never both succeed.
OwnReservation ==
    \A o \in OrderId : LET r == orders[o].reservation IN
        r # None => /\ book[r].status = "committed"
                    /\ \A other \in OrderId \ {o} : orders[other].reservation # r

Since(s) == CASE s = "paid" -> {"paid", "in_production", "ready_to_ship", "shipped",
                                "delivered", "completed"}
              [] s = "shipped" -> {"shipped", "delivered", "completed"}
              [] s = "delivered" -> {"delivered", "completed"}
              [] s \in {"completed", "canceled"} -> {s}

\* The timestamps of a document tell its history, also when one update has
\* overwritten another: an order beyond payment was paid, one that was delivered
\* was shipped, and only a canceled order was canceled.
StampsAgree ==
    \A o \in OrderId :
        /\ \A s \in {"paid", "shipped", "delivered", "completed"} :
              orders[o].status \in Since(s) => s \in orders[o].stamps
        /\ orders[o].status = "canceled" <=> "canceled" \in orders[o].stamps

\* What an order says of its production is backed by an event in the subcollection,
\* wherever the request that stores both was cut off.
EventsBacked == \A o \in OrderId : orders[o].event # None => orders[o].event \in events[o]

Rank == [draft |-> 0, pending_payment |-> 1, paid |-> 2, in_production |-> 3,
         ready_to_ship |-> 4, shipped |-> 5, delivered |-> 6, completed |-> 7,
         canceled |-> 8]

Forward(old, new) == /\ Rank[old] <= Rank[new]
                     /\ old \in Since("shipped") => new # "canceled"

\* Orders follow the workflow draft, pending_payment, paid, in_production, shipped,
\* delivered, completed, forward only; a canceled order stays so, and an order that
\* was shipped is not canceled.
OnlyForward ==
    [][\A o \in OrderId : Placed(o) => Forward(orders[o].status, orders'[o].status)]_vars

\* An order leaves the workflow only when an update overwrites one that it has not
\* read: production events, cancellations and transitions do not otherwise undo
\* each other.
ForwardUnlessOvertaken ==
    [][\A o \in OrderId :
         \/ ~Placed(o)
         \/ Forward(orders[o].status, orders'[o].status)
         \/ \E p \in Request : req[p].pc = "write" /\ req[p].id = o /\ req[p].stale]_vars

=============================================================================
