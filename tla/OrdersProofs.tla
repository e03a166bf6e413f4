----------------------------- MODULE OrdersProofs -----------------------------
(***************************************************************************)
(* For any orders, requests, reservations and production events, with and  *)
(* without a transaction around a request's writes: an order has sold the  *)
(* reservation it names and shares it with no other, its timestamps and    *)
(* its last production event are what its history says, and only an update *)
(* that overwrites another takes it out of the workflow.                   *)
(***************************************************************************)
EXTENDS Orders, TLAPS

Requests == [pc : {"idle", "commit", "event", "write", "release"},
             kind : {None, "create", "move", "cancel", "event", "invoice"},
             id : OrderId \cup {None}, doc : Orders, reservation : Reservation \cup {None},
             event : Event \cup {None}, stale : BOOLEAN]

\* What is required of a document d of order o, stored or in a request's hands.
SoldTo(d, o) == d.reservation # None =>
                   book[d.reservation].status = "committed" /\ book[d.reservation].order = o

Agrees(d) == /\ \A s \in {"paid", "shipped", "delivered", "completed"} :
                   d.status \in Since(s) => s \in d.stamps
             /\ d.status = "canceled" <=> "canceled" \in d.stamps

Backed(d, o) == d.event # None => d.event \in events[o]

OrdersSound == \A o \in OrderId : /\ SoldTo(orders[o], o)
                                  /\ Agrees(orders[o])
                                  /\ Backed(orders[o], o)

\* What a request may store: the reservation is committed by then, the event is stored
\* or goes with the document, and the order is a new one, or else is the one that was
\* read, unless an update came in between.
Sound(u) == u.pc # "idle" =>
    /\ u.id \in issued /\ u.doc.status # "absent"
    /\ u.pc \in {"commit", "release"} => u.reservation # None
    /\ u.pc = "event" => u.event # None /\ u.kind # "create"
    /\ IF u.pc = "commit" THEN u.doc.reservation = u.reservation ELSE SoldTo(u.doc, u.id)
    /\ Agrees(u.doc)
    /\ Backed(u.doc, u.id) \/ (transactional /\ u.doc.event = u.event)
    /\ u.kind = "create" => ~Placed(u.id)
    /\ u.kind # "create" /\ ~u.stale => /\ Forward(orders[u.id].status, u.doc.status)
                                        /\ u.pc = "event" => u.doc.status = orders[u.id].status

RequestsSound == \A p \in Request : Sound(req[p])

\* Nobody else works on an order that is being created.
CreatesAlone ==
    \A p, q \in Request :
        /\ req[p].pc # "idle" /\ req[q].pc # "idle" /\ req[p].id = req[q].id
        /\ req[p].kind = "create"
        => p = q

IInv == TypeOK /\ OrdersSound /\ RequestsSound /\ CreatesAlone

-----------------------------------------------------------------------------
(* The workflow. *)

LEMMA WorkflowTable ==
    /\ DOMAIN Successors = {"draft", "pending_payment", "paid", "in_production",
                            "ready_to_ship", "shipped", "delivered", "completed", "canceled"}
    /\ Successors["draft"] = {"pending_payment", "canceled"}
    /\ Successors["pending_payment"] = {"paid", "canceled"}
    /\ Successors["paid"] = {"in_production", "ready_to_ship", "canceled"}
    /\ Successors["in_production"] = {"ready_to_ship", "shipped", "canceled"}
    /\ Successors["ready_to_ship"] = {"shipped", "canceled"}
    /\ Successors["shipped"] = {"delivered"}
    /\ Successors["delivered"] = {"completed"}
    /\ Successors["completed"] = {}
    /\ Successors["canceled"] = {}
BY DEF Successors

LEMMA SinceTable ==
    /\ Since("paid") = {"paid", "in_production", "ready_to_ship", "shipped",
                        "delivered", "completed"}
    /\ Since("shipped") = {"shipped", "delivered", "completed"}
    /\ Since("delivered") = {"delivered", "completed"}
    /\ Since("completed") = {"completed"}
BY DEF Since

LEMMA RankTable ==
    /\ Rank["draft"] = 0 /\ Rank["pending_payment"] = 1 /\ Rank["paid"] = 2
    /\ Rank["in_production"] = 3 /\ Rank["ready_to_ship"] = 4 /\ Rank["shipped"] = 5
    /\ Rank["delivered"] = 6 /\ Rank["completed"] = 7 /\ Rank["canceled"] = 8
BY DEF Rank

LEMMA EventTable ==
    /\ DOMAIN EventStatus = {"queued", "engraving", "polishing", "qc", "on_hold", "rework",
                             "packed", "completed", "in_transit", "canceled"}
    /\ \A e \in Event : EventStatus[e] \in DOMAIN Successors /\ e # None
BY EventAssumption, WorkflowTable DEF EventStatus, None

\* A step of the workflow goes forward, and stays where it is at most.
LEMMA TransitionsForward ==
    ASSUME NEW s \in DOMAIN Successors, NEW t \in DOMAIN Successors, CanTransition(s, t)
    PROVE  Forward(s, t)
BY WorkflowTable, SinceTable, RankTable DEF CanTransition, Forward

\* What applyStatusTransition makes of an order that tells its history tells it too.
LEMMA MovedFacts ==
    ASSUME NEW d \in Orders, d.status # "absent", NEW t \in DOMAIN Successors,
           CanTransition(d.status, t), Agrees(d)
    PROVE  /\ Moved(d, t) \in Orders /\ Moved(d, t).status = t
           /\ Moved(d, t).reservation = d.reservation /\ Moved(d, t).event = d.event
           /\ Agrees(Moved(d, t)) /\ Forward(d.status, t)
<1>1. /\ d.status \in DOMAIN Successors /\ d.stamps \subseteq Stamped
      /\ d.reservation \in Reservation \cup {None} /\ d.event \in Event \cup {None}
  BY DEF Orders
<1>2. Forward(d.status, t)
  BY <1>1, TransitionsForward
<1>3. CASE d.status = t
  BY <1>2, <1>3 DEF Moved
<1>4. CASE d.status # t
  <2> DEFINE m == Moved(d, t)
  <2>1. /\ m \in Orders /\ m.status = t /\ m.stamps = d.stamps \cup ({t} \cap Stamped)
        /\ m.reservation = d.reservation /\ m.event = d.event
    BY <1>1, <1>4 DEF Moved, Orders
  <2> HIDE DEF m
  <2>2. t \in Successors[d.status]
    BY <1>4 DEF CanTransition
  <2>3. Agrees(m)
    <3>1. t \in Stamped => t \in m.stamps
      BY <2>1
    <3>2. \A s \in Stamped : s # t => (s \in m.stamps <=> s \in d.stamps)
      BY <2>1
    <3>3. {"paid", "shipped", "delivered", "completed", "canceled"} \subseteq Stamped
      BY DEF Stamped
    <3>4. d.status # "canceled" /\ "canceled" \notin d.stamps
      BY <2>2, WorkflowTable DEF Agrees
    <3>5. m.status = "canceled" <=> "canceled" \in m.stamps
      BY <2>1, <3>1, <3>2, <3>3, <3>4
    <3>6. ASSUME NEW s \in {"paid", "shipped", "delivered", "completed"}, t \in Since(s)
          PROVE  t = s \/ d.status \in Since(s)
      BY <1>1, <2>2, <3>6, WorkflowTable, SinceTable
    <3>7. \A s \in {"paid", "shipped", "delivered", "completed"} :
             m.status \in Since(s) => s \in m.stamps
      BY <2>1, <3>1, <3>2, <3>3, <3>6 DEF Agrees
    <3> QED
      BY <3>5, <3>7 DEF Agrees
  <2> QED
    BY <1>2, <2>1, <2>3 DEF m
<1> QED
  BY <1>3, <1>4

-----------------------------------------------------------------------------
(* Types. *)

LEMMA TypeFacts ==
    ASSUME TypeOK
    PROVE  /\ stock \in [Stocked -> Docs] /\ book \in [Reservation -> Reservations]
           /\ orders \in [OrderId -> Orders] /\ events \in [OrderId -> SUBSET Event]
           /\ issued \subseteq OrderId /\ transactional \in Units
           /\ \A o \in OrderId : Placed(o) => o \in issued
           /\ req \in [Request -> Requests]
BY DEF TypeOK, Requests

LEMMA TypesSuffice ==
    ASSUME stock' \in [Stocked -> Docs], book' \in [Reservation -> Reservations],
           orders' \in [OrderId -> Orders], events' \in [OrderId -> SUBSET Event],
           issued' \subseteq OrderId, transactional' \in Units,
           \A o \in OrderId : Placed(o)' => o \in issued', req' \in [Request -> Requests]
    PROVE  TypeOK'
BY DEF TypeOK, Requests

LEMMA ConstantTypes ==
    /\ NoOrder \in Orders /\ NoOrder.status = "absent" /\ NoOrder.stamps = {}
    /\ NoOrder.reservation = None /\ NoOrder.event = None
    /\ Idle \in Requests /\ Idle.pc = "idle"
BY DEF NoOrder, Orders, Idle, Requests

LEMMA RequestFacts ==
    ASSUME IInv, NEW p \in Request, req[p].pc # "idle"
    PROVE  /\ req[p] \in Requests /\ req[p].id \in OrderId /\ req[p].id \in issued
           /\ req[p].doc \in Orders /\ orders[req[p].id] \in Orders
           /\ Sound(req[p])
<1>1. req[p] \in Requests /\ Sound(req[p])
  BY TypeFacts DEF IInv, RequestsSound
<1>2. req[p].id \in issued
  BY <1>1 DEF Sound
<1> QED
  BY <1>1, <1>2, TypeFacts DEF IInv, Requests

-----------------------------------------------------------------------------
(* A request that does not store an order: what is committed stays so, events *)
(* and ids are only added, and the request goes on soundly.                   *)
LEMMA MoveStep ==
    ASSUME IInv, NEW p \in Request, NEW u \in Requests, req' = [req EXCEPT ![p] = u],
           UNCHANGED <<orders, transactional>>,
           stock' \in [Stocked -> Docs], book' \in [Reservation -> Reservations],
           \A r \in Reservation : book[r].status = "committed" =>
              book'[r].status = "committed" /\ book'[r].order = book[r].order,
           events' \in [OrderId -> SUBSET Event], \A o \in OrderId : events[o] \subseteq events'[o],
           issued \subseteq issued', issued' \subseteq OrderId,
           Sound(u)',
           u.pc # "idle" => \/ u.kind = "create" /\ u.id \in issued' \ issued
                            \/ u.kind # "create" /\ Placed(u.id)
                            \/ req[p].pc # "idle" /\ u.id = req[p].id /\ u.kind = req[p].kind
    PROVE  IInv'
<1>1. \A q \in Request : IF q = p THEN req'[q] = u ELSE req'[q] = req[q]
  BY DEF IInv, TypeOK
<1>2. TypeOK'
  <2>1. req' \in [Request -> Requests]
    BY TypeFacts DEF IInv
  <2>2. \A o \in OrderId : Placed(o)' => o \in issued'
    BY TypeFacts DEF IInv, Placed
  <2> QED
    BY <2>1, <2>2, TypeFacts, TypesSuffice DEF IInv
<1>3. ASSUME NEW d \in Orders, NEW o \in OrderId
      PROVE  /\ SoldTo(d, o) => SoldTo(d, o)'
             /\ Backed(d, o) => Backed(d, o)'
             /\ Placed(o)' <=> Placed(o)
  BY DEF SoldTo, Backed, Placed, Orders
<1>4. OrdersSound'
  <2>1. ASSUME NEW o \in OrderId
        PROVE  SoldTo(orders[o], o)' /\ Agrees(orders[o])' /\ Backed(orders[o], o)'
    <3>1. orders[o] \in Orders /\ SoldTo(orders[o], o) /\ Agrees(orders[o]) /\ Backed(orders[o], o)
      BY TypeFacts DEF IInv, OrdersSound
    <3> QED
      BY <3>1 DEF SoldTo, Backed, Agrees, Orders
  <2> QED
    BY <2>1 DEF OrdersSound
<1>5. RequestsSound'
  <2>1. ASSUME NEW q \in Request, q # p
        PROVE  Sound(req[q])'
    <3>1. req'[q] = req[q]
      BY <1>1, <2>1
    <3>2. CASE req[q].pc = "idle"
      BY <3>1, <3>2 DEF Sound
    <3>3. CASE req[q].pc # "idle"
      <4>1. /\ req[q].doc \in Orders /\ req[q].id \in OrderId /\ Sound(req[q])
        BY <3>3, RequestFacts
      <4> QED
        BY <3>1, <3>3, <4>1 DEF Sound, SoldTo, Backed, Placed, Orders
    <3> QED
      BY <3>2, <3>3
  <2>2. Sound(req[p])'
    BY <1>1 DEF Sound, SoldTo, Backed, Placed
  <2> QED
    BY <2>1, <2>2 DEF RequestsSound
<1>6. CreatesAlone'
  <2>1. ASSUME NEW q \in Request, q # p, req[q].pc # "idle"
        PROVE  req[q].id \in issued /\ (req[q].kind = "create" => ~Placed(req[q].id))
    BY <2>1, RequestFacts DEF Sound
  <2>2. ASSUME NEW q \in Request, NEW o \in Request, q # o,
               req'[q].pc # "idle", req'[o].pc # "idle", req'[q].id = req'[o].id,
               req'[q].kind = "create"
        PROVE  FALSE
    <3>1. CASE q = p
      BY <1>1, <2>1, <2>2, <3>1, TypeFacts DEF IInv, CreatesAlone
    <3>2. CASE o = p
      BY <1>1, <2>1, <2>2, <3>2, TypeFacts DEF IInv, CreatesAlone
    <3>3. CASE q # p /\ o # p
      BY <1>1, <2>2, <3>3 DEF IInv, CreatesAlone
    <3> QED
      BY <3>1, <3>2, <3>3
  <2> QED
    BY <2>2 DEF CreatesAlone
<1> QED
  BY <1>2, <1>4, <1>5, <1>6 DEF IInv

LEMMA InitIInv == Init => IInv
<1> SUFFICES ASSUME Init PROVE IInv
  OBVIOUS
<1>1. stock \in [Stocked -> Docs] /\ book \in [Reservation -> Reservations]
  <2>1. \A s \in Stocked : Book!StockDoc(OnHand0[s], 0) \in Docs
    BY OnHandAssumption DEF Book!StockDoc, Docs
  <2>2. Book!Stocked = Stocked /\ Book!NoReservation \in Reservations
    BY DEF Book!Stocked, Stocked, Book!NoReservation, Reservations, Status, Lines, Book!Empty,
           Empty, Book!None, None
  <2> QED
    BY <2>1, <2>2 DEF Init, Book!Init
<1>2. TypeOK
  BY <1>1, ConstantTypes DEF Init, TypeOK, Placed, Requests
<1>3. OrdersSound
  BY ConstantTypes, SinceTable DEF Init, OrdersSound, SoldTo, Agrees, Backed
<1>4. \A p \in Request : req[p].pc = "idle"
  BY ConstantTypes DEF Init
<1> QED
  BY <1>2, <1>3, <1>4 DEF IInv, RequestsSound, Sound, CreatesAlone

-----------------------------------------------------------------------------
(* The operations. *)

\* A request starts with a new order, or with one that it has read.
LEMMA StartStep ==
    ASSUME IInv, NEW p \in Request, NEW pc \in {"commit", "event", "write", "release"},
           NEW kind \in {"create", "move", "cancel", "event", "invoice"},
           NEW o \in OrderId, NEW d \in Orders, NEW r \in Reservation \cup {None},
           NEW e \in Event \cup {None}, Start(p, pc, kind, o, d, r, e),
           issued \subseteq issued', issued' \subseteq OrderId, o \in issued',
           d.status # "absent", Agrees(d), Backed(d, o),
           pc \in {"commit", "release"} => r # None,
           pc = "event" => e # None /\ kind # "create",
           IF pc = "commit" THEN d.reservation = r ELSE SoldTo(d, o),
           IF kind = "create" THEN o \notin issued
           ELSE /\ Placed(o) /\ Forward(orders[o].status, d.status)
                /\ pc = "event" => d.status = orders[o].status
    PROVE  IInv'
<1>1. PICK u : u = [pc |-> pc, kind |-> kind, id |-> o, doc |-> d, reservation |-> r,
                    event |-> e, stale |-> FALSE]
  OBVIOUS
<1>2. /\ u.pc = pc /\ u.kind = kind /\ u.id = o /\ u.doc = d /\ u.reservation = r
      /\ u.event = e /\ u.stale = FALSE /\ u \in Requests
  BY <1>1 DEF Requests
<1>3. /\ req' = [req EXCEPT ![p] = u] /\ req[p].pc = "idle"
      /\ UNCHANGED <<stock, book, orders, events, transactional>>
  BY <1>1 DEF Start
<1>4. kind = "create" => ~Placed(o)
  BY TypeFacts DEF IInv
<1>5. Sound(u)'
  BY <1>2, <1>3, <1>4 DEF Sound, Agrees, Backed, SoldTo, Placed
<1>6. /\ stock \in [Stocked -> Docs] /\ book \in [Reservation -> Reservations]
      /\ events \in [OrderId -> SUBSET Event]
  BY TypeFacts DEF IInv
<1> QED
  BY <1>2, <1>3, <1>5, <1>6, MoveStep

LEMMA OrderFacts ==
    ASSUME IInv, NEW o \in OrderId, Placed(o)
    PROVE  /\ orders[o] \in Orders /\ o \in issued /\ orders[o].status \in DOMAIN Successors
           /\ orders[o].status # "absent"
           /\ SoldTo(orders[o], o) /\ Agrees(orders[o]) /\ Backed(orders[o], o)
           /\ Forward(orders[o].status, orders[o].status)
<1>1. orders[o] \in Orders /\ orders[o].status # "absent"
  BY TypeFacts DEF IInv, Placed
<1>2. orders[o].status \in DOMAIN Successors
  BY <1>1 DEF Orders
<1>3. Forward(orders[o].status, orders[o].status)
  BY <1>2, TransitionsForward DEF CanTransition
<1> QED
  BY <1>1, <1>2, <1>3, TypeFacts DEF IInv, OrdersSound

LEMMA CreateIInv ==
    ASSUME IInv, NEW p \in Request, NEW o \in OrderId,
           \/ \E r \in Reservation \cup {None} : CreateFromCart(p, o, r)
           \/ \E source \in OrderId : CloneForReorder(p, source, o)
    PROVE  IInv'
<1>1. ASSUME NEW r \in Reservation \cup {None}, CreateFromCart(p, o, r)
      PROVE  IInv'
  <2>1. PICK d : d = [NoOrder EXCEPT !.status = "pending_payment",
                                     !.stamps = {"pending_payment"}, !.reservation = r]
    OBVIOUS
  <2>2. /\ d \in Orders /\ d.status = "pending_payment" /\ d.stamps = {"pending_payment"}
        /\ d.reservation = r /\ d.event = None
    BY <2>1, WorkflowTable DEF NoOrder, Orders, Stamped
  <2>3. Agrees(d) /\ Backed(d, o)
    BY <2>2, SinceTable DEF Agrees, Backed
  <2>4. PICK pc : pc = IF r = None THEN "write" ELSE "commit"
    OBVIOUS
  <2>5. Issue(o) /\ Start(p, pc, "create", o, d, r, None)
    BY <1>1, <2>1, <2>4 DEF CreateFromCart
  <2>6. IF pc = "commit" THEN d.reservation = r ELSE SoldTo(d, o)
    BY <2>2, <2>4 DEF SoldTo
  <2>7. pc \in {"commit", "write"} /\ (pc = "commit" => r # None)
    BY <2>4
  <2>8. o \notin issued /\ o \in issued' /\ issued \subseteq issued' /\ issued' \subseteq OrderId
    BY <2>5, TypeFacts DEF Issue, IInv
  <2> QED
    BY <2>2, <2>3, <2>5, <2>6, <2>7, <2>8, StartStep
<1>2. ASSUME NEW source \in OrderId, CloneForReorder(p, source, o)
      PROVE  IInv'
  <2>1. PICK d : d = [NoOrder EXCEPT !.status = "draft"]
    OBVIOUS
  <2>2. /\ d \in Orders /\ d.status = "draft" /\ d.stamps = {}
        /\ d.reservation = None /\ d.event = None
    BY <2>1, WorkflowTable DEF NoOrder, Orders, Stamped
  <2>3. Agrees(d) /\ Backed(d, o) /\ SoldTo(d, o)
    BY <2>2, SinceTable DEF Agrees, Backed, SoldTo
  <2>4. Issue(o) /\ Start(p, "write", "create", o, d, None, None)
    BY <1>2, <2>1 DEF CloneForReorder
  <2> QED
    BY <2>2, <2>3, <2>4, StartStep, TypeFacts DEF Issue, IInv
<1> QED
  BY <1>1, <1>2

LEMMA UpdateIInv ==
    ASSUME IInv, NEW p \in Request, NEW o \in OrderId,
           \/ \E t \in Target : TransitionStatus(p, o, t)
           \/ \E r \in Reservation \cup {None} : Cancel(p, o, r)
           \/ \E e \in Event : AppendProductionEvent(p, o, e)
           \/ RequestInvoice(p, o)
    PROVE  IInv'
<1>1. ASSUME NEW t \in Target, TransitionStatus(p, o, t)
      PROVE  IInv'
  <2>1. Placed(o) /\ CanTransition(orders[o].status, t) /\ t \in DOMAIN Successors
    BY <1>1, TargetAssumption DEF TransitionStatus
  <2>2. PICK d : d = Moved(orders[o], t)
    OBVIOUS
  <2>3. Start(p, "write", "move", o, d, None, None) /\ UNCHANGED issued
    BY <1>1, <2>2 DEF TransitionStatus
  <2>4. /\ d \in Orders /\ d.status = t /\ d.reservation = orders[o].reservation
        /\ d.event = orders[o].event /\ Agrees(d) /\ Forward(orders[o].status, d.status)
    BY <2>1, <2>2, OrderFacts, MovedFacts
  <2>5. Backed(d, o) /\ SoldTo(d, o)
    BY <2>1, <2>4, OrderFacts DEF Backed, SoldTo
  <2>6. d.status # "absent" /\ o \in issued /\ issued \subseteq OrderId
    BY <2>1, <2>4, WorkflowTable, OrderFacts, TypeFacts DEF IInv
  <2> QED
    BY <2>1, <2>3, <2>4, <2>5, <2>6, StartStep
<1>2. ASSUME NEW r \in Reservation \cup {None}, Cancel(p, o, r)
      PROVE  IInv'
  <2>1. /\ Placed(o) /\ CanTransition(orders[o].status, "canceled")
        /\ "canceled" \in DOMAIN Successors
    BY <1>2, WorkflowTable DEF Cancel, Cancellable, Placed, CanTransition
  <2>2. PICK d : d = Moved(orders[o], "canceled")
    OBVIOUS
  <2>3. PICK pc : pc = IF transactional /\ r # None THEN "release" ELSE "write"
    OBVIOUS
  <2>4. Start(p, pc, "cancel", o, d, r, None) /\ UNCHANGED issued
    BY <1>2, <2>2, <2>3 DEF Cancel
  <2>5. /\ d \in Orders /\ d.status = "canceled" /\ d.reservation = orders[o].reservation
        /\ d.event = orders[o].event /\ Agrees(d) /\ Forward(orders[o].status, d.status)
    BY <2>1, <2>2, OrderFacts, MovedFacts
  <2>6. Backed(d, o) /\ SoldTo(d, o)
    BY <2>1, <2>5, OrderFacts DEF Backed, SoldTo
  <2>7. o \in issued /\ issued \subseteq OrderId
    BY <2>1, OrderFacts, TypeFacts DEF IInv
  <2> QED
    BY <2>1, <2>3, <2>4, <2>5, <2>6, <2>7, StartStep
<1>3. ASSUME NEW e \in Event, AppendProductionEvent(p, o, e)
      PROVE  IInv'
  <2>1. /\ Placed(o) /\ Start(p, "event", "event", o, orders[o], None, e)
        /\ UNCHANGED issued
    BY <1>3 DEF AppendProductionEvent
  <2> QED
    BY <2>1, OrderFacts, StartStep, EventTable, TypeFacts DEF IInv
<1>4. ASSUME RequestInvoice(p, o)
      PROVE  IInv'
  <2>1. /\ Placed(o) /\ Start(p, "write", "invoice", o, orders[o], None, None)
        /\ UNCHANGED issued
    BY <1>4 DEF RequestInvoice
  <2> QED
    BY <2>1, OrderFacts, StartStep, TypeFacts DEF IInv
<1> QED
  BY <1>1, <1>2, <1>3, <1>4

-----------------------------------------------------------------------------
(* The inventory. *)

LEMMA AdjustTypes ==
    ASSUME IInv, NEW op \in {"reserve", "commit", "release"}, NEW lines \in Lines,
           Book!AdjustStock(op, lines)
    PROVE  stock' \in [Stocked -> Docs]
<1>1. Book!Stocked = Stocked
  BY DEF Book!Stocked, Stocked
<1>2. ASSUME NEW s \in DOMAIN lines
      PROVE  lines[s] \in Nat
  BY BasketAssumption DEF Lines, Empty
<1>3. ASSUME NEW s \in Stocked, s \in DOMAIN lines
      PROVE  Book!Adjusted(op, stock[s], lines[s]) \in Docs
  BY <1>2, <1>3, TypeFacts DEF IInv, Book!Adjusted, Book!StockDoc, Docs
<1> QED
  BY <1>1, <1>3, TypeFacts DEF IInv, Book!AdjustStock

LEMMA SettleFacts ==
    ASSUME IInv, NEW op \in {"commit", "release"}, NEW r \in Reservation, Book!Settle(op, r)
    PROVE  /\ stock' \in [Stocked -> Docs] /\ book' \in [Reservation -> Reservations]
           /\ book'[r].order = book[r].order
           /\ book'[r].status = IF op = "commit" THEN "committed" ELSE "released"
           /\ book[r].status = "reserved"
           /\ \A x \in Reservation : x # r => book'[x] = book[x]
<1>1. /\ book[r].status = "reserved" /\ Book!AdjustStock(op, book[r].lines)
      /\ book' = [book EXCEPT ![r].status = Book!Final(op)]
  BY DEF Book!Settle
<1>2. book \in [Reservation -> Reservations] /\ book[r].lines \in Lines
  BY TypeFacts DEF IInv, Reservations
<1>3. Book!Final(op) = IF op = "commit" THEN "committed" ELSE "released"
  BY DEF Book!Final
<1>4. Book!Final(op) \in Status
  BY <1>3 DEF Status
<1>5. stock' \in [Stocked -> Docs]
  BY <1>1, <1>2, AdjustTypes
<1>6. book' \in [Reservation -> Reservations]
  BY <1>1, <1>2, <1>4 DEF Reservations
<1> QED
  BY <1>1, <1>2, <1>3, <1>5, <1>6 DEF Reservations

LEMMA ReserveStocksIInv ==
    ASSUME IInv, NEW r \in Reservation, NEW o \in OrderRef, NEW b \in Basket,
           ReserveStocks(r, o, b)
    PROVE  IInv'
<1>1. /\ ~Book!Exists(r) /\ Book!AdjustStock("reserve", b)
      /\ book' = [book EXCEPT ![r] = Book!Reserved(o, b)]
      /\ UNCHANGED <<orders, events, issued, req, transactional>>
  BY DEF ReserveStocks, Book!Reserve
<1>2. stock' \in [Stocked -> Docs]
  BY <1>1, AdjustTypes DEF Lines
<1>3. book' \in [Reservation -> Reservations]
  <2>1. Book!Reserved(o, b) \in Reservations
    BY DEF Book!Reserved, Reservations, Status, Lines
  <2> QED
    BY <1>1, <2>1, TypeFacts DEF IInv
<1>4. \A x \in Reservation : book[x].status = "committed" => book'[x] = book[x]
  BY <1>1, TypeFacts DEF IInv, Book!Exists
<1>5. TypeOK'
  <2>1. \A x \in OrderId : Placed(x)' => x \in issued
    BY <1>1, TypeFacts DEF IInv, Placed
  <2> QED
    BY <1>1, <1>2, <1>3, <2>1, TypeFacts, TypesSuffice DEF IInv
<1>6. OrdersSound'
  <2>1. \A x \in OrderId : orders[x].reservation \in Reservation \cup {None}
    BY TypeFacts DEF IInv, Orders
  <2> QED
    BY <1>1, <1>4, <2>1 DEF IInv, OrdersSound, SoldTo, Backed, Agrees
<1>7. RequestsSound'
  <2>1. ASSUME NEW p \in Request, req[p].pc # "idle"
        PROVE  Sound(req[p])'
    <3>1. Sound(req[p]) /\ req[p].doc.reservation \in Reservation \cup {None}
      BY <2>1, RequestFacts DEF Orders
    <3> QED
      BY <1>1, <1>4, <3>1 DEF Sound, SoldTo, Backed, Agrees, Placed
  <2> QED
    BY <1>1, <2>1 DEF RequestsSound, Sound
<1>8. CreatesAlone'
  BY <1>1 DEF IInv, CreatesAlone
<1> QED
  BY <1>5, <1>6, <1>7, <1>8 DEF IInv

-----------------------------------------------------------------------------
(* The writes of a request. *)

\* A request goes on at pc, or ends, with the order that it has in its hands.
LEMMA GotoStep ==
    ASSUME IInv, NEW p \in Request, req[p].pc # "idle",
           NEW pc \in {"idle", "write"}, Goto(p, pc),
           stock' \in [Stocked -> Docs], book' \in [Reservation -> Reservations],
           \A r \in Reservation : book[r].status = "committed" =>
              book'[r].status = "committed" /\ book'[r].order = book[r].order,
           pc = "write" /\ req[p].pc = "commit" =>
              /\ book'[req[p].reservation].status = "committed"
              /\ book'[req[p].reservation].order = req[p].id,
           events' \in [OrderId -> SUBSET Event], \A o \in OrderId : events[o] \subseteq events'[o],
           UNCHANGED <<orders, issued, transactional>>
    PROVE  IInv'
<1>1. /\ req[p] \in Requests /\ req[p].id \in OrderId /\ req[p].doc \in Orders
      /\ Sound(req[p])
  BY RequestFacts
<1>2. issued \subseteq OrderId /\ req' = [req EXCEPT ![p] = req'[p]]
  BY TypeFacts DEF IInv, Goto
<1>3. CASE pc = "idle"
  <2>1. req' = [req EXCEPT ![p] = Idle]
    BY <1>3 DEF Goto
  <2>2. PICK u : u = Idle
    OBVIOUS
  <2>3. Sound(u)'
    BY <2>2, ConstantTypes DEF Sound
  <2> QED
    BY <1>2, <2>1, <2>2, <2>3, ConstantTypes, MoveStep
<1>4. CASE pc = "write"
  <2>1. PICK u : u = [req[p] EXCEPT !.pc = "write"]
    OBVIOUS
  <2>2. req' = [req EXCEPT ![p] = u]
    BY <1>4, <2>1 DEF Goto
  <2>3. /\ u \in Requests /\ u.pc = "write" /\ u.kind = req[p].kind /\ u.id = req[p].id
        /\ u.doc = req[p].doc /\ u.reservation = req[p].reservation /\ u.event = req[p].event
        /\ u.stale = req[p].stale
    BY <1>1, <2>1 DEF Requests
  <2>4. SoldTo(u.doc, u.id)'
    <3>1. CASE req[p].pc = "commit"
      BY <1>1, <1>4, <2>3, <3>1 DEF SoldTo, Sound
    <3>2. CASE req[p].pc # "commit"
      BY <1>1, <2>3, <3>2 DEF Sound, SoldTo, Orders
    <3> QED
      BY <3>1, <3>2
  <2>5. Sound(u)'
    BY <1>1, <2>3, <2>4 DEF Sound, Agrees, Backed, Placed
  <2> QED
    BY <1>2, <2>2, <2>3, <2>5, MoveStep
<1> QED
  BY <1>3, <1>4

LEMMA CommitReservationIInv ==
    ASSUME IInv, NEW p \in Request, CommitReservation(p)
    PROVE  IInv'
<1> DEFINE r == req[p].reservation
<1>1. /\ req[p] \in Requests /\ Sound(req[p]) /\ r \in Reservation
      /\ req[p].doc.reservation = r /\ req[p].pc = "commit"
      /\ UNCHANGED <<orders, events, issued, transactional>>
  BY RequestFacts DEF CommitReservation, Sound, Requests
<1>2. CASE MayCommit(r, req[p].id)
  <2>1. Book!Settle("commit", r) /\ Goto(p, "write") /\ book[r].order = req[p].id
    BY <1>2 DEF CommitReservation, MayCommit
  <2>2. /\ stock' \in [Stocked -> Docs] /\ book' \in [Reservation -> Reservations]
        /\ book'[r].order = req[p].id /\ book'[r].status = "committed"
        /\ \A x \in Reservation : x # r => book'[x] = book[x]
    BY <1>1, <2>1, SettleFacts
  <2> QED
    BY <1>1, <2>1, <2>2, TypeFacts, GotoStep DEF IInv
<1>3. CASE ~MayCommit(r, req[p].id)
  BY <1>1, <1>3, GotoStep, TypeFacts DEF CommitReservation, IInv
<1> QED
  BY <1>2, <1>3

LEMMA ReleaseReservationIInv ==
    ASSUME IInv, NEW p \in Request, ReleaseReservation(p)
    PROVE  IInv'
<1> DEFINE r == req[p].reservation
<1>1. /\ req[p] \in Requests /\ Sound(req[p]) /\ r \in Reservation /\ req[p].pc = "release"
      /\ UNCHANGED <<orders, events, issued, transactional>>
  BY RequestFacts DEF ReleaseReservation, Sound, Requests
<1>2. CASE book[r].status = "reserved"
  <2>1. Book!Settle("release", r)
    BY <1>2 DEF ReleaseReservation
  <2>2. PICK pc : pc = IF transactional THEN "write" ELSE "idle"
    OBVIOUS
  <2>3. Goto(p, pc)
    BY <1>2, <2>2 DEF ReleaseReservation
  <2>4. /\ stock' \in [Stocked -> Docs] /\ book' \in [Reservation -> Reservations]
        /\ \A x \in Reservation : book[x].status = "committed" => book'[x] = book[x]
    BY <1>1, <2>1, SettleFacts
  <2> QED
    BY <1>1, <2>2, <2>3, <2>4, TypeFacts, GotoStep DEF IInv
<1>3. CASE book[r].status # "reserved"
  BY <1>1, <1>3, GotoStep, TypeFacts DEF ReleaseReservation, IInv
<1> QED
  BY <1>2, <1>3

LEMMA CutOffIInv ==
    ASSUME IInv, NEW p \in Request, CutOff(p)
    PROVE  IInv'
BY GotoStep, TypeFacts DEF CutOff, IInv

LEMMA InsertEventIInv ==
    ASSUME IInv, NEW p \in Request, InsertEvent(p)
    PROVE  IInv'
<1>1. PICK d : d = req[p].doc
  OBVIOUS
<1>2. PICK e : e = req[p].event
  OBVIOUS
<1>3. PICK o : o = req[p].id
  OBVIOUS
<1>4. /\ req[p].pc = "event" /\ req[p] \in Requests /\ Sound(req[p]) /\ req[p].kind # "create"
      /\ d \in Orders /\ o \in OrderId /\ e \in Event /\ Agrees(d) /\ SoldTo(d, o)
      /\ d.status # "absent" /\ o \in issued
      /\ UNCHANGED <<stock, book, orders, issued, transactional>>
  BY <1>1, <1>2, <1>3, RequestFacts DEF InsertEvent, Requests, Sound
<1>5. events' = IF transactional THEN events ELSE [events EXCEPT ![o] = @ \cup {e}]
  BY <1>2, <1>3 DEF InsertEvent
<1>6. /\ events' \in [OrderId -> SUBSET Event] /\ \A x \in OrderId : events[x] \subseteq events'[x]
      /\ transactional \/ e \in events'[o]
  BY <1>4, <1>5, TypeFacts DEF IInv
<1>7. CASE ~CanTransition(d.status, EventStatus[e])
  <2>1. Goto(p, "idle")
    BY <1>1, <1>2, <1>7 DEF InsertEvent
  <2> QED
    BY <1>4, <1>6, <2>1, GotoStep, TypeFacts DEF IInv
<1>8. CASE CanTransition(d.status, EventStatus[e])
  <2>1. PICK m : m = Moved(d, EventStatus[e])
    OBVIOUS
  <2>2. /\ m \in Orders /\ m.status = EventStatus[e] /\ m.reservation = d.reservation
        /\ Agrees(m) /\ Forward(d.status, m.status) /\ m.status \in DOMAIN Successors
    BY <1>4, <1>8, <2>1, EventTable, MovedFacts
  <2>3. PICK n : n = [m EXCEPT !.event = e]
    OBVIOUS
  <2>4. /\ n \in Orders /\ n.status = m.status /\ n.stamps = m.stamps
        /\ n.reservation = m.reservation /\ n.event = e
    BY <1>4, <2>2, <2>3 DEF Orders
  <2>5. PICK u : u = [req[p] EXCEPT !.pc = "write", !.doc = n]
    OBVIOUS
  <2>6. /\ u \in Requests /\ u.pc = "write" /\ u.kind = req[p].kind /\ u.id = o /\ u.doc = n
        /\ u.event = e /\ u.stale = req[p].stale
    BY <1>2, <1>3, <1>4, <2>4, <2>5 DEF Requests
  <2>7. req' = [req EXCEPT ![p] = u]
    BY <1>1, <1>2, <1>8, <2>1, <2>3, <2>5 DEF InsertEvent
  <2>8. Agrees(n) /\ n.status # "absent" /\ SoldTo(n, o)
    BY <1>4, <2>2, <2>4, WorkflowTable DEF Agrees, SoldTo
  <2>9. ~u.stale => Forward(orders[o].status, n.status)
    BY <1>1, <1>3, <1>4, <2>2, <2>4, <2>6 DEF Sound
  <2>10. Sound(u)'
    BY <1>4, <1>6, <2>4, <2>6, <2>8, <2>9 DEF Sound, SoldTo, Agrees, Backed
  <2>11. stock' \in [Stocked -> Docs] /\ book' \in [Reservation -> Reservations]
    BY <1>4, TypeFacts DEF IInv
  <2> QED
    BY <1>3, <1>4, <1>6, <2>6, <2>7, <2>10, <2>11, MoveStep, TypeFacts DEF IInv
<1> QED
  BY <1>7, <1>8

\* The document is stored: the order has become what the request made of it, and
\* whoever else read the order works on an old copy.
LEMMA StoreIInv ==
    ASSUME IInv, NEW p \in Request, Store(p)
    PROVE  IInv'
<1>1. PICK t : t = req[p]
  OBVIOUS
<1>2. /\ t.pc = "write" /\ t \in Requests /\ Sound(t) /\ t.id \in OrderId /\ t.id \in issued
      /\ t.doc \in Orders /\ t.doc.status # "absent" /\ SoldTo(t.doc, t.id) /\ Agrees(t.doc)
      /\ t.event \in Event \cup {None} /\ t.doc.event \in Event \cup {None}
      /\ Backed(t.doc, t.id) \/ (transactional /\ t.doc.event = t.event)
  BY <1>1, RequestFacts DEF Store, Sound, Requests, Orders
<1>3. /\ orders' = [orders EXCEPT ![t.id] = t.doc]
      /\ events' = IF transactional
                   THEN [events EXCEPT ![t.id] = @ \cup ({t.event} \cap Event)] ELSE events
      /\ req' = [q \in Request |->
                  IF q # p THEN Overtake(q, t.id)
                  ELSE IF t.kind = "cancel" /\ t.reservation # None /\ ~transactional
                  THEN [t EXCEPT !.pc = "release"] ELSE Idle]
      /\ UNCHANGED <<stock, book, issued, transactional>>
  BY <1>1 DEF Store
<1>4. /\ orders'[t.id] = t.doc /\ \A o \in OrderId : o # t.id => orders'[o] = orders[o]
      /\ orders' \in [OrderId -> Orders]
  BY <1>2, <1>3, TypeFacts DEF IInv
<1>5. /\ events' \in [OrderId -> SUBSET Event] /\ \A o \in OrderId : events[o] \subseteq events'[o]
      /\ Backed(t.doc, t.id)'
  <2>1. CASE transactional
    BY <1>2, <1>3, <2>1, TypeFacts DEF IInv, Backed
  <2>2. CASE ~transactional
    BY <1>2, <1>3, <2>2, TypeFacts DEF IInv, Backed
  <2> QED
    BY <2>1, <2>2
<1>6. ASSUME NEW q \in Request, q # p
      PROVE  /\ req'[q] \in Requests
             /\ req'[q].pc = req[q].pc /\ req'[q].kind = req[q].kind /\ req'[q].id = req[q].id
             /\ req'[q].doc = req[q].doc /\ req'[q].reservation = req[q].reservation
             /\ req'[q].event = req[q].event
             /\ ~req'[q].stale => ~req[q].stale /\ (req[q].pc = "idle" \/ req[q].id # t.id)
  <2>1. req[q] \in Requests
    BY TypeFacts DEF IInv
  <2>2. PICK b \in BOOLEAN :
           b = (req[q].stale \/ (req[q].pc # "idle" /\ req[q].id = t.id))
    OBVIOUS
  <2>3. req'[q] = [req[q] EXCEPT !.stale = b]
    BY <1>3, <1>6, <2>2 DEF Overtake
  <2>4. ~b => ~req[q].stale /\ (req[q].pc = "idle" \/ req[q].id # t.id)
    BY <2>2
  <2> QED
    BY <2>1, <2>3, <2>4 DEF Requests
<1>7. /\ req'[p] \in Requests
      /\ \/ req'[p].pc = "idle"
         \/ /\ req'[p].pc = "release" /\ ~transactional /\ req'[p].kind = "cancel"
            /\ req'[p].id = t.id /\ req'[p].doc = t.doc /\ req'[p].reservation # None
  <2>1. CASE t.kind = "cancel" /\ t.reservation # None /\ ~transactional
    <3>1. PICK u : u = [t EXCEPT !.pc = "release"]
      OBVIOUS
    <3>2. /\ u \in Requests /\ u.pc = "release" /\ u.kind = t.kind /\ u.id = t.id
          /\ u.doc = t.doc /\ u.reservation = t.reservation
      BY <1>2, <3>1 DEF Requests
    <3> QED
      BY <1>3, <2>1, <3>1, <3>2
  <2>2. CASE ~(t.kind = "cancel" /\ t.reservation # None /\ ~transactional)
    <3>1. req'[p] = Idle
      BY <1>3, <2>2
    <3> QED
      BY <3>1, ConstantTypes
  <2> QED
    BY <2>1, <2>2
<1>8. TypeOK'
  <2>1. req' \in [Request -> Requests]
    <3>1. DOMAIN req' = Request /\ req' = [q \in Request |-> req'[q]]
      BY <1>3
    <3> QED
      BY <1>6, <1>7, <3>1
  <2>2. \A o \in OrderId : Placed(o)' => o \in issued
    BY <1>2, <1>4, TypeFacts DEF IInv, Placed
  <2> QED
    BY <1>3, <1>4, <1>5, <2>1, <2>2, TypeFacts, TypesSuffice DEF IInv
<1>9. OrdersSound'
  <2>1. ASSUME NEW o \in OrderId
        PROVE  SoldTo(orders[o], o)' /\ Agrees(orders[o])' /\ Backed(orders[o], o)'
    <3>1. CASE o = t.id
      BY <1>2, <1>3, <1>4, <1>5, <3>1 DEF SoldTo, Agrees, Backed
    <3>2. CASE o # t.id
      <4>1. SoldTo(orders[o], o) /\ Agrees(orders[o]) /\ Backed(orders[o], o)
        BY DEF IInv, OrdersSound
      <4> QED
        BY <1>3, <1>4, <1>5, <3>2, <4>1 DEF SoldTo, Agrees, Backed
    <3> QED
      BY <3>1, <3>2
  <2> QED
    BY <2>1 DEF OrdersSound
<1>10. RequestsSound'
  <2>1. ASSUME NEW q \in Request, q # p, req[q].pc # "idle"
        PROVE  Sound(req[q])'
    <3>1. /\ req[q] \in Requests /\ Sound(req[q]) /\ req[q].id \in OrderId
          /\ req[q].doc \in Orders
      BY <2>1, RequestFacts
    <3>2. req[q].kind = "create" => req[q].id # t.id
      BY <1>1, <1>2, <2>1 DEF IInv, CreatesAlone
    <3>3. \A o \in OrderId : o # t.id => orders'[o] = orders[o]
      BY <1>4
    <3> QED
      BY <1>3, <1>5, <1>6, <2>1, <3>1, <3>2, <3>3 DEF Sound, SoldTo, Agrees, Backed, Placed
  <2>2. Sound(req[p])'
    <3>1. CASE req'[p].pc = "idle"
      BY <3>1 DEF Sound
    <3>2. CASE req'[p].pc # "idle"
      <4>1. t.doc.status \in DOMAIN Successors
        BY <1>2 DEF Orders
      <4>2. Forward(t.doc.status, t.doc.status)
        BY <4>1, TransitionsForward DEF CanTransition
      <4> QED
        BY <1>2, <1>3, <1>4, <1>5, <1>7, <3>2, <4>2 DEF Sound, SoldTo, Agrees, Backed
    <3> QED
      BY <3>1, <3>2
  <2>3. \A q \in Request : q # p /\ req[q].pc = "idle" => req'[q].pc = "idle"
    BY <1>6
  <2>4. ASSUME NEW q \in Request
        PROVE  Sound(req[q])'
    <3>1. CASE q # p /\ req[q].pc = "idle"
      BY <2>3, <3>1 DEF Sound
    <3> QED
      BY <2>1, <2>2, <3>1
  <2> QED
    BY <2>4 DEF RequestsSound
<1>11. CreatesAlone'
  BY <1>1, <1>2, <1>6, <1>7 DEF IInv, CreatesAlone
<1> QED
  BY <1>8, <1>9, <1>10, <1>11 DEF IInv

-----------------------------------------------------------------------------
(* The theorems. *)

LEMMA NextIInv == IInv /\ [Next]_vars => IInv'
<1> SUFFICES ASSUME IInv, [Next]_vars PROVE IInv'
  OBVIOUS
<1>1. CASE UNCHANGED vars
  BY <1>1 DEF vars, IInv, TypeOK, OrdersSound, RequestsSound, CreatesAlone, Sound, SoldTo,
              Agrees, Backed, Placed
<1>2. CASE Next
  BY <1>2, CreateIInv, UpdateIInv, CommitReservationIInv, InsertEventIInv, StoreIInv,
     ReleaseReservationIInv, CutOffIInv, ReserveStocksIInv DEF Next
<1> QED
  BY <1>1, <1>2

LEMMA Invariance == Spec => []IInv
BY InitIInv, NextIInv, PTL DEF Spec

\* Orders, requests and inventory documents keep their types, and only an id that was
\* given out has an order (services/order_service.go).
THEOREM TypeCorrect == Spec => []TypeOK
<1>1. IInv => TypeOK
  BY DEF IInv
<1> QED
  BY <1>1, Invariance, PTL

\* An order that names a reservation has had it committed, for itself and for no other
\* order: CreateFromCart commits before it inserts, and the reservation knows its order.
THEOREM ReservationsOwned == Spec => []OwnReservation
<1>1. IInv => OwnReservation
  BY DEF IInv, OrdersSound, SoldTo, OwnReservation
<1> QED
  BY <1>1, Invariance, PTL

\* The timestamps that applyStatusTransition sets tell the history of every order, also
\* when updates overwrite each other.
THEOREM StampsTruthful == Spec => []StampsAgree
<1>1. IInv => StampsAgree
  BY DEF IInv, OrdersSound, Agrees, StampsAgree
<1> QED
  BY <1>1, Invariance, PTL

\* The last production event that an order shows is stored in its subcollection,
\* with a transaction and without.
THEOREM EventsStored == Spec => []EventsBacked
<1>1. IInv => EventsBacked
  BY DEF IInv, OrdersSound, Backed, EventsBacked
<1> QED
  BY <1>1, Invariance, PTL

\* Only a Store changes an order.
LEMMA OrdersKept ==
    ASSUME [Next]_vars, \A p \in Request : ~Store(p)
    PROVE  UNCHANGED orders
<1>1. ASSUME NEW p \in Request, NEW o \in OrderId,
             \/ \E r \in Reservation \cup {None} : CreateFromCart(p, o, r) \/ Cancel(p, o, r)
             \/ \E source \in OrderId : CloneForReorder(p, source, o)
             \/ \E t \in Target : TransitionStatus(p, o, t)
             \/ \E e \in Event : AppendProductionEvent(p, o, e)
             \/ RequestInvoice(p, o)
      PROVE  UNCHANGED orders
  BY <1>1 DEF CreateFromCart, Cancel, CloneForReorder, TransitionStatus,
              AppendProductionEvent, RequestInvoice, Start
<1>2. ASSUME NEW p \in Request, \/ CommitReservation(p) \/ InsertEvent(p)
                                \/ ReleaseReservation(p) \/ CutOff(p)
      PROVE  UNCHANGED orders
  BY <1>2 DEF CommitReservation, InsertEvent, ReleaseReservation, CutOff
<1>3. ASSUME NEW r \in Reservation, NEW o \in OrderRef, NEW b \in Basket, ReserveStocks(r, o, b)
      PROVE  UNCHANGED orders
  BY <1>3 DEF ReserveStocks
<1> QED
  BY <1>1, <1>2, <1>3 DEF Next, vars

\* An order leaves the workflow of orderStateTransitions only when an update, stored
\* whole, overwrites one that came after its read.
THEOREM OvertakingAlone == Spec => ForwardUnlessOvertaken
<1> DEFINE Kept == \A o \in OrderId :
              \/ ~Placed(o)
              \/ Forward(orders[o].status, orders'[o].status)
              \/ \E p \in Request : req[p].pc = "write" /\ req[p].id = o /\ req[p].stale
<1>1. IInv /\ [Next]_vars => Kept
  <2> SUFFICES ASSUME IInv, [Next]_vars, NEW o \in OrderId, Placed(o),
                      \A p \in Request : ~(req[p].pc = "write" /\ req[p].id = o /\ req[p].stale)
               PROVE  Forward(orders[o].status, orders'[o].status)
    OBVIOUS
  <2>1. CASE UNCHANGED orders
    BY <2>1, OrderFacts
  <2>2. ASSUME NEW p \in Request, Store(p)
        PROVE  Forward(orders[o].status, orders'[o].status)
    <3>1. /\ req[p].pc = "write" /\ Sound(req[p])
          /\ orders' = [orders EXCEPT ![req[p].id] = req[p].doc]
      BY <2>2, RequestFacts DEF Store
    <3>2. CASE req[p].id # o
      BY <3>1, <3>2, OrderFacts, TypeFacts DEF IInv
    <3>3. CASE req[p].id = o
      BY <3>1, <3>3, TypeFacts DEF Sound, IInv
    <3> QED
      BY <3>2, <3>3
  <2> QED
    BY <2>1, <2>2, OrdersKept
<1> QED
  BY <1>1, Invariance, PTL DEF Spec, ForwardUnlessOvertaken

=============================================================================
