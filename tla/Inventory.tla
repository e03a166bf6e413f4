------------------------------ MODULE Inventory ------------------------------
(***************************************************************************)
(* services/inventory_service.go over                                      *)
(* repositories/firestore/inventory_repository.go: concurrent requests     *)
(* that reserve, commit and release stock in Firestore transactions.       *)
(*                                                                         *)
(* A request reads the reservation document, then one stock document per   *)
(* line, buffering what it will write; its transaction is applied at once  *)
(* if nothing it read was written meanwhile, and is run again from the     *)
(* start otherwise (platform/firestore/transaction.go).  Afterwards it     *)
(* publishes one event per SKU.  It may be cut off anywhere, by a timeout, *)
(* a lost reply or the end of the instance that runs it.                   *)
(***************************************************************************)
EXTENDS StockDocs

CONSTANTS
    Request,        \* API requests in flight
    MaxAttempts     \* tries of one transaction (defaultTxAttempts)

ASSUME AttemptsAssumption == MaxAttempts \in Nat \ {0}

VARIABLES
    stock,      \* the documents of collection inventory, by SKU
    book,       \* the documents of collection stockReservations, by id
    tx,         \* what each request is doing
    writes,     \* the stock documents each request will write, or has to announce
    published,  \* per SKU, the sum of the deltas of the events published
    missed      \* SKUs of which some event was not published

vars == <<stock, book, tx, writes, published, missed>>

\* The same documents, each operation in one step.
Book == INSTANCE StockBook

-----------------------------------------------------------------------------
Idle == [pc |-> "idle", op |-> None, id |-> None, order |-> None,
         doc |-> NoReservation, attempt |-> 0, stale |-> FALSE]

Exists(r) == book[r].status \notin {"absent", "purged"}

\* The function w with s mapped to v.
Extend(w, s, v) == [x \in DOMAIN w \cup {s} |-> IF x = s THEN v ELSE w[x]]

Init ==
    /\ stock = [s \in Stocked |-> StockDoc(OnHand0[s], 0)]
    /\ book = [r \in Reservation |-> NoReservation]
    /\ tx = [p \in Request |-> Idle]
    /\ writes = [p \in Request |-> Empty]
    /\ published = [s \in Sku |-> [onHand |-> 0, reserved |-> 0]]
    /\ missed = {}

-----------------------------------------------------------------------------
(* The service's operations: a request arrives and opens its transaction.  *)

Begin(p, op, r, o, d) ==
    /\ tx[p].pc = "idle"
    /\ tx' = [tx EXCEPT ![p] = [pc |-> "reservation", op |-> op, id |-> r, order |-> o,
                                doc |-> d, attempt |-> 1, stale |-> FALSE]]
    /\ UNCHANGED <<stock, book, writes, published, missed>>

\* An id whose document was deleted is never issued again.
ReserveStocks(p, r, o, b) ==
    /\ book[r].status # "purged"
    /\ Begin(p, "reserve", r, o, Reserved(o, b))

CommitReservation(p, r, o) == Begin(p, "commit", r, o, NoReservation)
ReleaseReservation(p, r) == Begin(p, "release", r, None, NoReservation)

\* The request ends and leaves its transaction unapplied.
Refuse(p) ==
    /\ tx' = [tx EXCEPT ![p] = Idle]
    /\ writes' = [writes EXCEPT ![p] = Empty]
    /\ UNCHANGED <<stock, book, published, missed>>

-----------------------------------------------------------------------------
(* The transaction functions Reserve, Commit and Release.                  *)

\* A plausible bug: Commit and Release only check that the reservation exists.
ReservationOkIfExists(t) == (t.op = "reserve") <=> ~Exists(t.id)

ReservationOk(t) ==
    \/ t.op = "reserve" /\ ~Exists(t.id)
    \/ t.op = "commit" /\ book[t.id].status = "reserved"
                       /\ t.order \in {None, book[t.id].order}
    \/ t.op = "release" /\ book[t.id].status = "reserved"

\* doc is the reservation document that the transaction will write.
ReadReservation(p) ==
    LET t == tx[p]
        doc == IF t.op = "reserve" THEN t.doc
               ELSE [book[t.id] EXCEPT !.status = Final(t.op)]
    IN  /\ t.pc = "reservation"
        /\ IF ReservationOk(t)
           THEN /\ tx' = [tx EXCEPT ![p] = [t EXCEPT !.pc = "stock", !.doc = doc]]
                /\ UNCHANGED <<stock, book, writes, published, missed>>
           ELSE Refuse(p)

\* One turn of the loop over the lines: tx.Get, the checks, tx.Set.
ReadStock(p, s) ==
    LET t == tx[p]
        n == t.doc.lines[s]
        written == Extend(writes[p], s, Adjusted(t.op, stock[s], n))
        next == IF DOMAIN written = DOMAIN t.doc.lines THEN "apply" ELSE "stock"
    IN  /\ t.pc = "stock"
        /\ s \in DOMAIN t.doc.lines \ DOMAIN writes[p]
        /\ IF s \in Stocked /\ StockOk(t.op, stock[s], n)
           THEN /\ tx' = [tx EXCEPT ![p] = [t EXCEPT !.pc = next]]
                /\ writes' = [writes EXCEPT ![p] = written]
                /\ UNCHANGED <<stock, book, published, missed>>
           ELSE Refuse(p)

\* The transaction of q has read reservation r or a stock document of W.
HasRead(q, r, W) ==
    /\ tx[q].pc \in {"stock", "apply"}
    /\ tx[q].id = r \/ DOMAIN writes[q] \cap W # {}

\* A write to reservation r and to the stock documents W outdates its readers.
Outdate(q, r, W) == [tx[q] EXCEPT !.stale = @ \/ HasRead(q, r, W)]

\* A plausible bug: the reads are made outside the transaction, so that nothing
\* checks them when it is applied.
ApplyUnchecked(p) ==
    LET t == tx[p] IN
    /\ t.pc = "apply"
    /\ stock' = [s \in Stocked |-> IF s \in DOMAIN writes[p] THEN writes[p][s] ELSE stock[s]]
    /\ book' = [book EXCEPT ![t.id] = t.doc]
    /\ tx' = [q \in Request |-> IF q = p THEN [t EXCEPT !.pc = "emit"]
                                ELSE Outdate(q, t.id, DOMAIN writes[p])]
    /\ UNCHANGED <<writes, published, missed>>

Apply(p) ==
    LET t == tx[p] IN
    /\ t.pc = "apply"
    /\ ~t.stale
    /\ stock' = [s \in Stocked |-> IF s \in DOMAIN writes[p] THEN writes[p][s] ELSE stock[s]]
    /\ book' = [book EXCEPT ![t.id] = t.doc]
    /\ tx' = [q \in Request |-> IF q = p THEN [t EXCEPT !.pc = "emit"]
                                ELSE Outdate(q, t.id, DOMAIN writes[p])]
    /\ UNCHANGED <<writes, published, missed>>

\* A plausible bug: retries without a limit.
RetryForever(p) ==
    LET t == tx[p] IN
    /\ t.pc = "apply"
    /\ t.stale
    /\ tx' = [tx EXCEPT ![p] = [t EXCEPT !.pc = "reservation", !.attempt = @ + 1,
                                         !.stale = FALSE]]
    /\ writes' = [writes EXCEPT ![p] = Empty]
    /\ UNCHANGED <<stock, book, published, missed>>

Retry(p) ==
    LET t == tx[p]
        doc == IF t.op = "reserve" THEN t.doc ELSE NoReservation
    IN  /\ t.pc = "apply"
        /\ t.stale
        /\ IF t.attempt < MaxAttempts
           THEN /\ tx' = [tx EXCEPT ![p] = [t EXCEPT !.pc = "reservation", !.doc = doc,
                                                     !.attempt = @ + 1, !.stale = FALSE]]
                /\ writes' = [writes EXCEPT ![p] = Empty]
                /\ UNCHANGED <<stock, book, published, missed>>
           ELSE Refuse(p)

-----------------------------------------------------------------------------
(* emitStockEvents, what cuts a request off, and the TTL policy.           *)

\* A plausible bug: the event of a commit only reports the pieces that left.
DeltaCommitOnHandOnly(op, n) ==
    CASE op = "reserve" -> [onHand |-> 0, reserved |-> n]
      [] op = "commit"  -> [onHand |-> 0 - n, reserved |-> 0]
      [] op = "release" -> [onHand |-> 0, reserved |-> 0 - n]

Delta(op, n) ==
    CASE op = "reserve" -> [onHand |-> 0, reserved |-> n]
      [] op = "commit"  -> [onHand |-> 0 - n, reserved |-> 0 - n]
      [] op = "release" -> [onHand |-> 0, reserved |-> 0 - n]

\* One event; writes shrinks to the SKUs that are still to announce.
PublishEvent(p, s) ==
    LET t == tx[p]
        d == Delta(t.op, t.doc.lines[s])
        left == DOMAIN writes[p] \ {s}
    IN  /\ t.pc = "emit"
        /\ s \in DOMAIN writes[p]
        /\ published' = [published EXCEPT ![s].onHand = @ + d.onHand,
                                          ![s].reserved = @ + d.reserved]
        /\ writes' = [writes EXCEPT ![p] = [x \in left |-> @[x]]]
        /\ tx' = [tx EXCEPT ![p] = IF left = {} THEN Idle ELSE t]
        /\ UNCHANGED <<stock, book, missed>>

\* A failed publish, or the end of the request's context or instance, drops
\* the events not yet published; before that, it drops the transaction.
CutOff(p) ==
    LET t == tx[p] IN
    /\ t.pc # "idle"
    /\ missed' = IF t.pc = "emit" THEN missed \cup DOMAIN writes[p] ELSE missed
    /\ tx' = [tx EXCEPT ![p] = Idle]
    /\ writes' = [writes EXCEPT ![p] = Empty]
    /\ UNCHANGED <<stock, book, published>>

\* Firestore deletes a reservation document whatever its status, some time
\* after expiresAt: long after the request that created it has ended.
PurgeExpired(r) ==
    /\ TtlPolicy
    /\ Exists(r)
    /\ ~ \E p \in Request : tx[p].op = "reserve" /\ tx[p].id = r
    /\ book' = [book EXCEPT ![r] = Purged]
    /\ tx' = [q \in Request |-> Outdate(q, r, {})]
    /\ UNCHANGED <<stock, writes, published, missed>>

\* What requests do.
RequestNext ==
    \/ \E p \in Request, r \in Reservation, o \in OrderRef, b \in Basket :
          ReserveStocks(p, r, o, b)
    \/ \E p \in Request, r \in Reservation, o \in OrderRef \cup {None} :
          CommitReservation(p, r, o)
    \/ \E p \in Request, r \in Reservation : ReleaseReservation(p, r)
    \/ \E p \in Request : \/ ReadReservation(p)
                          \/ Apply(p)
                          \/ Retry(p)
                          \/ CutOff(p)
    \/ \E p \in Request, s \in Sku : ReadStock(p, s) \/ PublishEvent(p, s)

Next == RequestNext \/ \E r \in Reservation : PurgeExpired(r)

Spec == Init /\ [][Next]_vars

\* The same, where no TTL policy is in force.
RequestSpec == Init /\ [][RequestNext]_vars

-----------------------------------------------------------------------------
(* Properties.                                                             *)

Transactions == [pc : {"idle", "reservation", "stock", "apply", "emit"},
                 op : {None, "reserve", "commit", "release"},
                 id : Reservation \cup {None},
                 order : OrderRef \cup {None},
                 doc : Reservations,
                 attempt : 0 .. MaxAttempts,
                 stale : BOOLEAN]

StockWrites(w) == DOMAIN w \subseteq Stocked /\ w \in [DOMAIN w -> Docs]

TypeOK ==
    /\ stock \in [Stocked -> Docs]
    /\ book \in [Reservation -> Reservations]
    /\ tx \in [Request -> Transactions]
    /\ writes = [p \in Request |-> writes[p]]
    /\ \A p \in Request : StockWrites(writes[p])
    /\ published \in [Sku -> [onHand : Int, reserved : Int]]
    /\ missed \subseteq Sku

\* Transaction t, with w written so far, is well formed.
WellFormedTx(t, w) ==
    /\ t.pc \in {"idle", "reservation"} => w = Empty
    /\ t.pc # "idle" => t.op # None /\ t.id \in Reservation
    /\ t.pc # "idle" /\ t.op = "reserve" =>
           \E o \in OrderRef, b \in Basket : t.doc = Reserved(o, b)
    /\ t.pc \in {"stock", "apply", "emit"} =>
           t.doc.lines \in Basket /\ DOMAIN w \subseteq DOMAIN t.doc.lines
    /\ t.pc = "apply" => DOMAIN w = DOMAIN t.doc.lines

\* Reservations that are open or settled name lines, and a transaction writes
\* stock documents of its own lines only.
WellFormed ==
    /\ \A r \in Reservation : Exists(r) => book[r].lines \in Basket
    /\ \A p \in Request : WellFormedTx(tx[p], writes[p])

\* If transaction t is not outdated, its checks would pass again on the documents
\* as they are, and it would again write what it has buffered in w.
Current(t, w) ==
    t.pc \in {"stock", "apply"} /\ ~t.stale =>
        /\ t.op = "reserve" => ~Exists(t.id)
        /\ t.op # "reserve" =>
             /\ book[t.id].status = "reserved"
             /\ t.doc = [book[t.id] EXCEPT !.status = Final(t.op)]
        /\ \A s \in DOMAIN w : /\ StockOk(t.op, stock[s], t.doc.lines[s])
                               /\ w[s] = Adjusted(t.op, stock[s], t.doc.lines[s])

\* A transaction that may be applied has read nothing that changed since.
ReadsCurrent == \A p \in Request : Current(tx[p], writes[p])

\* No overselling, whatever requests race and wherever they are cut off.
NoOversell == Book!NoOversell

\* The counter "reserved" of a stock document is what the open reservation
\* documents hold: the two are written by one transaction, so no crash, retry or
\* race between requests may part them.
ReservedAccounted == Book!ReservedAccounted

\* An open reservation can always be sold or given back, even when the documents of
\* other reservations of the SKU are deleted around it.
ClaimsCanSettle == Book!ClaimsCanSettle

\* The event stream is a ledger of a SKU once every event about it was published:
\* its deltas, in whatever order they came, add up to the stock.
EventsReconcile ==
    \A s \in Stocked :
        \/ s \in missed
        \/ \E p \in Request : tx[p].pc = "emit" /\ s \in DOMAIN writes[p]
        \/ /\ stock[s].onHand = OnHand0[s] + published[s].onHand
           /\ stock[s].reserved = published[s].reserved

\* A reservation is settled once: a commit and a release that race, or a late
\* duplicate of either, never change a settled reservation (its document may only
\* be deleted).
SettledOnce ==
    [][\A r \in Reservation :
         book[r].status \in {"committed", "released"} =>
            book'[r] = book[r] \/ book'[r] = Purged]_vars

\* Isolation: whatever the interleaving of reads and writes, retries and
\* cut-offs, each request takes effect as one indivisible operation on the
\* documents as they then are, or not at all.
ImplementsBook == Book!Spec

\* What callers are promised (StockLedger): a claim is granted exactly within what
\* was never sold and is not held, and is settled once.
ImplementsLedger == Book!ImplementsLedger

=============================================================================
