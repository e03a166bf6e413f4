--------------------------- MODULE InventoryProofs ---------------------------
(***************************************************************************)
(* Every execution of Inventory is type correct, isolates its transactions *)
(* (it implements StockBook), never oversells, settles a reservation at    *)
(* most once and can always settle an open one, and its events add up; and *)
(* without the TTL policy its counters are the pieces that reservations    *)
(* hold, and it implements StockLedger.  For all sets of SKUs,             *)
(* reservations, requests and quantities.                                  *)
(***************************************************************************)
EXTENDS Inventory, FiniteSetTheorems, TLAPS

IInv == TypeOK /\ WellFormed /\ ReadsCurrent

-----------------------------------------------------------------------------
(* The documents. *)

LEMMA LinesFacts ==
    ASSUME NEW b \in Basket
    PROVE  /\ b \in Lines
           /\ DOMAIN b # {}
           /\ \A s \in DOMAIN b : s \in Sku /\ b[s] \in Nat \ {0}
BY BasketAssumption DEF Lines

LEMMA AdjustedType ==
    ASSUME NEW op \in {"reserve", "commit", "release"}, NEW d \in Docs, NEW n \in Nat
    PROVE  Adjusted(op, d, n) \in Docs
BY DEF Adjusted, StockDoc, Docs

LEMMA DocTypes ==
    /\ NoReservation \in Reservations
    /\ Purged \in Reservations
    /\ Idle \in Transactions
    /\ \A o \in OrderRef, b \in Basket : Reserved(o, b) \in Reservations
BY AttemptsAssumption
   DEF NoReservation, Purged, Reservations, Reserved, Status, Lines, Idle, Transactions

-----------------------------------------------------------------------------
LEMMA InitIInv == Init => IInv
<1> SUFFICES ASSUME Init PROVE IInv
  OBVIOUS
<1>1. TypeOK
  BY DocTypes, OnHandAssumption
     DEF Init, TypeOK, StockWrites, StockDoc, Docs, Stocked, Empty
<1>2. WellFormed
  BY DEF Init, WellFormed, WellFormedTx, Idle, Exists, NoReservation
<1>3. ReadsCurrent
  BY DEF Init, ReadsCurrent, Current, Idle
<1> QED
  BY <1>1, <1>2, <1>3 DEF IInv

(* A step that leaves the documents alone and only moves request p. *)
LEMMA LocalStep ==
    ASSUME IInv, NEW p \in Request, NEW u \in Transactions, NEW w,
           StockWrites(w), WellFormedTx(u, w), Current(u, w),
           tx' = [tx EXCEPT ![p] = u], writes' = [writes EXCEPT ![p] = w],
           UNCHANGED <<stock, book>>,
           published' \in [Sku -> [onHand : Int, reserved : Int]], missed' \subseteq Sku
    PROVE  IInv'
<1>1. \A q \in Request : \/ q = p /\ tx'[q] = u /\ writes'[q] = w
                         \/ q # p /\ tx'[q] = tx[q] /\ writes'[q] = writes[q]
  BY DEF IInv, TypeOK
<1>2. TypeOK'
  <2>1. tx' \in [Request -> Transactions]
    BY DEF IInv, TypeOK
  <2>2. /\ writes' = [q \in Request |-> writes'[q]]
        /\ \A q \in Request : StockWrites(writes'[q])
    BY <1>1 DEF IInv, TypeOK
  <2> QED
    BY <2>1, <2>2 DEF IInv, TypeOK, StockWrites
<1>3. WellFormed'
  <2>1. \A q \in Request : WellFormedTx(tx'[q], writes'[q])
    BY <1>1 DEF IInv, WellFormed
  <2>2. \A r \in Reservation : Exists(r)' => book'[r].lines \in Basket
    BY DEF IInv, WellFormed, Exists
  <2> QED
    BY <2>1, <2>2 DEF WellFormed, WellFormedTx
<1>4. ReadsCurrent'
  <2> SUFFICES ASSUME NEW q \in Request PROVE Current(tx[q], writes[q])'
    BY DEF ReadsCurrent
  <2>1. \A t, v : Current(t, v)' <=> Current(t', v')
    BY DEF Current, Exists
  <2> QED
    BY <1>1, <2>1 DEF IInv, ReadsCurrent
<1> QED
  BY <1>2, <1>3, <1>4 DEF IInv

-----------------------------------------------------------------------------
(* Steps that only move one request. *)

LEMMA RefuseIInv ==
    ASSUME IInv, NEW p \in Request, Refuse(p)
    PROVE  IInv'
<1>1. StockWrites(Empty) /\ WellFormedTx(Idle, Empty) /\ Current(Idle, Empty)
  BY DEF StockWrites, WellFormedTx, Current, Idle, Empty
<1> QED
  BY <1>1, LocalStep, DocTypes DEF Refuse, IInv, TypeOK

LEMMA BeginIInv ==
    ASSUME IInv, NEW p \in Request, NEW op \in {"reserve", "commit", "release"},
           NEW r \in Reservation, NEW o \in OrderRef \cup {None},
           NEW d \in Reservations, Begin(p, op, r, o, d),
           op = "reserve" => \E q \in OrderRef, b \in Basket : d = Reserved(q, b)
    PROVE  IInv'
<1> DEFINE u == [pc |-> "reservation", op |-> op, id |-> r, order |-> o,
                 doc |-> d, attempt |-> 1, stale |-> FALSE]
<1>1. u \in Transactions
  BY AttemptsAssumption DEF Transactions
<1>2. writes[p] = Empty /\ StockWrites(writes[p])
  BY DEF IInv, WellFormed, WellFormedTx, TypeOK, Begin
<1>3. WellFormedTx(u, writes[p]) /\ Current(u, writes[p])
  BY <1>2 DEF WellFormedTx, Current, None
<1>4. writes' = [writes EXCEPT ![p] = writes[p]]
  BY DEF Begin, IInv, TypeOK
<1>5. tx' = [tx EXCEPT ![p] = u]
  BY DEF Begin
<1> HIDE DEF u
<1> QED
  BY <1>1, <1>2, <1>3, <1>4, <1>5, LocalStep DEF Begin, IInv, TypeOK

LEMMA ReadReservationIInv ==
    ASSUME IInv, NEW p \in Request, ReadReservation(p)
    PROVE  IInv'
<1> DEFINE t == tx[p]
           d == IF t.op = "reserve" THEN t.doc
                ELSE [book[t.id] EXCEPT !.status = Final(t.op)]
           u == [t EXCEPT !.pc = "stock", !.doc = d]
<1>1. CASE ~ReservationOk(t)
  BY <1>1, RefuseIInv DEF ReadReservation
<1>2. CASE ReservationOk(t)
  <2>1. /\ t \in Transactions /\ t.pc = "reservation"
        /\ writes[p] = Empty /\ StockWrites(writes[p])
        /\ t.op \in {"reserve", "commit", "release"} /\ t.id \in Reservation
    BY DEF ReadReservation, IInv, TypeOK, WellFormed, WellFormedTx, Transactions
  <2>2. d \in Reservations /\ d.lines \in Basket
    <3>1. CASE t.op = "reserve"
      <4>1. PICK o \in OrderRef, b \in Basket : t.doc = Reserved(o, b)
        BY <2>1, <3>1 DEF IInv, WellFormed, WellFormedTx
      <4> QED
        BY <4>1, <3>1, DocTypes DEF Reserved
    <3>2. CASE t.op # "reserve"
      <4>1. book[t.id] \in Reservations /\ book[t.id].lines \in Basket
        BY <1>2, <2>1, <3>2 DEF ReservationOk, IInv, TypeOK, WellFormed, Exists
      <4>2. Final(t.op) \in Status
        BY <2>1 DEF Final, Status
      <4> QED
        BY <4>1, <4>2, <3>2 DEF Reservations
    <3> QED
      BY <3>1, <3>2
  <2>3. u \in Transactions
    BY <2>1, <2>2 DEF Transactions
  <2>4. WellFormedTx(u, writes[p])
    <3>1. t.op = "reserve" => \E o \in OrderRef, b \in Basket : d = Reserved(o, b)
      BY <2>1 DEF IInv, WellFormed, WellFormedTx
    <3>2. u.pc = "stock" /\ u.doc = d /\ u.op = t.op /\ u.id = t.id
      BY <2>1 DEF Transactions
    <3> HIDE DEF d, u
    <3> QED
      BY <2>1, <2>2, <3>1, <3>2 DEF WellFormedTx, Empty, None
  <2>5. Current(u, writes[p])
    BY <1>2, <2>1 DEF Current, ReservationOk, Transactions, Empty
  <2>6. tx' = [tx EXCEPT ![p] = u] /\ UNCHANGED <<stock, book, writes, published, missed>>
    BY <1>2 DEF ReadReservation
  <2>7. writes' = [writes EXCEPT ![p] = writes[p]]
    BY <2>6 DEF IInv, TypeOK
  <2> HIDE DEF u
  <2> QED
    BY <2>1, <2>3, <2>4, <2>5, <2>6, <2>7, LocalStep DEF IInv, TypeOK
<1> QED
  BY <1>1, <1>2

LEMMA ReadStockIInv ==
    ASSUME IInv, NEW p \in Request, NEW s \in Sku, ReadStock(p, s)
    PROVE  IInv'
<1> DEFINE t == tx[p]
           n == t.doc.lines[s]
           w == Extend(writes[p], s, Adjusted(t.op, stock[s], n))
           u == [t EXCEPT !.pc = IF DOMAIN w = DOMAIN t.doc.lines THEN "apply"
                                                                  ELSE "stock"]
<1>1. CASE ~(s \in Stocked /\ StockOk(t.op, stock[s], n))
  BY <1>1, RefuseIInv DEF ReadStock
<1>2. CASE s \in Stocked /\ StockOk(t.op, stock[s], n)
  <2>1. /\ t \in Transactions /\ t.pc = "stock"
        /\ t.op \in {"reserve", "commit", "release"}
        /\ StockWrites(writes[p]) /\ WellFormedTx(t, writes[p]) /\ Current(t, writes[p])
        /\ s \in DOMAIN t.doc.lines \ DOMAIN writes[p]
    BY DEF ReadStock, IInv, TypeOK, WellFormed, WellFormedTx, ReadsCurrent, Transactions
  <2>2. stock[s] \in Docs /\ n \in Nat
    BY <1>2, <2>1, LinesFacts DEF IInv, TypeOK, WellFormedTx
  <2>3. Adjusted(t.op, stock[s], n) \in Docs
    BY <2>1, <2>2, AdjustedType
  <2>4. /\ DOMAIN w = DOMAIN writes[p] \cup {s}
        /\ w[s] = Adjusted(t.op, stock[s], n)
        /\ \A x \in DOMAIN writes[p] : w[x] = writes[p][x]
        /\ w = [x \in DOMAIN w |-> w[x]]
    BY <2>1 DEF Extend
  <2> HIDE DEF w, n
  <2>5. StockWrites(w)
    BY <1>2, <2>1, <2>3, <2>4 DEF StockWrites
  <2>6. /\ u \in Transactions /\ u.pc \in {"stock", "apply"}
        /\ u.op = t.op /\ u.id = t.id /\ u.doc = t.doc /\ u.stale = t.stale
        /\ u.pc = "apply" => DOMAIN w = DOMAIN t.doc.lines
    BY <2>1 DEF Transactions
  <2>7. tx' = [tx EXCEPT ![p] = u] /\ writes' = [writes EXCEPT ![p] = w]
        /\ UNCHANGED <<stock, book, published, missed>>
    BY <1>2 DEF ReadStock, w, n
  <2> HIDE DEF u
  <2>8. WellFormedTx(u, w)
    BY <2>1, <2>4, <2>6 DEF WellFormedTx
  <2>9. Current(u, w)
    BY <1>2, <2>1, <2>4, <2>6 DEF Current, n
  <2> QED
    BY <2>5, <2>6, <2>7, <2>8, <2>9, LocalStep DEF IInv, TypeOK
<1> QED
  BY <1>1, <1>2

LEMMA RetryIInv ==
    ASSUME IInv, NEW p \in Request, Retry(p)
    PROVE  IInv'
<1> DEFINE t == tx[p]
           d == IF t.op = "reserve" THEN t.doc ELSE NoReservation
           u == [t EXCEPT !.pc = "reservation", !.doc = d,
                          !.attempt = @ + 1, !.stale = FALSE]
<1>1. CASE ~(t.attempt < MaxAttempts)
  BY <1>1, RefuseIInv DEF Retry
<1>2. CASE t.attempt < MaxAttempts
  <2>1. t \in Transactions /\ WellFormedTx(t, writes[p]) /\ t.pc = "apply"
    BY DEF Retry, IInv, TypeOK, WellFormed
  <2>2. /\ u \in Transactions /\ u.pc = "reservation"
        /\ u.op = t.op /\ u.id = t.id /\ (t.op = "reserve" => u.doc = t.doc)
    <3>1. t.attempt + 1 \in 0 .. MaxAttempts
      BY <1>2, <2>1, AttemptsAssumption DEF Transactions
    <3>2. d \in Reservations
      BY <2>1, DocTypes DEF Transactions
    <3> HIDE DEF d
    <3>3. u \in Transactions
      BY <2>1, <3>1, <3>2 DEF Transactions
    <3>4. u.pc = "reservation" /\ u.op = t.op /\ u.id = t.id /\ u.doc = d
      BY <2>1 DEF Transactions
    <3> QED
      BY <3>3, <3>4 DEF d
  <2>3. tx' = [tx EXCEPT ![p] = u] /\ writes' = [writes EXCEPT ![p] = Empty]
        /\ UNCHANGED <<stock, book, published, missed>>
    BY <1>2 DEF Retry
  <2> HIDE DEF u
  <2>4. StockWrites(Empty) /\ WellFormedTx(u, Empty) /\ Current(u, Empty)
    BY <2>1, <2>2 DEF StockWrites, WellFormedTx, Current, Empty
  <2> QED
    BY <2>2, <2>3, <2>4, LocalStep DEF IInv, TypeOK
<1> QED
  BY <1>1, <1>2

LEMMA CutOffIInv ==
    ASSUME IInv, NEW p \in Request, CutOff(p)
    PROVE  IInv'
<1>1. StockWrites(Empty) /\ WellFormedTx(Idle, Empty) /\ Current(Idle, Empty)
  BY DEF StockWrites, WellFormedTx, Current, Idle, Empty
<1>2. missed' \subseteq Sku
  BY OnHandAssumption DEF CutOff, IInv, TypeOK, StockWrites
<1> QED
  BY <1>1, <1>2, LocalStep, DocTypes DEF CutOff, IInv, TypeOK

LEMMA PublishEventIInv ==
    ASSUME IInv, NEW p \in Request, NEW s \in Sku, PublishEvent(p, s)
    PROVE  IInv'
<1> DEFINE t == tx[p]
           left == DOMAIN writes[p] \ {s}
           w == [x \in left |-> writes[p][x]]
           u == IF left = {} THEN Idle ELSE t
<1>1. /\ t \in Transactions /\ t.pc = "emit"
      /\ t.op \in {"reserve", "commit", "release"}
      /\ StockWrites(writes[p]) /\ WellFormedTx(t, writes[p])
      /\ s \in DOMAIN writes[p]
  BY DEF PublishEvent, IInv, TypeOK, WellFormed, WellFormedTx, Transactions
<1>2. StockWrites(w)
  BY <1>1 DEF StockWrites
<1>3. u \in Transactions /\ WellFormedTx(u, w) /\ Current(u, w)
  BY <1>1, DocTypes DEF WellFormedTx, Current, Idle, Empty
<1>4. published' \in [Sku -> [onHand : Int, reserved : Int]]
  <2>1. t.doc.lines[s] \in Nat
    BY <1>1, LinesFacts DEF WellFormedTx
  <2>2. Delta(t.op, t.doc.lines[s]) \in [onHand : Int, reserved : Int]
    BY <1>1, <2>1 DEF Delta
  <2> DEFINE d == Delta(t.op, t.doc.lines[s])
  <2>3. published' = [published EXCEPT ![s].onHand = @ + d.onHand,
                                       ![s].reserved = @ + d.reserved]
    BY DEF PublishEvent
  <2> HIDE DEF d
  <2>4. published \in [Sku -> [onHand : Int, reserved : Int]]
    BY DEF IInv, TypeOK
  <2>5. d \in [onHand : Int, reserved : Int]
    BY <2>2 DEF d
  <2>6. published[s].onHand + d.onHand \in Int /\ published[s].reserved + d.reserved \in Int
    BY <2>4, <2>5
  <2> QED
    BY <2>3, <2>4, <2>6
<1>5. tx' = [tx EXCEPT ![p] = u] /\ writes' = [writes EXCEPT ![p] = w]
  BY DEF PublishEvent
<1>6. UNCHANGED <<stock, book, missed>>
  BY DEF PublishEvent
<1> HIDE DEF u, w
<1> QED
  BY <1>2, <1>3, <1>4, <1>5, <1>6, LocalStep DEF IInv, TypeOK

-----------------------------------------------------------------------------
(* Steps that write documents.  A request whose reads they outdate may not   *)
(* be applied; the reads of every other request are still current.           *)

LEMMA OutdateKeeps ==
    ASSUME IInv, NEW q \in Request, NEW r \in Reservation, NEW W,
           tx'[q] = Outdate(q, r, W), writes'[q] = writes[q],
           \A i \in Reservation \ {r} : book'[i] = book[i],
           \A s \in Stocked \ W : stock'[s] = stock[s]
    PROVE  /\ tx'[q] \in Transactions
           /\ WellFormedTx(tx'[q], writes'[q])
           /\ Current(tx[q], writes[q])'
<1> DEFINE t == tx[q]
           u == Outdate(q, r, W)
<1>1. t \in Transactions /\ WellFormedTx(t, writes[q]) /\ Current(t, writes[q])
      /\ StockWrites(writes[q])
  BY DEF IInv, TypeOK, WellFormed, ReadsCurrent
<1>2. /\ u \in Transactions
      /\ u.pc = t.pc /\ u.op = t.op /\ u.id = t.id /\ u.doc = t.doc
      /\ ~u.stale => ~t.stale /\ ~HasRead(q, r, W)
  <2>1. HasRead(q, r, W) \in BOOLEAN
    BY DEF HasRead
  <2> QED
    BY <1>1, <2>1 DEF Outdate, Transactions
<1> HIDE DEF u
<1>3. WellFormedTx(u, writes[q])
  BY <1>1, <1>2 DEF WellFormedTx
<1>4. ASSUME u.pc \in {"stock", "apply"}, ~u.stale
      PROVE  /\ book'[t.id] = book[t.id]
             /\ \A s \in DOMAIN writes[q] : stock'[s] = stock[s]
  <2>1. t.id # r /\ DOMAIN writes[q] \cap W = {}
    BY <1>2, <1>4 DEF HasRead
  <2>2. t.id \in Reservation
    BY <1>1, <1>2, <1>4 DEF WellFormedTx
  <2> QED
    BY <1>1, <2>1, <2>2 DEF StockWrites
<1>5. Current(tx[q], writes[q])'
  BY <1>1, <1>2, <1>4 DEF Current, Exists, u
<1> QED
  BY <1>2, <1>3, <1>5 DEF u

LEMMA ApplyIInv ==
    ASSUME IInv, NEW p \in Request, Apply(p)
    PROVE  IInv'
<1> DEFINE t == tx[p]
           W == DOMAIN writes[p]
<1>1. /\ t \in Transactions /\ t.pc = "apply" /\ t.id \in Reservation
      /\ t.doc \in Reservations /\ t.doc.lines \in Basket
      /\ StockWrites(writes[p]) /\ WellFormedTx(t, writes[p])
  BY DEF Apply, IInv, TypeOK, WellFormed, WellFormedTx, Transactions
<1>2. /\ stock' \in [Stocked -> Docs]
      /\ \A s \in Stocked \ W : stock'[s] = stock[s]
  BY <1>1 DEF Apply, IInv, TypeOK, StockWrites
<1>3. /\ book' \in [Reservation -> Reservations]
      /\ book'[t.id] = t.doc
      /\ \A i \in Reservation \ {t.id} : book'[i] = book[i]
  BY <1>1 DEF Apply, IInv, TypeOK
<1>4. \A q \in Request \ {p} : tx'[q] = Outdate(q, t.id, W) /\ writes'[q] = writes[q]
  BY DEF Apply
<1>5. \A q \in Request \ {p} : /\ tx'[q] \in Transactions
                              /\ WellFormedTx(tx'[q], writes'[q])
                              /\ Current(tx[q], writes[q])'
  BY <1>1, <1>2, <1>3, <1>4, OutdateKeeps
<1>6. /\ tx'[p] \in Transactions
      /\ WellFormedTx(tx'[p], writes'[p])
      /\ Current(tx[p], writes[p])'
  <2>1. tx'[p] = [t EXCEPT !.pc = "emit"] /\ writes'[p] = writes[p]
    BY DEF Apply
  <2> QED
    BY <1>1, <2>1 DEF WellFormedTx, Current, Transactions
<1>7. TypeOK'
  <2>1. tx' \in [Request -> Transactions]
    BY <1>5, <1>6 DEF Apply
  <2> QED
    BY <1>2, <1>3, <2>1 DEF Apply, IInv, TypeOK, StockWrites
<1>8. WellFormed'
  <2>1. \A r \in Reservation : Exists(r)' => book'[r].lines \in Basket
    BY <1>1, <1>3 DEF Exists, IInv, WellFormed
  <2>2. \A q \in Request : WellFormedTx(tx'[q], writes'[q])
    BY <1>5, <1>6
  <2> QED
    BY <2>1, <2>2 DEF WellFormed, WellFormedTx
<1>9. ReadsCurrent'
  BY <1>5, <1>6 DEF ReadsCurrent
<1> QED
  BY <1>7, <1>8, <1>9 DEF IInv

LEMMA PurgeExpiredIInv ==
    ASSUME IInv, NEW r \in Reservation, PurgeExpired(r)
    PROVE  IInv'
<1>1. /\ book' \in [Reservation -> Reservations]
      /\ book'[r] = Purged
      /\ \A i \in Reservation \ {r} : book'[i] = book[i]
  BY DocTypes DEF PurgeExpired, IInv, TypeOK
<1>2. \A q \in Request : tx'[q] = Outdate(q, r, {}) /\ writes'[q] = writes[q]
  BY DEF PurgeExpired
<1>3. UNCHANGED <<stock, writes, published, missed>>
  BY DEF PurgeExpired
<1>4. \A q \in Request : /\ tx'[q] \in Transactions
                         /\ WellFormedTx(tx'[q], writes'[q])
                         /\ Current(tx[q], writes[q])'
  BY <1>1, <1>2, <1>3, OutdateKeeps
<1>5. TypeOK'
  <2>1. tx' \in [Request -> Transactions]
    BY <1>4 DEF PurgeExpired
  <2> QED
    BY <1>1, <1>3, <2>1 DEF IInv, TypeOK, StockWrites
<1>6. WellFormed'
  <2>1. \A i \in Reservation : Exists(i)' => book'[i].lines \in Basket
    BY <1>1 DEF Exists, Purged, IInv, WellFormed
  <2>2. \A q \in Request : WellFormedTx(tx'[q], writes'[q])
    BY <1>4
  <2> QED
    BY <2>1, <2>2 DEF WellFormed, WellFormedTx
<1>7. ReadsCurrent'
  BY <1>4 DEF ReadsCurrent
<1> QED
  BY <1>5, <1>6, <1>7 DEF IInv

-----------------------------------------------------------------------------
LEMMA NextIInv ==
    ASSUME IInv, [Next]_vars
    PROVE  IInv'
<1>1. CASE UNCHANGED vars
  BY <1>1 DEF vars, IInv, TypeOK, StockWrites, WellFormed, WellFormedTx, Exists,
              ReadsCurrent, Current
<1>2. ASSUME NEW p \in Request, NEW r \in Reservation, NEW o \in OrderRef,
             NEW b \in Basket, ReserveStocks(p, r, o, b)
      PROVE  IInv'
  BY <1>2, BeginIInv, DocTypes DEF ReserveStocks
<1>3. ASSUME NEW p \in Request, NEW r \in Reservation, NEW o \in OrderRef \cup {None},
             CommitReservation(p, r, o)
      PROVE  IInv'
  BY <1>3, BeginIInv, DocTypes DEF CommitReservation
<1>4. ASSUME NEW p \in Request, NEW r \in Reservation, ReleaseReservation(p, r)
      PROVE  IInv'
  BY <1>4, BeginIInv, DocTypes DEF ReleaseReservation
<1>5. CASE Next
  BY <1>2, <1>3, <1>4, <1>5, ReadReservationIInv, ReadStockIInv, ApplyIInv, RetryIInv,
     PublishEventIInv, CutOffIInv, PurgeExpiredIInv DEF Next, RequestNext
<1> QED
  BY <1>1, <1>5

\* In every execution the documents and transactions are well typed and well
\* formed, and a transaction that may be applied has read nothing that changed.
THEOREM Invariance == Spec => []IInv
<1> QED
  BY InitIInv, NextIInv, PTL DEF Spec

\* The type invariant of the documents, requests and published events.
THEOREM TypeCorrect == Spec => []TypeOK
<1>1. IInv => TypeOK
  BY DEF IInv
<1> QED
  BY <1>1, Invariance, PTL

\* The reads of a transaction that may be applied are current in every execution,
\* so that the optimistic check is all the isolation the handlers need.
THEOREM ReadsStayCurrent == Spec => []ReadsCurrent
<1>1. IInv => ReadsCurrent
  BY DEF IInv
<1> QED
  BY <1>1, Invariance, PTL

-----------------------------------------------------------------------------
(* The refinement of StockBook: only Apply and PurgeExpired write documents.  *)

\* The definitions that StockBook shares with Inventory mean the same in both.
LEMMA SameDocs ==
    /\ Book!Stocked = Stocked /\ Book!NoReservation = NoReservation /\ Book!Purged = Purged
    /\ \A o, b : Book!Reserved(o, b) = Reserved(o, b)
    /\ \A x, y : Book!StockDoc(x, y) = StockDoc(x, y)
    /\ \A op \in {"reserve", "commit", "release"} :
         /\ Book!Final(op) = Final(op)
         /\ \A d, n : /\ Book!StockOk(op, d, n) <=> StockOk(op, d, n)
                      /\ Book!Adjusted(op, d, n) = Adjusted(op, d, n)
BY DEF Book!Stocked, Stocked, Book!NoReservation, NoReservation, Book!Purged, Purged,
       Book!Reserved, Reserved, Book!StockDoc, StockDoc, Book!Final, Final, Book!StockOk,
       StockOk, Book!Adjusted, Adjusted, Book!Empty, Empty, Book!None, None

LEMMA ApplyBook ==
    ASSUME IInv, NEW p \in Request, Apply(p)
    PROVE  Book!Next
<1> DEFINE t == tx[p]
           op == t.op
           lines == t.doc.lines
<1>1. /\ t.pc = "apply" /\ ~t.stale /\ t.id \in Reservation
      /\ op \in {"reserve", "commit", "release"}
      /\ WellFormedTx(t, writes[p]) /\ Current(t, writes[p])
      /\ DOMAIN writes[p] = DOMAIN lines /\ StockWrites(writes[p])
  BY DEF Apply, IInv, TypeOK, WellFormed, WellFormedTx, ReadsCurrent, Transactions
<1>2. Book!AdjustStock(op, lines)
  <2>1. \A s \in DOMAIN lines : /\ s \in Stocked
                                /\ StockOk(op, stock[s], lines[s])
                                /\ writes[p][s] = Adjusted(op, stock[s], lines[s])
    BY <1>1 DEF Current, StockWrites
  <2>2. stock' = [s \in Stocked |-> IF s \in DOMAIN lines THEN writes[p][s] ELSE stock[s]]
    BY <1>1 DEF Apply
  <2>3. stock' = [s \in Stocked |-> IF s \in DOMAIN lines
                                    THEN Adjusted(op, stock[s], lines[s]) ELSE stock[s]]
    BY <2>1, <2>2
  <2> QED
    BY <1>1, <2>1, <2>3, SameDocs DEF Book!AdjustStock
<1>3. book' = [book EXCEPT ![t.id] = t.doc]
  BY DEF Apply
<1>4. CASE op = "reserve"
  <2>1. PICK o \in OrderRef, b \in Basket : t.doc = Reserved(o, b)
    BY <1>1, <1>4 DEF WellFormedTx
  <2>2. lines = b
    BY <2>1 DEF Reserved
  <2>3. ~Book!Exists(t.id)
    BY <1>1, <1>4 DEF Current, Exists, Book!Exists
  <2>4. Book!Reserve(t.id, o, b)
    BY <1>2, <1>3, <1>4, <2>1, <2>2, <2>3, SameDocs DEF Book!Reserve
  <2> QED
    BY <1>1, <2>4 DEF Book!Next
<1>5. CASE op # "reserve"
  <2>1. /\ book[t.id].status = "reserved"
        /\ t.doc = [book[t.id] EXCEPT !.status = Final(op)]
    BY <1>1, <1>5 DEF Current
  <2>2. book[t.id] \in Reservations /\ book \in [Reservation -> Reservations]
    BY <1>1 DEF IInv, TypeOK
  <2>3. lines = book[t.id].lines
    BY <2>1, <2>2 DEF Reservations
  <2>4. book' = [book EXCEPT ![t.id].status = Final(op)]
    BY <1>1, <1>3, <2>1, <2>2
  <2>5. Book!Settle(op, t.id)
    BY <1>1, <1>2, <2>1, <2>3, <2>4, SameDocs DEF Book!Settle
  <2> QED
    BY <1>1, <1>5, <2>5 DEF Book!Next, Book!Commit, Book!Release
<1> QED
  BY <1>4, <1>5

LEMMA NextBook ==
    ASSUME IInv, [Next]_vars
    PROVE  [Book!Next]_(Book!vars)
<1>1. ASSUME NEW r \in Reservation, PurgeExpired(r)
      PROVE  Book!Next
  BY <1>1, SameDocs DEF PurgeExpired, Exists, Book!Exists, Book!Purge, Book!Next
<1>2. ASSUME Next,
             \A p \in Request : ~Apply(p), \A r \in Reservation : ~PurgeExpired(r)
      PROVE  UNCHANGED <<stock, book>>
  BY <1>2 DEF Next, RequestNext, ReserveStocks, CommitReservation, ReleaseReservation, Begin, Refuse,
              ReadReservation, ReadStock, Retry, CutOff, PublishEvent
<1>3. CASE UNCHANGED vars
  BY <1>3 DEF vars, Book!vars
<1> QED
  BY <1>1, <1>2, <1>3, ApplyBook DEF Book!vars

\* Isolation: the requests of services/inventory_service.go, however their reads,
\* writes, retries and cut-offs interleave, act on the documents as StockBook's
\* indivisible operations do.
THEOREM Isolation == Spec => ImplementsBook
<1>1. Init => Book!Init
  BY SameDocs DEF Init, Book!Init
<1> QED
  BY <1>1, NextBook, Invariance, PTL DEF Spec, ImplementsBook, Book!Spec

-----------------------------------------------------------------------------
LEMMA BookNoOversell ==
    ASSUME TypeOK, WellFormed, NoOversell, [Book!Next]_(Book!vars)
    PROVE  NoOversell'
<1>1. ASSUME NEW op \in {"reserve", "commit", "release"}, NEW b \in Basket,
             Book!AdjustStock(op, b)
      PROVE  NoOversell'
  <2> SUFFICES ASSUME NEW s \in Stocked
               PROVE  /\ 0 <= stock'[s].reserved
                      /\ stock'[s].reserved <= stock'[s].onHand
                      /\ stock'[s].available = stock'[s].onHand - stock'[s].reserved
    BY SameDocs DEF NoOversell, Book!NoOversell
  <2>1. /\ stock[s] \in Docs
        /\ 0 <= stock[s].reserved /\ stock[s].reserved <= stock[s].onHand
        /\ stock[s].available = stock[s].onHand - stock[s].reserved
    BY SameDocs DEF TypeOK, NoOversell, Book!NoOversell
  <2>2. CASE s \notin DOMAIN b
    BY <1>1, <2>1, <2>2, SameDocs DEF Book!AdjustStock
  <2>3. CASE s \in DOMAIN b
    <3>1. b[s] \in Nat
      BY <2>3, LinesFacts
    <3>2. StockOk(op, stock[s], b[s]) /\ stock'[s] = Adjusted(op, stock[s], b[s])
      BY <1>1, <2>3, SameDocs DEF Book!AdjustStock
    <3> QED
      BY <2>1, <3>1, <3>2 DEF StockOk, Adjusted, StockDoc, Docs
  <2> QED
    BY <2>2, <2>3
<1>2. ASSUME UNCHANGED stock
      PROVE  NoOversell'
  BY <1>2 DEF NoOversell, Book!NoOversell
<1>3. ASSUME NEW r \in Reservation, NEW op \in {"commit", "release"}, Book!Settle(op, r)
      PROVE  NoOversell'
  <2>1. book[r].lines \in Basket
    BY <1>3 DEF WellFormed, Exists, Book!Settle
  <2> QED
    BY <1>1, <1>3, <2>1 DEF Book!Settle
<1>4. ASSUME NEW r \in Reservation, NEW o \in OrderRef, NEW b \in Basket,
             Book!Reserve(r, o, b)
      PROVE  NoOversell'
  BY <1>1, <1>4 DEF Book!Reserve
<1>5. ASSUME NEW r \in Reservation, Book!Purge(r)
      PROVE  NoOversell'
  BY <1>2, <1>5 DEF Book!Purge
<1> QED
  BY <1>2, <1>3, <1>4, <1>5 DEF Book!Next, Book!vars, Book!Commit, Book!Release

\* No overselling: for any stock, any quantities and any number of requests, the
\* pieces reserved never outnumber the pieces on hand.
THEOREM NeverOversells == Spec => []NoOversell
<1>1. Init => NoOversell
  BY OnHandAssumption, SameDocs DEF Init, NoOversell, Book!NoOversell, StockDoc
<1>2. IInv /\ NoOversell /\ [Next]_vars => NoOversell'
  BY NextBook, BookNoOversell DEF IInv
<1> QED
  BY <1>1, <1>2, Invariance, PTL DEF Spec

\* A settled reservation stays as it is, until it is deleted.
THEOREM SettlesOnce == Spec => SettledOnce
<1>1. ASSUME IInv, [Next]_vars, NEW r \in Reservation,
             book[r].status \in {"committed", "released"}
      PROVE  book'[r] = book[r] \/ book'[r] = Purged
  <2>1. book \in [Reservation -> Reservations]
    BY <1>1 DEF IInv, TypeOK
  <2>2. ASSUME NEW i \in Reservation, NEW op \in {"commit", "release"}, Book!Settle(op, i)
        PROVE  book'[r] = book[r]
    BY <1>1, <2>1, <2>2 DEF Book!Settle
  <2>3. ASSUME NEW i \in Reservation, NEW o \in OrderRef, NEW b \in Basket,
               Book!Reserve(i, o, b)
        PROVE  book'[r] = book[r]
    BY <1>1, <2>1, <2>3 DEF Book!Reserve, Book!Exists
  <2>4. ASSUME NEW i \in Reservation, Book!Purge(i)
        PROVE  book'[r] = book[r] \/ book'[r] = Purged
    BY <1>1, <2>1, <2>4, SameDocs DEF Book!Purge
  <2> QED
    BY <1>1, <2>2, <2>3, <2>4, NextBook
       DEF Book!Next, Book!vars, Book!Commit, Book!Release
<1>2. IInv /\ [Next]_vars =>
        [\A r \in Reservation : book[r].status \in {"committed", "released"} =>
            book'[r] = book[r] \/ book'[r] = Purged]_vars
  BY <1>1
<1> QED
  BY <1>2, Invariance, PTL DEF Spec, SettledOnce

-----------------------------------------------------------------------------
(* Sums.  The pieces that something holds are a set, so that a sum is the    *)
(* cardinality of a union of disjoint blocks, and the library's facts about  *)
(* finite sets say how it changes.                                           *)

Block(x, k) == {x} \X (1..k)

LEMMA BlockSize ==
    ASSUME NEW x, NEW k \in Nat
    PROVE  IsFiniteSet(Block(x, k)) /\ Cardinality(Block(x, k)) = k
<1>1. IsFiniteSet({x}) /\ Cardinality({x}) = 1
  BY FS_Singleton
<1>2. IsFiniteSet(1..k) /\ Cardinality(1..k) = k
  BY FS_Interval
<1>3. /\ IsFiniteSet({x} \X (1..k))
      /\ Cardinality({x} \X (1..k)) = Cardinality({x}) * Cardinality(1..k)
  BY <1>1, <1>2, FS_Product
<1>4. 1 * k = k
  OBVIOUS
<1> QED
  BY <1>1, <1>2, <1>3, <1>4 DEF Block

LEMMA AddBlock ==
    ASSUME NEW P, IsFiniteSet(P), NEW x, NEW k \in Nat, Block(x, k) \cap P = {}
    PROVE  IsFiniteSet(P \cup Block(x, k)) /\ Cardinality(P \cup Block(x, k)) = Cardinality(P) + k
<1>1. Cardinality(P) \in Nat /\ Cardinality({}) = 0
  BY FS_CardinalityType, FS_EmptySet
<1> QED
  BY <1>1, BlockSize, FS_Union, P \cap Block(x, k) = {}

LEMMA TakeBlock ==
    ASSUME NEW P, IsFiniteSet(P), NEW x, NEW k \in Nat, Block(x, k) \subseteq P
    PROVE  /\ IsFiniteSet(P \ Block(x, k)) /\ Cardinality(P \ Block(x, k)) = Cardinality(P) - k
           /\ k <= Cardinality(P)
<1>1. P \cap Block(x, k) = Block(x, k)
  OBVIOUS
<1>2. IsFiniteSet(Block(x, k)) /\ Cardinality(Block(x, k)) = k
  BY BlockSize
<1>3. Cardinality(Block(x, k)) <= Cardinality(P)
  BY FS_Subset
<1>4. IsFiniteSet(P \ Block(x, k))
      /\ Cardinality(P \ Block(x, k)) = Cardinality(P) - Cardinality(P \cap Block(x, k))
  BY FS_Difference
<1> QED
  BY <1>1, <1>2, <1>3, <1>4

\* The instances of FiniteSets mean the same.
LEMMA SameCardinality ==
    \A S : Book!Cardinality(S) = Cardinality(S) /\ Book!Ledger!Cardinality(S) = Cardinality(S)
BY DEF Book!Cardinality, Book!Ledger!Cardinality, Cardinality

-----------------------------------------------------------------------------
(* What the open reservations hold.                                          *)

\* Only stocked SKUs are held; nothing is deleted without the TTL policy.
OpenStocked ==
    \A r \in Reservation :
        /\ book[r].status = "reserved" => DOMAIN book[r].lines \subseteq Stocked
        /\ TtlPolicy = FALSE => book[r].status # "purged"

\* The open reservations hold no more than the counter says, and without the TTL policy
\* exactly that.
HeldCounted ==
    \A s \in Stocked :
        /\ IsFiniteSet(Book!Pieces(s))
        /\ Cardinality(Book!Pieces(s)) <= stock[s].reserved
        /\ TtlPolicy = FALSE => stock[s].reserved = Cardinality(Book!Pieces(s))

BookInv == TypeOK /\ WellFormed /\ NoOversell /\ OpenStocked /\ HeldCounted

\* The pieces of s are its blocks, one of each reservation that holds some.
LEMMA PiecesFacts ==
    ASSUME TypeOK, WellFormed, NEW s \in Stocked
    PROVE  /\ Book!Pieces(s) = UNION {Block(r, book[r].lines[s]) : r \in Book!Holding(s)}
           /\ \A r \in Book!Holding(s) : /\ r \in Reservation /\ book[r].status = "reserved"
                                         /\ s \in DOMAIN book[r].lines
                                         /\ book[r].lines[s] \in Nat \ {0}
                                         /\ Block(r, book[r].lines[s]) \subseteq Book!Pieces(s)
<1>1. \A r \in Book!Holding(s) : /\ r \in Reservation /\ book[r].status = "reserved"
                                 /\ s \in DOMAIN book[r].lines
  BY DEF Book!Holding
<1>2. \A r \in Book!Holding(s) : book[r].lines \in Basket
  BY <1>1 DEF WellFormed, Exists
<1> QED
  BY <1>1, <1>2, LinesFacts DEF Book!Pieces, Block

LEMMA InitBookInv == Init => BookInv
<1> SUFFICES ASSUME Init PROVE BookInv
  OBVIOUS
<1>1. TypeOK /\ WellFormed
  BY InitIInv DEF IInv
<1>2. NoOversell
  BY OnHandAssumption, SameDocs DEF Init, NoOversell, Book!NoOversell, StockDoc
<1>3. \A r \in Reservation : book[r].status = "absent"
  BY DEF Init, NoReservation
<1>4. \A s \in Stocked : Book!Pieces(s) = {} /\ stock[s].reserved = 0
  BY <1>3 DEF Book!Pieces, Book!Holding, Init, StockDoc
<1>5. IsFiniteSet({}) /\ Cardinality({}) = 0
  BY FS_EmptySet
<1> QED
  BY <1>1, <1>2, <1>3, <1>4, <1>5 DEF BookInv, OpenStocked, HeldCounted

LEMMA ReserveBookInv ==
    ASSUME BookInv, NEW r \in Reservation, NEW o \in OrderRef, NEW b \in Basket, Book!Reserve(r, o, b)
    PROVE  OpenStocked' /\ HeldCounted'
<1>1. /\ book \in [Reservation -> Reservations] /\ book' = [book EXCEPT ![r] = Reserved(o, b)]
      /\ book[r].status \in {"absent", "purged"}
      /\ DOMAIN b \subseteq Stocked
      /\ stock' = [s \in Stocked |-> IF s \in DOMAIN b THEN Adjusted("reserve", stock[s], b[s])
                                                       ELSE stock[s]]
  BY SameDocs DEF BookInv, TypeOK, Book!Reserve, Book!Exists, Book!AdjustStock
<1>2. PICK d : d = Reserved(o, b)
  OBVIOUS
<1>3. d.status = "reserved" /\ d.lines = b
  BY <1>2 DEF Reserved
<1>4. \A i \in Reservation : IF i = r THEN book'[i] = d ELSE book'[i] = book[i]
  BY <1>1, <1>2
<1>5. OpenStocked'
  BY <1>1, <1>3, <1>4 DEF BookInv, OpenStocked
<1>6. ASSUME NEW s \in Stocked
      PROVE  /\ IsFiniteSet(Book!Pieces(s)')
             /\ Cardinality(Book!Pieces(s)') <= stock'[s].reserved
             /\ TtlPolicy = FALSE => stock'[s].reserved = Cardinality(Book!Pieces(s)')
  <2>1. /\ IsFiniteSet(Book!Pieces(s)) /\ Cardinality(Book!Pieces(s)) <= stock[s].reserved
        /\ TtlPolicy = FALSE => stock[s].reserved = Cardinality(Book!Pieces(s))
        /\ stock[s] \in Docs /\ Cardinality(Book!Pieces(s)) \in Nat
    BY FS_CardinalityType DEF BookInv, HeldCounted, TypeOK
  <2>2. Book!Holding(s)' = IF s \in DOMAIN b THEN Book!Holding(s) \cup {r} ELSE Book!Holding(s)
    BY <1>1, <1>3, <1>4 DEF Book!Holding
  <2>3. r \notin Book!Holding(s)
    BY <1>1 DEF Book!Holding
  <2>4. CASE s \notin DOMAIN b
    <3>1. Book!Pieces(s)' = Book!Pieces(s)
      BY <1>4, <2>2, <2>3, <2>4 DEF Book!Pieces, Book!Holding
    <3> QED
      BY <1>1, <2>1, <2>4, <3>1
  <2>5. CASE s \in DOMAIN b
    <3>1. b[s] \in Nat
      BY <2>5, LinesFacts
    <3>2. Book!Pieces(s)' = Book!Pieces(s) \cup Block(r, b[s])
      BY <1>3, <1>4, <2>2, <2>3, <2>5 DEF Book!Pieces, Book!Holding, Block
    <3>3. Block(r, b[s]) \cap Book!Pieces(s) = {}
      BY <2>3 DEF Book!Pieces, Block
    <3>4. stock'[s].reserved = stock[s].reserved + b[s]
      BY <1>1, <2>5 DEF Adjusted, StockDoc
    <3>5. /\ IsFiniteSet(Book!Pieces(s)')
          /\ Cardinality(Book!Pieces(s)') = Cardinality(Book!Pieces(s)) + b[s]
      BY <2>1, <3>1, <3>2, <3>3, AddBlock
    <3> QED
      BY <2>1, <3>1, <3>4, <3>5 DEF Docs
  <2> QED
    BY <2>4, <2>5
<1> QED
  BY <1>5, <1>6 DEF HeldCounted

LEMMA SettleBookInv ==
    ASSUME BookInv, NEW r \in Reservation, NEW op \in {"commit", "release"}, Book!Settle(op, r)
    PROVE  OpenStocked' /\ HeldCounted'
<1>1. /\ book \in [Reservation -> Reservations] /\ book[r].status = "reserved"
      /\ book' = [book EXCEPT ![r].status = Final(op)]
      /\ stock' = [s \in Stocked |-> IF s \in DOMAIN book[r].lines
                                     THEN Adjusted(op, stock[s], book[r].lines[s]) ELSE stock[s]]
  <2>1. book \in [Reservation -> Reservations] /\ Book!AdjustStock(op, book[r].lines)
        /\ book[r].status = "reserved" /\ book' = [book EXCEPT ![r].status = Book!Final(op)]
    BY DEF BookInv, TypeOK, Book!Settle
  <2>2. Book!Final(op) = Final(op)
    BY SameDocs
  <2>3. stock' = [s \in Stocked |-> IF s \in DOMAIN book[r].lines
                                    THEN Adjusted(op, stock[s], book[r].lines[s]) ELSE stock[s]]
    BY <2>1, SameDocs DEF Book!AdjustStock
  <2> QED
    BY <2>1, <2>2, <2>3
<1>2. PICK d : d = [book[r] EXCEPT !.status = Final(op)]
  OBVIOUS
<1>3. d.status \in {"committed", "released"} /\ d.lines = book[r].lines
  BY <1>1, <1>2 DEF Reservations, Final
<1>4. \A i \in Reservation : IF i = r THEN book'[i] = d ELSE book'[i] = book[i]
  BY <1>1, <1>2
<1>5. OpenStocked'
  BY <1>3, <1>4 DEF BookInv, OpenStocked
<1>6. ASSUME NEW s \in Stocked
      PROVE  /\ IsFiniteSet(Book!Pieces(s)')
             /\ Cardinality(Book!Pieces(s)') <= stock'[s].reserved
             /\ TtlPolicy = FALSE => stock'[s].reserved = Cardinality(Book!Pieces(s)')
  <2>1. /\ IsFiniteSet(Book!Pieces(s)) /\ Cardinality(Book!Pieces(s)) <= stock[s].reserved
        /\ TtlPolicy = FALSE => stock[s].reserved = Cardinality(Book!Pieces(s))
        /\ stock[s] \in Docs /\ Cardinality(Book!Pieces(s)) \in Nat
    BY FS_CardinalityType DEF BookInv, HeldCounted, TypeOK
  <2>2. Book!Holding(s)' = Book!Holding(s) \ {r}
    BY <1>3, <1>4 DEF Book!Holding
  <2>3. CASE s \notin DOMAIN book[r].lines
    <3>1. r \notin Book!Holding(s)
      BY <2>3 DEF Book!Holding
    <3>2. Book!Pieces(s)' = Book!Pieces(s)
      BY <1>4, <2>2, <3>1 DEF Book!Pieces, Book!Holding
    <3> QED
      BY <1>1, <2>1, <2>3, <3>2
  <2>4. CASE s \in DOMAIN book[r].lines
    <3> DEFINE n == book[r].lines[s]
    <3>1. r \in Book!Holding(s)
      BY <1>1, <2>4 DEF Book!Holding
    <3>2. n \in Nat /\ Block(r, n) \subseteq Book!Pieces(s)
      BY <3>1, PiecesFacts DEF BookInv
    <3>3. Book!Pieces(s)' = Book!Pieces(s) \ Block(r, n)
      BY <1>4, <2>2, <3>1 DEF Book!Pieces, Book!Holding, Block
    <3>4. stock'[s].reserved = stock[s].reserved - n
      BY <1>1, <2>4 DEF Adjusted, StockDoc
    <3> HIDE DEF n
    <3>5. /\ IsFiniteSet(Book!Pieces(s)')
          /\ Cardinality(Book!Pieces(s)') = Cardinality(Book!Pieces(s)) - n
      <4>1. /\ IsFiniteSet(Book!Pieces(s) \ Block(r, n))
            /\ Cardinality(Book!Pieces(s) \ Block(r, n)) = Cardinality(Book!Pieces(s)) - n
        BY <2>1, <3>2, TakeBlock
      <4> QED
        BY <3>3, <4>1
    <3> QED
      BY <2>1, <3>2, <3>4, <3>5 DEF Docs
  <2> QED
    BY <2>3, <2>4
<1> QED
  BY <1>5, <1>6 DEF HeldCounted

LEMMA PurgeBookInv ==
    ASSUME BookInv, NEW r \in Reservation, Book!Purge(r)
    PROVE  OpenStocked' /\ HeldCounted'
<1>1. /\ book \in [Reservation -> Reservations] /\ TtlPolicy = TRUE
      /\ book' = [book EXCEPT ![r] = Purged] /\ UNCHANGED stock
  BY TtlAssumption, SameDocs DEF BookInv, TypeOK, Book!Purge
<1>2. Purged.status = "purged"
  BY DEF Purged
<1>3. \A i \in Reservation : IF i = r THEN book'[i] = Purged ELSE book'[i] = book[i]
  BY <1>1
<1>4. OpenStocked'
  BY <1>1, <1>2, <1>3 DEF BookInv, OpenStocked
<1>5. ASSUME NEW s \in Stocked
      PROVE  IsFiniteSet(Book!Pieces(s)') /\ Cardinality(Book!Pieces(s)') <= stock[s].reserved
  <2>1. Book!Holding(s)' \subseteq Book!Holding(s) /\ r \notin Book!Holding(s)'
    BY <1>2, <1>3 DEF Book!Holding
  <2>2. Book!Pieces(s)' \subseteq Book!Pieces(s)
    BY <1>3, <2>1 DEF Book!Pieces, Book!Holding
  <2>3. /\ IsFiniteSet(Book!Pieces(s)) /\ Cardinality(Book!Pieces(s)) <= stock[s].reserved
        /\ stock[s] \in Docs /\ Cardinality(Book!Pieces(s)) \in Nat
    BY FS_CardinalityType DEF BookInv, HeldCounted, TypeOK
  <2>4. IsFiniteSet(Book!Pieces(s)') /\ Cardinality(Book!Pieces(s)') \in Nat
        /\ Cardinality(Book!Pieces(s)') <= Cardinality(Book!Pieces(s))
    BY <2>2, <2>3, FS_Subset, FS_CardinalityType
  <2> QED
    BY <2>3, <2>4 DEF Docs
<1> QED
  BY <1>1, <1>4, <1>5 DEF HeldCounted

LEMMA NextBookInv == IInv /\ BookInv /\ [Next]_vars => BookInv'
<1> SUFFICES ASSUME IInv, BookInv, [Next]_vars PROVE BookInv'
  OBVIOUS
<1>1. TypeOK' /\ WellFormed' /\ [Book!Next]_(Book!vars)
  BY NextIInv, NextBook DEF IInv
<1>2. NoOversell'
  BY <1>1, BookNoOversell DEF BookInv
<1>3. ASSUME UNCHANGED <<stock, book>>
      PROVE  OpenStocked' /\ HeldCounted'
  BY <1>3 DEF BookInv, OpenStocked, HeldCounted, Book!Pieces, Book!Holding
<1>4. OpenStocked' /\ HeldCounted'
  BY <1>1, <1>3, ReserveBookInv, SettleBookInv, PurgeBookInv
     DEF Book!Next, Book!Commit, Book!Release, Book!vars
<1> QED
  BY <1>1, <1>2, <1>4 DEF BookInv

\* Counters and reservations agree, as far as the TTL policy lets them.
THEOREM BookInvariance == Spec => []BookInv
BY InitBookInv, NextBookInv, Invariance, PTL DEF Spec

\* Without the TTL policy the counter of every SKU is what the open reservations hold.
THEOREM CountersAccounted == ASSUME TtlPolicy = FALSE PROVE Spec => []ReservedAccounted
<1>1. BookInv => ReservedAccounted
  BY SameDocs, SameCardinality DEF BookInv, HeldCounted, ReservedAccounted, Book!ReservedAccounted
<1> QED
  BY <1>1, BookInvariance, PTL

\* With the policy or without, the counters cover every open reservation, so that it can
\* be committed or released.
THEOREM ClaimsSettle == Spec => []ClaimsCanSettle
<1>1. BookInv => ClaimsCanSettle
  <2> SUFFICES ASSUME BookInv, NEW r \in Reservation, book[r].status = "reserved",
                      NEW s \in DOMAIN book[r].lines
               PROVE  Book!StockOk("commit", stock[s], book[r].lines[s])
    BY DEF ClaimsCanSettle, Book!ClaimsCanSettle
  <2>1. s \in Stocked /\ r \in Book!Holding(s)
    BY DEF BookInv, OpenStocked, Book!Holding
  <2>2. book[r].lines[s] \in Nat /\ Block(r, book[r].lines[s]) \subseteq Book!Pieces(s)
    BY <2>1, PiecesFacts DEF BookInv
  <2>3. /\ IsFiniteSet(Book!Pieces(s)) /\ Cardinality(Book!Pieces(s)) \in Nat
        /\ Cardinality(Book!Pieces(s)) <= stock[s].reserved
        /\ stock[s].reserved <= stock[s].onHand /\ stock[s] \in Docs
    BY <2>1, FS_CardinalityType, SameDocs
       DEF BookInv, HeldCounted, NoOversell, Book!NoOversell, TypeOK
  <2>4. book[r].lines[s] <= Cardinality(Book!Pieces(s))
    BY <2>2, <2>3, TakeBlock
  <2>5. StockOk("commit", stock[s], book[r].lines[s])
    BY <2>2, <2>3, <2>4 DEF StockOk, Docs
  <2> QED
    BY <2>5, SameDocs
<1> QED
  BY <1>1, BookInvariance, PTL

-----------------------------------------------------------------------------
(* The refinement of StockLedger: what was sold is what left the stock, and  *)
(* the claims are the reservations.                                          *)

Claims == [r \in Reservation |-> [status |-> book[r].status, lines |-> book[r].lines]]
SoldPieces == [s \in Stocked |-> OnHand0[s] - stock[s].onHand]

\* The ledger's names are those of StockBook, under the mapping.
LEMMA SameLedger ==
    /\ Book!Ledger!Init <=> /\ SoldPieces = [s \in Stocked |-> 0]
                            /\ Claims = [r \in Reservation |-> [status |-> "absent", lines |-> Empty]]
    /\ \A s : Book!Ledger!Held(s) = Cardinality(Book!Pieces(s))
<1>1. \A s : Book!Ledger!Holding(s) = Book!Holding(s)
  BY DEF Book!Ledger!Holding, Book!Holding
<1>2. \A s : Book!Ledger!Held(s) = Cardinality(Book!Pieces(s))
  BY <1>1, SameCardinality DEF Book!Ledger!Held, Book!Pieces, Book!Holding
<1> QED
  BY <1>2 DEF Book!Ledger!Init, Book!Ledger!Free, Book!Ledger!Nothing, Book!Stocked, Stocked,
              Claims, SoldPieces, Empty

LEMMA InitLedger == Init => Book!Ledger!Init
<1> SUFFICES ASSUME Init PROVE Book!Ledger!Init
  OBVIOUS
<1>1. SoldPieces = [s \in Stocked |-> 0]
  BY OnHandAssumption DEF Init, SoldPieces, StockDoc
<1>2. Claims = [r \in Reservation |-> [status |-> "absent", lines |-> Empty]]
  BY DEF Init, Claims, NoReservation
<1> QED
  BY <1>1, <1>2, SameLedger

\* Every indivisible operation on the documents is one of the ledger.
LEMMA StepLedger ==
    ASSUME TtlPolicy = FALSE, BookInv, BookInv', [Book!Next]_(Book!vars)
    PROVE  [Book!Ledger!Next]_(Book!Ledger!vars)
<1>1. /\ book \in [Reservation -> Reservations] /\ stock \in [Stocked -> Docs]
      /\ stock' \in [Stocked -> Docs] /\ OnHand0 \in [Stocked -> Nat]
  BY OnHandAssumption DEF BookInv, TypeOK
<1>2. CASE UNCHANGED <<stock, book>>
  BY <1>2 DEF Book!Ledger!vars
<1>3. ASSUME NEW r \in Reservation, NEW o \in OrderRef, NEW b \in Basket, Book!Reserve(r, o, b)
      PROVE  Book!Ledger!Grant(r, b)
  <2>1. /\ book[r].status = "absent" /\ book' = [book EXCEPT ![r] = Reserved(o, b)]
        /\ \A s \in DOMAIN b : s \in Stocked /\ StockOk("reserve", stock[s], b[s])
        /\ stock' = [s \in Stocked |-> IF s \in DOMAIN b THEN Adjusted("reserve", stock[s], b[s])
                                                         ELSE stock[s]]
    BY <1>3, SameDocs DEF Book!Reserve, Book!Exists, Book!AdjustStock, BookInv, OpenStocked
  <2>2. UNCHANGED SoldPieces
    BY <1>1, <2>1 DEF SoldPieces, Adjusted, StockDoc
  <2>3. Claims' = [Claims EXCEPT ![r] = [status |-> "reserved", lines |-> b]]
    BY <1>1, <2>1 DEF Claims, Reserved
  <2>4. ASSUME NEW s \in DOMAIN b
        PROVE  SoldPieces[s] + Cardinality(Book!Pieces(s)) + b[s] <= OnHand0[s]
    <3>1. /\ s \in Stocked /\ stock[s] \in Docs /\ OnHand0[s] \in Nat /\ b[s] \in Nat
          /\ stock[s].reserved = Cardinality(Book!Pieces(s))
          /\ stock[s].onHand - stock[s].reserved >= b[s]
      BY <1>1, <2>1, <2>4, LinesFacts DEF StockOk, BookInv, HeldCounted
    <3> QED
      BY <3>1 DEF SoldPieces, Docs
  <2>5. Claims[r].status = "absent"
    BY <2>1 DEF Claims
  <2>6. \A s \in DOMAIN b : s \in Stocked
    BY <2>1
  <2> QED
    BY <2>2, <2>3, <2>4, <2>5, <2>6, SameLedger
       DEF Book!Ledger!Grant, Book!Stocked, Stocked, Claims, SoldPieces
<1>4. ASSUME NEW r \in Reservation, NEW op \in {"commit", "release"}, Book!Settle(op, r)
      PROVE  Book!Ledger!Sell(r) \/ Book!Ledger!GiveBack(r)
  <2>1. /\ book[r].status = "reserved" /\ book' = [book EXCEPT ![r].status = Final(op)]
        /\ stock' = [s \in Stocked |-> IF s \in DOMAIN book[r].lines
                                       THEN Adjusted(op, stock[s], book[r].lines[s]) ELSE stock[s]]
    <3>1. Book!Final(op) = Final(op)
      BY SameDocs
    <3>2. Book!AdjustStock(op, book[r].lines)
      BY <1>4 DEF Book!Settle
    <3>3. stock' = [s \in Stocked |-> IF s \in DOMAIN book[r].lines
                                      THEN Adjusted(op, stock[s], book[r].lines[s]) ELSE stock[s]]
      BY <3>2, SameDocs DEF Book!AdjustStock
    <3> QED
      BY <1>4, <3>1, <3>3 DEF Book!Settle
  <2>2. Claims[r].status = "reserved" /\ Claims[r].lines = book[r].lines
    BY <2>1 DEF Claims
  <2>3. Claims' = [Claims EXCEPT ![r].status = Final(op)]
    BY <1>1, <2>1 DEF Claims, Reservations
  <2>4. CASE op = "commit"
    <3>1. book[r].lines \in Basket
      BY <2>1 DEF BookInv, WellFormed, Exists
    <3>2. SoldPieces' = [s \in Stocked |-> IF s \in DOMAIN book[r].lines
                                           THEN SoldPieces[s] + book[r].lines[s]
                                           ELSE SoldPieces[s]]
      <4>1. ASSUME NEW s \in Stocked, s \in DOMAIN book[r].lines
            PROVE  OnHand0[s] - stock'[s].onHand = OnHand0[s] - stock[s].onHand + book[r].lines[s]
        <5>1. /\ stock'[s].onHand = stock[s].onHand - book[r].lines[s]
              /\ stock[s].onHand \in Int /\ OnHand0[s] \in Int
          BY <1>1, <2>1, <2>4, <4>1 DEF Adjusted, StockDoc, Docs
        <5>2. book[r].lines[s] \in Int
          BY <3>1, <4>1, LinesFacts
        <5> QED
          BY <5>1, <5>2
      <4> QED
        BY <2>1, <4>1 DEF SoldPieces
    <3>3. Final(op) = "committed"
      BY <2>4 DEF Final
    <3> QED
      BY <2>2, <2>3, <3>2, <3>3, SameDocs DEF Book!Ledger!Sell, Claims, SoldPieces
  <2>5. CASE op = "release"
    <3>1. UNCHANGED SoldPieces
      BY <1>1, <2>1, <2>5 DEF SoldPieces, Adjusted, StockDoc
    <3>2. Final(op) = "released"
      BY <2>5 DEF Final
    <3> QED
      BY <2>2, <2>3, <3>1, <3>2, SameDocs DEF Book!Ledger!GiveBack, Claims, SoldPieces
  <2> QED
    BY <2>4, <2>5
<1>5. ASSUME NEW r \in Reservation, Book!Purge(r)
      PROVE  FALSE
  BY <1>5 DEF Book!Purge
<1> QED
  BY <1>2, <1>3, <1>4, <1>5
     DEF Book!Next, Book!vars, Book!Commit, Book!Release, Book!Ledger!Next

\* Callers are promised a ledger without counters, and without the TTL policy they get it:
\* a claim is granted exactly within what was never sold and is not held.
THEOREM LedgerKept == ASSUME TtlPolicy = FALSE PROVE Spec => ImplementsLedger
<1>1. IInv /\ BookInv /\ BookInv' /\ [Next]_vars => [Book!Ledger!Next]_(Book!Ledger!vars)
  BY NextBook, StepLedger
<1> QED
  BY <1>1, InitLedger, Invariance, BookInvariance, PTL
     DEF Spec, ImplementsLedger, Book!ImplementsLedger, Book!Ledger!Spec

-----------------------------------------------------------------------------
(* The event stream.  Between its transaction and its last event a request   *)
(* owes events; with those, the deltas published add up to the stock.        *)

Emitting(op, s) == {p \in Request : tx[p].pc = "emit" /\ tx[p].op = op /\ s \in DOMAIN writes[p]}

\* The pieces of s whose event by an operation op is still to be published.
Owed(op, s) == UNION {Block(p, tx[p].doc.lines[s]) : p \in Emitting(op, s)}
HowMany(op, s) == Cardinality(Owed(op, s))

Operations == {"reserve", "commit", "release"}

EventsOwed ==
    \A s \in Stocked :
        /\ \A op \in Operations : IsFiniteSet(Owed(op, s))
        /\ s \notin missed =>
              /\ stock[s].onHand = OnHand0[s] + published[s].onHand - HowMany("commit", s)
              /\ stock[s].reserved = published[s].reserved + HowMany("reserve", s)
                                     - HowMany("commit", s) - HowMany("release", s)

LEMMA OwedFacts ==
    ASSUME IInv, NEW s \in Stocked, NEW op \in Operations
    PROVE  \A p \in Emitting(op, s) : /\ p \in Request /\ tx[p].doc.lines[s] \in Nat
                                      /\ Block(p, tx[p].doc.lines[s]) \subseteq Owed(op, s)
<1> SUFFICES ASSUME NEW p \in Emitting(op, s)
             PROVE  /\ p \in Request /\ tx[p].doc.lines[s] \in Nat
                    /\ Block(p, tx[p].doc.lines[s]) \subseteq Owed(op, s)
  OBVIOUS
<1>1. p \in Request /\ tx[p].pc = "emit" /\ s \in DOMAIN writes[p]
  BY DEF Emitting
<1>2. tx[p].doc.lines \in Basket /\ s \in DOMAIN tx[p].doc.lines
  BY <1>1 DEF IInv, WellFormed, WellFormedTx
<1> QED
  BY <1>1, <1>2, LinesFacts DEF Owed

\* A step owes what was owed as long as the requests that emit s stay and no other joins.
LEMMA OwedSame ==
    ASSUME NEW s, NEW op,
           \A p \in Request : /\ (p \in Emitting(op, s)') <=> (p \in Emitting(op, s))
                              /\ p \in Emitting(op, s) => tx'[p].doc = tx[p].doc
    PROVE  Owed(op, s)' = Owed(op, s)
<1>1. Emitting(op, s)' = Emitting(op, s)
  BY DEF Emitting
<1>2. \A p \in Emitting(op, s) : p \in Request
  BY DEF Emitting
<1>3. \A p \in Emitting(op, s) : Block(p, tx'[p].doc.lines[s]) = Block(p, tx[p].doc.lines[s])
  BY <1>2
<1> QED
  BY <1>1, <1>3 DEF Owed, Block

\* Steps that publish nothing, write no stock and drop no event.
LEMMA QuietEvents ==
    ASSUME EventsOwed, UNCHANGED <<stock, published>>, missed \subseteq missed',
           \A p \in Request, s \in Stocked, op \in Operations :
               /\ s \notin missed' => (p \in Emitting(op, s)' <=> p \in Emitting(op, s))
               /\ p \in Emitting(op, s)' => p \in Emitting(op, s)
               /\ p \in Emitting(op, s)' => tx'[p].doc = tx[p].doc
    PROVE  EventsOwed'
<1> SUFFICES ASSUME NEW s \in Stocked
             PROVE  /\ \A op \in Operations : IsFiniteSet(Owed(op, s)')
                    /\ s \notin missed' => \A op \in Operations : Owed(op, s)' = Owed(op, s)
  BY DEF EventsOwed, HowMany, Operations
<1>1. ASSUME NEW op \in Operations
      PROVE  IsFiniteSet(Owed(op, s)')
  <2>1. IsFiniteSet(Owed(op, s))
    BY DEF EventsOwed
  <2>2. Emitting(op, s)' \subseteq Emitting(op, s) /\ Emitting(op, s)' \subseteq Request
    BY DEF Emitting
  <2>3. \A p \in Emitting(op, s)' : Block(p, tx'[p].doc.lines[s]) = Block(p, tx[p].doc.lines[s])
    BY <2>2
  <2>4. Owed(op, s)' \subseteq Owed(op, s)
    BY <2>2, <2>3 DEF Owed, Block
  <2> QED
    BY <2>1, <2>4, FS_Subset
<1>2. ASSUME NEW op \in Operations, s \notin missed'
      PROVE  Owed(op, s)' = Owed(op, s)
  BY <1>2, OwedSame
<1> QED
  BY <1>1, <1>2

\* A transaction is applied: its request owes one event per line.
LEMMA ApplyEvents ==
    ASSUME IInv, EventsOwed, NEW p \in Request, Apply(p)
    PROVE  EventsOwed'
<1> PICK t : t = tx[p]
  OBVIOUS
<1> PICK o : o = t.op
  OBVIOUS
<1>1. /\ t \in Transactions /\ t.pc = "apply" /\ ~t.stale /\ t.id \in Reservation
      /\ o \in Operations /\ StockWrites(writes[p]) /\ WellFormedTx(t, writes[p])
      /\ Current(t, writes[p]) /\ t.doc.lines \in Basket
      /\ DOMAIN writes[p] = DOMAIN t.doc.lines
      /\ UNCHANGED <<writes, published, missed>>
  BY DEF Apply, IInv, TypeOK, WellFormed, WellFormedTx, ReadsCurrent, Transactions, Operations
<1>2. \A q \in Request \ {p} : tx'[q].pc = tx[q].pc /\ tx'[q].op = tx[q].op /\ tx'[q].doc = tx[q].doc
  <2> SUFFICES ASSUME NEW q \in Request \ {p}
               PROVE  tx'[q].pc = tx[q].pc /\ tx'[q].op = tx[q].op /\ tx'[q].doc = tx[q].doc
    OBVIOUS
  <2>1. tx[q] \in Transactions /\ tx'[q] = Outdate(q, t.id, DOMAIN writes[p])
    BY DEF Apply, IInv, TypeOK
  <2> QED
    BY <2>1 DEF Outdate, Transactions
<1>3. tx'[p].pc = "emit" /\ tx'[p].op = o /\ tx'[p].doc = t.doc
  BY <1>1 DEF Apply, Transactions
<1> SUFFICES ASSUME NEW s \in Stocked
             PROVE  /\ \A op \in Operations : IsFiniteSet(Owed(op, s)')
                    /\ s \notin missed' =>
                          /\ stock'[s].onHand = OnHand0[s] + published'[s].onHand - HowMany("commit", s)'
                          /\ stock'[s].reserved = published'[s].reserved + HowMany("reserve", s)'
                                 - HowMany("commit", s)' - HowMany("release", s)'
  BY DEF EventsOwed
<1>4. /\ \A op \in Operations : IsFiniteSet(Owed(op, s)) /\ HowMany(op, s) \in Nat
      /\ stock[s] \in Docs /\ OnHand0[s] \in Nat /\ published[s].onHand \in Int /\ published[s].reserved \in Int
  BY OnHandAssumption, FS_CardinalityType DEF EventsOwed, HowMany, IInv, TypeOK
<1>5. CASE s \notin DOMAIN writes[p]
  <2>1. \A op \in Operations : Owed(op, s)' = Owed(op, s)
    <3> SUFFICES ASSUME NEW op \in Operations PROVE Owed(op, s)' = Owed(op, s)
      OBVIOUS
    <3>1. \A q \in Request : /\ (q \in Emitting(op, s)') <=> (q \in Emitting(op, s))
                             /\ q \in Emitting(op, s) => tx'[q].doc = tx[q].doc
      BY <1>1, <1>2, <1>3, <1>5 DEF Emitting
    <3> QED
      BY <3>1, OwedSame
  <2>2. stock'[s] = stock[s]
    BY <1>5 DEF Apply
  <2> QED
    BY <1>1, <1>4, <2>1, <2>2 DEF EventsOwed, HowMany, Operations
<1>6. CASE s \in DOMAIN writes[p]
  <2> PICK n : n = t.doc.lines[s]
    OBVIOUS
  <2>1. n \in Nat /\ stock'[s] = Adjusted(o, stock[s], n)
    <3>1. stock'[s] = writes[p][s] /\ writes[p][s] = Adjusted(o, stock[s], n)
      BY <1>1, <1>6 DEF Apply, Current
    <3> QED
      BY <1>1, <1>6, <3>1, LinesFacts
  <2>2. ASSUME NEW op \in Operations
        PROVE  Owed(op, s)' = IF op = o THEN Owed(op, s) \cup Block(p, n) ELSE Owed(op, s)
    <3>1. p \notin Emitting(op, s)
      BY <1>1 DEF Emitting
    <3>2. \A q \in Emitting(op, s) : q \in Request \ {p}
      BY <3>1 DEF Emitting
    <3>3. Emitting(op, s)' = IF op = o THEN Emitting(op, s) \cup {p} ELSE Emitting(op, s)
      BY <1>1, <1>2, <1>3, <1>6 DEF Emitting
    <3>4. \A q \in Emitting(op, s) : tx'[q].doc.lines[s] = tx[q].doc.lines[s]
      BY <1>2, <3>2
    <3>5. tx'[p].doc.lines[s] = n
      BY <1>3
    <3> QED
      BY <3>3, <3>4, <3>5 DEF Owed, Block
  <2>3. Block(p, n) \cap Owed(o, s) = {}
    BY <1>1 DEF Owed, Emitting, Block
  <2>4. IsFiniteSet(Owed(o, s)') /\ HowMany(o, s)' = HowMany(o, s) + n
    <3>1. /\ IsFiniteSet(Owed(o, s) \cup Block(p, n))
          /\ Cardinality(Owed(o, s) \cup Block(p, n)) = HowMany(o, s) + n
      <4>1. n \in Nat /\ IsFiniteSet(Owed(o, s))
        BY <1>1, <1>4, <2>1
      <4>2. PICK P : P = Owed(o, s)
        OBVIOUS
      <4>3. IsFiniteSet(P \cup Block(p, n)) /\ Cardinality(P \cup Block(p, n)) = Cardinality(P) + n
        BY <2>3, <4>1, <4>2, AddBlock
      <4> QED
        BY <4>2, <4>3 DEF HowMany
    <3> QED
      BY <1>1, <2>2, <3>1 DEF HowMany
  <2>5. \A op \in Operations \ {o} : IsFiniteSet(Owed(op, s)') /\ HowMany(op, s)' = HowMany(op, s)
    BY <1>4, <2>2 DEF HowMany
  <2>6. s \notin missed =>
           /\ stock[s].onHand = OnHand0[s] + published[s].onHand - HowMany("commit", s)
           /\ stock[s].reserved = published[s].reserved + HowMany("reserve", s)
                                  - HowMany("commit", s) - HowMany("release", s)
    BY DEF EventsOwed
  <2>7. CASE o = "reserve"
    BY <1>1, <1>4, <2>1, <2>4, <2>5, <2>6, <2>7 DEF Operations, Adjusted, StockDoc, Docs
  <2>8. CASE o = "commit"
    BY <1>1, <1>4, <2>1, <2>4, <2>5, <2>6, <2>8 DEF Operations, Adjusted, StockDoc, Docs
  <2>9. CASE o = "release"
    BY <1>1, <1>4, <2>1, <2>4, <2>5, <2>6, <2>9 DEF Operations, Adjusted, StockDoc, Docs
  <2> QED
    BY <1>1, <2>7, <2>8, <2>9 DEF Operations
<1> QED
  BY <1>5, <1>6

\* An event is published: it is owed no more.
LEMMA PublishEvents ==
    ASSUME IInv, EventsOwed, NEW p \in Request, NEW x \in Sku, PublishEvent(p, x)
    PROVE  EventsOwed'
<1> PICK t : t = tx[p]
  OBVIOUS
<1> PICK o : o = t.op
  OBVIOUS
<1> PICK n : n = t.doc.lines[x]
  OBVIOUS
<1>1. /\ t \in Transactions /\ t.pc = "emit" /\ o \in Operations
      /\ x \in DOMAIN writes[p] /\ x \in Stocked /\ t.doc.lines \in Basket
      /\ DOMAIN writes[p] \subseteq DOMAIN t.doc.lines
      /\ UNCHANGED <<stock, book, missed>>
  BY DEF PublishEvent, IInv, TypeOK, WellFormed, WellFormedTx, StockWrites, Transactions, Operations
<1>2. n \in Nat
  BY <1>1, LinesFacts
<1>3. \A q \in Request \ {p} : tx'[q] = tx[q] /\ writes'[q] = writes[q]
  BY DEF PublishEvent, IInv, TypeOK
<1>4. /\ DOMAIN writes'[p] = DOMAIN writes[p] \ {x}
      /\ DOMAIN writes'[p] # {} => tx'[p] = t
      /\ DOMAIN writes'[p] = {} => tx'[p] = Idle
  BY DEF PublishEvent, IInv, TypeOK
<1>5. PICK d : d = Delta(o, n)
  OBVIOUS
<1>6. /\ d.onHand \in Int /\ d.reserved \in Int
      /\ published'[x].onHand = published[x].onHand + d.onHand
      /\ published'[x].reserved = published[x].reserved + d.reserved
      /\ \A s \in Stocked \ {x} : published'[s] = published[s]
  <2>1. published \in [Sku -> [onHand : Int, reserved : Int]] /\ Stocked \subseteq Sku
    BY OnHandAssumption DEF IInv, TypeOK
  <2>2. published' = [published EXCEPT ![x].onHand = @ + d.onHand, ![x].reserved = @ + d.reserved]
    BY <1>5 DEF PublishEvent
  <2>3. d.onHand \in Int /\ d.reserved \in Int
    BY <1>1, <1>2, <1>5 DEF Delta, Operations
  <2> QED
    BY <2>1, <2>2, <2>3
<1> SUFFICES ASSUME NEW s \in Stocked
             PROVE  /\ \A op \in Operations : IsFiniteSet(Owed(op, s)')
                    /\ s \notin missed' =>
                          /\ stock'[s].onHand = OnHand0[s] + published'[s].onHand - HowMany("commit", s)'
                          /\ stock'[s].reserved = published'[s].reserved + HowMany("reserve", s)'
                                 - HowMany("commit", s)' - HowMany("release", s)'
  BY DEF EventsOwed
<1>7. /\ \A op \in Operations : IsFiniteSet(Owed(op, s)) /\ HowMany(op, s) \in Nat
      /\ stock[s] \in Docs /\ OnHand0[s] \in Nat /\ published[s].onHand \in Int /\ published[s].reserved \in Int
  BY OnHandAssumption, FS_CardinalityType DEF EventsOwed, HowMany, IInv, TypeOK
<1>8. CASE s # x
  <2>1. \A op \in Operations : Owed(op, s)' = Owed(op, s)
    <3> SUFFICES ASSUME NEW op \in Operations PROVE Owed(op, s)' = Owed(op, s)
      OBVIOUS
    <3>1. p \in Emitting(op, s)' <=> p \in Emitting(op, s)
      BY <1>1, <1>4, <1>8 DEF Emitting, Idle
    <3>2. p \in Emitting(op, s) => tx'[p].doc = tx[p].doc
      BY <1>4, <1>8 DEF Emitting
    <3>3. \A q \in Request \ {p} : /\ q \in Emitting(op, s)' <=> q \in Emitting(op, s)
                                   /\ tx'[q].doc = tx[q].doc
      BY <1>3 DEF Emitting
    <3> QED
      BY <3>1, <3>2, <3>3, OwedSame
  <2> QED
    BY <1>1, <1>6, <1>8, <2>1 DEF EventsOwed, HowMany, Operations
<1>9. CASE s = x
  <2>1. ASSUME NEW op \in Operations
        PROVE  Owed(op, s)' = IF op = o THEN Owed(op, s) \ Block(p, n) ELSE Owed(op, s)
    <3>1. p \notin Emitting(op, s)'
      BY <1>4, <1>9 DEF Emitting
    <3>2. p \in Emitting(op, s) <=> op = o
      BY <1>1, <1>9 DEF Emitting
    <3>3. Emitting(op, s)' = Emitting(op, s) \ {p}
      BY <1>3, <3>1 DEF Emitting
    <3>4. \A q \in Emitting(op, s) \ {p} : tx'[q].doc.lines[s] = tx[q].doc.lines[s]
      BY <1>3 DEF Emitting
    <3>5. tx[p].doc.lines[s] = n
      BY <1>9
    <3> QED
      BY <3>2, <3>3, <3>4, <3>5 DEF Owed, Block
  <2>2. Block(p, n) \subseteq Owed(o, s)
    BY <1>1, <1>9, OwedFacts DEF Emitting
  <2>3. IsFiniteSet(Owed(o, s)') /\ HowMany(o, s)' = HowMany(o, s) - n
    <3>1. /\ IsFiniteSet(Owed(o, s) \ Block(p, n))
          /\ Cardinality(Owed(o, s) \ Block(p, n)) = HowMany(o, s) - n
      BY <1>1, <1>2, <1>7, <2>2, TakeBlock DEF HowMany
    <3> QED
      BY <1>1, <2>1, <3>1 DEF HowMany
  <2>4. \A op \in Operations \ {o} : IsFiniteSet(Owed(op, s)') /\ HowMany(op, s)' = HowMany(op, s)
    BY <1>7, <2>1 DEF HowMany
  <2>5. s \notin missed =>
           /\ stock[s].onHand = OnHand0[s] + published[s].onHand - HowMany("commit", s)
           /\ stock[s].reserved = published[s].reserved + HowMany("reserve", s)
                                  - HowMany("commit", s) - HowMany("release", s)
    BY DEF EventsOwed
  <2>6. CASE o = "reserve"
    BY <1>1, <1>2, <1>5, <1>6, <1>7, <1>9, <2>3, <2>4, <2>5, <2>6 DEF Operations, Delta
  <2>7. CASE o = "commit"
    BY <1>1, <1>2, <1>5, <1>6, <1>7, <1>9, <2>3, <2>4, <2>5, <2>7 DEF Operations, Delta
  <2>8. CASE o = "release"
    BY <1>1, <1>2, <1>5, <1>6, <1>7, <1>9, <2>3, <2>4, <2>5, <2>8 DEF Operations, Delta
  <2> QED
    BY <1>1, <2>6, <2>7, <2>8 DEF Operations
<1> QED
  BY <1>8, <1>9

LEMMA NextEvents == IInv /\ EventsOwed /\ [Next]_vars => EventsOwed'
<1> SUFFICES ASSUME IInv, EventsOwed, [Next]_vars PROVE EventsOwed'
  OBVIOUS
<1>1. CASE UNCHANGED vars
  BY <1>1, QuietEvents DEF vars, Emitting
\* A request that emits neither before the step nor after it.
<1>2. ASSUME NEW p \in Request, tx[p].pc # "emit",
             \A q \in Request \ {p} : tx'[q] = tx[q] /\ writes'[q] = writes[q],
             tx'[p].pc # "emit", UNCHANGED <<stock, published, missed>>
      PROVE  EventsOwed'
  BY <1>2, QuietEvents DEF Emitting
<1>3. ASSUME NEW p \in Request,
             \/ \E r \in Reservation, o \in OrderRef, b \in Basket : ReserveStocks(p, r, o, b)
             \/ \E r \in Reservation, o \in OrderRef \cup {None} : CommitReservation(p, r, o)
             \/ \E r \in Reservation : ReleaseReservation(p, r)
      PROVE  EventsOwed'
  <2>1. PICK op, r, o, d : Begin(p, op, r, o, d)
    BY <1>3 DEF ReserveStocks, CommitReservation, ReleaseReservation
  <2> QED
    BY <1>2, <2>1 DEF Begin, IInv, TypeOK
<1>4. ASSUME NEW p \in Request, ReadReservation(p) \/ Retry(p) \/ \E s \in Sku : ReadStock(p, s)
      PROVE  EventsOwed'
  <2>1. tx[p] \in Transactions
    BY DEF IInv, TypeOK
  <2>2. CASE Refuse(p)
    BY <1>2, <1>4, <2>2 DEF ReadReservation, Retry, ReadStock, Refuse, Idle, IInv, TypeOK
  <2>3. CASE ~Refuse(p)
    <3>1. /\ tx[p].pc # "emit" /\ UNCHANGED <<stock, published, missed>>
          /\ \E u : tx' = [tx EXCEPT ![p] = u] /\ u.pc # "emit"
          /\ writes' = writes \/ \E w : writes' = [writes EXCEPT ![p] = w]
      <4>1. CASE ReadReservation(p)
        <5>1. PICK d : tx' = [tx EXCEPT ![p] = [tx[p] EXCEPT !.pc = "stock", !.doc = d]]
          BY <2>3, <4>1 DEF ReadReservation
        <5>2. [tx[p] EXCEPT !.pc = "stock", !.doc = d].pc = "stock"
          BY <2>1 DEF Transactions
        <5> QED
          BY <2>3, <4>1, <5>1, <5>2 DEF ReadReservation
      <4>2. CASE Retry(p)
        <5>1. PICK u : /\ tx' = [tx EXCEPT ![p] = u]
                       /\ \E d : u = [tx[p] EXCEPT !.pc = "reservation", !.doc = d,
                                                   !.attempt = @ + 1, !.stale = FALSE]
          BY <2>3, <4>2 DEF Retry
        <5>2. u.pc = "reservation"
          BY <2>1, <5>1 DEF Transactions
        <5> QED
          BY <2>3, <4>2, <5>1, <5>2 DEF Retry
      <4>3. ASSUME NEW s \in Sku, ReadStock(p, s)
            PROVE  /\ tx[p].pc # "emit" /\ UNCHANGED <<stock, published, missed>>
                   /\ \E u : tx' = [tx EXCEPT ![p] = u] /\ u.pc # "emit"
                   /\ writes' = writes \/ \E w : writes' = [writes EXCEPT ![p] = w]
        <5>1. PICK next \in {"stock", "apply"} : tx' = [tx EXCEPT ![p] = [tx[p] EXCEPT !.pc = next]]
          BY <2>3, <4>3 DEF ReadStock
        <5>2. [tx[p] EXCEPT !.pc = next].pc = next
          BY <2>1 DEF Transactions
        <5> QED
          BY <2>3, <4>3, <5>1, <5>2 DEF ReadStock
      <4> QED
        BY <1>4, <4>1, <4>2, <4>3
    <3> QED
      BY <1>2, <3>1 DEF IInv, TypeOK
  <2> QED
    BY <2>2, <2>3
<1>5. ASSUME NEW p \in Request, CutOff(p)
      PROVE  EventsOwed'
  <2>1. /\ \A q \in Request \ {p} : tx'[q] = tx[q] /\ writes'[q] = writes[q]
        /\ tx'[p].pc = "idle" /\ UNCHANGED <<stock, published>> /\ missed \subseteq missed'
        /\ tx[p].pc = "emit" => DOMAIN writes[p] \subseteq missed'
    BY <1>5 DEF CutOff, Idle, IInv, TypeOK
  <2> QED
    BY <2>1, QuietEvents DEF Emitting
<1>6. ASSUME NEW r \in Reservation, PurgeExpired(r)
      PROVE  EventsOwed'
  <2>1. \A q \in Request : tx'[q].pc = tx[q].pc /\ tx'[q].op = tx[q].op /\ tx'[q].doc = tx[q].doc
    <3> SUFFICES ASSUME NEW q \in Request
                 PROVE  tx'[q].pc = tx[q].pc /\ tx'[q].op = tx[q].op /\ tx'[q].doc = tx[q].doc
      OBVIOUS
    <3>1. tx[q] \in Transactions /\ tx'[q] = Outdate(q, r, {})
      BY <1>6 DEF PurgeExpired, IInv, TypeOK
    <3> QED
      BY <3>1 DEF Outdate, Transactions
  <2>2. UNCHANGED <<stock, published, missed, writes>>
    BY <1>6 DEF PurgeExpired
  <2> QED
    BY <2>1, <2>2, QuietEvents DEF Emitting
<1> QED
  BY <1>1, <1>3, <1>4, <1>5, <1>6, ApplyEvents, PublishEvents DEF Next, RequestNext

LEMMA InitEvents == Init => EventsOwed
<1> SUFFICES ASSUME Init, NEW s \in Stocked
             PROVE  /\ \A op \in Operations : IsFiniteSet(Owed(op, s)) /\ HowMany(op, s) = 0
                    /\ stock[s].onHand = OnHand0[s] /\ stock[s].reserved = 0 /\ OnHand0[s] \in Nat
                    /\ published[s].onHand = 0 /\ published[s].reserved = 0
  BY DEF EventsOwed, Operations
<1>1. \A op \in Operations : Owed(op, s) = {}
  BY DEF Init, Idle, Owed, Emitting
<1> QED
  BY <1>1, FS_EmptySet, OnHandAssumption DEF HowMany, Init, StockDoc

\* When all events about a SKU were published, their deltas add up to its stock.
THEOREM EventsAddUp == Spec => []EventsReconcile
<1>1. IInv /\ EventsOwed => EventsReconcile
  <2> SUFFICES ASSUME IInv, EventsOwed, NEW s \in Stocked, s \notin missed,
                      ~ \E p \in Request : tx[p].pc = "emit" /\ s \in DOMAIN writes[p]
               PROVE  /\ stock[s].onHand = OnHand0[s] + published[s].onHand
                      /\ stock[s].reserved = published[s].reserved
    BY DEF EventsReconcile
  <2>1. \A op \in Operations : Owed(op, s) = {}
    BY DEF Owed, Emitting
  <2>2. \A op \in Operations : HowMany(op, s) = 0
    BY <2>1, FS_EmptySet DEF HowMany
  <2>3. OnHand0[s] \in Nat /\ published[s].onHand \in Int /\ published[s].reserved \in Int
    BY OnHandAssumption DEF IInv, TypeOK
  <2> QED
    BY <2>2, <2>3 DEF EventsOwed, Operations
<1> QED
  BY <1>1, InitEvents, NextEvents, Invariance, PTL DEF Spec

=============================================================================
