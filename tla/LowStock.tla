------------------------------ MODULE LowStock ------------------------------
(***************************************************************************)
(* ListLowStock of repositories/firestore/inventory_repository.go: a       *)
(* client walks through the pages of the low-stock list, each one query,   *)
(* while requests change the stock (module StockBook).                     *)
(*                                                                         *)
(* SKUs are numbered in the order of their names.                          *)
(***************************************************************************)
EXTENDS Integers, FiniteSets

CONSTANTS
    Sku, Reservation, OrderRef, Basket, OnHand0, TtlPolicy,  \* see StockDocs
    SafetyStock,    \* [Sku -> pieces that should stay in stock]
    Thresholds,     \* thresholds asked for; 0 asks for what is below its safety stock
    PageSizes,      \* page sizes asked for
    DefaultPage, MaxPage    \* the page size if none is asked for, and at most

VARIABLES
    stock, book,    \* see StockBook
    walk            \* what the client is doing

lowVars == <<stock, book, walk>>

Book == INSTANCE StockBook

ASSUME LowStockAssumption ==
    /\ Sku \subseteq Nat /\ IsFiniteSet(Sku) /\ SafetyStock \in [Sku -> Nat]
    /\ Book!Stocked \subseteq Sku /\ OnHand0 \in [Book!Stocked -> Nat]
    /\ \A b \in Basket : DOMAIN b \subseteq Sku /\ b \in [DOMAIN b -> Nat \ {0}]
    /\ Thresholds \subseteq Nat /\ PageSizes \subseteq Nat
    /\ MaxPage \in Nat /\ DefaultPage \in 1..MaxPage

NoCursor == <<>>
\* listed counts how often the client got the SKU; low, fell and rose are history: the
\* SKUs that were low, moved down and moved up the list since the walk began.
NoWalk == [pc |-> "idle", threshold |-> 0, size |-> 0, after |-> NoCursor,
           listed |-> [s \in Book!Stocked |-> 0], low |-> {}, fell |-> {}, rose |-> {}]

LowStockTypeOK ==
    /\ stock \in [Book!Stocked -> Book!Docs] /\ book \in [Reservation -> Book!Reservations]
    /\ walk \in [pc : {"idle", "walking", "done"}, threshold : Thresholds \cup {0}, size : 0..MaxPage,
                after : {NoCursor} \cup (Int \X Sku), listed : [Book!Stocked -> Nat],
                low : SUBSET Book!Stocked, fell : SUBSET Book!Stocked, rose : SUBSET Book!Stocked]

LowStockInit == Book!Init /\ walk = NoWalk

-----------------------------------------------------------------------------
\* The field that the query compares and orders by: available, or safetyDelta.
Level(available, threshold, s) == available - (IF threshold > 0 THEN 0 ELSE SafetyStock[s])

Low(available, threshold, s) ==
    Level(available, threshold, s) <= (IF threshold > 0 THEN threshold ELSE -1)

\* What the query orders by, and where StartAfter begins.
Place(threshold, s) == <<Level(stock[s].available, threshold, s), s>>
Before(x, y) == x[1] < y[1] \/ (x[1] = y[1] /\ x[2] < y[2])

Limit(size) == CASE size <= 0 -> DefaultPage
                 [] size > MaxPage -> MaxPage
                 [] OTHER -> size

\* The first n of some SKUs, in the order of the query.
Leading(n, threshold, skus) ==
    {s \in skus : Cardinality({t \in skus : Before(Place(threshold, t), Place(threshold, s))}) < n}
Last(threshold, skus) ==
    CHOOSE s \in skus : \A t \in skus : ~Before(Place(threshold, s), Place(threshold, t))

\* The documents that the query of one page finds: one more than the page holds, if
\* there is one.
Matching(threshold, after) ==
    {s \in Book!Stocked : /\ Low(stock[s].available, threshold, s)
                          /\ after = NoCursor \/ Before(after, Place(threshold, s))}
Found(threshold, size, after) == Leading(size + 1, threshold, Matching(threshold, after))

\* A plausible bug: the token is taken from the document that tells of another page.
PageTokenOfNext(threshold, size, found) ==
    IF Cardinality(found) > size THEN Place(threshold, Last(threshold, found)) ELSE NoCursor

\* The token of the next page: the place of the last item of this one.
PageToken(threshold, size, found) ==
    IF Cardinality(found) > size THEN Place(threshold, Last(threshold, Leading(size, threshold, found)))
    ELSE NoCursor

Page(w) ==
    LET found == Found(w.threshold, w.size, w.after)
        items == Leading(w.size, w.threshold, found)
        token == PageToken(w.threshold, w.size, found)
    IN  walk' = [w EXCEPT !.pc = IF token = NoCursor THEN "done" ELSE "walking",
                          !.after = token,
                          !.listed = [s \in Book!Stocked |->
                                        w.listed[s] + (IF s \in items THEN 1 ELSE 0)]]

FirstPage(threshold, size) ==
    /\ walk.pc # "walking"
    /\ Page([NoWalk EXCEPT !.threshold = threshold, !.size = Limit(size),
                           !.low = {s \in Book!Stocked : Low(stock[s].available, threshold, s)}])
    /\ UNCHANGED <<stock, book>>

NextPage == walk.pc = "walking" /\ Page(walk) /\ UNCHANGED <<stock, book>>

\* The query failed, or the client has seen enough.
Leave == walk.pc # "idle" /\ walk' = NoWalk /\ UNCHANGED <<stock, book>>

\* Requests reserve, commit and release stock, each in one transaction.  (The TTL policy
\* deletes reservations, and changes no stock.)
StockMoves ==
    /\ \E r \in Reservation : \/ \E o \in OrderRef, b \in Basket : Book!Reserve(r, o, b)
                             \/ Book!Commit(r) \/ Book!Release(r)
    /\ walk' = IF walk.pc # "walking" THEN walk
               ELSE [walk EXCEPT
                       !.low = {s \in @ : Low(stock'[s].available, walk.threshold, s)},
                       !.fell = @ \cup {s \in Book!Stocked :
                                           stock'[s].available < stock[s].available},
                       !.rose = @ \cup {s \in Book!Stocked :
                                           stock'[s].available > stock[s].available}]

LowStockNext ==
    \/ StockMoves
    \/ \E threshold \in Thresholds, size \in PageSizes : FirstPage(threshold, size)
    \/ NextPage \/ Leave

LowStockSpec == LowStockInit /\ [][LowStockNext]_lowVars

-----------------------------------------------------------------------------
\* A walk through all pages lists every SKU that was low all the while, unless its stock
\* fell meanwhile, which moves it to the pages behind the client; and lists none twice,
\* unless its stock rose.
WalkFaithful ==
    walk.pc = "done" =>
        \A s \in Book!Stocked :
            /\ s \in walk.low \ walk.fell => walk.listed[s] >= 1
            /\ s \notin walk.rose => walk.listed[s] <= 1

=============================================================================
