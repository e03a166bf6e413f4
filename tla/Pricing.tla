------------------------------ MODULE Pricing ------------------------------
(***************************************************************************)
(* services/pricing_engine.go: Calculate prices a cart.  Discounts, taxes  *)
(* and shipping are spread over the items by largest remainder, in whole   *)
(* minor units of int64, and shipping quotes are cached.                   *)
(*                                                                         *)
(* Concurrent calls price one cart, for addresses that may differ.  What   *)
(* the discount rules and the promotion service answer belongs to the      *)
(* cart; all of the cache key but the address is then the same.            *)
(***************************************************************************)
EXTENDS Integers, Sequences, FiniteSets, Functions

CONSTANTS
    PriceCall,      \* concurrent calls of Calculate
    Carts,          \* carts to price
    Region,         \* addresses, as far as the cache key tells them apart
    Fees,           \* what the shipping estimator quotes
    TaxAmounts,     \* what the tax calculator answers
    MaxInt,         \* the largest int64
    QuoteTTL,       \* lifetime of a cached quote, in ticks
    MaxPriceTime    \* bound: ticks

\* An item of the cart: its price, what the discount rules give for it, and its weight.
Items == [price : Int, quantity : Int, ships : BOOLEAN, grams : Int, rules : Seq(Int)]

ASSUME PricingAssumption ==
    /\ MaxInt \in Nat \ {0} /\ QuoteTTL \in Nat \ {0} /\ MaxPriceTime \in Nat
    /\ Fees \subseteq Int /\ TaxAmounts \subseteq Int
    /\ Carts \subseteq [items : Seq(Items), promotion : Int, mixed : BOOLEAN]

VARIABLES
    cart,           \* the cart, chosen once
    quotes,         \* shippingQuoteCache: [Region -> entry]
    pricing,        \* [PriceCall -> what the call is doing]
    priceTime       \* now()

priceVars == <<cart, quotes, pricing, priceTime>>

NoAddress == "none"
NoQuote == [fee |-> 0, expires |-> -1]
\* since and expiry are history: when the call began, and until when its quote is good.
NoPricing == [pc |-> "idle", region |-> NoAddress, bypass |-> FALSE, entry |-> NoQuote,
              fee |-> 0, tax |-> 0, since |-> 0, expiry |-> 0]

PricingTypeOK ==
    /\ quotes \in [Region -> [fee : Fees \cap Nat, expires : 0..MaxPriceTime + QuoteTTL] \cup {NoQuote}]
    /\ \A c \in PriceCall :
          /\ pricing[c].pc \in {"idle", "lookup", "check", "estimate", "put", "tax", "done"}
          /\ pricing[c].fee \in {0} \cup (Fees \cap Nat)
          /\ pricing[c].tax \in {0} \cup (TaxAmounts \cap Nat)
          /\ pricing[c].expiry \in 0..MaxPriceTime + QuoteTTL

PricingInit ==
    /\ cart \in Carts
    /\ quotes = [r \in Region |-> NoQuote]
    /\ pricing = [c \in PriceCall |-> NoPricing]
    /\ priceTime = 0

-----------------------------------------------------------------------------
(* The arithmetic of int64.                                                  *)

Wrap(n) == ((n + MaxInt + 1) % (2 * (MaxInt + 1))) - MaxInt - 1
PartialSums(amounts) ==
    LET sums[n \in 0..Len(amounts)] == IF n = 0 THEN 0 ELSE sums[n - 1] + amounts[n]
    IN  sums
SumOf(amounts) == PartialSums(amounts)[Len(amounts)]
Total(amounts) == Wrap(SumOf(amounts))
Positive(n) == IF n > 0 THEN n ELSE 0
Tuple(f) == f \o <<>>      \* f itself, as TLC evaluates it once and not at each application

\* Go's division truncates towards zero.
Quotient(a, b) == LET q == (IF a < 0 THEN -a ELSE a) \div (IF b < 0 THEN -b ELSE b)
                  IN  IF (a < 0) = (b < 0) THEN q ELSE -q

\* A plausible bug: no remainder is handed out.
AllocateWholeParts(amount, weights) ==
    LET total == Total(weights)
    IN  [i \in DOMAIN weights |-> IF total = 0 THEN 0 ELSE Quotient(Wrap(amount * weights[i]), total)]

\* What is left goes, a unit each, to the largest remainders, to the first of equal ones.
HandOut(left, share, rest) ==
    LET Before(j, i) == rest[j] > rest[i] \/ (rest[j] = rest[i] /\ j < i)
        Rank(i) == Cardinality({j \in DOMAIN rest : Before(j, i)})
    IN  Tuple([i \in DOMAIN share |-> IF Rank(i) < left THEN share[i] + 1 ELSE share[i]])

Remainders(amount, weight, share, total) ==
    Tuple([i \in DOMAIN weight |-> Wrap(amount * weight[i]) - share[i] * total])

\* Shares "share" of the amount, and the amount that they leave.
Complete(amount, weight, share, total) ==
    HandOut(Wrap(amount - Total(share)), share, Remainders(amount, weight, share, total))

Proportional(amount, weight, total) ==
    Complete(amount, weight, Tuple([i \in DOMAIN weight |-> Quotient(Wrap(amount * weight[i]), total)]),
             total)

Even(amount, n) == Complete(amount, [i \in 1..n |-> 0], Tuple([i \in 1..n |-> amount \div n]), 0)

\* The whole parts of the proportional shares, and what is left; without any weight, even
\* shares, and what is left from the first item on.
AllocateByWeight(amount, weights) ==
    LET weight == Tuple([i \in DOMAIN weights |-> Positive(weights[i])])
    IN  IF Total(weight) = 0 THEN Even(amount, Len(weights))
        ELSE Proportional(amount, weight, Total(weight))

\* Discounts of the rules that together exceed the item's subtotal are scaled down to it.
ScaleDiscounts(given, target) ==
    IF target <= 0 \/ Total(given) = 0 THEN [r \in DOMAIN given |-> 0]
    ELSE AllocateByWeight(target, given)

-----------------------------------------------------------------------------
(* The price of the cart.                                                    *)

LineSubtotal(i) == i.price * i.quantity
LineOverflows(i) == i.price > MaxInt \div i.quantity

RuleDiscount(i) ==
    IF Total(i.rules) > LineSubtotal(i) THEN Total(ScaleDiscounts(i.rules, LineSubtotal(i)))
    ELSE Total(i.rules)

Weight(i) == IF i.grams > MaxInt \div i.quantity THEN MaxInt ELSE i.grams * i.quantity

\* Shipping is spread by weight, in lack of one by the price after the rules.
ShippingWeight(i) ==
    IF ~i.ships THEN 0
    ELSE IF Weight(i) > 0 THEN Weight(i)
    ELSE Positive(Wrap(LineSubtotal(i) - RuleDiscount(i)))

Subtotals == Tuple([k \in DOMAIN cart.items |-> LineSubtotal(cart.items[k])])
ShippingWeights == Tuple([k \in DOMAIN cart.items |-> ShippingWeight(cart.items[k])])

\* The promotion cannot take more than the rules have left.
Promotion(offered, subtotal, ruled) ==
    LET most == Positive(Wrap(subtotal - ruled))
    IN  IF offered > most THEN most ELSE Positive(offered)

\* validateCartInput, ensureSingleCurrency, and the refusals of the loop over the items.
Refused ==
    \/ cart.mixed
    \/ \E i \in Range(cart.items) :
          \/ i.quantity <= 0 \/ i.price < 0
          \/ LineOverflows(i)
          \/ \E r \in DOMAIN i.rules : i.rules[r] < 0
    \/ SumOf(Subtotals) > MaxInt

Nets(subtotals, discounts) ==
    Tuple([k \in DOMAIN subtotals |-> Positive(Wrap(subtotals[k] - discounts[k]))])
Sums(a, b) == Tuple([k \in DOMAIN a |-> Wrap(a[k] + b[k])])

\* The items of the breakdown.
PricedLines(subtotals, discounts, taxes, fees) ==
    Tuple([k \in DOMAIN subtotals |->
        [subtotal |-> subtotals[k], discount |-> discounts[k], tax |-> taxes[k], shipping |-> fees[k],
         total |-> Positive(Wrap(subtotals[k] - discounts[k] + taxes[k] + fees[k]))]])

\* Taxes follow the prices after all discounts; "allocated" is history: the amounts that
\* were spread, with their weights.
Summary(subtotals, discounts, discount, tax, shipping, allocated) ==
    LET subtotal == SumOf(subtotals)
    IN  [subtotal |-> subtotal, discount |-> discount, tax |-> tax, shipping |-> shipping,
         total |-> Positive(Wrap(Positive(Wrap(subtotal - discount)) + tax + shipping)),
         items |-> PricedLines(subtotals, discounts, AllocateByWeight(tax, Nets(subtotals, discounts)),
                         AllocateByWeight(shipping, ShippingWeights)),
         allocated |-> allocated \cup {<<tax, Nets(subtotals, discounts)>>, <<shipping, ShippingWeights>>}]

\* The promotion follows the prices after the rules.
Promote(subtotals, ruled, promotion, tax, shipping) ==
    Summary(subtotals, Sums(ruled, AllocateByWeight(promotion, Nets(subtotals, ruled))),
            Wrap(Total(ruled) + promotion), tax, shipping, {<<promotion, Nets(subtotals, ruled)>>})

\* What Calculate returns, once tax and shipping are known.
Breakdown(tax, shipping) ==
    LET ruled == Tuple([k \in DOMAIN cart.items |-> RuleDiscount(cart.items[k])])
    IN  Promote(Subtotals, ruled, Promotion(cart.promotion, SumOf(Subtotals), Total(ruled)),
                tax, shipping)

-----------------------------------------------------------------------------
(* Calls of Calculate.                                                       *)

NeedsShipping(region) == region # NoAddress /\ \E i \in Range(cart.items) : i.ships

\* A refused cart, items out of stock, and a failing rule or promotion service end the call.
Calculate(c, region, bypass) ==
    /\ pricing[c].pc = "idle" /\ ~Refused
    /\ pricing' = [pricing EXCEPT ![c] =
          [NoPricing EXCEPT !.region = region, !.bypass = bypass, !.since = priceTime,
             !.expiry = IF NeedsShipping(region) THEN 0 ELSE MaxPriceTime + QuoteTTL,
             !.pc = IF ~NeedsShipping(region) THEN "tax" ELSE IF bypass THEN "estimate" ELSE "lookup"]]
    /\ UNCHANGED <<cart, quotes, priceTime>>

\* Get takes a copy of the entry under the read lock ...
GetQuote(c) ==
    /\ pricing[c].pc = "lookup"
    /\ LET entry == quotes[pricing[c].region]
       IN  pricing' = [pricing EXCEPT ![c].entry = entry,
                                      ![c].pc = IF entry = NoQuote THEN "estimate" ELSE "check"]
    /\ UNCHANGED <<cart, quotes, priceTime>>

\* ... and looks at the clock without it; it deletes whatever entry there is by then.
CheckQuote(c) ==
    /\ pricing[c].pc = "check"
    /\ LET entry == pricing[c].entry
       IN  IF priceTime > entry.expires
           THEN /\ quotes' = [quotes EXCEPT ![pricing[c].region] = NoQuote]
                /\ pricing' = [pricing EXCEPT ![c].pc = "estimate", ![c].entry = NoQuote]
           ELSE /\ pricing' = [pricing EXCEPT ![c].pc = "tax", ![c].fee = entry.fee,
                                              ![c].expiry = entry.expires, ![c].entry = NoQuote]
                /\ UNCHANGED quotes
    /\ UNCHANGED <<cart, priceTime>>

EstimateShipping(c, fee) ==
    /\ pricing[c].pc = "estimate"
    /\ pricing' = [pricing EXCEPT ![c] = IF fee < 0 THEN NoPricing
                                         ELSE [@ EXCEPT !.pc = "put", !.fee = fee]]
    /\ UNCHANGED <<cart, quotes, priceTime>>

PutQuote(c) ==
    /\ pricing[c].pc = "put"
    /\ quotes' = [quotes EXCEPT ![pricing[c].region] =
                     [fee |-> pricing[c].fee, expires |-> priceTime + QuoteTTL]]
    /\ pricing' = [pricing EXCEPT ![c].pc = "tax", ![c].expiry = priceTime + QuoteTTL]
    /\ UNCHANGED <<cart, priceTime>>

CalculateTax(c, tax) ==
    /\ pricing[c].pc = "tax"
    /\ pricing' = [pricing EXCEPT ![c] = IF tax < 0 THEN NoPricing
                                         ELSE [@ EXCEPT !.pc = "done", !.tax = tax]]
    /\ UNCHANGED <<cart, quotes, priceTime>>

ReturnPrices(c) ==
    /\ pricing[c].pc = "done"
    /\ pricing' = [pricing EXCEPT ![c] = NoPricing]
    /\ UNCHANGED <<cart, quotes, priceTime>>

PriceTick ==
    /\ priceTime < MaxPriceTime /\ priceTime' = priceTime + 1
    /\ UNCHANGED <<cart, quotes, pricing>>

PricingNext ==
    \/ PriceTick
    \/ \E c \in PriceCall :
          \/ \E region \in Region \cup {NoAddress}, bypass \in BOOLEAN : Calculate(c, region, bypass)
          \/ GetQuote(c) \/ CheckQuote(c) \/ PutQuote(c) \/ ReturnPrices(c)
          \/ \E fee \in Fees : EstimateShipping(c, fee)
          \/ \E tax \in TaxAmounts : CalculateTax(c, tax)

PricingSpec == PricingInit /\ [][PricingNext]_priceVars

-----------------------------------------------------------------------------
(* Properties.                                                               *)

\* No intermediate result of an allocation exceeds int64.
Representable(amount, weights) ==
    /\ SumOf(weights) <= MaxInt
    /\ \A i \in DOMAIN weights : amount * weights[i] <= MaxInt

WithinInt64(b) ==
    /\ \A i \in Range(cart.items) : Representable(LineSubtotal(i), i.rules)
    /\ \A a \in b.allocated : Representable(a[1], a[2])
    /\ b.subtotal + b.tax + b.shipping <= MaxInt

Column(b, name) == Tuple([k \in DOMAIN b.items |-> b.items[k][name]])

\* Less than a unit from the exact proportion, each of the shares; without any weight, from
\* the same for all.
InProportion(shares, amount, weights) ==
    LET total == SumOf(weights)
        Near(part, exact, unit) == part * unit - exact < unit /\ exact - part * unit < unit
    IN  \A k \in DOMAIN weights :
            IF total = 0 THEN Near(shares[k], amount, Len(weights))
            ELSE Near(shares[k], amount * weights[k], total)

\* The items of the breakdown account for the cart: their discounts, taxes, fees and totals
\* add up to the cart's, no item is discounted by more than it costs, and taxes and fees are
\* in proportion to the discounted prices and the weights.
AddsUp(b) ==
    b.items = <<>> \/
        /\ \A name \in {"subtotal", "discount", "tax", "shipping", "total"} :
              SumOf(Column(b, name)) = b[name]
        /\ \A k \in DOMAIN b.items : b.items[k].discount \in 0..b.items[k].subtotal
        /\ InProportion(Column(b, "tax"), b.tax, Nets(Column(b, "subtotal"), Column(b, "discount")))
        /\ InProportion(Column(b, "shipping"), b.shipping, ShippingWeights)

\* The quote had not expired when the call began; one that bypasses the cache has a new one.
QuoteInForce(c) ==
    pricing[c].expiry >= pricing[c].since + (IF pricing[c].bypass THEN QuoteTTL ELSE 0)

\* What Calculate answers adds up, each item taking its part, unless a product leaves int64,
\* and its shipping fee is in force, whichever calls fill, expire and delete the cached quotes meanwhile.
PricesSound ==
    \A c \in PriceCall : pricing[c].pc = "done" =>
        LET bill == Breakdown(pricing[c].tax, pricing[c].fee)
        IN  (WithinInt64(bill) => AddsUp(bill)) /\ QuoteInForce(c)

=============================================================================
