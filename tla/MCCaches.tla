------------------------------ MODULE MCCaches ------------------------------
(* What is kept and served again: signing keys, secrets, shipping quotes in  *)
(* the prices, and documents that a client holds.  The four share no         *)
(* variable: each behaviour is one of theirs.                                *)
EXTENDS KeySet, Secrets, Pricing, Content, TLC

VARIABLE part       \* whose behaviour this is

Item(price, quantity, grams, rules) ==
    [price |-> price, quantity |-> quantity, ships |-> grams >= 0, grams |-> grams, rules |-> rules]
Cart(items, promotion) == [items |-> items, promotion |-> promotion, mixed |-> FALSE]

\* With 127 for 2^63 - 1: small prices, equal ones, free items, a download, and one so dear
\* that products overflow; rules that give nothing, something, and too much.
Shelf == {Item(1, 1, 0, <<0, 0>>), Item(2, 1, 1, <<1, 0>>), Item(2, 2, 3, <<3, 4>>),
          Item(0, 1, 0, <<2, 1>>), Item(3, 1, -1, <<0, 1>>), Item(25, 2, 40, <<90, 60>>)}
MCFees == {-1, 7}
Baskets == UNION {[1..n -> Shelf] : n \in 0..3}
MCCarts == {Cart(items, promotion) : items \in Baskets, promotion \in {-1, 2, 99}}
           \cup {Cart(<<i>>, 0) : i \in {Item(1, 0, 0, <<>>), Item(-1, 1, 0, <<>>), Item(65, 2, 0, <<>>),
                                         Item(1, 1, 0, <<-1>>)}}
           \cup {[Cart(<<Item(1, 1, 0, <<>>)>>, 0) EXCEPT !.mixed = TRUE]}

CachesInit ==
    /\ KeySetInit /\ SecretsInit /\ PricingInit /\ ContentInit
    /\ part \in {"keys", "secrets", "prices", "documents"}
    /\ part # "keys" => jwks = {}
    /\ part # "prices" => cart = Cart(<<>>, -1)
    /\ part # "documents" => kind = "page"

KeySetStep == part = "keys" /\ KeySetNext /\ UNCHANGED <<secVars, priceVars, contentVars, part>>
\* Two calls of Resolve race only while all watchers are subscribed, or none, and the
\* Invalidate that walks, if any, walks the array that is in use.
SecretsStep ==
    /\ part = "secrets" /\ SecretsNext
    /\ Cardinality({w \in Watcher : resolving'[w].pc # "idle"}) > 1 =>
          /\ used' \in {0, Cardinality(Watcher)}
          /\ \A n \in Notifier : notifying'[n].pc = "walking" => notifying'[n].shared
    /\ UNCHANGED <<keyVars, priceVars, contentVars, part>>
\* One cart is priced by calls that race for the quote; the others, for their arithmetic,
\* by one call at a time.
PricingStep ==
    /\ part = "prices" /\ PricingNext
    /\ cart # Cart(<<Item(2, 2, 3, <<3, 4>>)>>, 2) =>
          /\ Cardinality({c \in PriceCall : pricing'[c].pc # "idle"}) <= 1
          /\ priceTime' = priceTime
    /\ UNCHANGED <<keyVars, secVars, contentVars, part>>
ContentStep == part = "documents" /\ ContentNext /\ UNCHANGED <<keyVars, secVars, priceVars, part>>

CachesNext == KeySetStep \/ SecretsStep \/ PricingStep \/ ContentStep
cacheVars == <<keyVars, secVars, priceVars, contentVars, part>>
CachesSpec == CachesInit /\ [][CachesNext]_cacheVars

\* The state of each part has its type.
CachesTypeOK ==
    /\ part = "keys" => KeySetTypeOK
    /\ part = "secrets" => SecretsTypeOK
    /\ part = "prices" => PricingTypeOK
    /\ part = "documents" => ContentTypeOK

=============================================================================
