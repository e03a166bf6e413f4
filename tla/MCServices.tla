----------------------------- MODULE MCServices -----------------------------
(* The job dispatcher, the review service, the user service, the client      *)
(* provider below the repositories, the readiness probes and the low-stock   *)
(* list.  They share no variable: each behaviour is one of theirs, and the   *)
(* states to explore add up instead of multiplying.                          *)
EXTENDS Jobs, Reviews, Profiles, Provider, Health, LowStock, TLC

VARIABLE service    \* whose behaviour this is

\* 1.5 s, 1 s and, for the request, 2 s: what matters is which is over first.
MCProbeTimeout == [firestore |-> 2, secretManager |-> 1]

\* Two SKUs of the same level, and one that is not.
MCOnHand0 == (1 :> 2) @@ (2 :> 1) @@ (3 :> 2)
MCBasket == {1 :> 1, 2 :> 1, 3 :> 1}
MCSafetyStock == (1 :> 2) @@ (2 :> 2) @@ (3 :> 3)

Init ==
    /\ JobsInit /\ ReviewsInit /\ ProfilesInit /\ ProviderInit /\ HealthInit /\ LowStockInit
    /\ service \in {"jobs", "reviews", "profiles", "provider", "health", "lowstock"}
    /\ service # "jobs" => upserts
    /\ service # "profiles" => auditService
    /\ service # "health" => healthSecret.stored /\ healthSecret.fallback

JobsStep == service = "jobs" /\ JobsNext
    /\ UNCHANGED <<revVars, profVars, provVars, healthVars, lowVars, service>>
ReviewsStep == service = "reviews" /\ ReviewsNext
    /\ UNCHANGED <<jobVars, profVars, provVars, healthVars, lowVars, service>>
ProfilesStep == service = "profiles" /\ ProfilesNext
    /\ UNCHANGED <<jobVars, revVars, provVars, healthVars, lowVars, service>>
ProviderStep == service = "provider" /\ ProviderNext
    /\ UNCHANGED <<jobVars, revVars, profVars, healthVars, lowVars, service>>
HealthStep == service = "health" /\ HealthNext
    /\ UNCHANGED <<jobVars, revVars, profVars, provVars, lowVars, service>>
LowStockStep == service = "lowstock" /\ LowStockNext
    /\ UNCHANGED <<jobVars, revVars, profVars, provVars, healthVars, service>>

Next == \/ JobsStep \/ ReviewsStep \/ ProfilesStep \/ ProviderStep
        \/ HealthStep \/ LowStockStep
vars == <<jobVars, revVars, profVars, provVars, healthVars, lowVars, service>>
Spec == Init /\ [][Next]_vars /\ JobsFairness /\ ProviderFairness

\* The state of each of the six has its type.
ServicesTypeOK ==
    /\ service = "jobs" => JobsTypeOK
    /\ service = "reviews" => ReviewsTypeOK
    /\ service = "profiles" => ProfilesTypeOK
    /\ service = "provider" => ProviderTypeOK
    /\ service = "health" => HealthTypeOK
    /\ service = "lowstock" => LowStockTypeOK

=============================================================================
