------------------------------- MODULE KeySet -------------------------------
(***************************************************************************)
(* platform/auth/oidc.go: JWKSCache, the cached set of public keys that    *)
(* tokens of Google are verified with, refreshed on expiry, on an unknown  *)
(* key, and in the background from half its validity on.                   *)
(*                                                                         *)
(* A call is one request that carries a token signed with a given key.     *)
(* Time is in ticks; a fetch ends within the refresh timeout.              *)
(***************************************************************************)
EXTENDS Integers, FiniteSets

CONSTANTS
    KeyCall,        \* concurrent requests with an OIDC token
    Kid,            \* key identifiers
    Validity,       \* validities that response headers or the default give, in ticks
    FetchTimeout,   \* refreshTimeout, in ticks
    MaxClock        \* bound: ticks

Background == "background"
Nobody == "nobody"

\* A max-age and the default are durations, of which there is a longest.
ASSUME KeySetAssumption ==
    /\ Validity \subseteq Nat \ {0} /\ \E v \in Validity : \A w \in Validity : w <= v
    /\ FetchTimeout \in Nat /\ MaxClock \in Nat
    /\ Background \notin KeyCall /\ Nobody \notin KeyCall

VARIABLES
    clock,          \* now()
    jwks,           \* the keys that Google publishes
    seenUntil,      \* history: [Kid -> the last tick at which the key was published]
    cache,          \* keys, expiry and prefetch
    refreshMu,      \* who refreshes
    asyncRefresh,   \* what the background refresh is doing, "idle" if there is none
    verifying       \* [KeyCall -> what the call is doing]

keyVars == <<clock, jwks, seenUntil, cache, refreshMu, asyncRefresh, verifying>>

Longest == CHOOSE v \in Validity : \A w \in Validity : w <= v

\* What RequireOIDC answers: the handler's response, 401, or 503.
Answers == {"accepted", "unauthorized", "unavailable"}

KeySetTypeOK ==
    /\ clock \in 0..MaxClock
    /\ jwks \subseteq Kid
    /\ seenUntil \in [Kid -> -1..MaxClock]
    /\ cache.keys \subseteq Kid
    /\ cache.expiry \in 0..(MaxClock + Longest) /\ cache.prefetch \in 0..cache.expiry
    /\ refreshMu \in KeyCall \cup {Background, Nobody}
    /\ asyncRefresh \in [pc : {"idle", "refreshing", "fetching", "installing"},
                         got : SUBSET Kid, since : 0..MaxClock]
    /\ verifying \in [KeyCall -> [pc : {"refreshing", "fetching", "installing", "looking"} \cup Answers,
                                  kid : Kid \cup {Nobody}, start : 0..MaxClock,
                                  second : BOOLEAN, lasting : BOOLEAN,
                                  got : SUBSET Kid, since : 0..MaxClock]]

\* A request that is answered makes room for the next one.
NoCall == [pc |-> "accepted", kid |-> Nobody, start |-> 0, second |-> FALSE, lasting |-> TRUE,
           got |-> {}, since |-> 0]

KeySetInit ==
    /\ clock = 0
    /\ jwks \in SUBSET Kid
    /\ seenUntil = [k \in Kid |-> IF k \in jwks THEN 0 ELSE -1]
    /\ cache = [keys |-> {}, expiry |-> 0, prefetch |-> 0]
    /\ refreshMu = Nobody
    /\ asyncRefresh = [pc |-> "idle", got |-> {}, since |-> 0]
    /\ verifying = [c \in KeyCall |-> NoCall]

-----------------------------------------------------------------------------
\* Who holds the mutex ends within the refresh timeout.
Tick ==
    /\ clock < MaxClock
    /\ \A c \in KeyCall : refreshMu = c => clock < verifying[c].since + FetchTimeout
    /\ refreshMu = Background => clock < asyncRefresh.since + FetchTimeout
    /\ clock' = clock + 1
    /\ seenUntil' = [k \in Kid |-> IF k \in jwks THEN clock + 1 ELSE seenUntil[k]]
    /\ UNCHANGED <<jwks, cache, refreshMu, asyncRefresh, verifying>>

\* Google publishes or withdraws a key.  "lasting" is history: the key of the call has
\* been published since the call began.
Rotate(k) ==
    /\ jwks' = IF k \in jwks THEN jwks \ {k} ELSE jwks \cup {k}
    /\ seenUntil' = [seenUntil EXCEPT ![k] = clock]
    /\ verifying' = [c \in KeyCall |-> IF verifying[c].kid = k
                                       THEN [verifying[c] EXCEPT !.lasting = FALSE] ELSE verifying[c]]
    /\ UNCHANGED <<clock, cache, refreshMu, asyncRefresh>>

NeedsRefresh(now) == cache.keys = {} \/ now >= cache.expiry
ShouldPrefetch(now) == cache.prefetch <= now /\ now <= cache.expiry

\* RequireOIDC, Keyfunc and Key: the clock is read once, for the whole call.
Key(c, k) ==
    /\ verifying[c].pc \in Answers
    /\ verifying' = [verifying EXCEPT ![c] =
           [NoCall EXCEPT !.pc = IF NeedsRefresh(clock) THEN "refreshing" ELSE "looking",
                          !.kid = k, !.start = clock, !.lasting = k \in jwks]]
    /\ UNCHANGED <<clock, jwks, seenUntil, cache, refreshMu, asyncRefresh>>

\* The answer of RequireOIDC: 503 when the keys could not be fetched, 401 when the key
\* is not among them.
Answer(c, answer) == [verifying EXCEPT ![c] = [NoCall EXCEPT !.pc = answer]]

\* scheduleRefresh starts one background refresh at a time.
ScheduleRefresh(c) ==
    asyncRefresh' = IF ShouldPrefetch(verifying[c].start) /\ asyncRefresh.pc = "idle"
                    THEN [asyncRefresh EXCEPT !.pc = "refreshing"] ELSE asyncRefresh

\* Key looks in the cache; the first time in vain, it refreshes and looks again.
LookUp(c) ==
    LET call == verifying[c]
        found == call.kid \in cache.keys
    IN  /\ call.pc = "looking"
        /\ \/ /\ found
              /\ verifying' = Answer(c, "accepted")
              /\ IF call.second THEN UNCHANGED asyncRefresh ELSE ScheduleRefresh(c)
           \/ /\ ~found /\ ~call.second
              /\ verifying' = [verifying EXCEPT ![c].pc = "refreshing", ![c].second = TRUE]
              /\ UNCHANGED asyncRefresh
           \/ ~found /\ call.second /\ verifying' = Answer(c, "unauthorized") /\ UNCHANGED asyncRefresh
        /\ UNCHANGED <<clock, jwks, seenUntil, cache, refreshMu>>

-----------------------------------------------------------------------------
\* refresh, by a call or in the background: the mutex, the request, the response.
LockRefresh(c) ==
    /\ refreshMu = Nobody /\ verifying[c].pc = "refreshing"
    /\ refreshMu' = c
    /\ verifying' = [verifying EXCEPT ![c].pc = "fetching", ![c].since = clock]
    /\ UNCHANGED <<clock, jwks, seenUntil, cache, asyncRefresh>>

Fetch(c) ==
    /\ verifying[c].pc = "fetching" /\ jwks # {}
    /\ verifying' = [verifying EXCEPT ![c].pc = "installing", ![c].got = jwks]
    /\ UNCHANGED <<clock, jwks, seenUntil, cache, refreshMu, asyncRefresh>>

\* The keys replace those before, valid from now on for what the headers say.
Installed(keys) ==
    \E v \in Validity :
        cache' = [keys |-> keys, expiry |-> clock + v, prefetch |-> clock + v \div 2]

Install(c) ==
    /\ verifying[c].pc = "installing"
    /\ Installed(verifying[c].got)
    /\ refreshMu' = Nobody
    /\ verifying' = [verifying EXCEPT ![c].pc = "looking", ![c].got = {}, ![c].since = 0]
    /\ UNCHANGED <<clock, jwks, seenUntil, asyncRefresh>>

\* A plausible bug: a call goes on with the keys it has when they cannot be fetched.
FetchFailsOpen(c) ==
    /\ verifying[c].pc \in {"fetching", "installing"}
    /\ refreshMu' = Nobody
    /\ verifying' = [verifying EXCEPT ![c].pc = "looking", ![c].second = TRUE,
                                      ![c].got = {}, ![c].since = 0]
    /\ UNCHANGED <<clock, jwks, seenUntil, cache, asyncRefresh>>

\* Transport errors, the timeout, another status than 200, bad JSON, no usable key.
FetchFails(c) ==
    /\ verifying[c].pc \in {"fetching", "installing"}
    /\ refreshMu' = Nobody
    /\ verifying' = Answer(c, "unavailable")
    /\ UNCHANGED <<clock, jwks, seenUntil, cache, asyncRefresh>>

BackgroundRefresh ==
    /\ \/ /\ asyncRefresh.pc = "refreshing" /\ refreshMu = Nobody
          /\ refreshMu' = Background
          /\ asyncRefresh' = [asyncRefresh EXCEPT !.pc = "fetching", !.since = clock]
          /\ UNCHANGED cache
       \/ /\ asyncRefresh.pc = "fetching" /\ jwks # {}
          /\ asyncRefresh' = [asyncRefresh EXCEPT !.pc = "installing", !.got = jwks]
          /\ UNCHANGED <<refreshMu, cache>>
       \/ /\ asyncRefresh.pc \in {"fetching", "installing"}
          /\ \/ asyncRefresh.pc = "installing" /\ Installed(asyncRefresh.got)
             \/ UNCHANGED cache  \* a failure is logged
          /\ refreshMu' = Nobody
          /\ asyncRefresh' = [pc |-> "idle", got |-> {}, since |-> 0]
    /\ UNCHANGED <<clock, jwks, seenUntil, verifying>>

KeySetNext ==
    \/ Tick
    \/ BackgroundRefresh
    \/ \E k \in Kid : Rotate(k)
    \/ \E c \in KeyCall : \/ \E k \in Kid : Key(c, k)
                          \/ LookUp(c) \/ LockRefresh(c) \/ Fetch(c) \/ Install(c) \/ FetchFails(c)

KeySetSpec == KeySetInit /\ [][KeySetNext]_keyVars

-----------------------------------------------------------------------------
\* The request of c is answered in this step.
Answered(c, answer) == verifying[c].pc \notin Answers /\ verifying'[c].pc = answer

\* What a request is answered is right about its key, whatever refreshes fail or overtake:
\* it is accepted only with a key that was still published within the longest validity
\* and one fetch before the request; and it is not refused with a key that is published
\* during the whole request, even if the cache was filled before the key appeared.
AnswersJustified ==
    [][\A c \in KeyCall :
          /\ Answered(c, "accepted") =>
                seenUntil[verifying[c].kid] >= verifying[c].start - Longest - FetchTimeout
          /\ Answered(c, "unauthorized") => ~verifying[c].lasting]_keyVars

=============================================================================
