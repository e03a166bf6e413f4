------------------------------ MODULE CachesProofs ------------------------------
(***************************************************************************)
(* What is kept and served again (modules KeySet, Secrets and Content),    *)
(* for any number of calls, watchers and edits, any validities and any     *)
(* bounds.  The last section puts them and the pricing engine side by      *)
(* side, as MCCaches does: what the specification of one implies, the      *)
(* composition implies as well.                                            *)
(***************************************************************************)
EXTENDS MCCaches, PricingProofs, SequenceTheorems, TLAPS

-----------------------------------------------------------------------------
(* KeySet.  Why an answer is right is spread over three places: what was      *)
(* fetched, what is cached, and since when the call goes on.                  *)

Locked == {"fetching", "installing"}

\* A call that will not look again, whose key is published all the while.
Sure(call) == call.pc = "looking" /\ call.second /\ call.lasting

\* The keys that were fetched are those of the calls that are sure of theirs.
Covers(calls, got) == \A c \in KeyCall : Sure(calls[c]) => calls[c].kid \in got

\* Who refreshes has begun within the timeout, and has fetched what was published since.
RefreshOK(r, now, seen) ==
    r.pc \in Locked => /\ r.since <= now /\ now <= r.since + FetchTimeout
                       /\ r.pc = "installing" => \A k \in r.got : seen[k] >= r.since

\* What a call relies on.
VerifyOK(call, now, keys, kept) ==
    call.pc \notin Answers =>
        /\ call.kid \in Kid /\ call.start <= now
        /\ call.lasting => call.kid \in keys
        /\ call.pc = "installing" /\ call.lasting => call.kid \in call.got
        /\ call.pc = "looking" => call.start <= kept.expiry
        /\ Sure(call) => call.kid \in kept.keys

SeenOK(now, keys, seen) ==
    \A k \in Kid : seen[k] <= now /\ (k \in keys => seen[k] = now)

\* A cached key was still published when its validity began, but for the time of a fetch.
CacheOK(kept, seen) ==
    \A k \in kept.keys : seen[k] >= kept.expiry - Longest - FetchTimeout

KeyInv ==
    /\ KeySetTypeOK
    /\ SeenOK(clock, jwks, seenUntil)
    /\ CacheOK(cache, seenUntil)
    /\ refreshMu = Background <=> asyncRefresh.pc \in Locked
    /\ \A c \in KeyCall : refreshMu = c <=> verifying[c].pc \in Locked
    /\ RefreshOK(asyncRefresh, clock, seenUntil)
    /\ \A c \in KeyCall : RefreshOK(verifying[c], clock, seenUntil)
    /\ asyncRefresh.pc = "installing" => Covers(verifying, asyncRefresh.got)
    /\ \A c \in KeyCall : verifying[c].pc = "installing" => Covers(verifying, verifying[c].got)
    /\ \A c \in KeyCall : VerifyOK(verifying[c], clock, jwks, cache)

KeyCalls == [pc : {"refreshing", "fetching", "installing", "looking"} \cup Answers,
             kid : Kid \cup {Nobody}, start : 0..MaxClock, second : BOOLEAN, lasting : BOOLEAN,
             got : SUBSET Kid, since : 0..MaxClock]

BackgroundRefreshes == [pc : {"idle", "refreshing", "fetching", "installing"},
                        got : SUBSET Kid, since : 0..MaxClock]

LEMMA LongestFacts == Longest \in Nat /\ \A v \in Validity : v \in Nat /\ 0 < v /\ v <= Longest
<1>1. PICK v \in Validity : \A w \in Validity : w <= v
  BY KeySetAssumption
<1>2. Longest \in Validity /\ \A w \in Validity : w <= Longest
  BY <1>1 DEF Longest
<1> QED
  BY <1>2, KeySetAssumption

LEMMA KeyFacts ==
    ASSUME KeyInv
    PROVE  /\ clock \in Nat /\ clock <= MaxClock /\ MaxClock \in Nat /\ FetchTimeout \in Nat
           /\ \A k \in Kid : seenUntil[k] \in Int
           /\ cache.expiry \in Nat /\ cache.keys \subseteq Kid
           /\ verifying \in [KeyCall -> KeyCalls] /\ asyncRefresh \in BackgroundRefreshes
           /\ Background \notin KeyCall /\ Nobody \notin KeyCall
BY KeySetAssumption, LongestFacts DEF KeyInv, KeySetTypeOK, KeyCalls, BackgroundRefreshes

LEMMA InitKeyInv == KeySetInit => KeyInv
<1> SUFFICES ASSUME KeySetInit PROVE KeyInv
  OBVIOUS
<1>1. KeySetTypeOK
  BY KeySetAssumption, LongestFacts DEF KeySetInit, KeySetTypeOK, NoCall, Answers
<1>2. NoCall.pc = "accepted" /\ asyncRefresh.pc = "idle" /\ refreshMu = Nobody
  BY DEF KeySetInit, NoCall
<1> QED
  BY <1>1, <1>2, KeySetAssumption
     DEF KeySetInit, KeyInv, SeenOK, CacheOK, Locked, RefreshOK, VerifyOK, Answers, Background, Nobody

\* A step of one call, which has become u, that leaves the cache alone.
LEMMA OneCall ==
    ASSUME KeyInv, NEW c \in KeyCall, NEW u \in KeyCalls,
           verifying' = [verifying EXCEPT ![c] = u],
           UNCHANGED <<clock, jwks, seenUntil, cache>>,
           asyncRefresh' \in BackgroundRefreshes,
           asyncRefresh'.pc \in Locked \/ asyncRefresh.pc \in Locked => asyncRefresh' = asyncRefresh,
           refreshMu' \in KeyCall \cup {Background, Nobody},
           refreshMu' = c <=> u.pc \in Locked,
           \A x \in (KeyCall \ {c}) \cup {Background} : refreshMu' = x <=> refreshMu = x,
           VerifyOK(u, clock, jwks, cache), RefreshOK(u, clock, seenUntil),
           u.pc = "installing" => Covers(verifying, u.got),
           Sure(u) => /\ asyncRefresh.pc = "installing" => u.kid \in asyncRefresh.got
                      /\ \A d \in KeyCall \ {c} : verifying[d].pc = "installing" => u.kid \in verifying[d].got
    PROVE  KeyInv'
<1>1. \A d \in KeyCall : verifying'[d] = IF d = c THEN u ELSE verifying[d]
  BY KeyFacts
<1>2. KeySetTypeOK'
  BY KeyFacts, <1>1 DEF KeyInv, KeySetTypeOK, KeyCalls, BackgroundRefreshes
<1>3. (refreshMu = Background <=> asyncRefresh.pc \in Locked)'
  BY DEF KeyInv
<1>4. (\A d \in KeyCall : refreshMu = d <=> verifying[d].pc \in Locked)'
  BY <1>1 DEF KeyInv
<1>5. (\A d \in KeyCall : RefreshOK(verifying[d], clock, seenUntil))'
  BY <1>1 DEF KeyInv
<1>6. RefreshOK(asyncRefresh, clock, seenUntil)'
  BY DEF KeyInv, RefreshOK
<1>7. (\A d \in KeyCall : VerifyOK(verifying[d], clock, jwks, cache))'
  BY <1>1 DEF KeyInv
<1>8. ASSUME NEW got, Covers(verifying, got), Sure(u) => u.kid \in got
      PROVE  Covers(verifying', got)
  BY <1>1, <1>8 DEF Covers
<1>9. ~(Sure(u) /\ u.pc = "installing")
  BY DEF Sure
<1>10. (asyncRefresh.pc = "installing" => Covers(verifying, asyncRefresh.got))'
  BY <1>8 DEF KeyInv, Locked
<1>11. (\A d \in KeyCall : verifying[d].pc = "installing" => Covers(verifying, verifying[d].got))'
  BY <1>1, <1>8, <1>9 DEF KeyInv
<1> QED
  BY <1>2, <1>3, <1>4, <1>5, <1>6, <1>7, <1>10, <1>11 DEF KeyInv

LEMMA KeyKept ==
    ASSUME KeyInv, NEW c \in KeyCall, NEW k \in Kid, Key(c, k) PROVE KeyInv'
<1>1. PICK u : u = [NoCall EXCEPT !.pc = IF NeedsRefresh(clock) THEN "refreshing" ELSE "looking",
                                  !.kid = k, !.start = clock, !.lasting = k \in jwks]
  OBVIOUS
<1>2. PICK b \in BOOLEAN : b = (k \in jwks)
  <2>1. (k \in jwks) \in BOOLEAN
    OBVIOUS
  <2> QED
    BY <2>1
<1>3. PICK pc \in {"refreshing", "looking"} :
          /\ pc = IF NeedsRefresh(clock) THEN "refreshing" ELSE "looking"
          /\ pc = "looking" => clock < cache.expiry
  BY KeyFacts DEF NeedsRefresh
<1>4. u = [NoCall EXCEPT !.pc = pc, !.kid = k, !.start = clock, !.lasting = b]
  BY <1>1, <1>2, <1>3
<1>5. /\ u \in KeyCalls /\ u.pc = pc /\ u.kid = k /\ u.start = clock /\ u.lasting = b
      /\ u.second = FALSE
  <2>1. u = [pc |-> pc, kid |-> k, start |-> clock, second |-> FALSE, lasting |-> b,
             got |-> {}, since |-> 0]
    BY <1>4 DEF NoCall
  <2> QED
    BY <2>1, <1>3, KeyFacts DEF KeyCalls
<1>6. /\ verifying' = [verifying EXCEPT ![c] = u] /\ verifying[c].pc \notin Locked /\ u.pc \notin Locked
      /\ UNCHANGED <<clock, jwks, seenUntil, cache, refreshMu, asyncRefresh>>
  BY <1>1, <1>3, <1>5 DEF Key, Answers, Locked
<1>7. VerifyOK(u, clock, jwks, cache)
  <2>1. u.lasting => u.kid \in jwks
    BY <1>2, <1>5
  <2> QED
    BY <2>1, <1>3, <1>5, KeyFacts DEF VerifyOK, Sure
<1> QED
  BY <1>5, <1>6, <1>7, OneCall, KeyFacts DEF KeyInv, KeySetTypeOK, RefreshOK, Locked, Sure

\* The call is answered.
LEMMA AnswerFacts ==
    ASSUME KeyInv, NEW c \in KeyCall, NEW answer \in Answers, verifying' = Answer(c, answer)
    PROVE  \E u \in KeyCalls : verifying' = [verifying EXCEPT ![c] = u] /\ u.pc = answer
<1>1. PICK u : u = [NoCall EXCEPT !.pc = answer]
  OBVIOUS
<1>2. u = [pc |-> answer, kid |-> Nobody, start |-> 0, second |-> FALSE, lasting |-> TRUE,
           got |-> {}, since |-> 0]
  BY <1>1 DEF NoCall
<1>3. u \in KeyCalls /\ u.pc = answer
  BY <1>2, KeyFacts DEF KeyCalls
<1> QED
  BY <1>1, <1>3 DEF Answer

LEMMA LookUpKept == ASSUME KeyInv, NEW c \in KeyCall, LookUp(c) PROVE KeyInv'
<1>1. /\ verifying[c].pc = "looking" /\ verifying[c] \in KeyCalls
      /\ UNCHANGED <<clock, jwks, seenUntil, cache, refreshMu>>
  BY KeyFacts DEF LookUp
<1>2. PICK u \in KeyCalls : /\ verifying' = [verifying EXCEPT ![c] = u]
                            /\ \/ u.pc \in Answers
                               \/ /\ u = [verifying[c] EXCEPT !.pc = "refreshing", !.second = TRUE]
                                  /\ u.pc = "refreshing" /\ u.kid = verifying[c].kid
                                  /\ u.start = verifying[c].start /\ u.lasting = verifying[c].lasting
  <2>1. CASE \E answer \in Answers : verifying' = Answer(c, answer)
    BY <2>1, AnswerFacts
  <2>2. CASE verifying' = [verifying EXCEPT ![c].pc = "refreshing", ![c].second = TRUE]
    <3>1. PICK u : u = [verifying[c] EXCEPT !.pc = "refreshing", !.second = TRUE]
      OBVIOUS
    <3>2. /\ u \in KeyCalls /\ u.pc = "refreshing" /\ u.kid = verifying[c].kid
          /\ u.start = verifying[c].start /\ u.lasting = verifying[c].lasting
      BY <1>1, <3>1 DEF KeyCalls
    <3> QED
      BY <2>2, <3>1, <3>2
  <2> QED
    BY <2>1, <2>2 DEF LookUp, Answers
<1>3. \/ asyncRefresh' = asyncRefresh
      \/ /\ asyncRefresh.pc = "idle"
         /\ asyncRefresh' = [asyncRefresh EXCEPT !.pc = "refreshing"]
  <2>1. ScheduleRefresh(c) \/ UNCHANGED asyncRefresh
    BY DEF LookUp
  <2> QED
    BY <2>1 DEF ScheduleRefresh
<1>4. /\ asyncRefresh' \in BackgroundRefreshes
      /\ asyncRefresh'.pc \in Locked \/ asyncRefresh.pc \in Locked => asyncRefresh' = asyncRefresh
  BY <1>3, KeyFacts DEF BackgroundRefreshes, Locked
<1>5. u.pc \notin Locked /\ verifying[c].pc \notin Locked /\ ~Sure(u)
  BY <1>1, <1>2 DEF Locked, Answers, Sure
<1>6. VerifyOK(u, clock, jwks, cache)
  <2>1. VerifyOK(verifying[c], clock, jwks, cache)
    BY DEF KeyInv
  <2> QED
    BY <1>1, <1>2, <2>1, <1>5 DEF VerifyOK, Answers
<1> QED
  BY <1>1, <1>2, <1>4, <1>5, <1>6, OneCall, KeyFacts DEF KeyInv, KeySetTypeOK, RefreshOK, Locked

LEMMA LockRefreshKept == ASSUME KeyInv, NEW c \in KeyCall, LockRefresh(c) PROVE KeyInv'
<1>1. /\ verifying[c].pc = "refreshing" /\ verifying[c] \in KeyCalls
      /\ refreshMu = Nobody /\ refreshMu' = c
      /\ UNCHANGED <<clock, jwks, seenUntil, cache, asyncRefresh>>
  BY KeyFacts DEF LockRefresh
<1>2. PICK u : u = [verifying[c] EXCEPT !.pc = "fetching", !.since = clock]
  OBVIOUS
<1>3. /\ u \in KeyCalls /\ u.pc = "fetching" /\ u.since = clock
      /\ u.kid = verifying[c].kid /\ u.start = verifying[c].start /\ u.lasting = verifying[c].lasting
  <2>1. clock \in 0..MaxClock /\ 0 \in 0..MaxClock
    BY KeyFacts
  <2> QED
    BY <1>1, <1>2, <2>1 DEF KeyCalls
<1>4. verifying' = [verifying EXCEPT ![c] = u]
  BY <1>2 DEF LockRefresh
<1>5. VerifyOK(u, clock, jwks, cache) /\ RefreshOK(u, clock, seenUntil) /\ ~Sure(u)
  <2>1. VerifyOK(verifying[c], clock, jwks, cache)
    BY DEF KeyInv
  <2>2. u.start <= clock /\ u.kid \in Kid /\ (u.lasting => u.kid \in jwks)
    BY <1>1, <1>3, <2>1 DEF VerifyOK, Answers
  <2> QED
    BY <1>3, <2>2, KeyFacts DEF VerifyOK, RefreshOK, Sure
<1> QED
  BY <1>1, <1>3, <1>4, <1>5, OneCall, KeyFacts DEF KeyInv, Locked, Background, Nobody

LEMMA FetchKept == ASSUME KeyInv, NEW c \in KeyCall, Fetch(c) PROVE KeyInv'
<1>1. /\ verifying[c].pc = "fetching" /\ verifying[c] \in KeyCalls
      /\ UNCHANGED <<clock, jwks, seenUntil, cache, refreshMu, asyncRefresh>>
  BY KeyFacts DEF Fetch
<1>2. PICK u : u = [verifying[c] EXCEPT !.pc = "installing", !.got = jwks]
  OBVIOUS
<1>3. /\ u \in KeyCalls /\ u.pc = "installing" /\ u.got = jwks /\ u.since = verifying[c].since
      /\ u.kid = verifying[c].kid /\ u.start = verifying[c].start /\ u.lasting = verifying[c].lasting
  BY <1>1, <1>2 DEF KeyCalls, KeyInv, KeySetTypeOK
<1>4. verifying' = [verifying EXCEPT ![c] = u]
  BY <1>2 DEF Fetch
<1>5. VerifyOK(u, clock, jwks, cache) /\ ~Sure(u)
  <2>1. VerifyOK(verifying[c], clock, jwks, cache)
    BY DEF KeyInv
  <2>2. u.start <= clock /\ u.kid \in Kid /\ (u.lasting => u.kid \in jwks)
    BY <1>1, <1>3, <2>1 DEF VerifyOK, Answers
  <2> QED
    BY <1>3, <2>2 DEF VerifyOK, Sure
<1>6. RefreshOK(u, clock, seenUntil)
  <2>1. verifying[c].since <= clock /\ clock <= verifying[c].since + FetchTimeout
    BY <1>1 DEF KeyInv, RefreshOK, Locked
  <2>2. \A k \in u.got : seenUntil[k] >= u.since
    BY <1>3, <2>1 DEF KeyInv, SeenOK, KeySetTypeOK
  <2> QED
    BY <1>3, <2>1, <2>2 DEF RefreshOK
<1>7. Covers(verifying, u.got)
  <2> SUFFICES ASSUME NEW d \in KeyCall, Sure(verifying[d])
               PROVE  verifying[d].kid \in jwks
    BY <1>3 DEF Covers
  <2>1. VerifyOK(verifying[d], clock, jwks, cache)
    BY DEF KeyInv
  <2> QED
    BY <2>1 DEF VerifyOK, Sure, Answers
<1> QED
  BY <1>1, <1>3, <1>4, <1>5, <1>6, <1>7, OneCall, KeyFacts DEF KeyInv, KeySetTypeOK, Locked

LEMMA FetchFailsKept == ASSUME KeyInv, NEW c \in KeyCall, FetchFails(c) PROVE KeyInv'
<1>1. /\ verifying[c].pc \in Locked /\ refreshMu' = Nobody
      /\ UNCHANGED <<clock, jwks, seenUntil, cache, asyncRefresh>>
      /\ verifying' = Answer(c, "unavailable")
  BY DEF FetchFails, Locked
<1>2. refreshMu = c
  BY <1>1 DEF KeyInv
<1>3. PICK u \in KeyCalls : verifying' = [verifying EXCEPT ![c] = u] /\ u.pc = "unavailable"
  BY <1>1, AnswerFacts DEF Answers
<1>4. VerifyOK(u, clock, jwks, cache) /\ RefreshOK(u, clock, seenUntil) /\ ~Sure(u) /\ u.pc \notin Locked
  BY <1>3 DEF VerifyOK, RefreshOK, Sure, Answers, Locked
<1> QED
  BY <1>1, <1>2, <1>3, <1>4, OneCall, KeyFacts DEF KeyInv, Background, Nobody

\* What is installed was published when its validity begins, but for the time of a fetch.
LEMMA InstalledFacts ==
    ASSUME KeyInv, NEW keys \in SUBSET Kid, Installed(keys), NEW since \in Nat,
           clock <= since + FetchTimeout, \A k \in keys : seenUntil[k] >= since
    PROVE  /\ cache'.keys = keys /\ cache'.expiry \in 0..(MaxClock + Longest)
           /\ cache'.prefetch \in 0..cache'.expiry /\ clock <= cache'.expiry
           /\ CacheOK(cache', seenUntil)
<1>1. PICK v \in Validity : cache' = [keys |-> keys, expiry |-> clock + v, prefetch |-> clock + v \div 2]
  BY DEF Installed
<1>2. v \in Nat /\ v <= Longest /\ Longest \in Nat /\ v \div 2 \in Nat /\ v \div 2 <= v
  BY LongestFacts
<1>3. /\ cache'.keys = keys /\ cache'.expiry = clock + v /\ cache'.prefetch = clock + v \div 2
  BY <1>1
<1>4. \A k \in keys : seenUntil[k] >= clock + v - Longest - FetchTimeout
  BY <1>2, KeyFacts
<1> QED
  BY <1>2, <1>3, <1>4, KeyFacts DEF CacheOK

\* Who refreshed has replaced the keys.
LEMMA InstallKept == ASSUME KeyInv, NEW c \in KeyCall, Install(c) PROVE KeyInv'
<1>1. /\ verifying[c].pc = "installing" /\ verifying[c] \in KeyCalls
      /\ refreshMu' = Nobody /\ UNCHANGED <<clock, jwks, seenUntil, asyncRefresh>>
      /\ Installed(verifying[c].got)
  BY KeyFacts DEF Install
<1>2. PICK u : u = [verifying[c] EXCEPT !.pc = "looking", !.got = {}, !.since = 0]
  OBVIOUS
<1>3. /\ u \in KeyCalls /\ u.pc = "looking"
      /\ u.kid = verifying[c].kid /\ u.start = verifying[c].start /\ u.lasting = verifying[c].lasting
  <2>1. clock \in 0..MaxClock /\ 0 \in 0..MaxClock
    BY KeyFacts
  <2> QED
    BY <1>1, <1>2, <2>1 DEF KeyCalls
<1>4. verifying' = [verifying EXCEPT ![c] = u]
  BY <1>2 DEF Install
<1>5. \A d \in KeyCall : verifying'[d] = IF d = c THEN u ELSE verifying[d]
  BY <1>4, KeyFacts
<1>6. refreshMu = c
  BY <1>1 DEF KeyInv, Locked
<1>7. asyncRefresh.pc \notin Locked /\ \A d \in KeyCall \ {c} : verifying[d].pc \notin Locked
  BY <1>6, KeySetAssumption DEF KeyInv
<1>8. /\ cache'.keys = verifying[c].got /\ cache'.expiry \in 0..(MaxClock + Longest)
      /\ cache'.prefetch \in 0..cache'.expiry /\ clock <= cache'.expiry
      /\ CacheOK(cache', seenUntil)
  <2>1. RefreshOK(verifying[c], clock, seenUntil)
    BY DEF KeyInv
  <2>2. /\ clock <= verifying[c].since + FetchTimeout
        /\ \A k \in verifying[c].got : seenUntil[k] >= verifying[c].since
        /\ verifying[c].since \in Nat /\ verifying[c].got \in SUBSET Kid
    BY <1>1, <2>1, KeySetAssumption DEF RefreshOK, Locked, KeyCalls
  <2> QED
    BY <1>1, <2>2, InstalledFacts
<1>9. KeySetTypeOK'
  <2>1. verifying' \in [KeyCall -> KeyCalls]
    BY <1>3, <1>4, KeyFacts
  <2>2. cache'.keys \subseteq Kid /\ refreshMu' \in KeyCall \cup {Background, Nobody}
    BY <1>1, <1>8 DEF KeyCalls
  <2> QED
    BY <1>1, <1>8, <2>1, <2>2 DEF KeyInv, KeySetTypeOK, KeyCalls
<1>10. \A d \in KeyCall : VerifyOK(verifying'[d], clock', jwks', cache')
  <2> SUFFICES ASSUME NEW d \in KeyCall, verifying'[d].pc \notin Answers
               PROVE  VerifyOK(verifying'[d], clock, jwks, cache')
    BY <1>1 DEF VerifyOK
  <2>1. VerifyOK(verifying[d], clock, jwks, cache) /\ verifying[d].pc \notin Answers
    BY <1>1, <1>5 DEF KeyInv, Answers
  <2>2. /\ verifying'[d].kid = verifying[d].kid /\ verifying'[d].start = verifying[d].start
        /\ verifying'[d].lasting = verifying[d].lasting
        /\ d # c => verifying'[d] = verifying[d]
        /\ d = c => verifying'[d].pc = "looking"
    BY <1>3, <1>5
  <2>3. verifying[d].start \in Nat /\ verifying[d].start <= clock /\ verifying[d].start <= cache'.expiry
    BY <1>8, <2>1, KeyFacts DEF VerifyOK, KeyCalls
  <2>4. Sure(verifying'[d]) => verifying[d].kid \in verifying[c].got
    <3>1. CASE d = c
      BY <1>1, <2>1, <2>2, <3>1 DEF Sure, VerifyOK
    <3>2. CASE d # c
      BY <1>1, <2>2, <3>2 DEF KeyInv, Covers
    <3> QED
      BY <3>1, <3>2
  <2>5. verifying'[d].pc # "installing"
    BY <1>7, <2>2 DEF Locked
  <2> QED
    BY <1>8, <2>1, <2>2, <2>3, <2>4, <2>5 DEF VerifyOK
<1>11. \A d \in KeyCall : verifying'[d].pc \notin Locked
  BY <1>3, <1>5, <1>7 DEF Locked
<1>12. RefreshOK(asyncRefresh, clock, seenUntil)' /\ \A d \in KeyCall : RefreshOK(verifying'[d], clock', seenUntil')
  BY <1>1, <1>7, <1>11 DEF RefreshOK
<1>13. /\ (refreshMu = Background <=> asyncRefresh.pc \in Locked)'
       /\ \A d \in KeyCall : refreshMu' = d <=> verifying'[d].pc \in Locked
  BY <1>1, <1>7, <1>11, KeySetAssumption DEF Background, Nobody
<1> QED
  BY <1>1, <1>7, <1>8, <1>9, <1>10, <1>11, <1>12, <1>13 DEF KeyInv, Locked

LEMMA BackgroundKept == ASSUME KeyInv, BackgroundRefresh PROVE KeyInv'
<1>1. UNCHANGED <<clock, jwks, seenUntil, verifying>>
  BY DEF BackgroundRefresh
<1>2. /\ (\A c \in KeyCall : RefreshOK(verifying[c], clock, seenUntil))'
      /\ SeenOK(clock, jwks, seenUntil)'
  BY <1>1 DEF KeyInv
\* The background refresh takes the mutex or fetches.
<1>3. ASSUME UNCHANGED cache, asyncRefresh' \in BackgroundRefreshes,
             refreshMu' \in KeyCall \cup {Background, Nobody},
             refreshMu' = Background <=> asyncRefresh'.pc \in Locked,
             \A c \in KeyCall : refreshMu' = c <=> refreshMu = c,
             RefreshOK(asyncRefresh', clock, seenUntil),
             asyncRefresh'.pc = "installing" => Covers(verifying, asyncRefresh'.got)
      PROVE  KeyInv'
  <2>1. KeySetTypeOK'
    BY <1>1, <1>3 DEF KeyInv, KeySetTypeOK, BackgroundRefreshes
  <2>2. CacheOK(cache', seenUntil') /\ RefreshOK(asyncRefresh', clock', seenUntil')
    BY <1>1, <1>3 DEF KeyInv
  <2>3. \A c \in KeyCall : /\ VerifyOK(verifying'[c], clock', jwks', cache')
                           /\ refreshMu' = c <=> verifying'[c].pc \in Locked
                           /\ verifying'[c].pc = "installing" => Covers(verifying', verifying'[c].got)
    BY <1>1, <1>3 DEF KeyInv
  <2> QED
    BY <1>1, <1>2, <1>3, <2>1, <2>2, <2>3 DEF KeyInv
<1>4. CASE /\ asyncRefresh.pc = "refreshing" /\ refreshMu = Nobody
           /\ refreshMu' = Background
           /\ asyncRefresh' = [asyncRefresh EXCEPT !.pc = "fetching", !.since = clock]
           /\ UNCHANGED cache
  <2>1. clock \in 0..MaxClock
    BY KeyFacts
  <2>2. /\ asyncRefresh' \in BackgroundRefreshes /\ asyncRefresh'.pc = "fetching"
        /\ asyncRefresh'.since = clock
    BY <1>4, <2>1, KeyFacts DEF BackgroundRefreshes
  <2>3. RefreshOK(asyncRefresh', clock, seenUntil)
    BY <2>2, KeyFacts DEF RefreshOK
  <2> QED
    BY <1>3, <1>4, <2>2, <2>3, KeySetAssumption DEF Locked
<1>5. CASE /\ asyncRefresh.pc = "fetching" /\ jwks # {}
           /\ asyncRefresh' = [asyncRefresh EXCEPT !.pc = "installing", !.got = jwks]
           /\ UNCHANGED <<refreshMu, cache>>
  <2>1. jwks \in SUBSET Kid
    BY DEF KeyInv, KeySetTypeOK
  <2>2. /\ asyncRefresh' \in BackgroundRefreshes /\ asyncRefresh'.pc = "installing"
        /\ asyncRefresh'.since = asyncRefresh.since /\ asyncRefresh'.got = jwks
    BY <1>5, <2>1, KeyFacts DEF BackgroundRefreshes
  <2>3. asyncRefresh.since <= clock /\ clock <= asyncRefresh.since + FetchTimeout
    BY <1>5 DEF KeyInv, RefreshOK, Locked
  <2>4. \A k \in jwks : seenUntil[k] >= asyncRefresh.since
    BY <2>1, <2>3 DEF KeyInv, SeenOK
  <2>5. RefreshOK(asyncRefresh', clock, seenUntil)
    BY <2>2, <2>3, <2>4 DEF RefreshOK
  <2>6. Covers(verifying, jwks)
    <3> SUFFICES ASSUME NEW d \in KeyCall, Sure(verifying[d])
                 PROVE  verifying[d].kid \in jwks
      BY DEF Covers
    <3>1. VerifyOK(verifying[d], clock, jwks, cache)
      BY DEF KeyInv
    <3> QED
      BY <3>1 DEF VerifyOK, Sure, Answers
  <2>7. refreshMu' = Background /\ refreshMu' \in KeyCall \cup {Background, Nobody}
    BY <1>5 DEF KeyInv, Locked
  <2> QED
    BY <1>3, <1>5, <2>2, <2>5, <2>6, <2>7 DEF Locked
<1>6. CASE /\ asyncRefresh.pc \in Locked
           /\ refreshMu' = Nobody
           /\ asyncRefresh' = [pc |-> "idle", got |-> {}, since |-> 0]
           /\ \/ UNCHANGED cache
              \/ asyncRefresh.pc = "installing" /\ Installed(asyncRefresh.got)
  <2>1. refreshMu = Background /\ \A c \in KeyCall : verifying[c].pc \notin Locked
    BY <1>6, KeySetAssumption DEF KeyInv
  <2>2. /\ asyncRefresh' \in BackgroundRefreshes /\ asyncRefresh'.pc \notin Locked
        /\ RefreshOK(asyncRefresh', clock, seenUntil) /\ asyncRefresh'.pc # "installing"
    BY <1>6, KeyFacts DEF BackgroundRefreshes, RefreshOK, Locked
  <2>3. /\ refreshMu' # Background /\ refreshMu' \in KeyCall \cup {Background, Nobody}
        /\ \A c \in KeyCall : refreshMu' # c /\ refreshMu # c
    BY <1>6, <2>1, KeySetAssumption DEF Background, Nobody
  <2>4. CASE UNCHANGED cache
    BY <1>3, <2>2, <2>3, <2>4
  <2>5. CASE asyncRefresh.pc = "installing" /\ Installed(asyncRefresh.got)
    <3>1. /\ clock <= asyncRefresh.since + FetchTimeout
          /\ \A k \in asyncRefresh.got : seenUntil[k] >= asyncRefresh.since
          /\ asyncRefresh.since \in Nat /\ asyncRefresh.got \in SUBSET Kid
      BY <2>5, KeySetAssumption DEF KeyInv, KeySetTypeOK, RefreshOK, Locked
    <3>2. /\ cache'.keys = asyncRefresh.got /\ cache'.expiry \in 0..(MaxClock + Longest)
          /\ cache'.prefetch \in 0..cache'.expiry /\ clock <= cache'.expiry
          /\ CacheOK(cache', seenUntil)
      BY <2>5, <3>1, InstalledFacts
    <3>3. KeySetTypeOK'
      BY <1>1, <2>2, <2>3, <3>1, <3>2 DEF KeyInv, KeySetTypeOK, BackgroundRefreshes
    <3>4. \A c \in KeyCall : VerifyOK(verifying'[c], clock', jwks', cache')
      <4> SUFFICES ASSUME NEW c \in KeyCall PROVE VerifyOK(verifying[c], clock, jwks, cache')
        BY <1>1
      <4>1. VerifyOK(verifying[c], clock, jwks, cache)
        BY DEF KeyInv
      <4>2. Sure(verifying[c]) => verifying[c].kid \in asyncRefresh.got
        BY <2>5 DEF KeyInv, Covers
      <4>3. verifying[c].start \in Nat
        BY KeyFacts DEF KeyCalls
      <4> QED
        BY <3>2, <4>1, <4>2, <4>3, KeyFacts DEF VerifyOK
    <3> QED
      BY <1>1, <1>2, <2>1, <2>2, <2>3, <3>2, <3>3, <3>4 DEF KeyInv, Locked
  <2> QED
    BY <1>6, <2>4, <2>5
<1> QED
  BY <1>4, <1>5, <1>6 DEF BackgroundRefresh, Locked

LEMMA TickKept == ASSUME KeyInv, Tick PROVE KeyInv'
<1>1. /\ clock' = clock + 1 /\ clock < MaxClock
      /\ UNCHANGED <<jwks, cache, refreshMu, asyncRefresh, verifying>>
      /\ \A k \in Kid : seenUntil'[k] = IF k \in jwks THEN clock + 1 ELSE seenUntil[k]
  BY DEF Tick
<1>2. /\ clock \in Nat /\ MaxClock \in Nat /\ FetchTimeout \in Nat
      /\ \A k \in Kid : seenUntil[k] \in Int /\ seenUntil[k] <= clock
      /\ \A k \in Kid : seenUntil'[k] \in Int /\ seenUntil[k] <= seenUntil'[k]
  BY <1>1, KeyFacts DEF KeyInv, SeenOK
<1>3. KeySetTypeOK'
  <2>1. seenUntil' \in [Kid -> -1..MaxClock]
    BY <1>1, <1>2 DEF KeyInv, KeySetTypeOK, Tick
  <2> QED
    BY <1>1, <1>2, <2>1 DEF KeyInv, KeySetTypeOK
<1>4. SeenOK(clock', jwks', seenUntil')
  BY <1>1, <1>2 DEF SeenOK
<1>5. CacheOK(cache', seenUntil')
  <2>1. cache.keys \subseteq Kid /\ cache.expiry \in Nat /\ Longest \in Nat
    BY KeyFacts, LongestFacts
  <2> QED
    BY <1>1, <1>2, <2>1 DEF KeyInv, CacheOK
<1>6. ASSUME NEW r, RefreshOK(r, clock, seenUntil), r.since \in Nat, r.got \subseteq Kid,
             r.pc \in Locked => clock < r.since + FetchTimeout
      PROVE  RefreshOK(r, clock', seenUntil')
  <2>1. ASSUME NEW k \in r.got, seenUntil[k] >= r.since PROVE seenUntil'[k] >= r.since
    BY <1>2, <1>6, <2>1
  <2> QED
    BY <1>1, <1>2, <1>6, <2>1 DEF RefreshOK
<1>7. RefreshOK(asyncRefresh', clock', seenUntil')
  BY <1>1, <1>6, KeyFacts DEF KeyInv, Tick, BackgroundRefreshes
<1>8. \A c \in KeyCall : RefreshOK(verifying'[c], clock', seenUntil')
  BY <1>1, <1>6, KeyFacts DEF KeyInv, Tick, KeyCalls
<1>9. \A c \in KeyCall : VerifyOK(verifying'[c], clock', jwks', cache')
  <2> SUFFICES ASSUME NEW c \in KeyCall PROVE VerifyOK(verifying[c], clock + 1, jwks, cache)
    BY <1>1
  <2>1. VerifyOK(verifying[c], clock, jwks, cache) /\ verifying[c].start \in Nat
    BY KeyFacts DEF KeyInv, KeyCalls
  <2> QED
    BY <1>2, <2>1 DEF VerifyOK
<1> QED
  BY <1>1, <1>3, <1>4, <1>5, <1>7, <1>8, <1>9 DEF KeyInv

LEMMA RotateKept == ASSUME KeyInv, NEW k \in Kid, Rotate(k) PROVE KeyInv'
<1>1. /\ jwks' = IF k \in jwks THEN jwks \ {k} ELSE jwks \cup {k}
      /\ \A j \in Kid : seenUntil'[j] = IF j = k THEN clock ELSE seenUntil[j]
      /\ UNCHANGED <<clock, cache, refreshMu, asyncRefresh>>
  BY DEF Rotate, KeyInv, KeySetTypeOK
<1>2. /\ clock \in Nat
      /\ \A j \in Kid : seenUntil[j] \in Int /\ seenUntil[j] <= clock
      /\ \A j \in Kid : seenUntil'[j] \in Int /\ seenUntil[j] <= seenUntil'[j]
  BY <1>1, KeyFacts DEF KeyInv, SeenOK
\* A call keeps everything but, if it is about k, that k lasts.
<1>3. \A c \in KeyCall :
         /\ verifying'[c] \in KeyCalls
         /\ verifying'[c].pc = verifying[c].pc /\ verifying'[c].kid = verifying[c].kid
         /\ verifying'[c].start = verifying[c].start /\ verifying'[c].second = verifying[c].second
         /\ verifying'[c].got = verifying[c].got /\ verifying'[c].since = verifying[c].since
         /\ verifying'[c].lasting => verifying[c].lasting /\ verifying[c].kid # k
  <2> SUFFICES ASSUME NEW c \in KeyCall
               PROVE  /\ verifying'[c] \in KeyCalls
                      /\ verifying'[c].pc = verifying[c].pc /\ verifying'[c].kid = verifying[c].kid
                      /\ verifying'[c].start = verifying[c].start
                      /\ verifying'[c].second = verifying[c].second
                      /\ verifying'[c].got = verifying[c].got
                      /\ verifying'[c].since = verifying[c].since
                      /\ verifying'[c].lasting => verifying[c].lasting /\ verifying[c].kid # k
    OBVIOUS
  <2>1. /\ verifying[c] \in KeyCalls
        /\ verifying'[c] = IF verifying[c].kid = k THEN [verifying[c] EXCEPT !.lasting = FALSE]
                                                   ELSE verifying[c]
    BY KeyFacts DEF Rotate
  <2> QED
    BY <2>1 DEF KeyCalls
<1>4. KeySetTypeOK'
  <2>1. seenUntil' \in [Kid -> -1..MaxClock]
    BY DEF Rotate, KeyInv, KeySetTypeOK
  <2>2. verifying' \in [KeyCall -> KeyCalls]
    BY <1>3 DEF Rotate
  <2>3. jwks' \subseteq Kid
    BY <1>1 DEF KeyInv, KeySetTypeOK
  <2> QED
    BY <1>1, <2>1, <2>2, <2>3 DEF KeyInv, KeySetTypeOK, KeyCalls
<1>5. SeenOK(clock', jwks', seenUntil')
  BY <1>1, <1>2 DEF KeyInv, SeenOK
<1>6. CacheOK(cache', seenUntil')
  <2>1. cache.keys \subseteq Kid /\ cache.expiry \in Nat /\ Longest \in Nat /\ FetchTimeout \in Nat
    BY KeyFacts, LongestFacts
  <2> QED
    BY <1>1, <1>2, <2>1 DEF KeyInv, CacheOK
<1>7. ASSUME NEW r, NEW q, RefreshOK(r, clock, seenUntil), r.since \in Nat, r.got \subseteq Kid,
             q.pc = r.pc, q.since = r.since, q.got = r.got
      PROVE  RefreshOK(q, clock', seenUntil')
  <2>1. ASSUME NEW j \in r.got, seenUntil[j] >= r.since PROVE seenUntil'[j] >= r.since
    BY <1>2, <1>7, <2>1
  <2> QED
    BY <1>1, <1>2, <1>7, <2>1 DEF RefreshOK
<1>8. RefreshOK(asyncRefresh', clock', seenUntil')
  BY <1>1, <1>7, KeyFacts DEF KeyInv, BackgroundRefreshes
<1>9. \A c \in KeyCall : RefreshOK(verifying'[c], clock', seenUntil')
  BY <1>3, <1>7, KeyFacts DEF KeyInv, KeyCalls
<1>10. \A c \in KeyCall : VerifyOK(verifying'[c], clock', jwks', cache')
  <2> SUFFICES ASSUME NEW c \in KeyCall PROVE VerifyOK(verifying'[c], clock, jwks', cache)
    BY <1>1
  <2>1. VerifyOK(verifying[c], clock, jwks, cache)
    BY DEF KeyInv
  <2>2. ASSUME verifying'[c].lasting, verifying[c].kid \in jwks PROVE verifying[c].kid \in jwks'
    BY <1>1, <1>3, <2>2
  <2> QED
    BY <1>3, <2>1, <2>2 DEF VerifyOK, Sure
<1>11. ASSUME NEW got, Covers(verifying, got) PROVE Covers(verifying', got)
  BY <1>3, <1>11 DEF Covers, Sure
<1> QED
  BY <1>1, <1>3, <1>4, <1>5, <1>6, <1>8, <1>9, <1>10, <1>11 DEF KeyInv

LEMMA NextKeyInv == KeyInv /\ [KeySetNext]_keyVars => KeyInv'
<1> SUFFICES ASSUME KeyInv, [KeySetNext]_keyVars PROVE KeyInv'
  OBVIOUS
<1>1. CASE UNCHANGED keyVars
  BY <1>1 DEF keyVars, KeyInv, KeySetTypeOK, Covers
<1> QED
  BY <1>1, TickKept, BackgroundKept, RotateKept, KeyKept, LookUpKept, LockRefreshKept, FetchKept,
     InstallKept, FetchFailsKept DEF KeySetNext

\* The cached keys, their mutex and the calls that wait for it keep their types.
THEOREM KeysTyped == KeySetSpec => []KeySetTypeOK
<1>1. KeyInv => KeySetTypeOK
  BY DEF KeyInv
<1> QED
  BY <1>1, InitKeyInv, NextKeyInv, PTL DEF KeySetSpec

\* RequireOIDC: no key is accepted long after it was withdrawn, and none is refused that
\* is published during the whole request, whatever refreshes fail or overtake each other.
THEOREM AnswersRight == KeySetSpec => AnswersJustified
<1> DEFINE Justified ==
        \A c \in KeyCall :
          /\ Answered(c, "accepted") =>
                seenUntil[verifying[c].kid] >= verifying[c].start - Longest - FetchTimeout
          /\ Answered(c, "unauthorized") => ~verifying[c].lasting
<1>1. KeyInv /\ [KeySetNext]_keyVars => [Justified]_keyVars
  <2> SUFFICES ASSUME KeyInv, KeySetNext, NEW c \in KeyCall, verifying[c].pc \notin Answers,
                      verifying'[c].pc \in {"accepted", "unauthorized"}
               PROVE  /\ verifying'[c].pc = "accepted" =>
                            seenUntil[verifying[c].kid] >= verifying[c].start - Longest - FetchTimeout
                      /\ verifying'[c].pc = "unauthorized" => ~verifying[c].lasting
    BY DEF Answered
  <2>1. VerifyOK(verifying[c], clock, jwks, cache) /\ verifying[c] \in KeyCalls
    BY KeyFacts DEF KeyInv
  <2>2. LookUp(c)
    <3>1. UNCHANGED verifying => FALSE
      BY DEF Answers
    <3>2. ASSUME NEW k \in Kid, Rotate(k) PROVE FALSE
      <4>1. verifying'[c].pc = verifying[c].pc
        BY <2>1, <3>2 DEF Rotate, KeyCalls
      <4> QED
        BY <4>1 DEF Answers
    <3>3. ASSUME NEW d \in KeyCall \ {c}, NEW u, verifying' = [verifying EXCEPT ![d] = u] PROVE FALSE
      BY <3>3, KeyFacts DEF Answers
    <3>4. ASSUME NEW u, verifying' = [verifying EXCEPT ![c] = u], u.pc \notin {"accepted", "unauthorized"}
          PROVE  FALSE
      BY <3>4, KeyFacts
    <3>5. ASSUME NEW d \in KeyCall, NEW k \in Kid, Key(d, k) PROVE FALSE
      BY <3>3, <3>5 DEF Key
    <3>6. ASSUME NEW d \in KeyCall, LookUp(d), d # c PROVE FALSE
      BY <3>3, <3>6 DEF LookUp, Answer
    <3>7. ASSUME NEW d \in KeyCall, LockRefresh(d) PROVE FALSE
      <4>1. CASE d # c
        BY <3>7, <4>1, KeyFacts DEF LockRefresh, Answers
      <4>2. CASE d = c
        BY <2>1, <3>4, <3>7, <4>2 DEF LockRefresh, KeyCalls
      <4> QED
        BY <4>1, <4>2
    <3>8. ASSUME NEW d \in KeyCall, Fetch(d) PROVE FALSE
      <4>1. CASE d # c
        BY <3>8, <4>1, KeyFacts DEF Fetch, Answers
      <4>2. CASE d = c
        BY <2>1, <3>4, <3>8, <4>2 DEF Fetch, KeyCalls
      <4> QED
        BY <4>1, <4>2
    <3>9. ASSUME NEW d \in KeyCall, Install(d) PROVE FALSE
      <4>1. CASE d # c
        BY <3>9, <4>1, KeyFacts DEF Install, Answers
      <4>2. CASE d = c
        BY <2>1, <3>4, <3>9, <4>2 DEF Install, KeyCalls
      <4> QED
        BY <4>1, <4>2
    <3>10. ASSUME NEW d \in KeyCall, FetchFails(d) PROVE FALSE
      <4>1. [NoCall EXCEPT !.pc = "unavailable"].pc = "unavailable"
        BY DEF NoCall
      <4>2. PICK u : verifying' = [verifying EXCEPT ![d] = u] /\ u.pc = "unavailable"
        BY <3>10, <4>1 DEF FetchFails, Answer
      <4> QED
        BY <3>3, <3>4, <4>2
    <3> QED
      BY <3>1, <3>2, <3>5, <3>6, <3>7, <3>8, <3>9, <3>10 DEF KeySetNext, Tick, BackgroundRefresh
  <2>3. verifying[c].pc = "looking" /\ verifying[c].start <= cache.expiry /\ verifying[c].kid \in Kid
    BY <2>1, <2>2 DEF LookUp, VerifyOK
  <2>4. CASE verifying[c].kid \in cache.keys
    <3>1. verifying'[c].pc = "accepted"
      <4>1. [NoCall EXCEPT !.pc = "accepted"].pc = "accepted"
        BY DEF NoCall
      <4> QED
        BY <2>2, <2>4, <4>1, KeyFacts DEF LookUp, Answer
    <3>2. seenUntil[verifying[c].kid] >= cache.expiry - Longest - FetchTimeout
      BY <2>4 DEF KeyInv, CacheOK
    <3>3. /\ seenUntil[verifying[c].kid] \in Int /\ cache.expiry \in Int /\ verifying[c].start \in Int
          /\ Longest \in Int /\ FetchTimeout \in Int
      BY <2>1, <2>3, KeyFacts, LongestFacts DEF KeyCalls
    <3> QED
      BY <2>3, <3>1, <3>2, <3>3
  <2>5. CASE verifying[c].kid \notin cache.keys
    <3>1. CASE ~verifying[c].second
      <4>1. PICK u : u = [verifying[c] EXCEPT !.pc = "refreshing", !.second = TRUE]
        OBVIOUS
      <4>2. u.pc = "refreshing" /\ verifying' = [verifying EXCEPT ![c] = u]
        BY <2>1, <2>2, <2>5, <3>1, <4>1 DEF LookUp, KeyCalls
      <4> QED
        BY <4>2, KeyFacts
    <3>2. CASE verifying[c].second
      <4>1. ~verifying[c].lasting
        BY <2>1, <2>3, <2>5, <3>2 DEF VerifyOK, Sure, Answers
      <4>2. [NoCall EXCEPT !.pc = "unauthorized"].pc = "unauthorized"
        BY DEF NoCall
      <4>3. verifying'[c].pc = "unauthorized"
        BY <2>2, <2>5, <3>2, <4>2, KeyFacts DEF LookUp, Answer
      <4> QED
        BY <4>1, <4>3
    <3> QED
      BY <3>1, <3>2
  <2> QED
    BY <2>4, <2>5
<1>2. KeySetSpec => [][Justified]_keyVars
  BY <1>1, InitKeyInv, NextKeyInv, PTL DEF KeySetSpec
<1> QED
  BY <1>2 DEF AnswersJustified

-----------------------------------------------------------------------------
(* Secrets.  The slice: what an Invalidate has still to walk through holds   *)
(* every watcher that it has still to tell.  The cache: after an Invalidate, *)
(* only what was fetched later, or is marked, is stored.                     *)

Slots == Seq(Watcher \cup {NoWatcher})
Notices == [pc : {"idle", "walking"}, shared : BOOLEAN, own : Slots, length : Nat,
            next : Nat \ {0}, generation : 0..MaxGeneration, untold : SUBSET Watcher]

\* The array that the Invalidate of a notice walks through.
Walked(notice, current) == IF notice.shared THEN current ELSE notice.own

\* An Invalidate is still to come to every watcher that it has to tell.
NoticeOK(notice, current, length) ==
    /\ notice.pc = "idle" => notice.length = 0
    /\ notice.pc = "walking" =>
          /\ notice.generation # 0
          /\ notice.length <= Len(Walked(notice, current))
          /\ \A w \in notice.untold : \E i \in notice.next..notice.length :
                Walked(notice, current)[i] = w
          /\ notice.shared /\ notice.untold # {} => notice.length <= length

SliceInv ==
    /\ array \in Slots /\ used \in Nat /\ used <= Len(array)
    /\ \A i \in 1..used : array[i] \in Watcher
    /\ notifying \in [Notifier -> Notices]
    /\ \A n \in Notifier : NoticeOK(notifying[n], array, used)

\* Whoever was told of generation g may be answered from the cache, now or once the
\* calls under way have stored what they fetched.
Met(g) ==
    /\ g \in 0..generation
    /\ cached = NoEntry \/ Fresh(cached, g)
    /\ \A w \in Watcher : resolving[w].pc = "storing" => Fresh(resolving[w], g)

FreshInv ==
    /\ generation \in 1..MaxGeneration
    /\ cached \in [value : -1..MaxGeneration, overtaken : BOOLEAN]
    /\ signal \in [Watcher -> 0..MaxGeneration]
    /\ fetcherClosed \in BOOLEAN
    /\ resolving \in [Watcher -> [pc : {"idle", "fetching", "storing"}, need : 0..MaxGeneration,
                                  value : -1..MaxGeneration, overtaken : BOOLEAN]]
    /\ \A w \in Watcher : Met(signal[w]) /\ Met(resolving[w].need)
    /\ \A n \in Notifier : notifying[n].pc = "walking" => Met(notifying[n].generation)

SecretsInv == SliceInv /\ FreshInv

Resolvings == [pc : {"idle", "fetching", "storing"}, need : 0..MaxGeneration,
               value : -1..MaxGeneration, overtaken : BOOLEAN]

LEMMA NoNoticeFacts ==
    /\ NoNotice \in Notices /\ NoNotice.pc = "idle" /\ NoNotice.length = 0 /\ NoNotice.shared
<1>1. <<>> \in Slots /\ 0 \in 0..MaxGeneration
  BY EmptySeq, SecretAssumption DEF Slots
<1> QED
  BY <1>1 DEF NoNotice, Notices

LEMMA InitSliceInv == SecretsInit => SliceInv
<1> SUFFICES ASSUME SecretsInit PROVE SliceInv
  OBVIOUS
<1>1. array = <<>> /\ used = 0 /\ array \in Slots /\ Len(array) = 0
  BY EmptySeq DEF SecretsInit, Slots
<1>2. \A n \in Notifier : notifying[n] = NoNotice
  BY DEF SecretsInit
<1>3. notifying \in [Notifier -> Notices]
  BY NoNoticeFacts DEF SecretsInit
<1>4. \A n \in Notifier : NoticeOK(notifying[n], array, used)
  BY <1>1, <1>2, NoNoticeFacts DEF NoticeOK, Walked
<1> QED
  BY <1>1, <1>3, <1>4 DEF SliceInv

LEMMA SliceFacts ==
    ASSUME SliceInv
    PROVE  /\ array \in Slots /\ used \in Nat /\ Len(array) \in Nat /\ used <= Len(array)
           /\ DOMAIN array = 1..Len(array)
           /\ \A i \in 1..Len(array) : array[i] \in Watcher \cup {NoWatcher}
           /\ \A n \in Notifier : notifying[n] \in Notices
BY DEF SliceInv, Slots

\* A function on 1..n is a slot sequence of length n.
LEMMA SlotsFacts ==
    ASSUME NEW n \in Nat, NEW f \in [1..n -> Watcher \cup {NoWatcher}]
    PROVE  f \in Slots /\ Len(f) = n /\ DOMAIN f = 1..n
<1>1. f \in Seq(Watcher \cup {NoWatcher})
  BY SeqDef
<1>2. Len(f) \in Nat /\ DOMAIN f = 1..Len(f)
  BY <1>1, LenProperties
<1> QED
  BY <1>1, <1>2 DEF Slots

\* Subscribing changes what no Invalidate looks at.
LEMMA SubscribeSlices == ASSUME SliceInv, NEW w \in Watcher, Subscribe(w) PROVE SliceInv'
<1>1. used' = used + 1
  BY DEF Subscribe
<1>2. CASE used < Len(array)
  <2>1. array' = [array EXCEPT ![used + 1] = w] /\ UNCHANGED notifying
    BY <1>2 DEF Subscribe
  <2>2. array' \in [1..Len(array) -> Watcher \cup {NoWatcher}]
    BY <2>1, SliceFacts
  <2>3. array' \in Slots /\ Len(array') = Len(array) /\ DOMAIN array' = 1..Len(array)
    BY <2>2, SliceFacts, SlotsFacts
  <2>4. /\ \A i \in 1..used : array'[i] = array[i]
        /\ array'[used + 1] = w
    BY <1>2, <2>1, SliceFacts
  <2>5. \A i \in 1..used' : array'[i] \in Watcher
    BY <1>1, <2>4, SliceFacts DEF SliceInv
  <2>6. \A n \in Notifier : NoticeOK(notifying'[n], array', used')
    <3> SUFFICES ASSUME NEW n \in Notifier PROVE NoticeOK(notifying[n], array', used + 1)
      BY <1>1, <2>1
    <3>1. NoticeOK(notifying[n], array, used) /\ notifying[n] \in Notices
      BY SliceFacts DEF SliceInv
    <3>2. notifying[n].pc = "walking" => notifying[n].length <= Len(Walked(notifying[n], array'))
      BY <2>3, <3>1 DEF NoticeOK, Walked
    <3>3. ASSUME notifying[n].pc = "walking", NEW v \in notifying[n].untold
          PROVE  \E i \in notifying[n].next..notifying[n].length : Walked(notifying[n], array')[i] = v
      <4>1. PICK i \in notifying[n].next..notifying[n].length : Walked(notifying[n], array)[i] = v
        BY <3>1, <3>3 DEF NoticeOK
      <4>2. notifying[n].shared => i \in 1..used
        BY <3>1, <3>3, SliceFacts DEF NoticeOK, Notices
      <4> QED
        BY <2>4, <4>1, <4>2 DEF Walked
    <3>4. notifying[n].length <= used => notifying[n].length <= used + 1
      BY <3>1, SliceFacts DEF Notices
    <3> QED
      BY <3>1, <3>2, <3>3, <3>4 DEF NoticeOK
  <2>7. used' \in Nat /\ used' <= Len(array') /\ notifying' \in [Notifier -> Notices]
    BY <1>1, <1>2, <2>1, <2>3, SliceFacts DEF SliceInv
  <2> QED
    BY <2>3, <2>5, <2>6, <2>7 DEF SliceInv
<1>3. CASE ~(used < Len(array))
  <2>1. used = Len(array)
    BY <1>3, SliceFacts
  <2>2. Capacity(used) \in Nat /\ used + 1 <= Capacity(used)
    BY SliceFacts DEF Capacity
  <2>3. array' = [i \in 1..Capacity(used) |-> IF i <= used THEN array[i]
                                              ELSE IF i = used + 1 THEN w ELSE NoWatcher]
    BY <1>3, <2>1 DEF Subscribe
  <2>4. array' \in [1..Capacity(used) -> Watcher \cup {NoWatcher}]
    BY <2>1, <2>2, <2>3, SliceFacts
  <2>5. array' \in Slots /\ Len(array') = Capacity(used)
    BY <2>2, <2>4, SlotsFacts
  <2>6. \A i \in 1..used' : array'[i] \in Watcher
    BY <1>1, <2>2, <2>3, SliceFacts DEF SliceInv
  <2>7. \A n \in Notifier : /\ notifying'[n] \in Notices
                            /\ NoticeOK(notifying'[n], array', used')
    <3> SUFFICES ASSUME NEW n \in Notifier
                 PROVE  notifying'[n] \in Notices /\ NoticeOK(notifying'[n], array', used')
      OBVIOUS
    <3>1. NoticeOK(notifying[n], array, used) /\ notifying[n] \in Notices
      BY SliceFacts DEF SliceInv
    <3>2. notifying'[n] = IF notifying[n].pc = "walking" /\ notifying[n].shared
                          THEN [notifying[n] EXCEPT !.shared = FALSE, !.own = array]
                          ELSE notifying[n]
      BY <1>3 DEF Subscribe, MovedOn
    <3>3. CASE notifying[n].pc = "walking" /\ notifying[n].shared
      <4>1. /\ notifying'[n] \in Notices /\ ~notifying'[n].shared /\ notifying'[n].own = array
            /\ notifying'[n].pc = notifying[n].pc /\ notifying'[n].length = notifying[n].length
            /\ notifying'[n].next = notifying[n].next /\ notifying'[n].untold = notifying[n].untold
            /\ notifying'[n].generation = notifying[n].generation
        <5>1. array \in Slots
          BY SliceFacts
        <5>2. notifying'[n] = [notifying[n] EXCEPT !.shared = FALSE, !.own = array]
          BY <3>2, <3>3
        <5> QED
          BY <3>1, <5>1, <5>2 DEF Notices
      <4>2. Walked(notifying'[n], array') = Walked(notifying[n], array)
        BY <3>3, <4>1 DEF Walked
      <4> QED
        BY <3>1, <4>1, <4>2 DEF NoticeOK
    <3>4. CASE notifying[n].pc # "walking"
      <4>1. notifying'[n] = notifying[n]
        BY <3>2, <3>4
      <4> QED
        BY <3>1, <3>4, <4>1 DEF NoticeOK
    <3>5. CASE notifying[n].pc = "walking" /\ ~notifying[n].shared
      <4>1. notifying'[n] = notifying[n] /\ Walked(notifying[n], array') = Walked(notifying[n], array)
        BY <3>2, <3>5 DEF Walked
      <4> QED
        BY <3>1, <3>5, <4>1 DEF NoticeOK
    <3> QED
      BY <3>3, <3>4, <3>5
  <2>8. notifying' \in [Notifier -> Notices]
    BY <1>3, <2>7 DEF Subscribe, MovedOn
  <2> QED
    BY <1>1, <2>2, <2>5, <2>6, <2>7, <2>8, SliceFacts DEF SliceInv
<1> QED
  BY <1>2, <1>3

\* The slice shrinks: the walks that go on have nobody left to tell for certain.
LEMMA ShrinkSlices ==
    ASSUME SliceInv, used' \in Nat, array' \in Slots, used' <= Len(array'),
           \A i \in 1..used' : array'[i] \in Watcher,
           \/ notifying' = Disturbed(notifying) /\ Len(array') = Len(array)
           \/ notifying' = Disturbed(MovedOn)
    PROVE  SliceInv'
<1>1. ASSUME NEW n \in Notifier
      PROVE  notifying'[n] \in Notices /\ NoticeOK(notifying'[n], array', used')
  <2>1. NoticeOK(notifying[n], array, used) /\ notifying[n] \in Notices
    BY SliceFacts DEF SliceInv
  <2>2. PICK m : m = IF notifying' = Disturbed(notifying) /\ Len(array') = Len(array)
                     THEN notifying[n] ELSE MovedOn[n]
    OBVIOUS
  <2>3. notifying'[n] = IF m.pc = "walking" THEN [m EXCEPT !.untold = {}] ELSE m
    BY <2>2 DEF Disturbed
  <2>4. m \in Notices /\ m.length = notifying[n].length /\ m.pc = notifying[n].pc
        /\ m.generation = notifying[n].generation
    BY <2>1, <2>2, SliceFacts DEF MovedOn, Notices
  <2>5. m.pc = "walking" => m.length <= Len(Walked(m, array'))
    <3>1. CASE notifying' = Disturbed(notifying) /\ Len(array') = Len(array)
      BY <2>1, <2>2, <3>1 DEF NoticeOK, Walked
    <3>2. CASE ~(notifying' = Disturbed(notifying) /\ Len(array') = Len(array)) /\ m.pc = "walking"
      <4>1. ~m.shared /\ m.own = Walked(notifying[n], array)
        BY <2>1, <2>2, <2>4, <3>2, SliceFacts DEF MovedOn, Notices, Walked
      <4> QED
        BY <2>1, <2>4, <4>1 DEF NoticeOK, Walked
    <3> QED
      BY <3>1, <3>2
  <2>6. CASE m.pc = "walking"
    <3>1. /\ notifying'[n] \in Notices /\ notifying'[n].untold = {} /\ notifying'[n].length = m.length
          /\ notifying'[n].shared = m.shared /\ notifying'[n].own = m.own
          /\ notifying'[n].pc = "walking" /\ notifying'[n].generation = m.generation
      BY <2>3, <2>4, <2>6 DEF Notices
    <3> QED
      BY <2>1, <2>4, <2>5, <2>6, <3>1 DEF NoticeOK, Walked
  <2>7. CASE m.pc # "walking"
    BY <2>1, <2>3, <2>4, <2>7 DEF NoticeOK
  <2> QED
    BY <2>6, <2>7
<1>2. notifying' \in [Notifier -> Notices]
  BY <1>1 DEF Disturbed
<1> QED
  BY <1>1, <1>2 DEF SliceInv

LEMMA UnsubscribeSlices == ASSUME SliceInv, NEW w \in Watcher, Unsubscribe(w) PROVE SliceInv'
<1>1. PICK at \in 1..used : at = CHOOSE i \in 1..used : array[i] = w
  BY DEF Unsubscribe, Watchers
<1>2. used' = used - 1 /\ used' \in Nat /\ used \in 1..Len(array)
  BY <1>1, SliceFacts DEF Unsubscribe
<1>3. CASE used = 1
  <2>1. array' = <<>> /\ notifying' = Disturbed(MovedOn) /\ used' = 0
    BY <1>2, <1>3 DEF Unsubscribe
  <2>2. array' \in Slots /\ Len(array') = 0
    BY <2>1, EmptySeq DEF Slots
  <2> QED
    BY <2>1, <2>2, ShrinkSlices
<1>4. CASE used # 1
  <2>1. PICK last : last = IF InSight THEN array[used] ELSE NoWatcher
    OBVIOUS
  <2>2. /\ array' = [i \in DOMAIN array |-> IF i \in at..(used - 1) THEN array[i + 1]
                                            ELSE IF i = used /\ ~InSight THEN NoWatcher ELSE array[i]]
        /\ notifying' = Disturbed(notifying)
    BY <1>1, <1>4 DEF Unsubscribe
  <2>3. array' \in [1..Len(array) -> Watcher \cup {NoWatcher}]
    <3>1. ASSUME NEW i \in 1..Len(array), i \in at..(used - 1) PROVE i + 1 \in 1..Len(array)
      BY <1>1, <1>2, <3>1, SliceFacts
    <3> QED
      BY <2>2, <3>1, SliceFacts
  <2>4. array' \in Slots /\ Len(array') = Len(array)
    BY <2>3, SliceFacts, SlotsFacts
  <2>5. \A i \in 1..used' : array'[i] \in Watcher
    <3> SUFFICES ASSUME NEW i \in 1..used' PROVE array'[i] \in Watcher
      OBVIOUS
    <3>1. i \in 1..used /\ i + 1 \in 1..used /\ i \in DOMAIN array /\ i # used
      BY <1>2, SliceFacts
    <3>2. array'[i] = IF i \in at..(used - 1) THEN array[i + 1] ELSE array[i]
      BY <2>2, <3>1
    <3> QED
      BY <3>1, <3>2 DEF SliceInv
  <2>6. used' <= Len(array')
    BY <1>2, <2>4, SliceFacts
  <2> QED
    BY <1>2, <2>2, <2>4, <2>5, <2>6, ShrinkSlices
<1> QED
  BY <1>3, <1>4

LEMMA CloseSlices == ASSUME SliceInv, CloseFetcher PROVE SliceInv'
<1>1. array' = <<>> /\ notifying' = Disturbed(MovedOn) /\ used' = 0
  BY DEF CloseFetcher
<1>2. array' \in Slots /\ Len(array') = 0
  BY <1>1, EmptySeq DEF Slots
<1> QED
  BY <1>1, <1>2, ShrinkSlices

\* A step of one Invalidate, whose notice has become m.
LEMMA OneNotice ==
    ASSUME SliceInv, NEW n \in Notifier, NEW m \in Notices, UNCHANGED <<array, used>>,
           notifying' = [notifying EXCEPT ![n] = m], NoticeOK(m, array, used)
    PROVE  SliceInv'
BY DEF SliceInv

LEMMA InvalidateSlices ==
    ASSUME SliceInv, generation \in 1..MaxGeneration, NEW n \in Notifier, Invalidate(n) PROVE SliceInv'
<1>1. PICK m : m = [NoNotice EXCEPT !.pc = "walking", !.length = used, !.generation = generation,
                                    !.untold = Watchers]
  OBVIOUS
<1>2. m = [pc |-> "walking", shared |-> TRUE, own |-> <<>>, length |-> used, next |-> 1,
           generation |-> generation, untold |-> Watchers]
  BY <1>1 DEF NoNotice
<1>3. Watchers \subseteq Watcher /\ \A w \in Watchers : \E i \in 1..used : array[i] = w
  BY DEF Watchers, SliceInv
<1>4. <<>> \in Slots /\ generation \in 0..MaxGeneration
  BY EmptySeq DEF Slots
<1>5. m \in Notices
  BY <1>2, <1>3, <1>4, SliceFacts DEF Notices
<1>6. NoticeOK(m, array, used)
  BY <1>2, <1>3, SliceFacts DEF NoticeOK, Walked
<1> QED
  BY <1>1, <1>5, <1>6, OneNotice DEF Invalidate

LEMMA NotifySlices == ASSUME SliceInv, NEW n \in Notifier, Notify(n) PROVE SliceInv'
<1>1. /\ notifying[n] \in Notices /\ NoticeOK(notifying[n], array, used)
      /\ notifying[n].pc = "walking" /\ notifying[n].next <= notifying[n].length
      /\ UNCHANGED <<array, used>>
  BY SliceFacts DEF Notify, SliceInv
<1>2. Seen(n) = Walked(notifying[n], array)[notifying[n].next]
  BY DEF Seen, Walked
<1>3. PICK m : m = [notifying[n] EXCEPT !.untold = @ \ {Seen(n)}, !.next = @ + 1]
  OBVIOUS
<1>4. /\ m \in Notices /\ m.pc = "walking" /\ m.length = notifying[n].length
      /\ m.shared = notifying[n].shared /\ m.own = notifying[n].own
      /\ m.untold = notifying[n].untold \ {Seen(n)} /\ m.next = notifying[n].next + 1
      /\ m.generation = notifying[n].generation
  <2>1. PICK w : w = Seen(n)
    OBVIOUS
  <2>2. m = [notifying[n] EXCEPT !.untold = @ \ {w}, !.next = @ + 1]
    BY <1>3, <2>1
  <2>3. notifying[n].untold \ {w} \in SUBSET Watcher /\ notifying[n].next + 1 \in Nat \ {0}
    BY <1>1 DEF Notices
  <2> QED
    BY <1>1, <2>1, <2>2, <2>3 DEF Notices
<1>5. notifying' = [notifying EXCEPT ![n] = m]
  BY <1>3 DEF Notify
<1>6. Walked(m, array) = Walked(notifying[n], array)
  BY <1>4 DEF Walked
<1>7. ASSUME NEW w \in m.untold
      PROVE  \E i \in m.next..m.length : Walked(m, array)[i] = w
  <2>1. PICK i \in notifying[n].next..notifying[n].length : Walked(notifying[n], array)[i] = w
    BY <1>1, <1>4, <1>7 DEF NoticeOK
  <2>2. i # notifying[n].next
    BY <1>2, <1>4, <1>7, <2>1
  <2> QED
    BY <1>1, <1>4, <1>6, <2>1, <2>2 DEF Notices
<1>8. NoticeOK(m, array, used)
  BY <1>1, <1>4, <1>6, <1>7 DEF NoticeOK
<1> QED
  BY <1>1, <1>4, <1>5, <1>8, OneNotice

LEMMA NextSliceInv ==
    ASSUME SliceInv, generation \in 1..MaxGeneration, [SecretsNext]_secVars PROVE SliceInv'
<1>1. ASSUME UNCHANGED <<array, used, notifying>> PROVE SliceInv'
  BY <1>1 DEF SliceInv
<1>2. ASSUME NEW n \in Notifier, Notified(n) PROVE SliceInv'
  <2>1. NoticeOK(NoNotice, array, used)
    BY NoNoticeFacts DEF NoticeOK
  <2> QED
    BY <1>2, <2>1, NoNoticeFacts, OneNotice DEF Notified
<1>3. ASSUME NEW w \in Watcher, Resolve(w) \/ CacheHit(w) \/ FetchRemote(w) \/ StoreCache(w) PROVE SliceInv'
  BY <1>1, <1>3 DEF Resolve, CacheHit, FetchRemote, StoreCache
<1>4. CASE AddVersion \/ UNCHANGED secVars
  BY <1>1, <1>4 DEF AddVersion, secVars
<1> QED
  BY <1>2, <1>3, <1>4, SubscribeSlices, UnsubscribeSlices, CloseSlices, InvalidateSlices, NotifySlices
     DEF SecretsNext

-----------------------------------------------------------------------------
LEMMA InitFreshInv == SecretsInit => FreshInv
<1> SUFFICES ASSUME SecretsInit PROVE FreshInv
  OBVIOUS
<1>1. /\ NoResolve \in Resolvings /\ NoResolve.pc = "idle" /\ NoResolve.need = 0
      /\ NoEntry \in [value : -1..MaxGeneration, overtaken : BOOLEAN]
  BY SecretAssumption DEF NoResolve, NoEntry, Resolvings
<1>2. /\ generation = 1 /\ generation \in 1..MaxGeneration /\ cached = NoEntry
      /\ \A w \in Watcher : signal[w] = 0 /\ resolving[w] = NoResolve
      /\ \A n \in Notifier : notifying[n].pc = "idle"
  BY SecretAssumption, NoNoticeFacts DEF SecretsInit
<1>3. Met(0)
  BY <1>1, <1>2 DEF Met
<1>4. \A w \in Watcher : Met(signal[w]) /\ Met(resolving[w].need)
  BY <1>1, <1>2, <1>3
<1> QED
  BY <1>1, <1>2, <1>4, SecretAssumption DEF SecretsInit, FreshInv, Resolvings

\* Who may be answered from the cache still may: the cache is dropped, or filled with what was
\* being stored; and what is fetched is of the present.
LEMMA MetKept ==
    ASSUME FreshInv, generation' \in 1..MaxGeneration, generation <= generation',
           resolving' \in [Watcher -> Resolvings],
           \/ cached' \in {NoEntry, cached}
           \/ \E w \in Watcher :
                /\ resolving[w].pc = "storing"
                /\ cached' = [value |-> resolving[w].value, overtaken |-> resolving[w].overtaken],
           \A w \in Watcher : resolving'[w].pc = "storing" =>
               \/ /\ resolving[w].pc = "storing" /\ resolving'[w].value = resolving[w].value
                  /\ resolving[w].overtaken => resolving'[w].overtaken
               \/ resolving'[w].value \in {generation, 0},
           NEW g, Met(g)
    PROVE  Met(g)'
<1>1. generation \in Nat /\ g \in Nat /\ g <= generation /\ g <= generation' /\ generation' \in Nat
  BY DEF FreshInv, Met
<1>2. cached' = NoEntry \/ Fresh(cached, g)'
  <2>1. CASE cached' \in {NoEntry, cached}
    BY <2>1 DEF Met, Fresh
  <2>2. CASE \E w \in Watcher :
                /\ resolving[w].pc = "storing"
                /\ cached' = [value |-> resolving[w].value, overtaken |-> resolving[w].overtaken]
    <3>1. PICK w \in Watcher :
                /\ resolving[w].pc = "storing"
                /\ cached' = [value |-> resolving[w].value, overtaken |-> resolving[w].overtaken]
      BY <2>2
    <3>2. cached'.value = resolving[w].value /\ cached'.overtaken = resolving[w].overtaken
      BY <3>1
    <3>3. Fresh(resolving[w], g)
      BY <3>1 DEF Met
    <3> QED
      BY <3>2, <3>3 DEF Fresh
  <2> QED
    BY <2>1, <2>2
<1>3. ASSUME NEW w \in Watcher, resolving'[w].pc = "storing"
      PROVE  Fresh(resolving[w], g)'
  <2>1. CASE resolving'[w].value \in {generation, 0}
    BY <1>1, <2>1 DEF Fresh
  <2>2. CASE /\ resolving[w].pc = "storing" /\ resolving'[w].value = resolving[w].value
             /\ resolving[w].overtaken => resolving'[w].overtaken
    BY <2>2 DEF Met, Fresh
  <2> QED
    BY <1>3, <2>1, <2>2
<1> QED
  BY <1>1, <1>2, <1>3 DEF Met

\* The freshness that a step leaves behind.
LEMMA FreshStep ==
    ASSUME SecretsInv, generation' \in 1..MaxGeneration, generation <= generation',
           resolving' \in [Watcher -> Resolvings], fetcherClosed' \in BOOLEAN,
           \/ cached' \in {NoEntry, cached}
           \/ \E w \in Watcher :
                /\ resolving[w].pc = "storing"
                /\ cached' = [value |-> resolving[w].value, overtaken |-> resolving[w].overtaken],
           \A w \in Watcher : resolving'[w].pc = "storing" =>
               \/ /\ resolving[w].pc = "storing" /\ resolving'[w].value = resolving[w].value
                  /\ resolving[w].overtaken => resolving'[w].overtaken
               \/ resolving'[w].value \in {generation, 0},
           signal' = [w \in Watcher |-> signal'[w]],
           \A w \in Watcher :
               \/ signal'[w] \in {0, signal[w]}
               \/ \E n \in Notifier : notifying[n].pc = "walking" /\ signal'[w] = notifying[n].generation,
           \A w \in Watcher : resolving'[w].need \in {0, resolving[w].need, signal[w]},
           \A n \in Notifier : notifying'[n].pc = "walking" =>
               \/ notifying[n].pc = "walking" /\ notifying'[n].generation = notifying[n].generation
               \/ \E g : g = notifying'[n].generation /\ Met(g)'
    PROVE  FreshInv'
<1>1. ASSUME NEW g, Met(g) PROVE Met(g)'
  BY <1>1, MetKept DEF SecretsInv
<1>2. ASSUME NEW g, Met(g) PROVE Met(0)
  BY <1>2 DEF Met, Fresh, SecretsInv, FreshInv, Resolvings
<1>3. ASSUME NEW w \in Watcher
      PROVE  /\ signal'[w] \in 0..MaxGeneration
             /\ \E g : g = signal'[w] /\ Met(g)'
             /\ \E g : g = resolving'[w].need /\ Met(g)'
  <2>1. PICK s : s = signal[w]
    OBVIOUS
  <2>2. PICK r : r = resolving[w].need
    OBVIOUS
  <2>3. Met(s) /\ Met(r) /\ Met(0) /\ s \in 0..MaxGeneration /\ 0 \in 0..MaxGeneration
    BY <1>2, <2>1, <2>2, SecretAssumption DEF SecretsInv, FreshInv
  <2>4. Met(s)' /\ Met(r)' /\ Met(0)'
    BY <1>1, <2>3
  <2>5. CASE signal'[w] \in {0, signal[w]}
    BY <2>1, <2>2, <2>3, <2>4, <2>5
  <2>6. CASE \E n \in Notifier : notifying[n].pc = "walking" /\ signal'[w] = notifying[n].generation
    <3>1. PICK n \in Notifier : notifying[n].pc = "walking" /\ signal'[w] = notifying[n].generation
      BY <2>6
    <3>2. PICK h : h = notifying[n].generation
      OBVIOUS
    <3>3. Met(h) /\ h \in 0..MaxGeneration
      BY <3>1, <3>2, SliceFacts DEF SecretsInv, FreshInv, Notices
    <3>4. Met(h)'
      BY <1>1, <3>3
    <3> QED
      BY <2>1, <2>2, <2>4, <3>1, <3>2, <3>3, <3>4
  <2> QED
    BY <2>5, <2>6
<1>4. ASSUME NEW n \in Notifier, notifying'[n].pc = "walking"
      PROVE  \E g : g = notifying'[n].generation /\ Met(g)'
  <2>1. CASE notifying[n].pc = "walking" /\ notifying'[n].generation = notifying[n].generation
    <3>1. PICK h : h = notifying[n].generation
      OBVIOUS
    <3>2. Met(h)
      BY <2>1, <3>1 DEF SecretsInv, FreshInv
    <3>3. Met(h)'
      BY <1>1, <3>2
    <3> QED
      BY <2>1, <3>1, <3>3
  <2> QED
    BY <1>4, <2>1
<1>5. cached' \in [value : -1..MaxGeneration, overtaken : BOOLEAN]
  <2>1. NoEntry \in [value : -1..MaxGeneration, overtaken : BOOLEAN]
    BY SecretAssumption DEF NoEntry
  <2>2. ASSUME NEW w \in Watcher
        PROVE  [value |-> resolving[w].value, overtaken |-> resolving[w].overtaken]
                  \in [value : -1..MaxGeneration, overtaken : BOOLEAN]
    BY DEF SecretsInv, FreshInv
  <2> QED
    BY <2>1, <2>2 DEF SecretsInv, FreshInv
<1>6. (\A w \in Watcher : Met(signal[w]) /\ Met(resolving[w].need))'
  BY <1>3 DEF Met
<1>7. (\A n \in Notifier : notifying[n].pc = "walking" => Met(notifying[n].generation))'
  BY <1>4 DEF Met
<1>8. signal' \in [Watcher -> 0..MaxGeneration]
  BY <1>3
<1> QED
  BY <1>5, <1>6, <1>7, <1>8 DEF FreshInv, Resolvings

\* Subscribing, unsubscribing and closing leave the notices' generations.
LEMMA NoticesKept ==
    ASSUME SecretsInv, NEW n \in Notifier,
           notifying' \in {notifying, MovedOn, Disturbed(notifying), Disturbed(MovedOn)}
    PROVE  notifying'[n].pc = notifying[n].pc /\ notifying'[n].generation = notifying[n].generation
<1>1. notifying[n] \in Notices /\ array \in Slots
  BY SliceFacts DEF SecretsInv
<1>2. /\ MovedOn[n] \in Notices /\ MovedOn[n].pc = notifying[n].pc
      /\ MovedOn[n].generation = notifying[n].generation
  <2>1. MovedOn[n] = IF notifying[n].pc = "walking" /\ notifying[n].shared
                   THEN [notifying[n] EXCEPT !.shared = FALSE, !.own = array] ELSE notifying[n]
    BY DEF MovedOn
  <2> QED
    BY <1>1, <2>1 DEF Notices
<1>3. ASSUME NEW m, m[n] \in Notices
      PROVE  /\ Disturbed(m)[n].pc = m[n].pc
             /\ Disturbed(m)[n].generation = m[n].generation
  <2>1. Disturbed(m)[n] = IF m[n].pc = "walking" THEN [m[n] EXCEPT !.untold = {}] ELSE m[n]
    BY DEF Disturbed
  <2> QED
    BY <1>3, <2>1 DEF Notices
<1> QED
  BY <1>1, <1>2, <1>3

LEMMA NextFreshInv == ASSUME SecretsInv, [SecretsNext]_secVars PROVE FreshInv'
<1>1. /\ generation \in 1..MaxGeneration /\ resolving \in [Watcher -> Resolvings]
      /\ signal \in [Watcher -> 0..MaxGeneration] /\ fetcherClosed \in BOOLEAN
      /\ MaxGeneration \in Nat
  BY SecretAssumption DEF SecretsInv, FreshInv, Resolvings
<1>2. signal = [w \in Watcher |-> signal[w]]
  BY <1>1
\* A step of one call of Resolve, which has become u.
<1>3. ASSUME NEW w \in Watcher, NEW u \in Resolvings, resolving' = [resolving EXCEPT ![w] = u],
             u.pc = "storing" => u.value \in {generation, 0}, u.need \in {0, resolving[w].need, signal[w]},
             UNCHANGED <<generation, fetcherClosed, notifying>>,
             signal' \in {signal, [signal EXCEPT ![w] = 0]},
             \/ cached' = cached
             \/ /\ resolving[w].pc = "storing"
                /\ cached' = [value |-> resolving[w].value, overtaken |-> resolving[w].overtaken]
      PROVE  FreshInv'
  <2>1. \A v \in Watcher : resolving'[v] = IF v = w THEN u ELSE resolving[v]
    BY <1>1, <1>3
  <2>2. resolving' \in [Watcher -> Resolvings]
    BY <1>1, <1>3
  <2>3. signal' = [v \in Watcher |-> signal'[v]] /\ \A v \in Watcher : signal'[v] \in {0, signal[v]}
    BY <1>1, <1>3
  <2>4. \A v \in Watcher : /\ resolving'[v].need \in {0, resolving[v].need, signal[v]}
                           /\ resolving'[v].pc = "storing" =>
                                 \/ /\ resolving[v].pc = "storing"
                                    /\ resolving'[v].value = resolving[v].value
                                    /\ resolving[v].overtaken => resolving'[v].overtaken
                                 \/ resolving'[v].value \in {generation, 0}
    BY <1>3, <2>1
  <2> QED
    BY <1>1, <1>3, <2>2, <2>3, <2>4, FreshStep
\* A step that touches notices only.
<1>4. ASSUME UNCHANGED <<cached, signal, resolving>>, fetcherClosed' \in BOOLEAN,
             generation' \in 1..MaxGeneration, generation <= generation',
             \A n \in Notifier : notifying'[n].pc = "walking" =>
                notifying[n].pc = "walking" /\ notifying'[n].generation = notifying[n].generation
      PROVE  FreshInv'
  BY <1>1, <1>2, <1>4, FreshStep
<1>5. NoResolve \in Resolvings /\ NoResolve.pc = "idle" /\ NoResolve.need = 0
  BY <1>1 DEF NoResolve, Resolvings
<1>6. ASSUME NEW w \in Watcher, Resolve(w) PROVE FreshInv'
  <2>1. PICK u : u = [NoResolve EXCEPT !.pc = "fetching", !.need = signal[w]]
    OBVIOUS
  <2>2. u \in Resolvings /\ u.pc = "fetching" /\ u.need = signal[w]
    BY <1>1, <1>5, <2>1 DEF Resolvings
  <2> QED
    BY <1>3, <1>6, <2>1, <2>2 DEF Resolve
<1>7. ASSUME NEW w \in Watcher, FetchRemote(w) PROVE FreshInv'
  <2>1. CASE \E value \in {generation, 0} :
               resolving' = [resolving EXCEPT ![w].pc = "storing", ![w].value = value]
    <3>1. PICK value \in {generation, 0} :
               resolving' = [resolving EXCEPT ![w].pc = "storing", ![w].value = value]
      BY <2>1
    <3>2. PICK u : u = [resolving[w] EXCEPT !.pc = "storing", !.value = value]
      OBVIOUS
    <3>3. value \in -1..MaxGeneration /\ resolving[w] \in Resolvings
      BY <1>1
    <3>4. u \in Resolvings /\ u.value = value /\ u.need = resolving[w].need
      BY <3>2, <3>3 DEF Resolvings
    <3>5. resolving' = [resolving EXCEPT ![w] = u]
      BY <3>1, <3>2
    <3> QED
      BY <1>3, <1>7, <3>4, <3>5 DEF FetchRemote
  <2>2. CASE resolving' = [resolving EXCEPT ![w] = NoResolve]
    BY <1>3, <1>5, <1>7, <2>2 DEF FetchRemote
  <2> QED
    BY <1>7, <2>1, <2>2 DEF FetchRemote
<1>8. ASSUME NEW w \in Watcher, StoreCache(w) PROVE FreshInv'
  BY <1>3, <1>5, <1>8 DEF StoreCache
<1>9. ASSUME NEW w \in Watcher, CacheHit(w) PROVE FreshInv'
  <2>1. resolving' = [resolving EXCEPT ![w] = resolving[w]] /\ resolving[w] \in Resolvings
    BY <1>1, <1>9 DEF CacheHit
  <2>2. /\ signal' = [v \in Watcher |-> signal'[v]] /\ \A v \in Watcher : signal'[v] \in {0, signal[v]}
        /\ UNCHANGED <<generation, cached, fetcherClosed, resolving, notifying>>
    BY <1>1, <1>9 DEF CacheHit
  <2> QED
    BY <1>1, <2>2, FreshStep
<1>10. ASSUME NEW w \in Watcher, Subscribe(w) \/ Unsubscribe(w) PROVE FreshInv'
  <2>1. /\ notifying' \in {notifying, MovedOn, Disturbed(notifying), Disturbed(MovedOn)}
        /\ UNCHANGED <<generation, cached, signal, fetcherClosed, resolving>>
    BY <1>10 DEF Subscribe, Unsubscribe
  <2> QED
    BY <1>1, <1>4, <2>1, NoticesKept
<1>11. CASE CloseFetcher
  <2>1. /\ notifying' \in {notifying, MovedOn, Disturbed(notifying), Disturbed(MovedOn)}
        /\ UNCHANGED <<generation, cached, signal, resolving>> /\ fetcherClosed' \in BOOLEAN
    BY <1>11 DEF CloseFetcher
  <2> QED
    BY <1>1, <1>4, <2>1, NoticesKept
<1>12. CASE AddVersion \/ UNCHANGED secVars
  BY <1>1, <1>4, <1>12 DEF AddVersion, secVars
<1>13. ASSUME NEW n \in Notifier, Invalidate(n) PROVE FreshInv'
  <2>1. /\ cached' = NoEntry /\ UNCHANGED <<generation, array, used, signal, fetcherClosed>>
        /\ resolving' = [w \in Watcher |-> [resolving[w] EXCEPT
                           !.overtaken = @ \/ resolving[w].pc = "storing"]]
    BY <1>13 DEF Invalidate
  <2>2. ASSUME NEW w \in Watcher
        PROVE  /\ resolving'[w] \in Resolvings /\ resolving'[w].pc = resolving[w].pc
               /\ resolving'[w].need = resolving[w].need /\ resolving'[w].value = resolving[w].value
               /\ resolving[w].overtaken => resolving'[w].overtaken
               /\ resolving[w].pc = "storing" => resolving'[w].overtaken
    <3>1. PICK b \in BOOLEAN : b = (resolving[w].overtaken \/ resolving[w].pc = "storing")
      <4>1. (resolving[w].overtaken \/ resolving[w].pc = "storing") \in BOOLEAN
        OBVIOUS
      <4> QED
        BY <4>1
    <3>2. resolving'[w] = [resolving[w] EXCEPT !.overtaken = b]
      BY <2>1, <3>1
    <3>3. resolving[w] \in Resolvings
      BY <1>1
    <3>4. /\ resolving'[w] \in Resolvings /\ resolving'[w].pc = resolving[w].pc
          /\ resolving'[w].need = resolving[w].need /\ resolving'[w].value = resolving[w].value
          /\ resolving'[w].overtaken = b
      BY <3>2, <3>3 DEF Resolvings
    <3> QED
      BY <3>1, <3>4
  <2>3. resolving' \in [Watcher -> Resolvings]
    BY <2>1, <2>2
  <2>4. PICK g : g = generation
    OBVIOUS
  <2>5. Met(g)'
    <3>1. (g \in 0..generation)' /\ (cached = NoEntry)'
      BY <1>1, <2>1, <2>4
    <3>2. ASSUME NEW w \in Watcher, resolving'[w].pc = "storing" PROVE resolving'[w].overtaken
      BY <2>2, <3>2
    <3>3. (\A w \in Watcher : resolving[w].pc = "storing" => Fresh(resolving[w], g))'
      BY <3>2 DEF Fresh
    <3> QED
      BY <3>1, <3>3 DEF Met
  <2>6. PICK m : m = [NoNotice EXCEPT !.pc = "walking", !.length = used, !.generation = generation,
                                      !.untold = Watchers]
    OBVIOUS
  <2>7. m.generation = g
    BY <2>4, <2>6 DEF NoNotice
  <2>8. \A o \in Notifier : notifying'[o] = IF o = n THEN m ELSE notifying[o]
    BY <1>13, <2>6, SliceFacts DEF Invalidate, SecretsInv, SliceInv
  <2>9. \A o \in Notifier : notifying'[o].pc = "walking" =>
               \/ notifying[o].pc = "walking" /\ notifying'[o].generation = notifying[o].generation
               \/ \E h : h = notifying'[o].generation /\ Met(h)'
    BY <2>5, <2>7, <2>8
  <2>10. \A w \in Watcher :
            /\ resolving'[w].need \in {0, resolving[w].need, signal[w]}
            /\ resolving'[w].pc = "storing" =>
                  /\ resolving[w].pc = "storing" /\ resolving'[w].value = resolving[w].value
                  /\ resolving[w].overtaken => resolving'[w].overtaken
    BY <2>2
  <2>11. /\ generation' \in 1..MaxGeneration /\ generation <= generation' /\ fetcherClosed' \in BOOLEAN
         /\ signal' = [w \in Watcher |-> signal'[w]]
         /\ \A w \in Watcher : signal'[w] \in {0, signal[w]}
    BY <1>1, <1>2, <2>1
  <2> QED
    BY <2>1, <2>3, <2>9, <2>10, <2>11, FreshStep
<1>14. ASSUME NEW n \in Notifier, Notify(n) PROVE FreshInv'
  <2>1. /\ UNCHANGED <<generation, cached, array, used, fetcherClosed, resolving>>
        /\ notifying[n].pc = "walking" /\ notifying[n] \in Notices
        /\ signal' \in {signal, [signal EXCEPT ![Seen(n)] = notifying[n].generation]}
    BY <1>14, SliceFacts DEF Notify, SecretsInv
  <2>2. PICK m : m = [notifying[n] EXCEPT !.untold = @ \ {Seen(n)}, !.next = @ + 1]
    OBVIOUS
  <2>3. m.generation = notifying[n].generation
    BY <2>1, <2>2 DEF Notices
  <2>4. \A o \in Notifier : notifying'[o] = IF o = n THEN m ELSE notifying[o]
    BY <1>14, <2>2 DEF Notify, SecretsInv, SliceInv
  <2>5. /\ signal' = [v \in Watcher |-> signal'[v]]
        /\ \A v \in Watcher : signal'[v] \in {0, signal[v]} \/ signal'[v] = notifying[n].generation
    BY <1>1, <2>1
  <2>6. \A o \in Notifier : notifying'[o].pc = "walking" =>
            notifying[o].pc = "walking" /\ notifying'[o].generation = notifying[o].generation
    BY <2>1, <2>3, <2>4
  <2> QED
    BY <1>1, <2>1, <2>5, <2>6, FreshStep
<1>15. ASSUME NEW n \in Notifier, Notified(n) PROVE FreshInv'
  <2>1. \A o \in Notifier : notifying'[o] = IF o = n THEN NoNotice ELSE notifying[o]
    BY <1>15 DEF Notified, SecretsInv, SliceInv
  <2> QED
    BY <1>1, <1>4, <1>15, <2>1, NoNoticeFacts DEF Notified
<1> QED
  BY <1>6, <1>7, <1>8, <1>9, <1>10, <1>11, <1>12, <1>13, <1>14, <1>15 DEF SecretsNext

LEMMA InitSecretsInv == SecretsInit => SecretsInv
BY InitSliceInv, InitFreshInv DEF SecretsInv

LEMMA NextSecretsInv == SecretsInv /\ [SecretsNext]_secVars => SecretsInv'
BY NextSliceInv, NextFreshInv DEF SecretsInv, FreshInv

\* The cache entry, the slice of watchers, their channels and the calls keep their types.
THEOREM SecretsTyped == SecretsSpec => []SecretsTypeOK
<1>1. SecretsInv => SecretsTypeOK
  <2> SUFFICES ASSUME SecretsInv PROVE SecretsTypeOK
    OBVIOUS
  <2>1. \A n \in Notifier :
          /\ notifying[n].pc \in {"idle", "walking"}
          /\ notifying[n].untold \subseteq Watcher
          /\ notifying[n].length <= Len(IF notifying[n].shared THEN array ELSE notifying[n].own)
    <3> SUFFICES ASSUME NEW n \in Notifier
                 PROVE  /\ notifying[n].pc \in {"idle", "walking"}
                        /\ notifying[n].untold \subseteq Watcher
                        /\ notifying[n].length <= Len(Walked(notifying[n], array))
      BY DEF Walked
    <3>1. notifying[n] \in Notices /\ NoticeOK(notifying[n], array, used) /\ array \in Slots
      BY SliceFacts DEF SecretsInv, SliceInv
    <3>2. Walked(notifying[n], array) \in Slots
      BY <3>1 DEF Walked, Notices
    <3>3. Len(Walked(notifying[n], array)) \in Nat
      BY <3>2, LenProperties DEF Slots
    <3> QED
      BY <3>1, <3>3 DEF Notices, NoticeOK
  <2> QED
    BY <2>1, SliceFacts DEF SecretsInv, FreshInv, SecretsTypeOK
<1> QED
  BY <1>1, InitSecretsInv, NextSecretsInv, PTL DEF SecretsSpec

\* Invalidate: no subscription, however it moves or overwrites the slice under the walk,
\* hides a watcher from it.
THEOREM EveryoneTold == SecretsSpec => []NotifyAll
<1>1. SecretsInv => NotifyAll
  <2> SUFFICES ASSUME SecretsInv, NEW n \in Notifier, notifying[n].pc = "walking",
                      notifying[n].next > notifying[n].length, NEW w \in notifying[n].untold
               PROVE  FALSE
    BY DEF NotifyAll
  <2>1. NoticeOK(notifying[n], array, used) /\ notifying[n] \in Notices
    BY SliceFacts DEF SecretsInv, SliceInv
  <2>2. PICK i \in notifying[n].next..notifying[n].length : Walked(notifying[n], array)[i] = w
    BY <2>1 DEF NoticeOK
  <2> QED
    BY <2>1, <2>2 DEF Notices
<1> QED
  BY <1>1, InitSecretsInv, NextSecretsInv, PTL DEF SecretsSpec

\* Resolve after an Invalidate: the value is at least as new as the Invalidate, or comes from
\* the fallback file, or was stored by a call that the Invalidate overtook.
THEOREM NoticesFresh == SecretsSpec => FreshAfterNotice
<1> DEFINE Told ==
        \A w \in Watcher :
          /\ signal[w] # 0 /\ signal'[w] = 0 /\ resolving'[w].pc = "idle" => Fresh(cached, signal[w])
          /\ resolving[w].pc = "storing" /\ resolving'[w].pc = "idle" =>
                Fresh(cached', resolving[w].need)
<1>1. SecretsInv /\ [SecretsNext]_secVars => [Told]_secVars
  <2> SUFFICES ASSUME SecretsInv, SecretsNext, NEW w \in Watcher
               PROVE  /\ signal[w] # 0 /\ signal'[w] = 0 /\ resolving'[w].pc = "idle" =>
                            Fresh(cached, signal[w])
                      /\ resolving[w].pc = "storing" /\ resolving'[w].pc = "idle" =>
                            Fresh(cached', resolving[w].need)
    OBVIOUS
  <2>1. /\ resolving \in [Watcher -> Resolvings] /\ signal \in [Watcher -> 0..MaxGeneration]
        /\ Met(signal[w]) /\ Met(resolving[w].need)
    BY DEF SecretsInv, FreshInv, Resolvings
  <2>2. ASSUME signal[w] # 0, signal'[w] = 0, resolving'[w].pc = "idle"
        PROVE  Fresh(cached, signal[w])
    <3>1. cached # NoEntry
      <4>1. ASSUME UNCHANGED signal PROVE FALSE
        BY <2>2, <4>1
      <4>2. ASSUME NEW n \in Notifier, Notify(n) PROVE FALSE
        <5>1. signal' \in {signal, [signal EXCEPT ![Seen(n)] = notifying[n].generation]}
          BY <4>2 DEF Notify
        <5>2. notifying[n].generation # 0
          BY <4>2 DEF Notify, SecretsInv, SliceInv, NoticeOK
        <5> QED
          BY <2>1, <2>2, <5>1, <5>2
      <4>3. ASSUME NEW v \in Watcher, Resolve(v) PROVE FALSE
        <5>1. [NoResolve EXCEPT !.pc = "fetching", !.need = signal[v]].pc = "fetching"
          BY DEF NoResolve
        <5> QED
          BY <2>1, <2>2, <4>3, <5>1 DEF Resolve
      <4> QED
        BY <2>1, <2>2, <4>1, <4>2, <4>3
           DEF SecretsNext, AddVersion, CloseFetcher, CacheHit, FetchRemote, StoreCache, Subscribe,
               Unsubscribe, Invalidate, Notified
    <3> QED
      BY <2>1, <3>1 DEF Met
  <2>3. ASSUME resolving[w].pc = "storing", resolving'[w].pc = "idle"
        PROVE  Fresh(cached', resolving[w].need)
    <3>1. StoreCache(w)
      <4>1. ASSUME UNCHANGED resolving PROVE FALSE
        BY <2>3, <4>1
      <4>2. ASSUME NEW v \in Watcher \ {w}, NEW u, resolving' = [resolving EXCEPT ![v] = u] PROVE FALSE
        BY <2>1, <2>3, <4>2
      <4>3. ASSUME NEW v \in Watcher, Resolve(v) PROVE FALSE
        BY <2>3, <4>2, <4>3 DEF Resolve
      <4>4. ASSUME NEW v \in Watcher, FetchRemote(v) PROVE FALSE
        BY <2>1, <2>3, <4>4 DEF FetchRemote
      <4>5. ASSUME NEW n \in Notifier, Invalidate(n) PROVE FALSE
        <5>1. resolving'[w] = [resolving[w] EXCEPT !.overtaken = @ \/ resolving[w].pc = "storing"]
          BY <4>5 DEF Invalidate
        <5>2. resolving'[w].pc = resolving[w].pc
          BY <2>1, <5>1 DEF Resolvings
        <5> QED
          BY <2>3, <5>2
      <4>6. ASSUME NEW v \in Watcher \ {w}, StoreCache(v) PROVE FALSE
        BY <4>2, <4>6 DEF StoreCache
      <4> QED
        BY <4>1, <4>3, <4>4, <4>5, <4>6
           DEF SecretsNext, AddVersion, CloseFetcher, CacheHit, Subscribe, Unsubscribe, Notify, Notified
    <3>2. cached' = [value |-> resolving[w].value, overtaken |-> resolving[w].overtaken]
      BY <3>1 DEF StoreCache
    <3>3. Fresh(resolving[w], resolving[w].need)
      BY <2>1, <2>3 DEF Met
    <3> QED
      BY <3>2, <3>3 DEF Fresh
  <2> QED
    BY <2>2, <2>3
<1>2. SecretsSpec => [][Told]_secVars
  BY <1>1, InitSecretsInv, NextSecretsInv, PTL DEF SecretsSpec
<1> QED
  BY <1>2 DEF FreshAfterNotice

-----------------------------------------------------------------------------
(* Content.  A tag tells of an edit: its language and its second.            *)

Edits == [language : Language, updated : Nat]
Requests == [pc : {"idle", "lookup", "fallback", "answer", "not_modified"},
             language : Language, found : Documents \cup {NoDocument}]

\* A document carries a numbered text, and the language and time of its edit.
DocumentOK(d, texts) ==
    \/ d = NoDocument
    \/ /\ d \in Documents /\ d.text \in DOMAIN texts
       /\ texts[d.text].language = d.language /\ texts[d.text].updated = d.updated

\* What a client holds for a URL has the tag of an edit of its text.
HeldOK(h, language, texts) ==
    /\ h.text \in 0..MaxEdits
    /\ \/ h.tag = NoTag
       \/ /\ h.text \in DOMAIN texts
          /\ \E shown \in BOOLEAN :
                LET tag == <<texts[h.text].language, texts[h.text].updated, shown>>
                IN  h.tag = IF kind = "list" THEN <<language, tag>> ELSE tag

\* A client asks in languages it may ask for, and is answered what an edit wrote: a document,
\* or a list, which may be empty.
RequestOK(request, texts) ==
    /\ request.pc # "idle" => request.language \in Asked
    /\ DocumentOK(request.found, texts)
    /\ request.pc = "answer" /\ kind # "list" => request.found # NoDocument

ContentInv ==
    /\ kind \in {"page", "guide", "list"}
    /\ second \in 1..MaxSecond
    /\ edits \in Seq(Edits) /\ Len(edits) <= MaxEdits
    /\ \A n \in DOMAIN edits : edits[n].updated \in 1..second
    /\ documents \in [Language -> Documents \cup {NoDocument}]
    /\ \A l \in Language : /\ documents[l] # NoDocument => documents[l].language = l
                           /\ DocumentOK(documents[l], edits)
    /\ editing \in [Editor -> Documents \cup {NoDocument}]
    /\ \A e \in Editor : DocumentOK(editing[e], edits)
    /\ client \in Requests
    /\ RequestOK(client, edits)
    /\ client.pc = "not_modified" =>
          /\ held[client.language].tag = Tag(client.found, client.language)
          /\ Tag(client.found, client.language) # NoTag
          /\ client.found # NoDocument
    /\ held = [l \in Asked |-> held[l]]
    /\ \A l \in Asked : HeldOK(held[l], l, edits)

LEMMA ContentFacts ==
    /\ DefaultLanguage \in Language /\ Asked \subseteq Language
    /\ MaxEdits \in Nat \ {0} /\ MaxSecond \in Nat \ {0}
    /\ NoDocument.language = DefaultLanguage /\ NoDocument.text = 0 /\ NoDocument.published = FALSE
    /\ NoDocument \notin Documents
    /\ NoRequest \in Requests /\ NoRequest.pc = "idle" /\ NoRequest.found = NoDocument
BY ContentAssumption DEF NoDocument, Documents, NoRequest, Requests

LEMMA InitContentInv == ContentInit => ContentInv
<1> SUFFICES ASSUME ContentInit PROVE ContentInv
  OBVIOUS
<1>1. edits = <<>> /\ edits \in Seq(Edits) /\ Len(edits) = 0 /\ DOMAIN edits = {}
  BY EmptySeq DEF ContentInit
<1>2. \A l \in Asked : HeldOK(held[l], l, edits)
  BY ContentFacts DEF ContentInit, Held, HeldOK
<1>3. RequestOK(client, edits) /\ client \in Requests /\ client.pc # "not_modified"
  BY ContentFacts DEF ContentInit, RequestOK, DocumentOK
<1> QED
  BY <1>1, <1>2, <1>3, ContentFacts DEF ContentInit, ContentInv, DocumentOK

\* The client's request becomes u, and whatever it holds stays.
LEMMA ClientStep ==
    ASSUME ContentInv, UNCHANGED <<kind, documents, edits, editing, second, held>>,
           client' \in Requests, RequestOK(client', edits), client'.pc # "not_modified"
    PROVE  ContentInv'
BY DEF ContentInv, RequestOK, HeldOK, NoTag

\* The staff's steps that write no new text.
LEMMA StaffStep ==
    ASSUME ContentInv, UNCHANGED <<kind, edits, second, client, held>>,
           documents' \in [Language -> Documents \cup {NoDocument}],
           \A l \in Language : /\ documents'[l] # NoDocument => documents'[l].language = l
                               /\ DocumentOK(documents'[l], edits),
           editing' \in [Editor -> Documents \cup {NoDocument}],
           \A e \in Editor : DocumentOK(editing'[e], edits)
    PROVE  ContentInv'
BY DEF ContentInv, RequestOK, HeldOK, Tag, ListETag

LEMMA StampKept ==
    ASSUME ContentInv, NEW e \in Editor, NEW language \in Language, NEW shown \in BOOLEAN,
           Stamp(e, language, shown)
    PROVE  ContentInv'
<1>1. /\ Len(edits) < MaxEdits /\ edits \in Seq(Edits)
      /\ edits' = Append(edits, [language |-> language, updated |-> second])
      /\ UNCHANGED <<kind, documents, second, client, held>>
  BY DEF Stamp, ContentInv
<1>2. [language |-> language, updated |-> second] \in Edits
  BY DEF ContentInv, Edits
<1>3. /\ edits' \in Seq(Edits) /\ Len(edits') = Len(edits) + 1 /\ Len(edits) \in Nat
      /\ DOMAIN edits = 1..Len(edits) /\ DOMAIN edits' = 1..(Len(edits) + 1)
      /\ \A n \in DOMAIN edits : edits'[n] = edits[n]
      /\ edits'[Len(edits) + 1] = [language |-> language, updated |-> second]
  BY <1>1, <1>2, LenProperties, AppendProperties
<1>4. DOMAIN edits \subseteq DOMAIN edits'
  BY <1>3
<1>5. ASSUME NEW d, DocumentOK(d, edits) PROVE DocumentOK(d, edits')
  BY <1>3, <1>4, <1>5 DEF DocumentOK
<1>6. ASSUME NEW h, NEW l, HeldOK(h, l, edits) PROVE HeldOK(h, l, edits)'
  BY <1>1, <1>3, <1>4, <1>6 DEF HeldOK
<1>7. PICK d : d = [language |-> language, text |-> Len(edits) + 1, published |-> shown,
                    updated |-> second]
  OBVIOUS
<1>8. d \in Documents
  BY <1>1, <1>3, <1>7, ContentFacts DEF ContentInv, Documents
<1>9. DocumentOK(d, edits')
  BY <1>3, <1>7, <1>8 DEF DocumentOK
<1>10. editing' = [editing EXCEPT ![e] = d]
  BY <1>7 DEF Stamp
<1>11. /\ editing' \in [Editor -> Documents \cup {NoDocument}]
       /\ \A x \in Editor : DocumentOK(editing'[x], edits')
  BY <1>5, <1>8, <1>9, <1>10 DEF ContentInv
<1>12. /\ \A n \in DOMAIN edits' : edits'[n].updated \in 1..second
       /\ Len(edits') <= MaxEdits
  <2>1. ASSUME NEW n \in DOMAIN edits' PROVE edits'[n].updated \in 1..second
    <3>1. CASE n \in DOMAIN edits
      BY <1>3, <3>1 DEF ContentInv
    <3>2. CASE n = Len(edits) + 1
      BY <1>3, <3>2 DEF ContentInv
    <3> QED
      BY <1>3, <3>1, <3>2
  <2> QED
    BY <1>1, <1>3, <2>1, ContentFacts
<1>13. RequestOK(client, edits)'
  <2>1. RequestOK(client, edits) /\ DocumentOK(client.found, edits')
    BY <1>5 DEF ContentInv, RequestOK
  <2> QED
    BY <1>1, <2>1 DEF RequestOK
<1>14. (client.pc = "not_modified" =>
          /\ held[client.language].tag = Tag(client.found, client.language)
          /\ Tag(client.found, client.language) # NoTag
          /\ client.found # NoDocument)'
  BY <1>1 DEF ContentInv, Tag, ListETag
<1>15. (\A l \in Asked : HeldOK(held[l], l, edits))'
  <2> SUFFICES ASSUME NEW l \in Asked PROVE HeldOK(held[l], l, edits)'
    OBVIOUS
  <2>1. PICK h : h = held[l]
    OBVIOUS
  <2>2. HeldOK(h, l, edits)'
    BY <1>6, <2>1 DEF ContentInv
  <2> QED
    BY <1>1, <2>1, <2>2 DEF HeldOK
<1> QED
  BY <1>1, <1>3, <1>5, <1>11, <1>12, <1>13, <1>14, <1>15 DEF ContentInv

LEMMA AnswerKept == ASSUME ContentInv, AnswerDocument PROVE ContentInv'
<1>1. /\ client.pc = "answer" /\ client \in Requests /\ client.language \in Asked
      /\ UNCHANGED <<kind, documents, edits, editing, second>>
      /\ DocumentOK(client.found, edits)
      /\ kind # "list" => client.found # NoDocument
  BY DEF AnswerDocument, ContentInv, RequestOK
<1>2. PICK tag : tag = Tag(client.found, client.language)
  OBVIOUS
<1>3. RequestOK(NoRequest, edits)
  BY ContentFacts DEF RequestOK, DocumentOK
<1>4. CASE client' = NoRequest /\ UNCHANGED held
  BY <1>1, <1>3, <1>4, ContentFacts, ClientStep
<1>5. CASE /\ tag # NoTag /\ held[client.language].tag = tag
           /\ client' = [client EXCEPT !.pc = "not_modified"]
           /\ UNCHANGED held
  <2>1. /\ client' \in Requests /\ client'.pc = "not_modified" /\ client'.language = client.language
        /\ client'.found = client.found
    BY <1>1, <1>5 DEF Requests
  <2>2. client.found # NoDocument
    BY <1>1, <1>2, <1>5 DEF Tag, ListETag
  <2>3. RequestOK(client, edits)'
    BY <1>1, <2>1 DEF RequestOK
  <2>4. (/\ held[client.language].tag = Tag(client.found, client.language)
         /\ Tag(client.found, client.language) # NoTag
         /\ client.found # NoDocument)'
    BY <1>1, <1>2, <1>5, <2>1, <2>2 DEF Tag, ListETag
  <2>5. (\A l \in Asked : HeldOK(held[l], l, edits))'
    BY <1>1, <1>5 DEF ContentInv, HeldOK
  <2> QED
    BY <1>1, <1>5, <2>1, <2>3, <2>4, <2>5 DEF ContentInv
<1>6. CASE /\ client' = NoRequest
           /\ held' = [held EXCEPT ![client.language] = [tag |-> tag, text |-> client.found.text]]
  <2>1. PICK h : h = [tag |-> tag, text |-> client.found.text]
    OBVIOUS
  <2>2. h.tag = tag /\ h.text = client.found.text
    BY <2>1
  <2>3. \A l \in Asked : held'[l] = IF l = client.language THEN h ELSE held[l]
    BY <1>6, <2>1 DEF ContentInv
  <2>4. held' = [l \in Asked |-> held'[l]]
    BY <1>6 DEF ContentInv
  <2>5. HeldOK(h, client.language, edits)
    <3>1. CASE client.found = NoDocument
      <4>1. kind = "list" /\ tag = NoTag
        BY <1>1, <1>2, <3>1 DEF Tag, ListETag
      <4> QED
        BY <2>2, <3>1, <4>1, ContentFacts DEF HeldOK
    <3>2. CASE client.found # NoDocument
      <4>1. PICK d : d = client.found
        OBVIOUS
      <4>2. /\ d \in Documents /\ d.text \in DOMAIN edits /\ d.published \in BOOLEAN
            /\ edits[d.text].language = d.language /\ edits[d.text].updated = d.updated
            /\ d.text \in 0..MaxEdits
        BY <1>1, <3>2, <4>1, ContentFacts DEF DocumentOK, Documents
      <4>3. tag = IF kind = "list" THEN <<client.language, <<d.language, d.updated, d.published>>>>
                  ELSE <<d.language, d.updated, d.published>>
        BY <1>2, <3>2, <4>1 DEF Tag, ListETag, ETag
      <4> QED
        BY <2>2, <4>1, <4>2, <4>3 DEF HeldOK
    <3> QED
      BY <3>1, <3>2
  <2>6. (\A l \in Asked : HeldOK(held[l], l, edits))'
    <3> SUFFICES ASSUME NEW l \in Asked PROVE HeldOK(held[l], l, edits)'
      OBVIOUS
    <3>1. PICK g : g = held'[l]
      OBVIOUS
    <3>2. HeldOK(g, l, edits)
      BY <2>3, <2>5, <3>1 DEF ContentInv
    <3>3. HeldOK(g, l, edits)'
      BY <1>1, <3>2 DEF HeldOK
    <3> QED
      BY <3>1, <3>3 DEF HeldOK
  <2> QED
    BY <1>1, <1>3, <1>6, <2>4, <2>6, ContentFacts DEF ContentInv, RequestOK
<1> QED
  BY <1>2, <1>4, <1>5, <1>6 DEF AnswerDocument

LEMMA NextContentInv == ContentInv /\ [ContentNext]_contentVars => ContentInv'
<1> SUFFICES ASSUME ContentInv, [ContentNext]_contentVars PROVE ContentInv'
  OBVIOUS
<1>1. /\ documents \in [Language -> Documents \cup {NoDocument}]
      /\ editing \in [Editor -> Documents \cup {NoDocument}]
      /\ \A l \in Language : /\ documents[l] # NoDocument => documents[l].language = l
                             /\ DocumentOK(documents[l], edits)
      /\ \A e \in Editor : DocumentOK(editing[e], edits)
      /\ DocumentOK(NoDocument, edits)
      /\ client \in Requests /\ RequestOK(client, edits)
  BY DEF ContentInv, DocumentOK
<1>2. RequestOK(NoRequest, edits) /\ NoRequest \in Requests
  BY <1>1, ContentFacts DEF RequestOK
<1>3. CASE NextSecond
  <2>1. /\ second' \in 1..MaxSecond /\ \A n : n \in 1..second => n \in 1..second'
        /\ UNCHANGED <<kind, documents, edits, editing, client, held>>
    BY <1>3, ContentFacts DEF NextSecond, ContentInv
  <2> QED
    BY <2>1 DEF ContentInv, RequestOK, HeldOK, Tag, ListETag
<1>4. ASSUME NEW e \in Editor, Upsert(e) PROVE ContentInv'
  <2>1. PICK d : d = editing[e]
    OBVIOUS
  <2>2. d \in Documents /\ d.language \in Language /\ DocumentOK(d, edits)
    BY <1>1, <1>4, <2>1 DEF Upsert, Documents
  <2>3. /\ documents' = [documents EXCEPT ![d.language] = d]
        /\ editing' = [editing EXCEPT ![e] = NoDocument]
        /\ UNCHANGED <<kind, edits, second, client, held>>
    BY <1>4, <2>1 DEF Upsert
  <2>4. /\ documents' \in [Language -> Documents \cup {NoDocument}]
        /\ editing' \in [Editor -> Documents \cup {NoDocument}]
        /\ \A l \in Language : documents'[l] = IF l = d.language THEN d ELSE documents[l]
        /\ \A x \in Editor : editing'[x] = IF x = e THEN NoDocument ELSE editing[x]
    BY <1>1, <2>2, <2>3
  <2> QED
    BY <1>1, <2>2, <2>3, <2>4, StaffStep
<1>5. ASSUME NEW e \in Editor, UpsertFails(e) PROVE ContentInv'
  <2>1. /\ editing' = [editing EXCEPT ![e] = NoDocument]
        /\ UNCHANGED <<kind, documents, edits, second, client, held>>
    BY <1>5 DEF UpsertFails
  <2>2. /\ editing' \in [Editor -> Documents \cup {NoDocument}]
        /\ \A x \in Editor : editing'[x] = IF x = e THEN NoDocument ELSE editing[x]
    BY <1>1, <2>1
  <2> QED
    BY <1>1, <2>1, <2>2, StaffStep
<1>6. ASSUME NEW language \in Language, DeleteGuide(language) PROVE ContentInv'
  <2>1. /\ documents' = [documents EXCEPT ![language] = NoDocument]
        /\ UNCHANGED <<kind, edits, editing, second, client, held>>
    BY <1>6 DEF DeleteGuide
  <2>2. /\ documents' \in [Language -> Documents \cup {NoDocument}]
        /\ \A l \in Language : documents'[l] = IF l = language THEN NoDocument ELSE documents[l]
    BY <1>1, <2>1
  <2> QED
    BY <1>1, <2>1, <2>2, StaffStep
<1>7. ASSUME NEW language \in Asked, Ask(language) PROVE ContentInv'
  <2>1. PICK u : u = [NoRequest EXCEPT !.pc = "lookup", !.language = language]
    OBVIOUS
  <2>2. /\ u \in Requests /\ u.pc = "lookup" /\ u.language = language /\ u.found = NoDocument
    BY <1>2, <2>1, ContentFacts DEF Requests
  <2>3. RequestOK(u, edits)
    BY <1>1, <2>2 DEF RequestOK
  <2> QED
    BY <1>7, <2>1, <2>2, <2>3, ClientStep DEF Ask
\* A lookup goes on with what is stored.
<1>8. ASSUME NEW d \in Documents \cup {NoDocument}, DocumentOK(d, edits), client.pc # "idle",
             client' = [client EXCEPT !.pc = "answer", !.found = d],
             kind # "list" => d # NoDocument,
             UNCHANGED <<kind, documents, edits, editing, second, held>>
      PROVE  ContentInv'
  <2>1. /\ client' \in Requests /\ client'.pc = "answer" /\ client'.language = client.language
        /\ client'.found = d
    BY <1>1, <1>8 DEF Requests
  <2>2. RequestOK(client', edits)
    BY <1>1, <1>8, <2>1 DEF RequestOK
  <2> QED
    BY <1>8, <2>1, <2>2, ClientStep
<1>9. ASSUME NEW language \in Language, NEW from \in {"lookup", "fallback"}, NEW otherwise,
             LookUpDocument(language, from, otherwise)
      PROVE  ContentInv'
  <2>1. /\ client.pc = from /\ kind # "list"
        /\ UNCHANGED <<kind, documents, edits, editing, second, held>>
    BY <1>9 DEF LookUpDocument
  <2>2. CASE documents[language] # NoDocument
    BY <1>1, <1>8, <1>9, <2>1, <2>2 DEF LookUpDocument
  <2>3. CASE client' = [client EXCEPT !.pc = "fallback"]
    <3>1. /\ client' \in Requests /\ client'.pc = "fallback" /\ client'.language = client.language
          /\ client'.found = client.found
      BY <1>1, <2>3 DEF Requests
    <3>2. RequestOK(client', edits)
      BY <1>1, <2>1, <3>1 DEF RequestOK
    <3> QED
      BY <2>1, <3>1, <3>2, ClientStep
  <2>4. CASE client' = NoRequest
    BY <1>2, <2>1, <2>4, ContentFacts, ClientStep
  <2> QED
    BY <1>9, <2>2, <2>3, <2>4 DEF LookUpDocument
<1>10. CASE Find \/ FindDefault
  <2>1. client.language \in Language
    BY <1>1 DEF Requests
  <2> QED
    BY <1>9, <1>10, <2>1, ContentFacts DEF Find, FindDefault
<1>11. CASE FindList
  <2>1. client.language \in Language
    BY <1>1 DEF Requests
  <2>2. PICK d \in {documents[client.language], documents[DefaultLanguage], NoDocument} :
           client' = [client EXCEPT !.pc = "answer", !.found = d]
    BY <1>11 DEF FindList
  <2>3. d \in Documents \cup {NoDocument} /\ DocumentOK(d, edits)
    BY <1>1, <2>1, <2>2, ContentFacts
  <2> QED
    BY <1>8, <1>11, <2>2, <2>3 DEF FindList
<1>12. CASE FindFails
  BY <1>2, <1>12, ContentFacts, ClientStep DEF FindFails
<1>13. CASE UNCHANGED contentVars
  BY <1>13 DEF contentVars, ContentInv, RequestOK, HeldOK, Tag, ListETag
<1> QED
  BY <1>3, <1>4, <1>5, <1>6, <1>7, <1>10, <1>11, <1>12, <1>13, StampKept, AnswerKept DEF ContentNext

\* The document in its languages, its edits and the client keep their types.
THEOREM ContentTyped == ContentSpec => []ContentTypeOK
<1>1. ContentInv => ContentTypeOK
  <2> SUFFICES ASSUME ContentInv PROVE ContentTypeOK
    OBVIOUS
  <2>1. edits \in [1..Len(edits) -> Edits] /\ DOMAIN edits = 1..Len(edits)
    BY LenProperties DEF ContentInv
  <2> QED
    BY <2>1 DEF ContentInv, ContentTypeOK, Requests, Edits, HeldOK
<1> QED
  BY <1>1, InitContentInv, NextContentInv, PTL DEF ContentSpec

\* computePageETag, computeGuideETag, computeGuideListETag: a 304 leaves the client with
\* the text it would have been sent, or with another text of the same second.
THEOREM TagsFaithful == ContentSpec => []NotModifiedFaithful
<1>1. ContentInv => NotModifiedFaithful
  <2> SUFFICES ASSUME ContentInv, client.pc = "not_modified"
               PROVE  edits[held[client.language].text] = edits[client.found.text]
    BY DEF NotModifiedFaithful
  <2>1. PICK h : h = held[client.language]
    OBVIOUS
  <2>2. PICK d : d = client.found
    OBVIOUS
  <2>3. /\ client.language \in Asked /\ HeldOK(h, client.language, edits)
        /\ d # NoDocument /\ DocumentOK(d, edits)
        /\ h.tag = Tag(d, client.language) /\ h.tag # NoTag
    BY <2>1, <2>2 DEF ContentInv, RequestOK
  <2>4. PICK shown \in BOOLEAN :
           LET tag == <<edits[h.text].language, edits[h.text].updated, shown>>
           IN  h.tag = IF kind = "list" THEN <<client.language, tag>> ELSE tag
    BY <2>3 DEF HeldOK
  <2>5. h.text \in DOMAIN edits
    BY <2>3 DEF HeldOK
  <2>6. h.tag = IF kind = "list" THEN <<client.language, <<d.language, d.updated, d.published>>>>
                ELSE <<d.language, d.updated, d.published>>
    BY <2>3 DEF Tag, ListETag, ETag
  <2>7. edits[h.text].language = d.language /\ edits[h.text].updated = d.updated
    BY <2>4, <2>6
  <2>8. /\ d.text \in DOMAIN edits
        /\ edits[d.text].language = d.language /\ edits[d.text].updated = d.updated
    BY <2>3 DEF DocumentOK
  <2>9. edits[h.text] \in Edits /\ edits[d.text] \in Edits
    BY <2>5, <2>8, LenProperties DEF ContentInv
  <2>10. edits[h.text] = edits[d.text]
    BY <2>7, <2>8, <2>9 DEF Edits
  <2> QED
    BY <2>1, <2>2, <2>10
<1> QED
  BY <1>1, InitContentInv, NextContentInv, PTL DEF ContentSpec

-----------------------------------------------------------------------------
(* The four side by side. *)

\* A behaviour of the four is a behaviour of each: they share no variable.
LEMMA SideBySide == CachesSpec => KeySetSpec /\ SecretsSpec /\ PricingSpec /\ ContentSpec
<1>1. [CachesNext]_cacheVars => /\ [KeySetNext]_keyVars /\ [SecretsNext]_secVars
                     /\ [PricingNext]_priceVars /\ [ContentNext]_contentVars
  BY DEF CachesNext, cacheVars, KeySetStep, SecretsStep, PricingStep, ContentStep
<1>2. CachesInit => KeySetInit /\ SecretsInit /\ PricingInit /\ ContentInit
  BY DEF CachesInit
<1> QED
  BY <1>1, <1>2, PTL DEF CachesSpec, KeySetSpec, SecretsSpec, PricingSpec, ContentSpec

\* ... and the state of each keeps its type, whoever takes the steps.
THEOREM CachesTyped == CachesSpec => []CachesTypeOK
<1>1. KeySetTypeOK /\ SecretsTypeOK /\ PricingTypeOK /\ ContentTypeOK => CachesTypeOK
  BY DEF CachesTypeOK
<1> QED
  BY <1>1, SideBySide, KeysTyped, SecretsTyped, PricesTyped, ContentTyped, PTL
=============================================================================
