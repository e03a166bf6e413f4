------------------------------- MODULE Secrets -------------------------------
(***************************************************************************)
(* platform/secrets/fetcher.go: one secret, at its latest version, that    *)
(* Resolve caches, Invalidate drops from the cache and announces to the    *)
(* watchers, who resolve it again.                                         *)
(*                                                                         *)
(* The watchers are a Go slice: "array" is its backing array, whose length *)
(* is the capacity, and "used" its length.  Subscribing writes in place    *)
(* while there is room and moves to a larger array otherwise; cancelling   *)
(* shifts the array in place.  Invalidate walks the slice it copied under  *)
(* the lock, without the lock, so it sees what is written in place.        *)
(***************************************************************************)
EXTENDS Integers, Sequences, FiniteSets

CONSTANTS
    Watcher,        \* subscribers, who resolve the secret when told to
    Notifier,       \* concurrent calls of Invalidate
    MaxGeneration   \* bound: values that Secret Manager gives the secret

NoWatcher == "none"
ASSUME SecretAssumption == MaxGeneration \in Nat \ {0} /\ NoWatcher \notin Watcher

VARIABLES
    generation,     \* the value in Secret Manager, numbered
    cached,         \* the cache entry, or NoEntry
    array, used,    \* the slice of watchers
    signal,         \* [Watcher -> its channel: 0 when empty]
    fetcherClosed,  \* whether Close ran: the channels are closed
    resolving,      \* [Watcher -> its call of Resolve]
    notifying       \* [Notifier -> its call of Invalidate]

secVars == <<generation, cached, array, used, signal, fetcherClosed, resolving, notifying>>

\* value 0 comes from the fallback file; overtaken is history: the value was fetched
\* before an Invalidate and stored after it.
NoEntry == [value |-> -1, overtaken |-> FALSE]
\* need is history: the generation at the Invalidate that the watcher was told of.
NoResolve == [pc |-> "idle", need |-> 0, value |-> -1, overtaken |-> FALSE]
\* shared: the slice still lies in the current array; own: the array it lies in if not.
\* untold is history: the watchers there at the beginning that are still to be told,
\* none any more when a watcher has cancelled or the fetcher was closed meanwhile.
NoNotice == [pc |-> "idle", shared |-> TRUE, own |-> <<>>, length |-> 0, next |-> 1,
             generation |-> 0, untold |-> {}]

SecretsTypeOK ==
    /\ generation \in 1..MaxGeneration
    /\ cached \in [value : -1..MaxGeneration, overtaken : BOOLEAN]
    /\ used \in 0..Len(array) /\ \A i \in DOMAIN array : array[i] \in Watcher \cup {NoWatcher}
    /\ signal \in [Watcher -> 0..MaxGeneration]
    /\ fetcherClosed \in BOOLEAN
    /\ resolving \in [Watcher -> [pc : {"idle", "fetching", "storing"},
                                  need : 0..MaxGeneration, value : -1..MaxGeneration,
                                  overtaken : BOOLEAN]]
    /\ \A n \in Notifier :
          /\ notifying[n].pc \in {"idle", "walking"}
          /\ notifying[n].untold \subseteq Watcher
          /\ notifying[n].length <= Len(IF notifying[n].shared THEN array ELSE notifying[n].own)

SecretsInit ==
    /\ generation = 1
    /\ cached = NoEntry
    /\ array = <<>> /\ used = 0
    /\ signal = [w \in Watcher |-> 0]
    /\ fetcherClosed = FALSE
    /\ resolving = [w \in Watcher |-> NoResolve]
    /\ notifying = [n \in Notifier |-> NoNotice]

\* An operator adds a version in Secret Manager.
AddVersion ==
    /\ generation < MaxGeneration /\ generation' = generation + 1
    /\ UNCHANGED <<cached, array, used, signal, fetcherClosed, resolving, notifying>>

-----------------------------------------------------------------------------
\* Resolve begins unasked, or because the watcher took the signal from its channel.
\* The cache entry is answered if there is one.
Resolve(w) ==
    /\ resolving[w].pc = "idle"
    /\ signal' = [signal EXCEPT ![w] = 0]
    /\ cached = NoEntry
    /\ resolving' = [resolving EXCEPT ![w] = [NoResolve EXCEPT !.pc = "fetching", !.need = signal[w]]]
    /\ UNCHANGED <<generation, cached, array, used, fetcherClosed, notifying>>

CacheHit(w) ==
    /\ resolving[w].pc = "idle" /\ cached # NoEntry
    /\ signal' = [signal EXCEPT ![w] = 0]
    /\ UNCHANGED <<generation, cached, array, used, fetcherClosed, resolving, notifying>>

\* Secret Manager answers; or there is no project, no client or one of four errors and
\* the fallback file has a value; or the call fails.
FetchRemote(w) ==
    /\ resolving[w].pc = "fetching"
    /\ \/ \E value \in {generation, 0} :
             resolving' = [resolving EXCEPT ![w].pc = "storing", ![w].value = value]
       \/ resolving' = [resolving EXCEPT ![w] = NoResolve]
    /\ UNCHANGED <<generation, cached, array, used, signal, fetcherClosed, notifying>>

StoreCache(w) ==
    /\ resolving[w].pc = "storing"
    /\ cached' = [value |-> resolving[w].value, overtaken |-> resolving[w].overtaken]
    /\ resolving' = [resolving EXCEPT ![w] = NoResolve]
    /\ UNCHANGED <<generation, array, used, signal, fetcherClosed, notifying>>

-----------------------------------------------------------------------------
Watchers == {array[i] : i \in 1..used}
Capacity(n) == IF n = 0 THEN 1 ELSE 2 * n

\* The array is given up: the slices that lie in it keep it.
MovedOn == [n \in Notifier |-> IF notifying[n].pc = "walking" /\ notifying[n].shared
                             THEN [notifying[n] EXCEPT !.shared = FALSE, !.own = array]
                             ELSE notifying[n]]
Disturbed(notices) == [n \in Notifier |-> IF notices[n].pc = "walking"
                                          THEN [notices[n] EXCEPT !.untold = {}] ELSE notices[n]]

\* What lies behind the slice is kept while an Invalidate may look at it.
InSight == \E n \in Notifier : notifying[n].pc = "walking" /\ notifying[n].shared

\* A plausible bug: the slice is extended past the capacity of its array.
SubscribeInPlace(w) ==
    /\ w \notin Watchers /\ ~fetcherClosed
    /\ array' = [i \in DOMAIN array |-> IF i = used + 1 THEN w ELSE array[i]]
    /\ used' = used + 1
    /\ UNCHANGED <<generation, cached, signal, fetcherClosed, resolving, notifying>>

\* append: in place while there is room, otherwise in an array of twice the size.
Subscribe(w) ==
    /\ w \notin Watchers /\ ~fetcherClosed
    /\ IF used < Len(array)
       THEN array' = [array EXCEPT ![used + 1] = w] /\ UNCHANGED notifying
       ELSE /\ array' = [i \in 1..Capacity(Len(array)) |->
                            IF i <= used THEN array[i] ELSE IF i = used + 1 THEN w ELSE NoWatcher]
            /\ notifying' = MovedOn
    /\ used' = used + 1
    /\ UNCHANGED <<generation, cached, signal, fetcherClosed, resolving>>

Unsubscribe(w) ==
    /\ w \in Watchers
    /\ LET at == CHOOSE i \in 1..used : array[i] = w
           shifted == [i \in DOMAIN array |-> IF i \in at..(used - 1) THEN array[i + 1]
                                              ELSE IF i = used /\ ~InSight THEN NoWatcher ELSE array[i]]
       IN  IF used = 1
           THEN array' = <<>> /\ notifying' = Disturbed(MovedOn)
           ELSE array' = shifted /\ notifying' = Disturbed(notifying)
    /\ used' = used - 1
    /\ UNCHANGED <<generation, cached, signal, fetcherClosed, resolving>>

\* Close drops the watchers and closes their channels; it is called once.
CloseFetcher ==
    /\ ~fetcherClosed
    /\ fetcherClosed' = TRUE
    /\ array' = <<>> /\ used' = 0
    /\ notifying' = Disturbed(MovedOn)
    /\ UNCHANGED <<generation, cached, signal, resolving>>

\* A plausible bug: the entry is sought under the reference, which lacks the version.
InvalidateNoKey(n) ==
    /\ notifying[n].pc = "idle"
    /\ notifying' = [notifying EXCEPT ![n] =
           [NoNotice EXCEPT !.pc = "walking", !.length = used, !.generation = generation,
                            !.untold = Watchers]]
    /\ resolving' = [w \in Watcher |-> [resolving[w] EXCEPT
           !.overtaken = @ \/ resolving[w].pc = "storing"]]
    /\ UNCHANGED <<generation, cached, array, used, signal, fetcherClosed>>

\* Invalidate, under the lock: the entry is dropped and the slice copied.
Invalidate(n) ==
    /\ notifying[n].pc = "idle"
    /\ cached' = NoEntry
    /\ notifying' = [notifying EXCEPT ![n] =
           [NoNotice EXCEPT !.pc = "walking", !.length = used, !.generation = generation,
                            !.untold = Watchers]]
    /\ resolving' = [w \in Watcher |-> [resolving[w] EXCEPT
           !.overtaken = @ \/ resolving[w].pc = "storing"]]
    /\ UNCHANGED <<generation, array, used, signal, fetcherClosed>>

Seen(n) == IF notifying[n].shared THEN array[notifying[n].next] ELSE notifying[n].own[notifying[n].next]

\* A plausible bug: the walk ends at a channel that is full.
NotifyUntilFull(n) ==
    LET w == Seen(n)
    IN  /\ notifying[n].pc = "walking" /\ notifying[n].next <= notifying[n].length
        /\ signal' = IF ~fetcherClosed /\ signal[w] = 0
                     THEN [signal EXCEPT ![w] = notifying[n].generation] ELSE signal
        /\ notifying' = [notifying EXCEPT ![n].untold = @ \ {w},
               ![n].next = IF signal[w] = 0 THEN @ + 1 ELSE notifying[n].length + 1]
        /\ UNCHANGED <<generation, cached, array, used, fetcherClosed, resolving>>

\* One watcher is told, unless its channel is full or closed.
Notify(n) ==
    LET w == Seen(n)
    IN  /\ notifying[n].pc = "walking" /\ notifying[n].next <= notifying[n].length
        /\ signal' = IF ~fetcherClosed /\ signal[w] = 0
                     THEN [signal EXCEPT ![w] = notifying[n].generation] ELSE signal
        /\ notifying' = [notifying EXCEPT ![n].untold = @ \ {w}, ![n].next = @ + 1]
        /\ UNCHANGED <<generation, cached, array, used, fetcherClosed, resolving>>

Notified(n) ==
    /\ notifying[n].pc = "walking" /\ notifying[n].next > notifying[n].length
    /\ notifying' = [notifying EXCEPT ![n] = NoNotice]
    /\ UNCHANGED <<generation, cached, array, used, signal, fetcherClosed, resolving>>

SecretsNext ==
    \/ AddVersion \/ CloseFetcher
    \/ \E w \in Watcher : \/ Resolve(w) \/ CacheHit(w) \/ FetchRemote(w) \/ StoreCache(w)
                          \/ Subscribe(w) \/ Unsubscribe(w)
    \/ \E n \in Notifier : Invalidate(n) \/ Notify(n) \/ Notified(n)

SecretsSpec == SecretsInit /\ [][SecretsNext]_secVars

-----------------------------------------------------------------------------
\* A cache entry that may be answered to a watcher told of an Invalidate at generation
\* "need": at least as new, or from the fallback file, or stored by a Resolve that had
\* fetched before an Invalidate and was overtaken by it.
Fresh(entry, need) == entry.value >= need \/ entry.value = 0 \/ entry.overtaken

\* A watcher that resolves the secret because it was told gets a fresh value, from the
\* cache or from Secret Manager, whatever other calls store and drop meanwhile.
FreshAfterNotice ==
    [][\A w \in Watcher :
          /\ signal[w] # 0 /\ signal'[w] = 0 /\ resolving'[w].pc = "idle" => Fresh(cached, signal[w])
          /\ resolving[w].pc = "storing" /\ resolving'[w].pc = "idle" =>
                Fresh(cached', resolving[w].need)]_secVars

\* An Invalidate tells every watcher that was subscribed when it began, whoever else
\* subscribes meanwhile, unless a watcher cancels or the fetcher is closed under it.
NotifyAll ==
    \A n \in Notifier :
        notifying[n].pc = "walking" /\ notifying[n].next > notifying[n].length =>
            notifying[n].untold = {}

=============================================================================
