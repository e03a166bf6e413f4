------------------------------ MODULE Counters -------------------------------
(***************************************************************************)
(* services/counter_service.go over                                        *)
(* repositories/firestore/counter_repository.go: API instances that draw   *)
(* order, invoice and other numbers from shared Firestore counters, each   *)
(* configuring a counter the first time it uses it with some options.      *)
(***************************************************************************)
EXTENDS Integers, FiniteSets

CONSTANTS
    Instance,       \* processes of the API
    Call,           \* calls in progress
    Kind,           \* which calls are made: a subset of Kinds
    Options,        \* the options that callers of Next give
    MaxPeriod,      \* bound: how often the calendar turns over
    MaxCalls        \* bound: how many calls are made

Kinds == {"next", "order", "invoice", "checkout"}
Unset == -1         \* an option that is not given

CounterOptions == [step : Nat, max : Nat \cup {Unset}, initial : Nat \cup {Unset}]

ASSUME KindAssumption == Kind \subseteq Kinds
ASSUME OptionsAssumption == Options \subseteq CounterOptions
ASSUME BoundAssumption == MaxPeriod \in Nat /\ MaxCalls \in Nat

VARIABLES
    counter,    \* the documents of collection counters, by id
    configured, \* per instance, the signatures its service has configured
    lock,       \* per instance, the call that holds configMu, or Nobody
    call,       \* what each call is doing
    period,     \* the calendar period (year or month) that clocks show
    handed,     \* history: the values drawn, as <<counter id, value>>
    numbers,    \* history: the formatted numbers returned
    repeated,   \* history: those returned more than once
    calls       \* how many calls were made

vars == <<counter, configured, lock, call, period, handed, numbers, repeated, calls>>

Nobody == "nobody"
ASSUME CallAssumption == Nobody \notin Call

Plain == [step |-> 0, max |-> Unset, initial |-> Unset]
NoCounter == [current |-> 0, step |-> 0, max |-> Unset, exists |-> FALSE]
Idle == [pc |-> "idle", kind |-> "none", at |-> Nobody, id |-> <<"none", 0>>,
         began |-> 0, opts |-> Plain, value |-> 0]

\* The counter a call uses: orders:<year>, invoices:<month>, a fixed one, and the
\* one named "orders" that the order service draws from.
IdOf(kind, now) == CASE kind = "next"     -> <<"jobs", 0>>
                     [] kind = "order"    -> <<"orders", now>>
                     [] kind = "invoice"  -> <<"invoices", now>>
                     [] kind = "checkout" -> <<"checkout", 0>>

OptsOf(kind) == CASE kind = "next"     -> Options
                  [] kind = "order"    -> {Plain}
                  [] kind = "invoice"  -> {[Plain EXCEPT !.step = 1]}
                  [] kind = "checkout" -> {[Plain EXCEPT !.step = 1]}

Ids == {IdOf(kind, now) : kind \in Kind, now \in 0 .. MaxPeriod}

Init ==
    /\ counter = [id \in Ids |-> NoCounter]
    /\ configured = [i \in Instance |-> {}]
    /\ lock = [i \in Instance |-> Nobody]
    /\ call = [c \in Call |-> Idle]
    /\ period = 0
    /\ handed = {}
    /\ numbers = {}
    /\ repeated = {}
    /\ calls = 0

-----------------------------------------------------------------------------
\* A call reads the clock and names its counter; the order service goes to the
\* repository directly.
Begin(c, i, kind, opts) ==
    /\ call[c].pc = "idle"
    /\ calls < MaxCalls
    /\ calls' = calls + 1
    /\ call' = [call EXCEPT ![c] =
                  [pc |-> IF kind = "checkout" THEN "draw" ELSE "configure", kind |-> kind,
                   at |-> i, id |-> IdOf(kind, period), began |-> period, opts |-> opts,
                   value |-> 0]]
    /\ UNCHANGED <<counter, configured, lock, period, handed, numbers, repeated>>

(* ensureConfiguration, under the instance's mutex: configured holds the     *)
(* last signature of each counter id.                                        *)

Signature(c) == <<call[c].id, call[c].opts>>

LockConfig(c) ==
    LET i == call[c].at
    IN  /\ call[c].pc = "configure"
        /\ lock[i] = Nobody
        /\ lock' = [lock EXCEPT ![i] = c]
        /\ call' = [call EXCEPT ![c].pc = IF Signature(c) \in configured[i] THEN "unlock"
                                          ELSE IF call[c].opts = Plain THEN "remember"
                                          ELSE "store"]
        /\ UNCHANGED <<counter, configured, period, handed, numbers, repeated, calls>>

\* What Configure merges into the document of the counter.
Merged(d, opts) ==
    [current |-> IF opts.initial # Unset THEN opts.initial ELSE d.current,
     step |-> IF opts.step > 0 THEN opts.step ELSE d.step,
     max |-> IF opts.max # Unset THEN opts.max ELSE d.max,
     exists |-> TRUE]

StoreConfig(c) ==
    /\ call[c].pc = "store"
    /\ counter' = [counter EXCEPT ![call[c].id] = Merged(@, call[c].opts)]
    /\ call' = [call EXCEPT ![c].pc = "remember"]
    /\ UNCHANGED <<configured, lock, period, handed, numbers, repeated, calls>>

\* A plausible bug: the early return on a failed Configure keeps the mutex.
StoreFailsKeepsLock(c) ==
    /\ call[c].pc = "store"
    /\ call' = [call EXCEPT ![c] = Idle]
    /\ UNCHANGED <<counter, configured, lock, period, handed, numbers, repeated, calls>>

\* A plausible bug: the signature is remembered before Configure succeeded.
StoreFailsRemembers(c) ==
    /\ call[c].pc = "store"
    /\ configured' = [configured EXCEPT ![call[c].at] =
                        {s \in @ : s[1] # call[c].id} \cup {Signature(c)}]
    /\ lock' = [lock EXCEPT ![call[c].at] = Nobody]
    /\ call' = [call EXCEPT ![c] = Idle]
    /\ UNCHANGED <<counter, period, handed, numbers, repeated, calls>>

\* Configure fails, or its reply is lost: the call ends with an error, and nothing is
\* remembered.
StoreFails(c) ==
    LET id == call[c].id
    IN  /\ call[c].pc = "store"
        /\ counter' \in {counter, [counter EXCEPT ![id] = Merged(@, call[c].opts)]}
        /\ lock' = [lock EXCEPT ![call[c].at] = Nobody]
        /\ call' = [call EXCEPT ![c] = Idle]
        /\ UNCHANGED <<configured, period, handed, numbers, repeated, calls>>

Remember(c) ==
    /\ call[c].pc = "remember"
    /\ configured' = [configured EXCEPT ![call[c].at] =
                        {s \in @ : s[1] # call[c].id} \cup {Signature(c)}]
    /\ call' = [call EXCEPT ![c].pc = "unlock"]
    /\ UNCHANGED <<counter, lock, period, handed, numbers, repeated, calls>>

UnlockConfig(c) ==
    /\ call[c].pc = "unlock"
    /\ lock' = [lock EXCEPT ![call[c].at] = Nobody]
    /\ call' = [call EXCEPT ![c].pc = "draw"]
    /\ UNCHANGED <<counter, configured, period, handed, numbers, repeated, calls>>

-----------------------------------------------------------------------------
(* The repository's Next, one transaction on one document.                   *)

Increment(d, step) ==
    IF step > 0 THEN step ELSE IF d.exists /\ d.step > 0 THEN d.step ELSE 1

Exhausted(d, step) ==
    d.exists /\ d.max # Unset /\ d.current + Increment(d, step) > d.max

\* A plausible bug: the counter is read, but the increment is not stored.
AdvancedStepOnly(d, step) ==
    [d EXCEPT !.step = Increment(d, step), !.exists = TRUE]

Advanced(d, step) ==
    [d EXCEPT !.current = @ + Increment(d, step), !.step = Increment(d, step),
              !.exists = TRUE]

Draw(c) ==
    LET id == call[c].id
        next == Advanced(counter[id], call[c].opts.step)
    IN  /\ call[c].pc = "draw"
        /\ ~Exhausted(counter[id], call[c].opts.step)
        /\ counter' = [counter EXCEPT ![id] = next]
        /\ handed' = handed \cup {<<id, next.current>>}
        /\ call' = [call EXCEPT ![c].pc = "format", ![c].value = next.current]
        /\ UNCHANGED <<configured, lock, period, numbers, repeated, calls>>

\* The counter is exhausted, the transaction failed, or its reply was lost.
DrawFails(c) ==
    LET id == call[c].id
        next == Advanced(counter[id], call[c].opts.step)
    IN  /\ call[c].pc = "draw"
        /\ \/ UNCHANGED counter
           \/ /\ ~Exhausted(counter[id], call[c].opts.step)
              /\ counter' = [counter EXCEPT ![id] = next]
        /\ call' = [call EXCEPT ![c] = Idle]
        /\ UNCHANGED <<configured, lock, period, handed, numbers, repeated, calls>>

\* A plausible bug: the invoice prefix is made when the value is formatted.
NumberLatePrefix(c) ==
    CASE call[c].kind = "next" -> <<"job", 0, call[c].value>>
      [] call[c].kind = "invoice" -> <<"INV", period, call[c].value>>
      [] call[c].kind = "checkout" -> <<"HF", call[c].began, call[c].value>>
      [] call[c].kind = "order" -> <<"HF", period, call[c].value>>

\* The number that the call returns.  The month of an invoice and the year of the
\* order service's numbers are those in which the call began; NextOrderNumber reads
\* the year from the clock once the value is drawn.
Number(c) ==
    CASE call[c].kind = "next" -> <<"job", 0, call[c].value>>
      [] call[c].kind = "invoice" -> <<"INV", call[c].began, call[c].value>>
      [] call[c].kind = "checkout" -> <<"HF", call[c].began, call[c].value>>
      [] call[c].kind = "order" -> <<"HF", period, call[c].value>>

Format(c) ==
    /\ call[c].pc = "format"
    /\ numbers' = numbers \cup {Number(c)}
    /\ repeated' = repeated \cup ({Number(c)} \cap numbers)
    /\ call' = [call EXCEPT ![c] = Idle]
    /\ UNCHANGED <<counter, configured, lock, period, handed, calls>>

-----------------------------------------------------------------------------
\* An instance restarts: its calls end and its service forgets what it configured.
Restart(i) ==
    /\ \E c \in Call : call[c].at = i
    /\ configured' = [configured EXCEPT ![i] = {}]
    /\ lock' = [lock EXCEPT ![i] = Nobody]
    /\ call' = [c \in Call |-> IF call[c].at = i THEN Idle ELSE call[c]]
    /\ UNCHANGED <<counter, period, handed, numbers, repeated, calls>>

Turn ==
    /\ period < MaxPeriod
    /\ period' = period + 1
    /\ UNCHANGED <<counter, configured, lock, call, handed, numbers, repeated, calls>>

Configure(c) == \/ LockConfig(c)
                \/ StoreConfig(c)
                \/ StoreFails(c)
                \/ Remember(c)
                \/ UnlockConfig(c)
Next ==
    \/ \E c \in Call, i \in Instance, kind \in Kind :
          \E opts \in OptsOf(kind) : Begin(c, i, kind, opts)
    \/ \E c \in Call : \/ Configure(c)
                       \/ Draw(c)
                       \/ DrawFails(c)
                       \/ Format(c)
    \/ \E i \in Instance : Restart(i)
    \/ Turn

Spec == Init /\ [][Next]_vars

GoOn(c) == \/ StoreConfig(c) \/ StoreFails(c) \/ Remember(c) \/ UnlockConfig(c)
           \/ Draw(c) \/ DrawFails(c) \/ Format(c)

\* Each call keeps running, and a call that waits for the mutex gets it in the end
\* (sync.Mutex lets no waiter starve).
CallFairness(c) == SF_vars(LockConfig(c)) /\ WF_vars(GoOn(c))
Fairness == \A c \in Call : CallFairness(c)

FairSpec == Spec /\ Fairness

\* When these steps can be taken.
MayLock(c) == call[c].pc = "configure" /\ lock[call[c].at] = Nobody
MayGoOn(c) == call[c].pc \notin {"idle", "configure"}
CallEnabled(c) == /\ MayLock(c) => ENABLED <<LockConfig(c)>>_vars
                  /\ MayGoOn(c) => ENABLED <<GoOn(c)>>_vars
StepsEnabled == \A c \in Call : CallEnabled(c)

-----------------------------------------------------------------------------
(* Properties.                                                             *)

\* The types, and that the values drawn are positive.
TypeOK ==
    /\ handed \subseteq Ids \X (Nat \ {0})
    /\ counter \in [Ids -> [current : Nat, step : Nat, max : Nat \cup {Unset}, exists : BOOLEAN]]
    /\ configured \in [Instance -> SUBSET (Ids \X CounterOptions)]
    /\ lock \in [Instance -> Call \cup {Nobody}]
    /\ call \in [Call -> [pc : {"idle", "configure", "store", "remember", "unlock", "draw", "format"},
                          kind : Kind \cup {"none"}, at : Instance \cup {Nobody},
                          id : Ids \cup {<<"none", 0>>}, began : 0 .. MaxPeriod,
                          opts : CounterOptions, value : Nat]]
    /\ \A c \in Call : call[c].pc # "idle" =>
          /\ call[c].at \in Instance /\ call[c].kind \in Kind
          /\ call[c].id = IdOf(call[c].kind, call[c].began)
    /\ numbers \subseteq {"job", "INV", "HF"} \X Nat \X Nat
    /\ period \in 0 .. MaxPeriod
    /\ calls \in 0 .. MaxCalls

\* repositories/interfaces.go promises transaction-safe sequence numbers: whatever
\* instances draw and configure at once, no value of a counter is drawn twice.
ValuesUnique ==
    [][\A c \in Call : call[c].pc = "draw" /\ call'[c].pc = "format" =>
         <<call[c].id, call'[c].value>> \notin handed]_vars

\* The number printed on an order or an invoice is never printed on another one,
\* even when years and months turn over while numbers are being drawn.
NumbersUnique == repeated = {}

\* A caller that limits the counter never gets a value past its limit, although
\* the limit is configured in another write, perhaps by an earlier call, and lost
\* replies and restarts come between.
LimitHolds ==
    \A c \in Call : call[c].pc = "format" /\ call[c].opts.max # Unset =>
        call[c].value <= call[c].opts.max

\* A call that waits for an instance's mutex does not wait forever: whatever fails
\* in ensureConfiguration, the mutex is given back.
CallsEnd == \A c \in Call : call[c].pc = "configure" ~> call[c].pc = "idle"

=============================================================================
