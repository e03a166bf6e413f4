--------------------------- MODULE CountersProofs ----------------------------
(***************************************************************************)
(* Every execution of Counters is type correct; no value of a counter is   *)
(* drawn twice and no number is printed twice, as long as no caller names  *)
(* a value to start from and no caller uses NextOrderNumber, which reads   *)
(* the clock twice; callers that agree on a limit never get past it; and   *)
(* no call waits for the mutex forever, given that a step whose guard      *)
(* holds can be taken (TLC finds it true).                                 *)
(* All of it for any number of instances, calls, periods and options.      *)
(***************************************************************************)
EXTENDS Counters, TLAPS

\* What callers are assumed to do, where a theorem says so.
NoInitialValue == \A opts \in Options : opts.initial = Unset
OneLimit == \A opts, other \in Options :
                opts.max # Unset /\ other.max # Unset => opts.max = other.max

Calls == [pc : {"idle", "configure", "store", "remember", "unlock", "draw", "format"},
          kind : Kind \cup {"none"}, at : Instance \cup {Nobody},
          id : Ids \cup {<<"none", 0>>}, began : 0 .. MaxPeriod,
          opts : CounterOptions, value : Nat]

Documents == [current : Nat, step : Nat, max : Nat \cup {Unset}, exists : BOOLEAN]

-----------------------------------------------------------------------------
(* The operators. *)

LEMMA PlainType == Plain \in CounterOptions
BY DEF Plain, CounterOptions, Unset

LEMMA OptsOfType ==
    ASSUME NEW kind \in Kind, NEW opts \in OptsOf(kind)
    PROVE  /\ opts \in CounterOptions
           /\ opts \in Options \/ (opts.max = Unset /\ opts.initial = Unset)
BY KindAssumption, OptionsAssumption, PlainType DEF OptsOf, Kinds, Plain, CounterOptions, Unset

LEMMA IdleType == Idle \in Calls
BY BoundAssumption, PlainType DEF Idle, Calls

LEMMA IdOfType ==
    ASSUME NEW kind \in Kind, NEW now \in 0 .. MaxPeriod
    PROVE  IdOf(kind, now) \in Ids
BY DEF Ids

LEMMA IncrementType ==
    ASSUME NEW d \in Documents, NEW step \in Nat
    PROVE  Increment(d, step) \in Nat \ {0}
BY DEF Increment, Documents

LEMMA AdvancedType ==
    ASSUME NEW d \in Documents, NEW step \in Nat
    PROVE  /\ Advanced(d, step) \in Documents
           /\ Advanced(d, step).current > d.current
           /\ Advanced(d, step).max = d.max
           /\ Advanced(d, step).exists
           /\ ~Exhausted(d, step) /\ d.exists /\ d.max # Unset => Advanced(d, step).current <= d.max
<1> DEFINE next == d.current + Increment(d, step)
<1>1. /\ Increment(d, step) \in Nat
      /\ next \in Nat /\ next > d.current
      /\ d.max \in Nat \cup {Unset} /\ d.current \in Nat
  BY IncrementType DEF Documents
<1>2. /\ Advanced(d, step).current = next
      /\ Advanced(d, step).max = d.max /\ Advanced(d, step).exists = TRUE
  BY DEF Advanced, Documents
<1>3. ~Exhausted(d, step) /\ d.exists /\ d.max # Unset => next <= d.max
  BY <1>1 DEF Exhausted
<1>4. Advanced(d, step) \in Documents
  BY <1>1 DEF Advanced, Documents
<1> HIDE DEF next
<1> QED
  BY <1>1, <1>2, <1>3, <1>4

LEMMA MergedType ==
    ASSUME NEW d \in Documents, NEW opts \in CounterOptions
    PROVE  /\ Merged(d, opts) \in Documents
           /\ opts.initial = Unset => Merged(d, opts).current = d.current
           /\ Merged(d, opts).max = IF opts.max # Unset THEN opts.max ELSE d.max
           /\ Merged(d, opts).exists
BY DEF Merged, Documents, CounterOptions

-----------------------------------------------------------------------------
(* Type correctness. *)

LEMMA InitTypeOK == Init => TypeOK
<1> SUFFICES ASSUME Init PROVE TypeOK
  OBVIOUS
<1>1. counter \in [Ids -> Documents]
  BY DEF Init, NoCounter, Documents
<1>2. call \in [Call -> Calls] /\ \A c \in Call : call[c].pc = "idle"
  BY IdleType DEF Init, Idle
<1> QED
  BY <1>1, <1>2, BoundAssumption DEF Init, TypeOK, Documents, Calls

\* A step of call c that leaves the documents alone.
LEMMA CallStepTypeOK ==
    ASSUME TypeOK, NEW c \in Call, NEW u \in Calls,
           u.pc # "idle" => u.at \in Instance /\ u.kind \in Kind /\ u.id = IdOf(u.kind, u.began),
           call' = [call EXCEPT ![c] = u],
           counter' \in [Ids -> Documents],
           handed' \subseteq Ids \X (Nat \ {0}),
           configured' \in [Instance -> SUBSET (Ids \X CounterOptions)],
           lock' \in [Instance -> Call \cup {Nobody}],
           numbers' \subseteq {"job", "INV", "HF"} \X Nat \X Nat,
           calls' \in 0 .. MaxCalls, UNCHANGED period
    PROVE  TypeOK'
<1>1. call' \in [Call -> Calls]
  BY DEF TypeOK, Calls
<1>2. \A d \in Call : call'[d] = IF d = c THEN u ELSE call[d]
  BY DEF TypeOK
<1> QED
  BY <1>1, <1>2 DEF TypeOK, Documents, Calls

LEMMA BeginTypeOK ==
    ASSUME TypeOK, NEW c \in Call, NEW i \in Instance, NEW kind \in Kind,
           NEW opts \in OptsOf(kind), Begin(c, i, kind, opts)
    PROVE  TypeOK'
<1> DEFINE u == [pc |-> IF kind = "checkout" THEN "draw" ELSE "configure", kind |-> kind,
                 at |-> i, id |-> IdOf(kind, period), began |-> period, opts |-> opts, value |-> 0]
<1>1. u \in Calls
  BY OptsOfType, IdOfType DEF TypeOK, Calls
<1>2. u.at = i /\ u.kind = kind /\ u.id = IdOf(u.kind, u.began)
  OBVIOUS
<1>3. calls' \in 0 .. MaxCalls
  BY BoundAssumption DEF TypeOK, Begin
<1>4. call' = [call EXCEPT ![c] = u]
  BY DEF Begin
<1> HIDE DEF u
<1> QED
  BY <1>1, <1>2, <1>3, <1>4, CallStepTypeOK DEF Begin, TypeOK, Documents

\* The step of a call that goes on at pc, with a value.
LEMMA GoesOnTypeOK ==
    ASSUME TypeOK, NEW c \in Call, call[c].pc # "idle",
           NEW pc \in {"configure", "store", "remember", "unlock", "draw", "format"},
           NEW value \in Nat
    PROVE  LET u == [call[c] EXCEPT !.pc = pc, !.value = value]
           IN  /\ u \in Calls
               /\ u.at \in Instance /\ u.kind \in Kind /\ u.id = IdOf(u.kind, u.began)
BY DEF TypeOK, Calls

\* A failed Configure leaves the counter as it is, or stored: its reply may be lost.
LEMMA LostStore ==
    ASSUME NEW c, StoreFails(c)
    PROVE  \/ counter' = counter
           \/ counter' = [counter EXCEPT ![call[c].id] =
                               Merged(counter[call[c].id], call[c].opts)]
BY DEF StoreFails

LEMMA ConfigureTypeOK ==
    ASSUME TypeOK, NEW c \in Call, Configure(c)
    PROVE  TypeOK'
<1> DEFINE At(pc) == [call[c] EXCEPT !.pc = pc]
<1>1. /\ call[c] \in Calls /\ call[c].pc # "idle"
      /\ call[c].at \in Instance /\ call[c].kind \in Kind /\ call[c].began \in 0 .. MaxPeriod
      /\ call[c].id = IdOf(call[c].kind, call[c].began) /\ call[c].opts \in CounterOptions
  BY DEF TypeOK, Calls, Configure, LockConfig, StoreConfig, StoreFails, Remember, UnlockConfig
<1>2. call[c].id \in Ids
  BY <1>1, IdOfType
<1>3. \A pc \in {"store", "remember", "unlock", "draw"} :
        /\ At(pc) \in Calls
        /\ At(pc).at \in Instance /\ At(pc).kind \in Kind /\ At(pc).id = IdOf(At(pc).kind, At(pc).began)
  BY <1>1 DEF Calls
<1>4. CASE LockConfig(c)
  <2>1. PICK pc \in {"store", "remember", "unlock"} : call' = [call EXCEPT ![c] = At(pc)]
    BY <1>4 DEF LockConfig
  <2> QED
    BY <1>1, <1>3, <1>4, <2>1, CallStepTypeOK DEF LockConfig, TypeOK, Documents
<1>5. CASE StoreConfig(c)
  <2>1. counter' \in [Ids -> Documents]
    BY <1>1, <1>2, <1>5, MergedType DEF StoreConfig, TypeOK, Documents
  <2>2. call' = [call EXCEPT ![c] = At("remember")]
    BY <1>5 DEF StoreConfig
  <2> QED
    BY <1>3, <1>5, <2>1, <2>2, CallStepTypeOK DEF StoreConfig, TypeOK
<1>6. CASE StoreFails(c)
  <2>1. counter' \in [Ids -> Documents]
    <3>1. Merged(counter[call[c].id], call[c].opts) \in Documents
      BY <1>1, <1>2, MergedType DEF TypeOK, Documents
    <3>2. counter \in [Ids -> Documents]
      BY DEF TypeOK, Documents
    <3> QED
      BY <1>2, <1>6, <3>1, <3>2, LostStore
  <2> QED
    BY <1>1, <1>6, <2>1, CallStepTypeOK, IdleType DEF StoreFails, TypeOK, Idle
<1>7. CASE Remember(c)
  <2>1. configured' \in [Instance -> SUBSET (Ids \X CounterOptions)]
    <3>1. {s \in configured[call[c].at] : s[1] # call[c].id} \cup {Signature(c)}
             \in SUBSET (Ids \X CounterOptions)
      BY <1>1, <1>2 DEF Signature, TypeOK
    <3> QED
      BY <1>7, <3>1 DEF Remember, TypeOK
  <2>2. call' = [call EXCEPT ![c] = At("unlock")]
    BY <1>7 DEF Remember
  <2> QED
    BY <1>3, <1>7, <2>1, <2>2, CallStepTypeOK DEF Remember, TypeOK, Documents
<1>8. CASE UnlockConfig(c)
  <2>1. call' = [call EXCEPT ![c] = At("draw")]
    BY <1>8 DEF UnlockConfig
  <2> QED
    BY <1>1, <1>3, <1>8, <2>1, CallStepTypeOK DEF UnlockConfig, TypeOK, Documents
<1> QED
  BY <1>4, <1>5, <1>6, <1>7, <1>8 DEF Configure

LEMMA DrawTypeOK ==
    ASSUME TypeOK, NEW c \in Call, Draw(c) \/ DrawFails(c)
    PROVE  TypeOK'
<1> DEFINE id == call[c].id
           next == Advanced(counter[id], call[c].opts.step)
<1>1. /\ call[c] \in Calls /\ call[c].pc = "draw" /\ call[c].kind \in Kind
      /\ call[c].began \in 0 .. MaxPeriod /\ id = IdOf(call[c].kind, call[c].began)
      /\ call[c].opts.step \in Nat
  BY DEF TypeOK, Calls, Draw, DrawFails, CounterOptions
<1>2. id \in Ids /\ counter[id] \in Documents
  BY <1>1, IdOfType DEF TypeOK, Documents
<1>3. next \in Documents /\ next.current \in Nat \ {0}
  <2>1. next \in Documents /\ next.current > counter[id].current
    BY <1>1, <1>2, AdvancedType
  <2> QED
    BY <1>2, <2>1 DEF Documents
<1> HIDE DEF next
<1>4. counter' \in [Ids -> Documents]
  BY <1>2, <1>3 DEF TypeOK, Documents, Draw, DrawFails, next
<1>5. CASE Draw(c)
  <2>1. call' = [call EXCEPT ![c] = [call[c] EXCEPT !.pc = "format", !.value = next.current]]
    BY <1>5 DEF Draw, next
  <2>2. handed' \subseteq Ids \X (Nat \ {0})
    BY <1>2, <1>3, <1>5 DEF Draw, TypeOK, next
  <2> DEFINE u == [call[c] EXCEPT !.pc = "format", !.value = next.current]
  <2>3. u \in Calls /\ u.at \in Instance /\ u.kind \in Kind /\ u.id = IdOf(u.kind, u.began)
    BY <1>1, <1>3, GoesOnTypeOK
  <2>4. call' = [call EXCEPT ![c] = u]
    BY <2>1
  <2> HIDE DEF u
  <2> QED
    BY <1>4, <1>5, <2>2, <2>3, <2>4, CallStepTypeOK DEF Draw, TypeOK
<1>6. CASE DrawFails(c)
  BY <1>4, <1>6, CallStepTypeOK, IdleType DEF DrawFails, TypeOK, Idle
<1> QED
  BY <1>5, <1>6

LEMMA NumberType ==
    ASSUME TypeOK, NEW c \in Call, call[c].pc # "idle"
    PROVE  Number(c) \in {"job", "INV", "HF"} \X Nat \X Nat
<1>1. /\ call[c].kind \in Kinds /\ call[c].began \in Nat /\ call[c].value \in Nat /\ period \in Nat
  BY KindAssumption, BoundAssumption DEF TypeOK, Calls
<1> QED
  BY <1>1 DEF Number, Kinds

LEMMA FormatTypeOK ==
    ASSUME TypeOK, NEW c \in Call, Format(c)
    PROVE  TypeOK'
<1>1. numbers' \subseteq {"job", "INV", "HF"} \X Nat \X Nat
  BY NumberType DEF Format, TypeOK
<1> QED
  BY <1>1, CallStepTypeOK, IdleType DEF Format, TypeOK, Documents, Idle

LEMMA RestartTypeOK ==
    ASSUME TypeOK, NEW i \in Instance, Restart(i)
    PROVE  TypeOK'
<1>1. call' \in [Call -> Calls]
  BY IdleType DEF Restart, TypeOK, Calls
<1>2. \A c \in Call : call'[c] = Idle \/ call'[c] = call[c]
  BY DEF Restart
<1>3. /\ configured' \in [Instance -> SUBSET (Ids \X CounterOptions)]
      /\ lock' \in [Instance -> Call \cup {Nobody}]
  BY DEF Restart, TypeOK
<1> QED
  BY <1>1, <1>2, <1>3 DEF Restart, TypeOK, Calls, Idle

LEMMA NextTypeOK == TypeOK /\ [Next]_vars => TypeOK'
<1> SUFFICES ASSUME TypeOK, [Next]_vars PROVE TypeOK'
  OBVIOUS
<1>1. ASSUME NEW c \in Call, NEW i \in Instance, NEW kind \in Kind, NEW opts \in OptsOf(kind),
             Begin(c, i, kind, opts)
      PROVE  TypeOK'
  BY <1>1, BeginTypeOK
<1>2. ASSUME NEW c \in Call, Configure(c) PROVE TypeOK'
  BY <1>2, ConfigureTypeOK
<1>3. ASSUME NEW c \in Call, Draw(c) \/ DrawFails(c) PROVE TypeOK'
  BY <1>3, DrawTypeOK
<1>4. ASSUME NEW c \in Call, Format(c) PROVE TypeOK'
  BY <1>4, FormatTypeOK
<1>5. ASSUME NEW i \in Instance, Restart(i) PROVE TypeOK'
  BY <1>5, RestartTypeOK
<1>6. CASE Turn
  BY <1>6, BoundAssumption DEF Turn, TypeOK
<1>7. CASE UNCHANGED vars
  BY <1>7 DEF vars, TypeOK
<1> QED
  BY <1>1, <1>2, <1>3, <1>4, <1>5, <1>6, <1>7 DEF Next

\* All variables keep their types.
THEOREM TypeCorrect == Spec => []TypeOK
<1>1. Init => TypeOK
  BY InitTypeOK
<1>2. TypeOK /\ [Next]_vars => TypeOK'
  BY NextTypeOK
<1> QED
  BY <1>1, <1>2, PTL DEF Spec

-----------------------------------------------------------------------------
(* No value of a counter is drawn twice.  The values drawn do not exceed   *)
(* the counter; what fails after the increment only makes gaps.            *)

\* A call keeps the options it began with, which its kind allows.
OptionsKept == \A c \in Call : call[c].pc # "idle" => call[c].opts \in OptsOf(call[c].kind)

HandedBelow == \A h \in handed : h[2] <= counter[h[1]].current

\* The value that call c has drawn and not yet printed; no other call has it.
Pair(c) == <<call[c].id, call[c].value>>
PairsOwn == \A c \in Call : call[c].pc = "format" =>
                /\ Pair(c) \in handed
                /\ \A d \in Call : call[d].pc = "format" /\ Pair(d) = Pair(c) => d = c

ValuesInv == OptionsKept /\ HandedBelow /\ PairsOwn

\* The value that a printed number stands for.
Source(n) == <<IF n[1] = "job" THEN <<"jobs", 0>>
               ELSE IF n[1] = "INV" THEN <<"invoices", n[2]>> ELSE <<"checkout", 0>>, n[3]>>

\* A value is printed by the call that drew it, which then forgets it.
NumbersInv ==
    /\ repeated = {}
    /\ \A n \in numbers :
          /\ Source(n) \in handed
          /\ \A c \in Call : call[c].pc = "format" => Pair(c) # Source(n)

-----------------------------------------------------------------------------
(* Limits.  A limit that an instance remembers is in the document.         *)

LimitStored(id, max) == counter[id].exists /\ counter[id].max = max

LimitsInv ==
    /\ \A i \in Instance : \A s \in configured[i] :
          s[2].max # Unset => LimitStored(s[1], s[2].max) /\ s[2] \in Options
    /\ \A c \in Call :
          call[c].pc \in {"remember", "unlock", "draw"} /\ call[c].opts.max # Unset =>
             LimitStored(call[c].id, call[c].opts.max)
    /\ LimitHolds

-----------------------------------------------------------------------------
LEMMA InitValues == Init => ValuesInv /\ NumbersInv /\ LimitsInv
BY DEF Init, ValuesInv, OptionsKept, HandedBelow, PairsOwn, NumbersInv, LimitsInv, LimitHolds, Idle

\* A step in which call c goes to a state u that is not "format", and nothing is drawn.
LEMMA QuietStep ==
    ASSUME TypeOK, ValuesInv, NEW c \in Call, NEW u,
           call' = [call EXCEPT ![c] = u],
           u.pc # "format", u.pc # "idle" => u.opts \in OptsOf(u.kind),
           UNCHANGED handed,
           \A id \in Ids : counter'[id].current >= counter[id].current,
           counter' \in [Ids -> Documents]
    PROVE  /\ ValuesInv'
           /\ NumbersInv /\ UNCHANGED <<numbers, repeated>> => NumbersInv'
<1>1. \A d \in Call : call'[d] = IF d = c THEN u ELSE call[d]
  BY DEF TypeOK
<1>2. OptionsKept'
  BY <1>1 DEF ValuesInv, OptionsKept
<1>3. HandedBelow'
  <2> SUFFICES ASSUME NEW h \in handed PROVE h[2] <= counter'[h[1]].current
    BY DEF HandedBelow
  <2>1. h[1] \in Ids /\ h[2] \in Nat /\ h[2] <= counter[h[1]].current
    BY DEF TypeOK, ValuesInv, HandedBelow
  <2>2. counter[h[1]].current \in Nat /\ counter'[h[1]].current \in Nat
    BY <2>1 DEF TypeOK, Documents
  <2> QED
    BY <2>1, <2>2
<1>4. \A d \in Call : call'[d].pc = "format" => call'[d] = call[d] /\ Pair(d)' = Pair(d)
  BY <1>1 DEF Pair
<1>5. PairsOwn'
  BY <1>4 DEF ValuesInv, PairsOwn
<1>6. NumbersInv /\ UNCHANGED <<numbers, repeated>> => NumbersInv'
  <2> SUFFICES ASSUME NumbersInv, UNCHANGED <<numbers, repeated>> PROVE NumbersInv'
    OBVIOUS
  <2>1. \A n : Source(n)' = Source(n)
    BY DEF Source
  <2> QED
    BY <1>4, <2>1 DEF NumbersInv
<1> QED
  BY <1>2, <1>3, <1>5, <1>6 DEF ValuesInv

LEMMA BeginValues ==
    ASSUME TypeOK, ValuesInv, NEW c \in Call, NEW i \in Instance, NEW kind \in Kind,
           NEW opts \in OptsOf(kind), Begin(c, i, kind, opts)
    PROVE  ValuesInv' /\ (NumbersInv => NumbersInv')
<1> DEFINE u == [pc |-> IF kind = "checkout" THEN "draw" ELSE "configure", kind |-> kind,
                 at |-> i, id |-> IdOf(kind, period), began |-> period, opts |-> opts, value |-> 0]
<1>1. u.pc # "format" /\ u.opts \in OptsOf(u.kind)
  OBVIOUS
<1>2. call' = [call EXCEPT ![c] = u] /\ UNCHANGED <<counter, handed, numbers, repeated>>
  BY DEF Begin
<1>3. counter \in [Ids -> Documents] /\ \A id \in Ids : counter[id].current >= counter[id].current
  BY DEF TypeOK, Documents
<1> HIDE DEF u
<1> QED
  BY <1>1, <1>2, <1>3, QuietStep

\* Configuring leaves the value of a counter alone, unless it names one.
LEMMA StoreKeepsValue ==
    ASSUME NoInitialValue, TypeOK, ValuesInv, NEW c \in Call,
           StoreConfig(c) \/ StoreFails(c)
    PROVE  /\ counter' \in [Ids -> Documents]
           /\ \A id \in Ids : counter'[id].current = counter[id].current
<1>1. /\ call[c].kind \in Kind /\ call[c].id \in Ids /\ call[c].opts \in CounterOptions
      /\ call[c].opts.initial = Unset
  <2>1. /\ call[c].kind \in Kind /\ call[c].began \in 0 .. MaxPeriod
        /\ call[c].id = IdOf(call[c].kind, call[c].began)
        /\ call[c].opts \in OptsOf(call[c].kind)
    BY DEF StoreConfig, StoreFails, TypeOK, ValuesInv, OptionsKept
  <2> QED
    BY <2>1, IdOfType, OptsOfType DEF NoInitialValue
<1>2. /\ Merged(counter[call[c].id], call[c].opts) \in Documents
      /\ Merged(counter[call[c].id], call[c].opts).current = counter[call[c].id].current
  BY <1>1, MergedType DEF TypeOK, Documents
<1>3. \/ counter' = counter
      \/ counter' = [counter EXCEPT ![call[c].id] = Merged(counter[call[c].id], call[c].opts)]
  BY LostStore DEF StoreConfig
<1>4. counter \in [Ids -> Documents] /\ \A id \in Ids : counter[id].current \in Int
  BY DEF TypeOK, Documents
<1> QED
  BY <1>1, <1>2, <1>3, <1>4

LEMMA ConfigureValues ==
    ASSUME NoInitialValue, TypeOK, ValuesInv, NEW c \in Call, Configure(c)
    PROVE  ValuesInv' /\ (NumbersInv => NumbersInv')
<1>1. /\ counter' \in [Ids -> Documents]
      /\ \A id \in Ids : counter'[id].current >= counter[id].current
  <2>1. CASE StoreConfig(c) \/ StoreFails(c)
    BY <2>1, StoreKeepsValue DEF TypeOK
  <2>2. CASE UNCHANGED counter
    BY <2>2 DEF TypeOK, Documents
  <2> QED
    BY <2>1, <2>2 DEF Configure, LockConfig, Remember, UnlockConfig
<1>2. PICK u : /\ call' = [call EXCEPT ![c] = u]
               /\ u = Idle \/ \E pc \in {"store", "remember", "unlock", "draw"} :
                                 u = [call[c] EXCEPT !.pc = pc]
  BY DEF Configure, LockConfig, StoreConfig, StoreFails, Remember, UnlockConfig
<1>3. u.pc # "format" /\ (u.pc # "idle" => u.opts \in OptsOf(u.kind))
  <2>1. CASE u = Idle
    BY <2>1 DEF Idle
  <2>2. CASE u # Idle
    <3>1. call[c].pc # "idle"
      BY DEF Configure, LockConfig, StoreConfig, StoreFails, Remember, UnlockConfig
    <3>2. u.pc # "format" /\ u.opts = call[c].opts /\ u.kind = call[c].kind
      BY <1>2, <2>2 DEF TypeOK, Calls
    <3> QED
      BY <3>1, <3>2 DEF ValuesInv, OptionsKept
  <2> QED
    BY <2>1, <2>2
<1>4. UNCHANGED <<handed, numbers, repeated>>
  BY DEF Configure, LockConfig, StoreConfig, StoreFails, Remember, UnlockConfig
<1> QED
  BY <1>1, <1>2, <1>3, <1>4, QuietStep

\* What an increment makes of a counter, whether or not its caller learns of it.
LEMMA IncrementFacts ==
    ASSUME TypeOK, NEW c \in Call, call[c].pc = "draw"
    PROVE  LET id == call[c].id
               next == Advanced(counter[id], call[c].opts.step)
           IN  /\ id \in Ids /\ counter[id] \in Documents
               /\ next \in Documents /\ next.current > counter[id].current
               /\ next.max = counter[id].max /\ next.exists
               /\ ~Exhausted(counter[id], call[c].opts.step) /\ counter[id].exists
                  /\ counter[id].max # Unset => next.current <= counter[id].max
<1>1. /\ call[c].kind \in Kind /\ call[c].began \in 0 .. MaxPeriod
      /\ call[c].id = IdOf(call[c].kind, call[c].began) /\ call[c].opts.step \in Nat
  BY DEF TypeOK, CounterOptions
<1>2. call[c].id \in Ids /\ counter[call[c].id] \in Documents
  BY <1>1, IdOfType DEF TypeOK, Documents
<1> QED
  BY <1>1, <1>2, AdvancedType

\* The value that is drawn is above all that were drawn before.
LEMMA DrawIsNew ==
    ASSUME TypeOK, ValuesInv, NEW c \in Call, Draw(c)
    PROVE  /\ Pair(c)' = <<call[c].id, counter'[call[c].id].current>>
           /\ handed' = handed \cup {Pair(c)'}
           /\ Pair(c)' \notin handed
<1> DEFINE id == call[c].id
           next == Advanced(counter[id], call[c].opts.step)
<1>1. /\ id \in Ids /\ counter[id].current \in Nat
      /\ next.current \in Nat /\ next.current > counter[id].current
  BY IncrementFacts DEF Draw, Documents
<1> HIDE DEF next
<1>2. counter'[id] = next /\ call'[c].id = id /\ call'[c].value = next.current
  BY <1>1 DEF Draw, TypeOK, Calls, next
<1>3. handed' = handed \cup {<<id, next.current>>}
  BY DEF Draw, next
<1>4. <<id, next.current>> \notin handed
  <2> SUFFICES ASSUME <<id, next.current>> \in handed PROVE FALSE
    OBVIOUS
  <2>1. next.current <= counter[id].current
    BY DEF ValuesInv, HandedBelow
  <2> QED
    BY <1>1, <2>1
<1> QED
  BY <1>2, <1>3, <1>4 DEF Pair

LEMMA DrawValues ==
    ASSUME TypeOK, ValuesInv, NEW c \in Call, Draw(c)
    PROVE  ValuesInv' /\ (NumbersInv => NumbersInv')
<1> DEFINE id == call[c].id
           next == Advanced(counter[id], call[c].opts.step)
<1>1. /\ id \in Ids /\ counter[id].current \in Nat
      /\ next.current \in Nat /\ next.current > counter[id].current
  BY IncrementFacts DEF Draw, Documents
<1> HIDE DEF next
<1>2. /\ counter' = [counter EXCEPT ![id] = next] /\ UNCHANGED <<numbers, repeated>>
      /\ call' = [call EXCEPT ![c].pc = "format", ![c].value = next.current]
  BY DEF Draw, next
<1>3. \A d \in Call : d # c => call'[d] = call[d] /\ Pair(d)' = Pair(d)
  BY <1>2 DEF TypeOK, Pair
<1>4. OptionsKept'
  BY <1>2, <1>3 DEF ValuesInv, OptionsKept, TypeOK, Calls, Draw
<1>5. HandedBelow'
  <2> SUFFICES ASSUME NEW h \in handed' PROVE h[2] <= counter'[h[1]].current
    BY DEF HandedBelow
  <2>1. CASE h = Pair(c)'
    BY <1>1, <1>2, <2>1, DrawIsNew DEF TypeOK
  <2>2. CASE h \in handed
    <3>1. h[1] \in Ids /\ h[2] \in Nat /\ h[2] <= counter[h[1]].current
          /\ counter[h[1]].current \in Nat
      BY <2>2 DEF TypeOK, ValuesInv, HandedBelow
    <3> QED
      BY <1>1, <1>2, <3>1 DEF TypeOK
  <2> QED
    BY <2>1, <2>2, DrawIsNew
<1>6. PairsOwn'
  <2> SUFFICES ASSUME NEW d \in Call, call'[d].pc = "format"
               PROVE  /\ Pair(d)' \in handed'
                      /\ \A e \in Call : call'[e].pc = "format" /\ Pair(e)' = Pair(d)' => e = d
    BY DEF PairsOwn
  <2>1. \A e \in Call : e # c /\ call'[e].pc = "format" => Pair(e)' \in handed
    BY <1>3 DEF ValuesInv, PairsOwn
  <2>2. CASE d = c
    BY <2>1, <2>2, DrawIsNew
  <2>3. CASE d # c
    BY <1>3, <2>1, <2>3, DrawIsNew DEF ValuesInv, PairsOwn
  <2> QED
    BY <2>2, <2>3
<1>7. NumbersInv => NumbersInv'
  <2>1. \A n : Source(n)' = Source(n)
    BY DEF Source
  <2> QED
    BY <1>2, <1>3, <2>1, DrawIsNew DEF NumbersInv
<1> QED
  BY <1>4, <1>5, <1>6, <1>7 DEF ValuesInv

LEMMA DrawFailsValues ==
    ASSUME TypeOK, ValuesInv, NEW c \in Call, DrawFails(c)
    PROVE  ValuesInv' /\ (NumbersInv => NumbersInv')
<1> DEFINE id == call[c].id
           next == Advanced(counter[id], call[c].opts.step)
<1>1. id \in Ids /\ next \in Documents /\ next.current > counter[id].current
  BY IncrementFacts DEF DrawFails
<1>2. \A d, e \in Documents : d.current \in Nat /\ e.current \in Nat
  BY DEF Documents
<1>3. counter' = counter \/ counter' = [counter EXCEPT ![id] = next]
  BY DEF DrawFails
<1> HIDE DEF next, id
<1>4. counter \in [Ids -> Documents]
  BY DEF TypeOK, Documents
<1>5. /\ counter' \in [Ids -> Documents]
      /\ \A x \in Ids : counter'[x].current >= counter[x].current
  <2>1. counter' \in [Ids -> Documents]
    BY <1>1, <1>3, <1>4
  <2> SUFFICES ASSUME NEW x \in Ids PROVE counter'[x].current >= counter[x].current
    BY <2>1
  <2>2. counter[x] \in Documents /\ counter[x].current \in Nat /\ next.current \in Nat
    BY <1>1, <1>2, <1>4
  <2>3. counter'[x] = counter[x] \/ (x = id /\ counter'[x] = next)
    BY <1>1, <1>3, <1>4
  <2> QED
    BY <1>1, <2>2, <2>3
<1>6. call' = [call EXCEPT ![c] = Idle] /\ Idle.pc = "idle" /\ UNCHANGED <<handed, numbers, repeated>>
  BY DEF DrawFails, Idle
<1> QED
  BY <1>5, <1>6, QuietStep

\* The call forgets the value that it has printed.
LEMMA FormatValues ==
    ASSUME TypeOK, ValuesInv, NEW c \in Call, Format(c)
    PROVE  ValuesInv'
<1>1. counter \in [Ids -> Documents] /\ \A id \in Ids : counter[id].current >= counter[id].current
  BY DEF TypeOK, Documents
<1>2. call' = [call EXCEPT ![c] = Idle] /\ Idle.pc = "idle" /\ UNCHANGED <<counter, handed>>
  BY DEF Format, Idle
<1> QED
  BY <1>1, <1>2, QuietStep

LEMMA RestartValues ==
    ASSUME TypeOK, ValuesInv, NEW i \in Instance, Restart(i)
    PROVE  ValuesInv' /\ (NumbersInv => NumbersInv')
<1>1. \A d \in Call : call'[d].pc = "idle" \/ (call'[d] = call[d] /\ Pair(d)' = Pair(d))
  BY DEF Restart, Idle, Pair
<1>2. UNCHANGED <<counter, handed, numbers, repeated>>
  BY DEF Restart
<1>3. OptionsKept' /\ HandedBelow' /\ PairsOwn'
  BY <1>1, <1>2 DEF ValuesInv, OptionsKept, HandedBelow, PairsOwn
<1>4. \A n : Source(n)' = Source(n)
  BY DEF Source
<1> QED
  BY <1>1, <1>2, <1>3, <1>4 DEF ValuesInv, NumbersInv

LEMMA NextValues ==
    ASSUME NoInitialValue, TypeOK, ValuesInv, [Next]_vars
    PROVE  ValuesInv'
<1>1. ASSUME NEW c \in Call, NEW i \in Instance, NEW kind \in Kind, NEW opts \in OptsOf(kind),
             Begin(c, i, kind, opts)
      PROVE  ValuesInv'
  BY <1>1, BeginValues
<1>2. ASSUME NEW c \in Call, Configure(c) PROVE ValuesInv'
  BY <1>2, ConfigureValues
<1>3. ASSUME NEW c \in Call, Draw(c) PROVE ValuesInv'
  BY <1>3, DrawValues
<1>4. ASSUME NEW c \in Call, DrawFails(c) PROVE ValuesInv'
  BY <1>4, DrawFailsValues
<1>5. ASSUME NEW c \in Call, Format(c) PROVE ValuesInv'
  BY <1>5, FormatValues
<1>6. ASSUME NEW i \in Instance, Restart(i) PROVE ValuesInv'
  BY <1>6, RestartValues
<1>7. CASE Turn \/ UNCHANGED vars
  BY <1>7 DEF Turn, vars, ValuesInv, OptionsKept, HandedBelow, PairsOwn, Pair
<1> QED
  BY <1>1, <1>2, <1>3, <1>4, <1>5, <1>6, <1>7 DEF Next

LEMMA ValuesInvariant ==
    ASSUME NoInitialValue
    PROVE  Spec => []ValuesInv
<1>1. Init => ValuesInv
  BY InitValues
<1>2. TypeOK /\ ValuesInv /\ [Next]_vars => ValuesInv'
  BY NextValues
<1> QED
  BY <1>1, <1>2, TypeCorrect, PTL DEF Spec

\* CounterRepository.Next: no value of a counter is drawn twice, whatever instances
\* draw and configure at once.
THEOREM DrawsUnique ==
    ASSUME NoInitialValue
    PROVE  Spec => ValuesUnique
<1> DEFINE New == \A c \in Call : call[c].pc = "draw" /\ call'[c].pc = "format" =>
                      <<call[c].id, call'[c].value>> \notin handed
<1>1. TypeOK /\ ValuesInv /\ [Next]_vars => New
  <2> SUFFICES ASSUME TypeOK, ValuesInv, [Next]_vars, NEW c \in Call,
                      call[c].pc = "draw", call'[c].pc = "format"
               PROVE  <<call[c].id, call'[c].value>> \notin handed
    OBVIOUS
  <2>1. Draw(c)
    <3>1. ASSUME NEW d \in Call, NEW u, call' = [call EXCEPT ![d] = u], u.pc # "format" \/ d # c
          PROVE  FALSE
      <4>1. call'[c] = IF c = d THEN u ELSE call[c]
        BY <3>1 DEF TypeOK
      <4> QED
        BY <3>1, <4>1
    <3>2. ASSUME NEW d \in Call, NEW i \in Instance, NEW kind \in Kind, NEW opts \in OptsOf(kind),
                 Begin(d, i, kind, opts)
          PROVE  FALSE
      BY <3>1, <3>2 DEF Begin
    <3>3. ASSUME NEW d \in Call, DrawFails(d) \/ Format(d) \/ StoreFails(d) PROVE FALSE
      BY <3>1, <3>3 DEF DrawFails, Format, StoreFails, Idle
    <3>4. ASSUME NEW d \in Call, LockConfig(d) \/ StoreConfig(d) \/ Remember(d) \/ UnlockConfig(d)
          PROVE  FALSE
      BY <3>4 DEF LockConfig, StoreConfig, Remember, UnlockConfig, TypeOK
    <3>5. ASSUME NEW d \in Call, Draw(d), d # c PROVE FALSE
      BY <3>5 DEF Draw, TypeOK
    <3>6. ASSUME NEW i \in Instance, Restart(i) PROVE FALSE
      BY <3>6 DEF Restart, Idle
    <3>7. ~Turn /\ ~UNCHANGED vars
      BY DEF Turn, vars
    <3> QED
      BY <3>2, <3>3, <3>4, <3>5, <3>6, <3>7 DEF Next, Configure
  <2>2. call'[c].id = call[c].id
    BY <2>1 DEF Draw, TypeOK
  <2> QED
    BY <2>1, <2>2, DrawIsNew DEF Pair
<1>2. TypeOK /\ ValuesInv /\ [Next]_vars => [New]_vars
  BY <1>1
<1> QED
  BY <1>2, TypeCorrect, ValuesInvariant, PTL DEF Spec, ValuesUnique

\* Without NextOrderNumber, a number names the counter it was drawn from.
LEMMA SourceOfNumber ==
    ASSUME "order" \notin Kind, TypeOK, NEW c \in Call, call[c].pc = "format"
    PROVE  Source(Number(c)) = Pair(c)
<1>1. /\ call[c].kind \in {"next", "invoice", "checkout"}
      /\ call[c].id = IdOf(call[c].kind, call[c].began)
  BY KindAssumption DEF TypeOK, Kinds
<1>2. CASE call[c].kind = "next"
  BY <1>1, <1>2 DEF Source, Number, Pair, IdOf
<1>3. CASE call[c].kind = "invoice"
  BY <1>1, <1>3 DEF Source, Number, Pair, IdOf
<1>4. CASE call[c].kind = "checkout"
  BY <1>1, <1>4 DEF Source, Number, Pair, IdOf
<1> QED
  BY <1>1, <1>2, <1>3, <1>4

LEMMA NextNumbers ==
    ASSUME NoInitialValue, "order" \notin Kind, TypeOK, ValuesInv, NumbersInv, [Next]_vars
    PROVE  NumbersInv'
<1>1. ASSUME NEW c \in Call, NEW i \in Instance, NEW kind \in Kind, NEW opts \in OptsOf(kind),
             Begin(c, i, kind, opts)
      PROVE  NumbersInv'
  BY <1>1, BeginValues
<1>2. ASSUME NEW c \in Call, Configure(c) PROVE NumbersInv'
  BY <1>2, ConfigureValues
<1>3. ASSUME NEW c \in Call, Draw(c) PROVE NumbersInv'
  BY <1>3, DrawValues
<1>4. ASSUME NEW c \in Call, DrawFails(c) PROVE NumbersInv'
  BY <1>4, DrawFailsValues
<1>5. ASSUME NEW c \in Call, Format(c) PROVE NumbersInv'
  <2>1. call[c].pc = "format" /\ Source(Number(c)) = Pair(c) /\ Pair(c) \in handed
    BY <1>5, SourceOfNumber DEF Format, ValuesInv, PairsOwn
  <2>2. Number(c) \notin numbers
    BY <2>1 DEF NumbersInv
  <2>3. numbers' = numbers \cup {Number(c)} /\ repeated' = {} /\ UNCHANGED handed
    BY <1>5, <2>2 DEF Format, NumbersInv
  <2>4. \A d \in Call : call'[d].pc = "format" =>
           /\ d # c /\ call[d].pc = "format" /\ Pair(d)' = Pair(d) /\ Pair(d) # Pair(c)
    BY <1>5, <2>1 DEF Format, TypeOK, Idle, Pair, ValuesInv, PairsOwn
  <2>5. \A n : Source(n)' = Source(n)
    BY DEF Source
  <2> HIDE DEF Number
  <2> QED
    BY <2>1, <2>3, <2>4, <2>5 DEF NumbersInv
<1>6. ASSUME NEW i \in Instance, Restart(i) PROVE NumbersInv'
  BY <1>6, RestartValues
<1>7. CASE Turn \/ UNCHANGED vars
  BY <1>7 DEF Turn, vars, NumbersInv, Pair, Source
<1> QED
  BY <1>1, <1>2, <1>3, <1>4, <1>5, <1>6, <1>7 DEF Next

\* CounterService: no number is printed twice, although values are drawn, lost and
\* printed in any order while months and years turn over.
THEOREM NumbersNeverRepeat ==
    ASSUME NoInitialValue, "order" \notin Kind
    PROVE  Spec => []NumbersUnique
<1>1. Init => NumbersInv
  BY InitValues
<1>2. TypeOK /\ ValuesInv /\ NumbersInv /\ [Next]_vars => NumbersInv'
  BY NextNumbers
<1>3. NumbersInv => NumbersUnique
  BY DEF NumbersInv, NumbersUnique
<1> QED
  BY <1>1, <1>2, <1>3, TypeCorrect, ValuesInvariant, PTL DEF Spec

-----------------------------------------------------------------------------
(* Callers that agree on a limit; they may name values to start from. *)

LEMMA NextOptions ==
    ASSUME TypeOK, OptionsKept, [Next]_vars
    PROVE  OptionsKept'
<1> SUFFICES ASSUME NEW d \in Call, call'[d].pc # "idle"
             PROVE  call'[d].opts \in OptsOf(call'[d].kind)
  BY DEF OptionsKept
<1>1. ASSUME call[d].pc # "idle", call'[d].opts = call[d].opts, call'[d].kind = call[d].kind
      PROVE  call'[d].opts \in OptsOf(call'[d].kind)
  BY <1>1 DEF OptionsKept
<1>2. ASSUME NEW c \in Call, NEW i \in Instance, NEW kind \in Kind, NEW opts \in OptsOf(kind),
             Begin(c, i, kind, opts)
      PROVE  call'[d].opts \in OptsOf(call'[d].kind)
  <2>1. CASE d = c
    BY <1>2, <2>1 DEF Begin, TypeOK
  <2>2. CASE d # c
    BY <1>1, <1>2, <2>2 DEF Begin, TypeOK
  <2> QED
    BY <2>1, <2>2
<1>3. ASSUME NEW c \in Call, Configure(c) PROVE call'[d].opts \in OptsOf(call'[d].kind)
  <2>1. call[c].pc # "idle"
    BY <1>3 DEF Configure, LockConfig, StoreConfig, StoreFails, Remember, UnlockConfig
  <2>2. CASE StoreFails(c)
    <3>1. call' = [call EXCEPT ![c] = Idle]
      BY <2>2 DEF StoreFails
    <3> QED
      BY <1>1, <3>1 DEF TypeOK, Idle
  <2>3. CASE LockConfig(c) \/ StoreConfig(c) \/ Remember(c) \/ UnlockConfig(c)
    <3>1. PICK pc : call' = [call EXCEPT ![c].pc = pc]
      BY <2>3 DEF LockConfig, StoreConfig, Remember, UnlockConfig
    <3>2. call[c].pc # "idle" => call[c].opts \in OptsOf(call[c].kind)
      BY DEF OptionsKept
    <3>3. CASE d = c
      <4>1. call'[d] = [call[c] EXCEPT !.pc = pc]
        BY <3>1, <3>3 DEF TypeOK
      <4> QED
        BY <2>1, <3>2, <3>3, <4>1 DEF TypeOK
    <3>4. CASE d # c
      <4>1. call'[d] = call[d]
        BY <3>1, <3>4 DEF TypeOK
      <4> QED
        BY <1>1, <4>1
    <3> QED
      BY <3>3, <3>4
  <2> QED
    BY <1>3, <2>2, <2>3 DEF Configure
<1>4. ASSUME NEW c \in Call, Draw(c) \/ DrawFails(c) \/ Format(c)
      PROVE  call'[d].opts \in OptsOf(call'[d].kind)
  <2>1. CASE Draw(c)
    <3>1. call[d].pc # "idle"
      BY <1>4, <2>1 DEF Draw, TypeOK
    <3>2. call'[d].opts = call[d].opts /\ call'[d].kind = call[d].kind
      BY <1>4, <2>1 DEF Draw, TypeOK
    <3> QED
      BY <1>1, <3>1, <3>2
  <2>2. CASE DrawFails(c) \/ Format(c)
    BY <1>1, <2>2 DEF DrawFails, Format, TypeOK, Idle
  <2> QED
    BY <1>4, <2>1, <2>2
<1>5. ASSUME NEW i \in Instance, Restart(i) PROVE call'[d].opts \in OptsOf(call'[d].kind)
  BY <1>1, <1>5 DEF Restart, Idle
<1>6. CASE Turn \/ UNCHANGED vars
  BY <1>1, <1>6 DEF Turn, vars
<1> QED
  BY <1>2, <1>3, <1>4, <1>5, <1>6 DEF Next

\* Every limit that a call brings is the one that all name.
LEMMA CallLimits ==
    ASSUME OneLimit, TypeOK, OptionsKept, NEW c \in Call, call[c].pc # "idle", call[c].opts.max # Unset
    PROVE  /\ call[c].opts \in Options
           /\ \A s \in Options : s.max # Unset => s.max = call[c].opts.max
<1>1. call[c].kind \in Kind /\ call[c].opts \in OptsOf(call[c].kind)
  BY DEF TypeOK, OptionsKept
<1> QED
  BY <1>1, OptsOfType DEF OneLimit

\* A stored limit stays: an increment keeps it, and who configures another one agrees.
LEMMA LimitStays ==
    ASSUME OneLimit, TypeOK, OptionsKept, [Next]_vars, NEW id \in Ids, NEW opts \in Options,
           opts.max # Unset, LimitStored(id, opts.max)
    PROVE  LimitStored(id, opts.max)'
<1>1. counter[id] \in Documents
  BY DEF TypeOK, Documents
<1>2. ASSUME NEW c \in Call, StoreConfig(c) \/ StoreFails(c) PROVE LimitStored(id, opts.max)'
  <2>1. call[c].pc # "idle" /\ call[c].opts \in CounterOptions
    BY <1>2 DEF StoreConfig, StoreFails, TypeOK
  <2>2. call[c].opts.max = Unset \/ call[c].opts.max = opts.max
    BY <2>1, CallLimits
  <2>3. /\ Merged(counter[id], call[c].opts).exists
        /\ Merged(counter[id], call[c].opts).max = opts.max
    BY <1>1, <2>1, <2>2, MergedType DEF LimitStored
  <2>4. counter'[id] = counter[id] \/ counter'[id] = Merged(counter[id], call[c].opts)
    BY <1>2 DEF StoreConfig, StoreFails, TypeOK
  <2> QED
    BY <2>3, <2>4 DEF LimitStored
<1>3. ASSUME NEW c \in Call, Draw(c) \/ DrawFails(c) PROVE LimitStored(id, opts.max)'
  <2> DEFINE next == Advanced(counter[call[c].id], call[c].opts.step)
  <2>1. next.exists /\ next.max = counter[call[c].id].max
    BY <1>3, IncrementFacts DEF Draw, DrawFails
  <2>2. counter' = counter \/ counter' = [counter EXCEPT ![call[c].id] = next]
    BY <1>3 DEF Draw, DrawFails
  <2> HIDE DEF next
  <2>3. counter'[id] = counter[id] \/ (id = call[c].id /\ counter'[id] = next)
    BY <2>2 DEF TypeOK
  <2> QED
    BY <2>1, <2>3 DEF LimitStored
<1>4. CASE UNCHANGED counter
  BY <1>4 DEF LimitStored
<1> QED
  BY <1>2, <1>3, <1>4
     DEF Next, vars, Begin, Configure, LockConfig, Remember, UnlockConfig, Format,
         Restart, Turn

RememberedOk ==
    \A i \in Instance : \A s \in configured[i] :
        s[2].max # Unset => LimitStored(s[1], s[2].max) /\ s[2] \in Options
CallOk(c) ==
    call[c].pc \in {"remember", "unlock", "draw"} /\ call[c].opts.max # Unset =>
        LimitStored(call[c].id, call[c].opts.max)
ValueOk(c) ==
    call[c].pc = "format" /\ call[c].opts.max # Unset => call[c].value <= call[c].opts.max

LEMMA LimitsParts == LimitsInv <=> RememberedOk /\ \A c \in Call : CallOk(c) /\ ValueOk(c)
BY DEF LimitsInv, RememberedOk, CallOk, ValueOk, LimitHolds

\* The signatures that an instance remembers stay true when it adds none of its own.
LEMMA RememberedStays ==
    ASSUME OneLimit, TypeOK, OptionsKept, LimitsInv, [Next]_vars,
           \A i \in Instance : configured'[i] \subseteq configured[i]
    PROVE  RememberedOk'
<1> SUFFICES ASSUME NEW i \in Instance, NEW s \in configured'[i], s[2].max # Unset
             PROVE  LimitStored(s[1], s[2].max)' /\ s[2] \in Options
  BY DEF RememberedOk
<1>1. s[1] \in Ids /\ s[2] \in Options /\ LimitStored(s[1], s[2].max)
  BY DEF TypeOK, LimitsInv
<1> QED
  BY <1>1, LimitStays

\* A call that stays as it is, or ends, stays within its limit.
LEMMA OthersStay ==
    ASSUME OneLimit, TypeOK, OptionsKept, LimitsInv, [Next]_vars, NEW d \in Call,
           call'[d] = call[d] \/ call'[d].pc = "idle"
    PROVE  CallOk(d)' /\ ValueOk(d)'
<1>1. CASE call'[d].pc = "idle"
  BY <1>1 DEF CallOk, ValueOk
<1>2. CASE call'[d] = call[d]
  <2>1. ValueOk(d)'
    BY <1>2, LimitsParts DEF ValueOk
  <2>2. ASSUME call[d].pc \in {"remember", "unlock", "draw"}, call[d].opts.max # Unset
        PROVE  LimitStored(call[d].id, call[d].opts.max)'
    <3>1. /\ call[d].kind \in Kind /\ call[d].began \in 0 .. MaxPeriod
          /\ call[d].id = IdOf(call[d].kind, call[d].began)
      BY <2>2 DEF TypeOK
    <3>2. call[d].id \in Ids /\ call[d].opts \in Options
      BY <2>2, <3>1, IdOfType, CallLimits
    <3>3. LimitStored(call[d].id, call[d].opts.max)
      BY <2>2 DEF LimitsInv
    <3>4. \A id \in Ids, opts \in Options :
             opts.max # Unset /\ LimitStored(id, opts.max) =>
                counter'[id].exists /\ counter'[id].max = opts.max
      BY LimitStays DEF LimitStored
    <3> QED
      BY <1>2, <2>2, <3>2, <3>3, <3>4 DEF LimitStored
  <2> QED
    BY <1>2, <2>1, <2>2 DEF CallOk
<1> QED
  BY <1>1, <1>2

\* Nobody remembers a limit that is not stored: a call locks, and finds its signature
\* there, or has none to store, or stores it before it goes on.
LEMMA ConfigureLimits ==
    ASSUME OneLimit, TypeOK, OptionsKept, LimitsInv, [Next]_vars, NEW c \in Call, Configure(c)
    PROVE  LimitsInv'
<1>1. /\ call[c] \in Calls /\ call[c].pc # "idle" /\ call[c].opts \in CounterOptions
      /\ call[c].at \in Instance /\ call[c].id \in Ids
  <2>1. call[c].pc # "idle"
    BY DEF Configure, LockConfig, StoreConfig, StoreFails, Remember, UnlockConfig
  <2> QED
    BY <2>1, IdOfType DEF TypeOK, Calls
<1>2. call[c].opts.max # Unset => call[c].opts \in Options
  BY <1>1, CallLimits
<1>3. \A d \in Call : d # c => call'[d] = call[d]
  BY DEF Configure, LockConfig, StoreConfig, StoreFails, Remember, UnlockConfig, TypeOK
<1>4. ValueOk(c)' /\ call'[c].pc # "format"
  BY <1>1 DEF Configure, LockConfig, StoreConfig, StoreFails, Remember, UnlockConfig, TypeOK,
              ValueOk, Idle
<1>5. ASSUME call'[c].pc # "idle"
      PROVE  call'[c].id = call[c].id /\ call'[c].opts = call[c].opts
  BY <1>1, <1>5
     DEF Configure, LockConfig, StoreConfig, StoreFails, Remember, UnlockConfig, TypeOK, Idle
<1>6. ASSUME UNCHANGED configured, CallOk(c)' PROVE LimitsInv'
  BY <1>3, <1>4, <1>6, RememberedStays, OthersStay, LimitsParts
     DEF LimitsInv, RememberedOk, CallOk, ValueOk, LimitHolds
<1>7. CASE LockConfig(c)
  <2>1. ASSUME call'[c].pc \in {"remember", "unlock", "draw"}, call[c].opts.max # Unset
        PROVE  LimitStored(call[c].id, call[c].opts.max) /\ UNCHANGED counter
    <3>1. call'[c].pc = IF Signature(c) \in configured[call[c].at] THEN "unlock"
                        ELSE IF call[c].opts = Plain THEN "remember" ELSE "store"
      BY <1>1, <1>7 DEF LockConfig, TypeOK, Calls
    <3>2. Signature(c) \in configured[call[c].at]
      BY <2>1, <3>1 DEF Plain
    <3> QED
      BY <1>1, <1>7, <2>1, <3>2 DEF LimitsInv, Signature, LockConfig
  <2>2. CallOk(c)'
    BY <1>5, <2>1 DEF CallOk, LimitStored
  <2> QED
    BY <1>6, <1>7, <2>2 DEF LockConfig
<1>8. CASE StoreConfig(c)
  <2>1. counter'[call[c].id] = Merged(counter[call[c].id], call[c].opts)
    BY <1>1, <1>8 DEF StoreConfig, TypeOK
  <2>2. CallOk(c)'
    BY <1>1, <1>5, <2>1, MergedType DEF CallOk, LimitStored, TypeOK, Documents
  <2> QED
    BY <1>6, <1>8, <2>2 DEF StoreConfig
<1>9. CASE StoreFails(c)
  BY <1>1, <1>6, <1>9, OthersStay DEF StoreFails, TypeOK, Idle
<1>10. CASE Remember(c)
  <2>1. call[c].opts.max # Unset => LimitStored(call[c].id, call[c].opts.max) /\ UNCHANGED counter
    BY <1>10 DEF Remember, LimitsInv
  <2>2. CallOk(c)'
    BY <1>5, <2>1 DEF CallOk, LimitStored
  <2>3. RememberedOk'
    <3> SUFFICES ASSUME NEW i \in Instance, NEW s \in configured'[i], s[2].max # Unset
                 PROVE  LimitStored(s[1], s[2].max)' /\ s[2] \in Options
      BY DEF RememberedOk
    <3>1. s \in configured[i] \/ s = Signature(c)
      BY <1>10 DEF Remember, TypeOK
    <3> QED
      BY <1>2, <1>10, <2>1, <3>1 DEF LimitsInv, Signature, Remember, LimitStored
  <2> QED
    BY <1>3, <1>4, <2>2, <2>3, OthersStay DEF LimitsInv, RememberedOk, CallOk, ValueOk, LimitHolds
<1>11. CASE UnlockConfig(c)
  <2>1. call[c].opts.max # Unset => LimitStored(call[c].id, call[c].opts.max) /\ UNCHANGED counter
    BY <1>11 DEF UnlockConfig, LimitsInv
  <2>2. CallOk(c)'
    BY <1>5, <2>1 DEF CallOk, LimitStored
  <2> QED
    BY <1>6, <1>11, <2>2 DEF UnlockConfig
<1> QED
  BY <1>7, <1>8, <1>9, <1>10, <1>11 DEF Configure

LEMMA DrawLimits ==
    ASSUME OneLimit, TypeOK, OptionsKept, LimitsInv, [Next]_vars, NEW c \in Call, Draw(c)
    PROVE  LimitsInv'
<1> DEFINE id == call[c].id
           next == Advanced(counter[id], call[c].opts.step)
<1>1. /\ call[c].pc = "draw" /\ call' = [call EXCEPT ![c].pc = "format", ![c].value = next.current]
      /\ UNCHANGED configured /\ ~Exhausted(counter[id], call[c].opts.step)
  BY DEF Draw
<1>2. counter[id].exists /\ counter[id].max # Unset => next.current <= counter[id].max
  BY <1>1, IncrementFacts
<1> HIDE DEF next
<1>3. \A d \in Call : d # c => call'[d] = call[d]
  BY <1>1 DEF TypeOK
<1>4. call'[c].pc = "format" /\ call'[c].value = next.current /\ call'[c].opts = call[c].opts
  BY <1>1 DEF TypeOK, Calls
<1>5. CallOk(c)' /\ ValueOk(c)'
  <2>1. CallOk(c)'
    BY <1>4 DEF CallOk
  <2>2. call[c].opts.max # Unset => LimitStored(id, call[c].opts.max)
    BY <1>1 DEF LimitsInv
  <2> QED
    BY <1>2, <1>4, <2>1, <2>2 DEF ValueOk, LimitStored
<1> QED
  BY <1>1, <1>3, <1>5, RememberedStays, OthersStay
     DEF LimitsInv, RememberedOk, CallOk, ValueOk, LimitHolds

LEMMA NextLimits ==
    ASSUME OneLimit, TypeOK, OptionsKept, LimitsInv, [Next]_vars
    PROVE  LimitsInv'
<1>1. ASSUME \A d \in Call : CallOk(d)' /\ ValueOk(d)', RememberedOk' PROVE LimitsInv'
  BY <1>1 DEF LimitsInv, RememberedOk, CallOk, ValueOk, LimitHolds
<1>2. ASSUME \A d \in Call : call'[d] = call[d] \/ call'[d].pc = "idle",
             \A i \in Instance : configured'[i] \subseteq configured[i]
      PROVE  LimitsInv'
  BY <1>1, <1>2, RememberedStays, OthersStay
<1>3. ASSUME NEW c \in Call, NEW i \in Instance, NEW kind \in Kind, NEW opts \in OptsOf(kind),
             Begin(c, i, kind, opts)
      PROVE  LimitsInv'
  <2>1. /\ \A d \in Call : d # c => call'[d] = call[d]
        /\ call'[c].pc \in {"configure", "draw"} /\ call'[c].opts = opts
        /\ call'[c].pc = "draw" => kind = "checkout"
        /\ UNCHANGED configured
    BY <1>3 DEF Begin, TypeOK
  <2>2. kind = "checkout" => opts.max = Unset
    BY DEF OptsOf, Plain
  <2>3. CallOk(c)' /\ ValueOk(c)'
    BY <2>1, <2>2 DEF CallOk, ValueOk
  <2> QED
    BY <1>1, <2>1, <2>3, RememberedStays, OthersStay
<1>4. ASSUME NEW c \in Call, Configure(c) PROVE LimitsInv'
  BY <1>4, ConfigureLimits
<1>5. ASSUME NEW c \in Call, Draw(c) PROVE LimitsInv'
  BY <1>5, DrawLimits
<1>6. ASSUME NEW c \in Call, DrawFails(c) \/ Format(c) PROVE LimitsInv'
  BY <1>2, <1>6 DEF DrawFails, Format, TypeOK, Idle
<1>7. ASSUME NEW i \in Instance, Restart(i) PROVE LimitsInv'
  BY <1>2, <1>7 DEF Restart, TypeOK, Idle
<1>8. CASE Turn \/ UNCHANGED vars
  BY <1>2, <1>8 DEF Turn, vars
<1> QED
  BY <1>3, <1>4, <1>5, <1>6, <1>7, <1>8 DEF Next

\* CounterRepository.Next: callers that agree on a limit never get a value past it,
\* whichever of them configured it, and whatever was lost on the way.
THEOREM LimitsHold ==
    ASSUME OneLimit
    PROVE  Spec => []LimitHolds
<1>1. Init => OptionsKept /\ LimitsInv
  BY InitValues DEF ValuesInv
<1>2. TypeOK /\ OptionsKept /\ LimitsInv /\ [Next]_vars => LimitsInv'
  BY NextLimits
<1>3. TypeOK /\ OptionsKept /\ [Next]_vars => OptionsKept'
  BY NextOptions
<1>4. LimitsInv => LimitHolds
  BY DEF LimitsInv
<1> QED
  BY <1>1, <1>2, <1>3, <1>4, TypeCorrect, PTL DEF Spec

-----------------------------------------------------------------------------
(* Every call ends. *)

\* The mutex of an instance is held by a call that is in the middle of ensureConfiguration.
MutexHeld ==
    \A i \in Instance : lock[i] # Nobody =>
        /\ lock[i] \in Call /\ call[lock[i]].at = i
        /\ call[lock[i]].pc \in {"store", "remember", "unlock"}

LiveInv == TypeOK /\ MutexHeld

\* The call c waits for the mutex of i, which d holds at the step s.
Waiting(c) == call[c].pc = "configure"
Held(c, i, d, s) == /\ Waiting(c) /\ call[c].at = i /\ lock[i] = d
                    /\ call[d].at = i /\ call[d].pc = s
\* It need wait no longer.
Spared(c) == ~Waiting(c) \/ MayLock(c)

LEMMA StepsOfCall ==
    ASSUME LiveInv, NEW c \in Call, LockConfig(c) \/ GoOn(c)
    PROVE  /\ \A d \in Call : d # c => call'[d] = call[d]
           /\ call'[c].pc \in {"unlock", "remember", "store", "draw", "format", "idle"}
           /\ call'[c].pc # "idle" => call'[c].at = call[c].at
           /\ \A i \in Instance : i # call[c].at => lock'[i] = lock[i]
           /\ call[c].pc = "configure" =>
                 /\ lock[call[c].at] = Nobody /\ lock'[call[c].at] = c
                 /\ call'[c].pc \in {"unlock", "remember", "store"}
           /\ call[c].pc = "store" =>
                 \/ call'[c].pc = "remember" /\ UNCHANGED lock
                 \/ call'[c].pc = "idle" /\ lock'[call[c].at] = Nobody
           /\ call[c].pc = "remember" => call'[c].pc = "unlock" /\ UNCHANGED lock
           /\ call[c].pc = "unlock" => call'[c].pc = "draw" /\ lock'[call[c].at] = Nobody
           /\ call[c].pc = "draw" => call'[c].pc \in {"format", "idle"} /\ UNCHANGED lock
           /\ call[c].pc = "format" => call'[c].pc = "idle" /\ UNCHANGED lock
           /\ call[c].pc # "idle"
<1>1. /\ call \in [Call -> Calls] /\ lock \in [Instance -> Call \cup {Nobody}]
      /\ call[c] \in Calls /\ (call[c].pc # "idle" => call[c].at \in Instance)
  BY DEF LiveInv, TypeOK, Calls
<1>2. CASE LockConfig(c)
  BY <1>1, <1>2 DEF LockConfig, Calls
<1>3. CASE StoreConfig(c)
  BY <1>1, <1>3 DEF StoreConfig, Calls
<1>4. CASE StoreFails(c)
  BY <1>1, <1>4 DEF StoreFails, Calls, Idle
<1>5. CASE Remember(c)
  BY <1>1, <1>5 DEF Remember, Calls
<1>6. CASE UnlockConfig(c)
  BY <1>1, <1>6 DEF UnlockConfig, Calls
<1>7. CASE Draw(c)
  BY <1>1, <1>7 DEF Draw, Calls
<1>8. CASE DrawFails(c)
  BY <1>1, <1>8 DEF DrawFails, Calls, Idle
<1>9. CASE Format(c)
  BY <1>1, <1>9 DEF Format, Calls, Idle
<1> QED
  BY <1>2, <1>3, <1>4, <1>5, <1>6, <1>7, <1>8, <1>9 DEF GoOn

\* What a step does to a call that is not the one that makes it.
LEMMA StepsOfOthers ==
    ASSUME LiveInv, [Next]_vars
    PROVE  \/ \E c \in Call : LockConfig(c) \/ GoOn(c)
           \/ /\ UNCHANGED lock
              /\ \A d \in Call : call[d].pc # "idle" => call'[d] = call[d]
           \/ \E i \in Instance :
                 /\ lock'[i] = Nobody
                 /\ \A j \in Instance : j # i => lock'[j] = lock[j]
                 /\ \A d \in Call : IF call[d].at = i THEN call'[d].pc = "idle" ELSE call'[d] = call[d]
<1>1. /\ call \in [Call -> Calls] /\ lock \in [Instance -> Call \cup {Nobody}]
  BY DEF LiveInv, TypeOK, Calls
<1>2. ASSUME NEW c \in Call, NEW i \in Instance, NEW kind \in Kind, NEW opts \in OptsOf(kind),
             Begin(c, i, kind, opts)
      PROVE  UNCHANGED lock /\ \A d \in Call : call[d].pc # "idle" => call'[d] = call[d]
  BY <1>1, <1>2 DEF Begin
<1>3. ASSUME NEW c \in Call, Configure(c) \/ Draw(c) \/ DrawFails(c) \/ Format(c)
      PROVE  LockConfig(c) \/ GoOn(c)
  BY <1>3 DEF Configure, GoOn
<1>4. ASSUME NEW i \in Instance, Restart(i)
      PROVE  /\ lock'[i] = Nobody
             /\ \A j \in Instance : j # i => lock'[j] = lock[j]
             /\ \A d \in Call : IF call[d].at = i THEN call'[d].pc = "idle" ELSE call'[d] = call[d]
  BY <1>1, <1>4 DEF Restart, Idle
<1>5. CASE Turn \/ UNCHANGED vars
  BY <1>5 DEF Turn, vars
<1> QED
  BY <1>2, <1>3, <1>4, <1>5 DEF Next

LEMMA MutexInvariance == Spec => []LiveInv
<1>1. Init => MutexHeld
  BY DEF Init, MutexHeld
<1>2. LiveInv /\ [Next]_vars => MutexHeld'
  <2> SUFFICES ASSUME LiveInv, [Next]_vars, NEW i \in Instance, lock'[i] # Nobody
               PROVE  /\ lock'[i] \in Call /\ call'[lock'[i]].at = i
                      /\ call'[lock'[i]].pc \in {"store", "remember", "unlock"}
    BY DEF MutexHeld
  <2>1. /\ lock[i] # Nobody => /\ lock[i] \in Call /\ call[lock[i]].at = i
                               /\ call[lock[i]].pc \in {"store", "remember", "unlock"}
        /\ \A c \in Call : call[c].pc # "idle" => call[c].at \in Instance
    BY DEF LiveInv, MutexHeld, TypeOK
  <2>2. ASSUME NEW c \in Call, LockConfig(c) \/ GoOn(c)
        PROVE  /\ lock'[i] \in Call /\ call'[lock'[i]].at = i
               /\ call'[lock'[i]].pc \in {"store", "remember", "unlock"}
    <3>1. CASE call[c].at = i
      <4>1. CASE call[c].pc = "configure"
        BY <2>2, <3>1, <4>1, StepsOfCall
      <4>2. CASE call[c].pc # "configure" /\ lock[i] = c
        BY <2>1, <2>2, <3>1, <4>2, StepsOfCall, CallAssumption
      <4>3. CASE call[c].pc # "configure" /\ lock[i] # c
        <5>1. lock'[i] = lock[i]
          BY <2>2, <3>1, <4>3, StepsOfCall DEF LiveInv, TypeOK
        <5> QED
          BY <2>1, <2>2, <4>3, <5>1, StepsOfCall
      <4> QED
        BY <4>1, <4>2, <4>3
    <3>2. CASE call[c].at # i
      BY <2>1, <2>2, <3>2, StepsOfCall
    <3> QED
      BY <3>1, <3>2
  <2> QED
    BY <2>1, <2>2, StepsOfOthers
<1> QED
  BY <1>1, <1>2, TypeCorrect, PTL DEF Spec, LiveInv

LEMMA FairnessOf ==
    ASSUME NEW c \in Call
    PROVE  (Fairness => CallFairness(c)) /\ (StepsEnabled => CallEnabled(c))
BY DEF Fairness, StepsEnabled

LEMMA FairnessLasts == Fairness => []Fairness
<1>1. ASSUME NEW c \in Call PROVE CallFairness(c) => []CallFairness(c)
  BY PTL DEF CallFairness
<1>2. Fairness => \A c \in Call : []CallFairness(c)
  BY <1>1 DEF Fairness
<1>3. (\A c \in Call : []CallFairness(c)) => [](\A c \in Call : CallFairness(c))
  OBVIOUS
<1> QED
  BY <1>2, <1>3 DEF Fairness

\* The holder of the mutex goes on, from step to step, and gives it back.
LEMMA HolderGoesOn ==
    ASSUME NEW c \in Call, NEW i \in Instance, NEW d \in Call, LiveInv, [Next]_vars
    PROVE  /\ Held(c, i, d, "store") =>
                 Held(c, i, d, "store")' \/ Held(c, i, d, "remember")' \/ Spared(c)'
           /\ Held(c, i, d, "remember") =>
                 Held(c, i, d, "remember")' \/ Held(c, i, d, "unlock")' \/ Spared(c)'
           /\ Held(c, i, d, "unlock") => Held(c, i, d, "unlock")' \/ Spared(c)'
           /\ LockConfig(d) \/ GoOn(d) =>
                 /\ Held(c, i, d, "store") => Held(c, i, d, "remember")' \/ Spared(c)'
                 /\ Held(c, i, d, "remember") => Held(c, i, d, "unlock")' \/ Spared(c)'
                 /\ Held(c, i, d, "unlock") => Spared(c)'
<1> USE DEF Held, Spared, Waiting, MayLock
<1>1. lock[i] = d => c # d \/ call[c].pc # "configure"
  BY CallAssumption DEF LiveInv, MutexHeld, TypeOK
<1>2. ASSUME NEW s \in {"store", "remember", "unlock"}, Held(c, i, d, s), LockConfig(d) \/ GoOn(d)
      PROVE  \/ Spared(c)'
             \/ s = "store" /\ Held(c, i, d, "remember")'
             \/ s = "remember" /\ Held(c, i, d, "unlock")'
  <2>1. c # d /\ call'[c] = call[c] /\ call[d].at = i /\ call[d].pc = s /\ lock[i] = d
    BY <1>1, <1>2, StepsOfCall
  <2>2. call'[d].pc # "idle" => call'[d].at = i
    BY <1>2, <2>1, StepsOfCall
  <2>3. CASE lock'[i] = Nobody
    BY <1>2, <2>1, <2>3
  <2>4. CASE lock'[i] # Nobody
    <3>1. UNCHANGED lock /\ ((s = "store" /\ call'[d].pc = "remember") \/ (s = "remember" /\ call'[d].pc = "unlock"))
      <4>1. /\ call[d].pc = "store" => \/ call'[d].pc = "remember" /\ UNCHANGED lock
                                       \/ lock'[call[d].at] = Nobody
            /\ call[d].pc = "remember" => call'[d].pc = "unlock" /\ UNCHANGED lock
            /\ call[d].pc = "unlock" => lock'[call[d].at] = Nobody
        BY <1>2, StepsOfCall
      <4> QED
        BY <1>2, <2>1, <2>4, <4>1
    <3> QED
      BY <1>2, <2>1, <2>2, <3>1
  <2> QED
    BY <2>3, <2>4
<1>3. ASSUME NEW s \in {"store", "remember", "unlock"}, Held(c, i, d, s),
             NEW e \in Call, e # d, LockConfig(e) \/ GoOn(e)
      PROVE  Spared(c)' \/ Held(c, i, d, s)'
  <2>1. d # Nobody => lock'[i] = d \/ lock'[i] = Nobody
    BY <1>3, StepsOfCall DEF LiveInv, TypeOK
  <2>2. call'[d] = call[d] /\ (call'[c] = call[c] \/ call'[c].pc # "configure")
    BY <1>3, StepsOfCall
  <2>3. d # Nobody
    BY CallAssumption
  <2> QED
    BY <1>3, <2>1, <2>2, <2>3
<1>4. ASSUME NEW s \in {"store", "remember", "unlock"}, Held(c, i, d, s),
             ~\E e \in Call : LockConfig(e) \/ GoOn(e)
      PROVE  Spared(c)' \/ Held(c, i, d, s)'
  BY <1>4, StepsOfOthers
<1> HIDE DEF Held, Spared, Waiting, MayLock
<1> QED
  BY <1>2, <1>3, <1>4

LEMMA MutexFreed ==
    ASSUME NEW c \in Call, NEW i \in Instance, NEW d \in Call
    PROVE  []LiveInv /\ [][Next]_vars /\ Fairness /\ []StepsEnabled =>
               /\ Held(c, i, d, "store") ~> Spared(c)
               /\ Held(c, i, d, "remember") ~> Spared(c)
               /\ Held(c, i, d, "unlock") ~> Spared(c)
<1>1. LiveInv /\ [Next]_vars =>
          /\ Held(c, i, d, "store") =>
                 Held(c, i, d, "store")' \/ Held(c, i, d, "remember")' \/ Spared(c)'
          /\ Held(c, i, d, "remember") =>
                 Held(c, i, d, "remember")' \/ Held(c, i, d, "unlock")' \/ Spared(c)'
          /\ Held(c, i, d, "unlock") => Held(c, i, d, "unlock")' \/ Spared(c)'
  BY HolderGoesOn
<1>2. LiveInv /\ [Next]_vars /\ <<GoOn(d)>>_vars =>
          /\ Held(c, i, d, "store") => Held(c, i, d, "remember")' \/ Spared(c)'
          /\ Held(c, i, d, "remember") => Held(c, i, d, "unlock")' \/ Spared(c)'
          /\ Held(c, i, d, "unlock") => Spared(c)'
  BY HolderGoesOn
<1>3. (Fairness => CallFairness(d)) /\ (StepsEnabled => CallEnabled(d))
  BY FairnessOf
<1>4. Held(c, i, d, "store") \/ Held(c, i, d, "remember") \/ Held(c, i, d, "unlock") => MayGoOn(d)
  BY DEF Held, MayGoOn
<1> QED
  BY <1>1, <1>2, <1>3, <1>4, PTL DEF CallFairness, CallEnabled

\* Whoever waits for the mutex finds it free, again and again.
LEMMA WaitersSpared ==
    ASSUME NEW c \in Call
    PROVE  []LiveInv /\ [][Next]_vars /\ []Fairness /\ []StepsEnabled => (Waiting(c) ~> Spared(c))
<1> SUFFICES ASSUME []LiveInv, [][Next]_vars, []Fairness, []StepsEnabled
             PROVE  Waiting(c) ~> Spared(c)
  OBVIOUS
<1>1. ASSUME NEW i \in Instance, NEW d \in Call
      PROVE  Held(c, i, d, "store") \/ Held(c, i, d, "remember") \/ Held(c, i, d, "unlock")
                => <>Spared(c)
  BY MutexFreed, PTL
<1> DEFINE Somebody == \E i \in Instance, d \in Call :
                Held(c, i, d, "store") \/ Held(c, i, d, "remember") \/ Held(c, i, d, "unlock")
<1>2. LiveInv => (Waiting(c) => Spared(c) \/ Somebody)
  BY DEF LiveInv, MutexHeld, TypeOK, Held, Spared, Waiting, MayLock
<1>5. Somebody => <>Spared(c)
  BY <1>1
<1> HIDE DEF Somebody
<1> QED
  BY <1>2, <1>5, PTL

\* With the mutex, and after it, a call goes on to its end.
LEMMA CallGoesOn ==
    ASSUME NEW c \in Call, LiveInv, [Next]_vars
    PROVE  LET At(s) == call[c].pc = s
           IN  /\ At("configure") => At("configure")' \/ At("store")' \/ At("remember")' \/ At("unlock")'
                                     \/ At("idle")'
               /\ At("store") => At("store")' \/ At("remember")' \/ At("idle")'
               /\ At("remember") => At("remember")' \/ At("unlock")' \/ At("idle")'
               /\ At("unlock") => At("unlock")' \/ At("draw")' \/ At("idle")'
               /\ At("draw") => At("draw")' \/ At("format")' \/ At("idle")'
               /\ At("format") => At("format")' \/ At("idle")'
               /\ LockConfig(c) \/ GoOn(c) =>
                     /\ ~At("configure")'
                     /\ At("store") => At("remember")' \/ At("idle")'
                     /\ At("remember") => At("unlock")'
                     /\ At("unlock") => At("draw")'
                     /\ At("draw") => At("format")' \/ At("idle")'
                     /\ At("format") => At("idle")'
<1>1. ASSUME LockConfig(c) \/ GoOn(c)
      PROVE  /\ call'[c].pc # "configure"
             /\ call[c].pc = "configure" => call'[c].pc \in {"unlock", "remember", "store"}
             /\ call[c].pc = "store" => call'[c].pc \in {"remember", "idle"}
             /\ call[c].pc = "remember" => call'[c].pc = "unlock"
             /\ call[c].pc = "unlock" => call'[c].pc = "draw"
             /\ call[c].pc = "draw" => call'[c].pc \in {"format", "idle"}
             /\ call[c].pc = "format" => call'[c].pc = "idle"
  BY <1>1, StepsOfCall
<1>2. ASSUME ~(LockConfig(c) \/ GoOn(c))
      PROVE  call[c].pc = "idle" \/ call'[c] = call[c] \/ call'[c].pc = "idle"
  <2>1. ASSUME NEW d \in Call, LockConfig(d) \/ GoOn(d) PROVE call'[c] = call[c]
    BY <1>2, <2>1, StepsOfCall
  <2> QED
    BY <2>1, StepsOfOthers
<1> QED
  BY <1>1, <1>2

\* ensureConfiguration gives the mutex back on all paths, and the transaction behind it ends:
\* under fair scheduling, no call of the counter service waits for ever, however many share
\* the instances' mutexes, fail, or end with their instance.
THEOREM CallsAlwaysEnd ==
    FairSpec /\ []StepsEnabled => CallsEnd
<1> SUFFICES ASSUME NEW c \in Call
             PROVE  FairSpec /\ []StepsEnabled
                       => (call[c].pc = "configure" ~> call[c].pc = "idle")
  BY DEF CallsEnd
<1> DEFINE At(s) == call[c].pc = s
<1>1. LiveInv /\ [Next]_vars =>
          /\ At("configure") => At("configure")' \/ At("store")' \/ At("remember")' \/ At("unlock")'
                                \/ At("idle")'
          /\ At("store") => At("store")' \/ At("remember")' \/ At("idle")'
          /\ At("remember") => At("remember")' \/ At("unlock")' \/ At("idle")'
          /\ At("unlock") => At("unlock")' \/ At("draw")' \/ At("idle")'
          /\ At("draw") => At("draw")' \/ At("format")' \/ At("idle")'
          /\ At("format") => At("format")' \/ At("idle")'
  BY CallGoesOn
<1>2. LiveInv /\ [Next]_vars /\ <<LockConfig(c)>>_vars => ~At("configure")'
  BY CallGoesOn
<1>3. LiveInv /\ [Next]_vars /\ <<GoOn(c)>>_vars =>
          /\ At("store") => At("remember")' \/ At("idle")'
          /\ At("remember") => At("unlock")'
          /\ At("unlock") => At("draw")'
          /\ At("draw") => At("format")' \/ At("idle")'
          /\ At("format") => At("idle")'
  BY CallGoesOn
<1>4. (Fairness => CallFairness(c)) /\ (StepsEnabled => CallEnabled(c))
  BY FairnessOf
<1>5. /\ At("store") \/ At("remember") \/ At("unlock") \/ At("draw") \/ At("format") => MayGoOn(c)
      /\ Spared(c) /\ At("configure") => MayLock(c)
      /\ Waiting(c) <=> At("configure")
  BY DEF MayGoOn, Spared, Waiting
<1>6. []LiveInv /\ [][Next]_vars /\ []Fairness /\ []StepsEnabled => (Waiting(c) ~> Spared(c))
  BY WaitersSpared
<1> HIDE DEF At
<1>7. []LiveInv /\ [][Next]_vars /\ []Fairness /\ []StepsEnabled
          => (At("configure") ~> At("store") \/ At("remember") \/ At("unlock") \/ At("idle"))
  BY <1>1, <1>2, <1>4, <1>5, <1>6, PTL DEF CallFairness, CallEnabled
<1>8. []LiveInv /\ [][Next]_vars /\ []Fairness /\ []StepsEnabled
          => (At("store") \/ At("remember") \/ At("unlock") ~> At("idle"))
  BY <1>1, <1>3, <1>4, <1>5, PTL DEF CallFairness, CallEnabled
<1>9. []LiveInv /\ [][Next]_vars /\ []Fairness /\ []StepsEnabled => (At("configure") ~> At("idle"))
  BY <1>7, <1>8, PTL
<1>10. FairSpec /\ []StepsEnabled => (At("configure") ~> At("idle"))
  BY <1>9, MutexInvariance, FairnessLasts, PTL DEF FairSpec, Spec
<1> QED
  BY <1>10 DEF At

=============================================================================
