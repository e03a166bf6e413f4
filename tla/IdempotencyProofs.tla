-------------------------- MODULE IdempotencyProofs --------------------------
(***************************************************************************)
(* For any keys, requests and failures, in both stores: handlers under one *)
(* key never overlap and are not run again while the key is held, a stored *)
(* response is the one of the latest run, a client is only answered for    *)
(* its own request, and an expired response is not replayed – except where *)
(* the properties say what a cleanup may undo.                             *)
(***************************************************************************)
EXTENDS Idempotency, TLAPS

Records == [status : {"absent", "pending", "completed"}, print : Fingerprint \cup {NoKey},
            response : Responses \cup {NoResponse}, expired : BOOLEAN]
Requests == [pc : {"idle", "arrived", "handler", "save", "release", "answered"},
             key : Key \cup {NoKey}, print : Fingerprint \cup {NoKey},
             sender : Identity \cup {None}, early : BOOLEAN, response : Responses \cup {NoResponse}]

Busy(p) == req[p].pc \in {"handler", "save", "release"}

\* The record of a key that is reserved or saved, and not swept, is there and in force.
LiveHeld == \A k \in live \ swept : rec[k].status # "absent" /\ ~rec[k].expired

\* Under a key that is not swept, one request runs its handler or stores what came of
\* it; the key is live meanwhile, and its record pending until something is stored.
OneRuns ==
    /\ \A p \in Request : Busy(p) /\ req[p].key \notin swept =>
          /\ req[p].key \in live
          /\ \A q \in Request : Busy(q) /\ req[q].key = req[p].key => q = p
    /\ \A p \in Request : req[p].pc \in {"handler", "save"} /\ req[p].key \notin swept =>
          rec[req[p].key].status = "pending"

\* A key is of the requester that extractRequester makes of the sender.
SentBy(k, sender) == sender \in Identity /\ k[2] = ExtractRequester(sender)

\* What a request holds before it is answered.
Holds(u) ==
    /\ u.pc # "idle" => /\ u.key \in Key /\ u.print \in Fingerprint
                        /\ SentBy(u.key, u.sender)
    /\ u.pc = "arrived" => u.response = NoResponse
    /\ u.pc = "save" => u.response # NoResponse
    /\ u.response # NoResponse => /\ u.response.key = u.key /\ u.response.print = u.print
                                  /\ SentBy(u.key, u.response.sender)
Held == \A p \in Request : Holds(req[p])

\* A stored response carries its key, and the fingerprint of its record.
RecordsOwn == \A k \in Key : rec[k].status = "completed" =>
                  /\ rec[k].response.key = k /\ rec[k].response.print = rec[k].print
                  /\ SentBy(k, rec[k].response.sender)

\* What is stored, and what is about to be, is of the latest run.
Latest ==
    /\ \A k \in Key \ swept : rec[k].status = "completed" => rec[k].response = lastRun[k]
    /\ \A p \in Request : req[p].pc = "save" /\ req[p].key \notin swept =>
          req[p].response = lastRun[req[p].key]

IInv == TypeOK /\ LiveHeld /\ OneRuns /\ Held /\ RecordsOwn /\ Latest

-----------------------------------------------------------------------------
(* Types. *)

LEMMA KeyFacts ==
    /\ \A i \in Identity : ExtractRequester(i) \in Requester
    /\ \A h \in Header, i \in Requester : ScopedKey(h, i) \in Key /\ ScopedKey(h, i)[2] = i
    /\ \A c \in Content, i \in Requester : RequestFingerprint(c, i) \in Fingerprint
    /\ NoKey \notin Key
BY DEF Requester, Key, Fingerprint, ScopedKey, RequestFingerprint, NoKey

LEMMA ConstantTypes ==
    /\ NoRecord \in Records /\ NoRecord.status = "absent" /\ ~NoRecord.expired
    /\ Idle \in Requests /\ Idle.pc = "idle" /\ Idle.response = NoResponse
    /\ NoResponse \notin Responses
BY KeyFacts DEF NoRecord, Records, Idle, Requests, NoResponse, Responses

LEMMA RecordTypes ==
    ASSUME NEW f \in Fingerprint
    PROVE  /\ Pending(f) \in Records /\ Pending(f).status = "pending" /\ ~Pending(f).expired
           /\ Pending(f).response = NoResponse
           /\ \A v \in Responses : /\ Completed(f, v) \in Records
                                   /\ Completed(f, v).status = "completed"
                                   /\ ~Completed(f, v).expired
                                   /\ Completed(f, v).response = v /\ Completed(f, v).print = f
BY DEF Pending, Completed, Records

LEMMA TypeFacts ==
    ASSUME TypeOK
    PROVE  /\ rec \in [Key -> Records] /\ req \in [Request -> Requests]
           /\ sweep \subseteq Key /\ live \subseteq Key /\ swept \subseteq Key
           /\ lastRun \in [Key -> Responses \cup {NoResponse}]
           /\ \A k \in Key : rec[k].status = "completed" <=> rec[k].response # NoResponse
BY DEF TypeOK, Records, Requests

LEMMA TypesSuffice ==
    ASSUME rec' \in [Key -> Records], req' \in [Request -> Requests],
           sweep' \subseteq Key, live' \subseteq Key, swept' \subseteq Key,
           lastRun' \in [Key -> Responses \cup {NoResponse}],
           \A k \in Key : rec'[k].status = "completed" <=> rec'[k].response # NoResponse
    PROVE  TypeOK'
BY DEF TypeOK, Records, Requests

LEMMA InitIInv == Init => IInv
<1> SUFFICES ASSUME Init PROVE IInv
  OBVIOUS
<1>1. rec \in [Key -> Records] /\ req \in [Request -> Requests]
  BY ConstantTypes DEF Init
<1>2. TypeOK
  BY <1>1 DEF Init, TypeOK, Records, Requests, NoRecord
<1>3. \A p \in Request : req[p] = Idle /\ ~Busy(p)
  BY ConstantTypes DEF Init, Busy
<1>4. OneRuns /\ LiveHeld
  BY <1>3, ConstantTypes DEF Init, OneRuns, LiveHeld
<1>5. Held
  BY <1>3, ConstantTypes DEF Held, Holds
<1>6. RecordsOwn /\ Latest
  BY <1>3, ConstantTypes DEF Init, RecordsOwn, Latest
<1> QED
  BY <1>2, <1>4, <1>5, <1>6 DEF IInv

-----------------------------------------------------------------------------
(* A request that leaves the store alone and has not to do with a handler   *)
(* afterwards.                                                              *)
LEMMA AsideStep ==
    ASSUME IInv, NEW p \in Request, NEW u \in Requests, Holds(u),
           u.pc \in {"idle", "arrived", "answered"},
           req' = [req EXCEPT ![p] = u], UNCHANGED <<store, rec, sweep, live, lastRun, swept>>
    PROVE  IInv'
<1>1. \A q \in Request : IF q = p THEN req'[q] = u ELSE req'[q] = req[q]
  BY DEF IInv, TypeOK
<1>2. TypeOK'
  <2>1. req' \in [Request -> Requests]
    BY TypeFacts DEF IInv
  <2> QED
    BY <2>1, TypeFacts, TypesSuffice DEF IInv
<1>3. \A q \in Request : Busy(q)' => q # p /\ Busy(q) /\ req'[q] = req[q]
  BY <1>1 DEF Busy
<1>4. LiveHeld' /\ RecordsOwn'
  BY DEF IInv, LiveHeld, RecordsOwn
<1>5. OneRuns'
  BY <1>1, <1>3 DEF IInv, OneRuns
<1>6. Held'
  BY <1>1 DEF IInv, Held, Holds
<1>7. Latest'
  BY <1>1 DEF IInv, Latest
<1> QED
  BY <1>2, <1>4, <1>5, <1>6, <1>7 DEF IInv

LEMMA RequestFacts ==
    ASSUME IInv, NEW p \in Request, req[p].pc # "idle"
    PROVE  /\ req[p] \in Requests /\ req[p].key \in Key /\ req[p].print \in Fingerprint
           /\ rec[req[p].key] \in Records
           /\ Holds(req[p])
<1>1. req[p] \in Requests /\ Holds(req[p])
  BY TypeFacts DEF IInv, Held
<1>2. req[p].key \in Key /\ req[p].print \in Fingerprint
  BY <1>1 DEF Holds
<1> QED
  BY <1>1, <1>2, TypeFacts DEF IInv

LEMMA ArriveIInv ==
    ASSUME IInv, NEW p \in Request, NEW header \in Header, NEW sender \in Identity,
           NEW content \in Content, Arrive(p, header, sender, content)
    PROVE  IInv'
<1> DEFINE i == ExtractRequester(sender)
           u == [Idle EXCEPT !.pc = "arrived", !.key = ScopedKey(header, i),
                             !.print = RequestFingerprint(content, i), !.sender = sender]
<1>1. i \in Requester /\ u \in Requests
  BY KeyFacts, ConstantTypes DEF Requests
<1>2. /\ u.pc = "arrived" /\ u.key = ScopedKey(header, i)
      /\ u.print = RequestFingerprint(content, i) /\ u.response = NoResponse
      /\ u.sender = sender
  BY DEF Idle
<1>3. Holds(u)
  BY <1>1, <1>2, KeyFacts DEF Holds, SentBy
<1>4. req' = [req EXCEPT ![p] = u] /\ UNCHANGED <<store, rec, sweep, live, lastRun, swept>>
  BY DEF Arrive
<1> HIDE DEF u
<1> QED
  BY <1>1, <1>2, <1>3, <1>4, AsideStep

LEMMA EndIInv ==
    ASSUME IInv, NEW p \in Request, Panic(p) \/ Done(p)
    PROVE  IInv'
<1>1. CASE Panic(p)
  <2> DEFINE u == [req[p] EXCEPT !.pc = "answered", !.response = NoResponse]
  <2>1. /\ req[p] \in Requests /\ req[p].key \in Key /\ req[p].print \in Fingerprint
        /\ SentBy(req[p].key, req[p].sender)
    BY <1>1, RequestFacts DEF Panic, Holds
  <2>2. /\ u \in Requests /\ u.pc = "answered" /\ u.response = NoResponse
        /\ u.key = req[p].key /\ u.print = req[p].print /\ u.sender = req[p].sender
    BY <2>1 DEF Requests
  <2>3. req' = [req EXCEPT ![p] = u] /\ UNCHANGED <<store, rec, sweep, live, lastRun, swept>>
    BY <1>1 DEF Panic
  <2> HIDE DEF u
  <2>4. Holds(u)
    BY <2>1, <2>2 DEF Holds
  <2> QED
    BY <2>2, <2>3, <2>4, AsideStep
<1>2. CASE Done(p)
  <2>1. Holds(Idle)
    BY ConstantTypes DEF Holds
  <2> QED
    BY <1>2, <2>1, ConstantTypes, AsideStep DEF Done
<1> QED
  BY <1>1, <1>2

-----------------------------------------------------------------------------
(* Reserve. *)

LEMMA OutcomeFacts ==
    ASSUME NEW r \in Records, NEW f \in Fingerprint, NEW early \in BOOLEAN
    PROVE  /\ Outcome(r, f, early) = "new" => r.status = "absent" \/ r.expired
           /\ Outcome(r, f, early) = "completed" =>
                 r.status = "completed" /\ r.print = f /\ ~(r.expired /\ ~early)
BY DEF Outcome, Records

\* Who is told of a new record finds nobody busy under the key, unless it is swept.
LEMMA NewIsFree ==
    ASSUME IInv, NEW k \in Key, k \notin swept, rec[k].status = "absent" \/ rec[k].expired
    PROVE  k \notin live /\ \A q \in Request : Busy(q) => req[q].key # k
BY DEF IInv, LiveHeld, OneRuns

\* A reservation takes effect, and its request runs the handler, or is told of an error.
LEMMA TakeStep ==
    ASSUME IInv, NEW p \in Request, req[p].pc = "arrived",
           NEW pc \in {"handler", "answered"},
           rec[req[p].key].status = "absent" \/ rec[req[p].key].expired,
           req' = [req EXCEPT ![p].pc = pc],
           rec' = [rec EXCEPT ![req[p].key] = Pending(req[p].print)],
           live' = live \cup {req[p].key},
           UNCHANGED <<store, sweep, lastRun, swept>>
    PROVE  IInv'
<1> DEFINE k == req[p].key
           u == [req[p] EXCEPT !.pc = pc]
<1>1. /\ req[p] \in Requests /\ k \in Key /\ req[p].print \in Fingerprint
      /\ req[p].response = NoResponse
  BY RequestFacts DEF Holds
<1>2. /\ u \in Requests /\ u.pc = pc /\ u.key = k /\ u.print = req[p].print /\ u.sender = req[p].sender
      /\ u.response = NoResponse
  BY <1>1 DEF Requests
<1> HIDE DEF u
<1>3. \A q \in Request : IF q = p THEN req'[q] = u ELSE req'[q] = req[q]
  BY DEF IInv, TypeOK, u
<1>4. /\ rec'[k] = Pending(req[p].print)
      /\ \A x \in Key : x # k => rec'[x] = rec[x]
  BY <1>1 DEF IInv, TypeOK
<1>5. /\ Pending(req[p].print) \in Records /\ rec'[k].status = "pending"
      /\ ~rec'[k].expired /\ rec'[k].response = NoResponse
  BY <1>1, <1>4, RecordTypes
<1>6. k \notin swept => \A q \in Request : Busy(q) => req[q].key # k
  BY <1>1, NewIsFree
<1>7. \A q \in Request : q # p => (Busy(q)' <=> Busy(q))
  BY <1>3 DEF Busy
<1>8. TypeOK'
  <2>1. rec' \in [Key -> Records] /\ req' \in [Request -> Requests]
    BY <1>1, <1>2, <1>5, TypeFacts DEF IInv, u
  <2>2. live' \subseteq Key
    BY <1>1, TypeFacts DEF IInv
  <2>3. \A x \in Key : rec'[x].status = "completed" <=> rec'[x].response # NoResponse
    BY <1>4, <1>5, TypeFacts DEF IInv
  <2> QED
    BY <2>1, <2>2, <2>3, TypeFacts, TypesSuffice DEF IInv
<1>9. LiveHeld'
  BY <1>4, <1>5, TypeFacts DEF IInv, LiveHeld
<1>10. OneRuns'
  <2>1. ASSUME NEW q \in Request, Busy(q)', req'[q].key \notin swept
        PROVE  /\ req'[q].key \in live'
               /\ \A o \in Request : Busy(o)' /\ req'[o].key = req'[q].key => o = q
    <3>1. CASE q = p
      BY <1>2, <1>3, <1>6, <1>7, <2>1, <3>1
    <3>2. CASE q # p
      BY <1>2, <1>3, <1>6, <1>7, <2>1, <3>2 DEF IInv, OneRuns
    <3> QED
      BY <3>1, <3>2
  <2>2. ASSUME NEW q \in Request, req'[q].pc \in {"handler", "save"}, req'[q].key \notin swept
        PROVE  rec'[req'[q].key].status = "pending"
    <3>1. CASE q = p
      BY <1>2, <1>3, <1>5, <3>1
    <3>2. CASE q # p
      <4>1. Busy(q) /\ req[q].pc # "idle" /\ req'[q] = req[q]
        BY <1>3, <2>2, <3>2 DEF Busy
      <4>2. req[q].key # k /\ req[q].key \in Key
        BY <1>6, <2>2, <4>1, RequestFacts
      <4> QED
        BY <1>4, <2>2, <4>1, <4>2 DEF IInv, OneRuns
    <3> QED
      BY <3>1, <3>2
  <2> QED
    BY <2>1, <2>2 DEF OneRuns
<1>11. Held'
  BY <1>1, <1>2, <1>3 DEF IInv, Held, Holds
<1>12. RecordsOwn'
  BY <1>4, <1>5 DEF IInv, RecordsOwn
<1>13. Latest'
  BY <1>2, <1>3, <1>4, <1>5 DEF IInv, Latest
<1> QED
  BY <1>8, <1>9, <1>10, <1>11, <1>12, <1>13 DEF IInv

\* The answers that leave the store alone.
LEMMA AnswerStep ==
    ASSUME IInv, NEW p \in Request, req[p].pc \in {"arrived", "release"},
           NEW response \in Responses \cup {NoResponse},
           response # NoResponse => /\ response.key = req[p].key /\ response.print = req[p].print
                                    /\ SentBy(req[p].key, response.sender),
           req' = [req EXCEPT ![p].pc = "answered", ![p].response = response],
           UNCHANGED <<store, rec, sweep, live, lastRun, swept>>
    PROVE  IInv'
<1> DEFINE u == [req[p] EXCEPT !.pc = "answered", !.response = response]
<1>1. req[p] \in Requests /\ Holds(req[p])
  BY RequestFacts
<1>2. /\ u \in Requests /\ u.pc = "answered" /\ u.response = response
      /\ u.key = req[p].key /\ u.print = req[p].print /\ u.sender = req[p].sender
  BY <1>1 DEF Requests
<1>3. req' = [req EXCEPT ![p] = u]
  OBVIOUS
<1> HIDE DEF u
<1>4. Holds(u)
  BY <1>1, <1>2 DEF Holds
<1> QED
  BY <1>2, <1>3, <1>4, AsideStep

LEMMA ReserveIInv ==
    ASSUME IInv, NEW p \in Request, Reserve(p)
    PROVE  IInv'
<1> DEFINE k == req[p].key
           f == req[p].print
           outcome == Outcome(rec[k], f, req[p].early)
           response == IF outcome = "completed" THEN StoredResponse(rec[k]) ELSE NoResponse
<1>1. /\ req[p].pc = "arrived" /\ req[p] \in Requests /\ req[p].early \in BOOLEAN
      /\ k \in Key /\ f \in Fingerprint /\ rec[k] \in Records
  BY RequestFacts DEF Reserve, Requests
<1>2. CASE outcome = "new"
  <2>1. rec[k].status = "absent" \/ rec[k].expired
    BY <1>1, <1>2, OutcomeFacts
  <2> QED
    BY <1>1, <1>2, <2>1, TakeStep DEF Reserve
<1>3. CASE outcome # "new"
  <2>1. /\ response \in Responses \cup {NoResponse}
        /\ response # NoResponse => /\ response.key = k /\ response.print = f
                                    /\ SentBy(k, response.sender)
    <3>1. CASE outcome = "completed"
      <4>1. rec[k].status = "completed" /\ rec[k].print = f
        BY <1>1, <3>1, OutcomeFacts
      <4> QED
        BY <1>1, <3>1, <4>1 DEF StoredResponse, IInv, RecordsOwn, Records
    <3>2. CASE outcome # "completed"
      BY <3>2
    <3> QED
      BY <3>1, <3>2
  <2>2. /\ req' = [req EXCEPT ![p].pc = "answered", ![p].response = response]
        /\ UNCHANGED <<store, rec, sweep, live, lastRun, swept>>
    BY <1>3 DEF Reserve
  <2> HIDE DEF response
  <2> QED
    BY <1>1, <2>1, <2>2, AnswerStep
<1> QED
  BY <1>2, <1>3

LEMMA ReserveFailsIInv ==
    ASSUME IInv, NEW p \in Request, ReserveFails(p)
    PROVE  IInv'
<1> DEFINE k == req[p].key
           f == req[p].print
<1>1. /\ req[p].pc = "arrived" /\ req[p] \in Requests /\ req[p].early \in BOOLEAN
      /\ k \in Key /\ f \in Fingerprint /\ rec[k] \in Records /\ req[p].response = NoResponse
  BY RequestFacts DEF ReserveFails, Requests, Holds
<1>2. req' = [req EXCEPT ![p].pc = "answered"] /\ UNCHANGED <<store, sweep, lastRun, swept>>
  BY DEF ReserveFails
<1>3. CASE UNCHANGED <<rec, live>>
  <2>1. req' = [req EXCEPT ![p].pc = "answered", ![p].response = NoResponse]
    BY <1>1, <1>2, TypeFacts DEF IInv, Requests
  <2> QED
    BY <1>1, <1>2, <1>3, <2>1, AnswerStep
<1>4. CASE /\ Outcome(rec[k], f, req[p].early) = "new"
           /\ rec' = [rec EXCEPT ![k] = Pending(f)] /\ live' = live \cup {k}
  <2>1. rec[k].status = "absent" \/ rec[k].expired
    BY <1>1, <1>4, OutcomeFacts
  <2> QED
    BY <1>1, <1>2, <1>4, <2>1, TakeStep
<1> QED
  BY <1>3, <1>4 DEF ReserveFails

-----------------------------------------------------------------------------
(* The handler, and what is stored of it. *)

LEMMA HandleIInv ==
    ASSUME IInv, NEW p \in Request, NEW v \in Body, Handle(p, v)
    PROVE  IInv'
<1> DEFINE k == req[p].key
           response == Recorded(p, v)
           u == [req[p] EXCEPT !.pc = "save", !.response = response]
<1>1. /\ req[p].pc = "handler" /\ req[p] \in Requests /\ k \in Key
      /\ req[p].print \in Fingerprint /\ SentBy(k, req[p].sender)
  BY RequestFacts DEF Handle, Holds
<1>2. /\ response \in Responses /\ response # NoResponse
      /\ response.key = k /\ response.print = req[p].print /\ SentBy(k, response.sender)
  BY <1>1, ConstantTypes DEF Recorded, Responses, SentBy
<1>3. /\ req' = [req EXCEPT ![p] = u] /\ lastRun' = [lastRun EXCEPT ![k] = response]
      /\ UNCHANGED <<store, rec, sweep, live, swept>>
  BY DEF Handle
<1> HIDE DEF response
<1>4. /\ u \in Requests /\ u.pc = "save" /\ u.key = k /\ u.print = req[p].print /\ u.sender = req[p].sender
      /\ u.response = response
  BY <1>1, <1>2 DEF Requests
<1> HIDE DEF u
<1>5. \A q \in Request : IF q = p THEN req'[q] = u ELSE req'[q] = req[q]
  BY <1>3 DEF IInv, TypeOK
<1>6. /\ lastRun'[k] = response
      /\ \A x \in Key : x # k => lastRun'[x] = lastRun[x]
  BY <1>1, <1>3 DEF IInv, TypeOK
<1>7. Busy(p) /\ (k \notin swept => /\ rec[k].status = "pending"
                                    /\ \A q \in Request : Busy(q) /\ req[q].key = k => q = p)
  BY <1>1 DEF IInv, OneRuns, Busy
<1>8. \A q \in Request : (Busy(q)' <=> Busy(q)) /\ req'[q].key = req[q].key
  BY <1>4, <1>5, <1>7 DEF Busy
<1>9. TypeOK'
  <2>1. /\ req' \in [Request -> Requests]
        /\ lastRun' \in [Key -> Responses \cup {NoResponse}]
    BY <1>2, <1>3, <1>4, TypeFacts DEF IInv
  <2> QED
    BY <1>3, <2>1, TypeFacts, TypesSuffice DEF IInv
<1>10. LiveHeld' /\ RecordsOwn'
  BY <1>3 DEF IInv, LiveHeld, RecordsOwn
<1>11. OneRuns'
  BY <1>3, <1>4, <1>5, <1>7, <1>8 DEF IInv, OneRuns
<1>12. Held'
  BY <1>1, <1>2, <1>4, <1>5 DEF IInv, Held, Holds
<1>13. Latest'
  <2>1. ASSUME NEW x \in Key \ swept, rec[x].status = "completed"
        PROVE  rec[x].response = lastRun'[x]
    BY <1>6, <1>7, <2>1 DEF IInv, Latest
  <2>2. ASSUME NEW q \in Request, req'[q].pc = "save", req'[q].key \notin swept
        PROVE  req'[q].response = lastRun'[req'[q].key]
    <3>1. CASE q = p
      BY <1>4, <1>5, <1>6, <3>1
    <3>2. CASE q # p
      <4>1. req'[q] = req[q] /\ req[q].pc = "save" /\ Busy(q) /\ req[q].pc # "idle"
        BY <1>5, <2>2, <3>2 DEF Busy
      <4>2. req[q].key \in Key /\ req[q].key # k
        BY <1>7, <2>2, <3>2, <4>1, RequestFacts
      <4> QED
        BY <1>6, <2>2, <4>1, <4>2 DEF IInv, Latest
    <3> QED
      BY <3>1, <3>2
  <2> QED
    BY <1>3, <2>1, <2>2 DEF Latest
<1> QED
  BY <1>9, <1>10, <1>11, <1>12, <1>13 DEF IInv

\* A request stores its response, or fails to, and is through with its handler.
LEMMA SaveStep ==
    ASSUME IInv, NEW p \in Request, req[p].pc = "save",
           NEW pc \in {"answered", "release"},
           NEW response \in {req[p].response, NoResponse},
           req' = [req EXCEPT ![p].pc = pc, ![p].response = response],
           UNCHANGED <<store, sweep, lastRun, swept>>,
           Stored(p) \/ UNCHANGED <<rec, live>>
    PROVE  IInv'
<1> DEFINE k == req[p].key
           u == [req[p] EXCEPT !.pc = pc, !.response = response]
<1>1. /\ req[p] \in Requests /\ k \in Key /\ req[p].print \in Fingerprint
      /\ Holds(req[p]) /\ req[p].response \in Responses
      /\ req[p].response.key = k /\ req[p].response.print = req[p].print
      /\ SentBy(k, req[p].sender) /\ SentBy(k, req[p].response.sender)
  BY RequestFacts DEF Holds, Requests
<1>2. /\ u \in Requests /\ u.pc = pc /\ u.key = k /\ u.print = req[p].print /\ u.sender = req[p].sender
      /\ u.response = response
  BY <1>1 DEF Requests
<1>3. req' = [req EXCEPT ![p] = u]
  OBVIOUS
<1> HIDE DEF u
<1>4. Holds(u)
  BY <1>1, <1>2 DEF Holds
<1>5. \A q \in Request : IF q = p THEN req'[q] = u ELSE req'[q] = req[q]
  BY <1>3 DEF IInv, TypeOK
<1>6. Busy(p) /\ (k \notin swept => /\ k \in live
                                    /\ req[p].response = lastRun[k]
                                    /\ \A q \in Request : Busy(q) /\ req[q].key = k => q = p)
  BY DEF IInv, OneRuns, Latest, Busy
<1>7. /\ \A q \in Request : (Busy(q)' => Busy(q)) /\ req'[q].key = req[q].key
      /\ \A q \in Request : req'[q].pc \in {"handler", "save"} =>
            q # p /\ req'[q] = req[q] /\ req[q].pc # "idle" /\ req[q].key \in Key
  BY <1>2, <1>5, <1>6, RequestFacts DEF Busy
<1>8. CASE UNCHANGED <<rec, live>>
  <2>1. TypeOK'
    <3>1. req' \in [Request -> Requests]
      BY <1>2, <1>3, TypeFacts DEF IInv
    <3> QED
      BY <1>8, <3>1, TypeFacts, TypesSuffice DEF IInv
  <2>2. LiveHeld' /\ RecordsOwn'
    BY <1>8 DEF IInv, LiveHeld, RecordsOwn
  <2>4. OneRuns'
    <3>1. ASSUME NEW q \in Request, Busy(q)', req'[q].key \notin swept
          PROVE  /\ req'[q].key \in live
                 /\ \A o \in Request : Busy(o)' /\ req'[o].key = req'[q].key => o = q
      <4>1. Busy(q) /\ req'[q].key = req[q].key /\ req[q].key \notin swept
        BY <1>7, <3>1
      <4>2. \A o \in Request : Busy(o)' /\ req'[o].key = req'[q].key =>
               Busy(o) /\ req[o].key = req[q].key
        BY <1>7, <4>1
      <4> QED
        BY <4>1, <4>2 DEF IInv, OneRuns
    <3>2. ASSUME NEW q \in Request, req'[q].pc \in {"handler", "save"}, req'[q].key \notin swept
          PROVE  rec[req'[q].key].status = "pending"
      BY <1>7, <3>2 DEF IInv, OneRuns
    <3> QED
      BY <1>8, <3>1, <3>2 DEF OneRuns
  <2>5. Latest'
    <3>1. ASSUME NEW q \in Request, req'[q].pc = "save", req'[q].key \notin swept
          PROVE  req'[q].response = lastRun[req'[q].key]
      BY <1>7, <3>1 DEF IInv, Latest
    <3> QED
      BY <1>8, <3>1 DEF IInv, Latest
  <2>3. Held'
    BY <1>4, <1>5 DEF IInv, Held, Holds
  <2> QED
    BY <2>1, <2>2, <2>3, <2>4, <2>5 DEF IInv
<1>9. CASE Stored(p)
  <2>1. /\ rec' = [rec EXCEPT ![k] = Completed(req[p].print, req[p].response)]
        /\ live' = live \cup {k}
    BY <1>9 DEF Stored
  <2>2. /\ rec'[k] = Completed(req[p].print, req[p].response)
        /\ \A x \in Key : x # k => rec'[x] = rec[x]
    BY <1>1, <2>1 DEF IInv, TypeOK
  <2>3. /\ rec'[k] \in Records /\ rec'[k].status = "completed" /\ ~rec'[k].expired
        /\ rec'[k].response = req[p].response /\ rec'[k].print = req[p].print
    BY <1>1, <2>2, RecordTypes
  <2>4. TypeOK'
    <3>1. req' \in [Request -> Requests]
      BY <1>2, <1>3, TypeFacts DEF IInv
    <3>3. rec' \in [Key -> Records] /\ live' \subseteq Key
      BY <1>1, <2>1, <2>2, <2>3, TypeFacts DEF IInv
    <3>2. \A x \in Key : rec'[x].status = "completed" <=> rec'[x].response # NoResponse
      BY <1>1, <2>2, <2>3, TypeFacts, ConstantTypes DEF IInv
    <3> QED
      BY <3>1, <3>2, <3>3, TypeFacts, TypesSuffice DEF IInv
  <2>5. LiveHeld'
    BY <2>1, <2>2, <2>3, TypeFacts DEF IInv, LiveHeld
  <2>6. OneRuns'
    <3>1. ASSUME NEW q \in Request, Busy(q)', req'[q].key \notin swept
          PROVE  /\ req'[q].key \in live'
                 /\ \A o \in Request : Busy(o)' /\ req'[o].key = req'[q].key => o = q
      <4>1. Busy(q) /\ req'[q].key = req[q].key /\ req[q].key \notin swept
        BY <1>7, <3>1
      <4>2. \A o \in Request : Busy(o)' /\ req'[o].key = req'[q].key =>
               Busy(o) /\ req[o].key = req[q].key
        BY <1>7, <4>1
      <4>3. req[q].key \in live
        BY <4>1 DEF IInv, OneRuns
      <4>4. \A o \in Request : Busy(o) /\ req[o].key = req[q].key => o = q
        BY <4>1 DEF IInv, OneRuns
      <4>5. req'[q].key \in live'
        BY <2>1, <4>1, <4>3
      <4> QED
        BY <4>1, <4>2, <4>4, <4>5
    <3>2. ASSUME NEW q \in Request, req'[q].pc \in {"handler", "save"}, req'[q].key \notin swept
          PROVE  rec'[req'[q].key].status = "pending"
      <4>1. q # p /\ req'[q] = req[q] /\ req[q].key \in Key /\ Busy(q)
        BY <1>7, <3>2 DEF Busy
      <4>2. req[q].key # k
        BY <1>6, <3>2, <4>1
      <4> QED
        BY <2>2, <3>2, <4>1, <4>2 DEF IInv, OneRuns
    <3> QED
      BY <3>1, <3>2 DEF OneRuns
  <2>7. Held'
    BY <1>4, <1>5 DEF IInv, Held, Holds
  <2>8. RecordsOwn'
    BY <1>1, <2>2, <2>3 DEF IInv, RecordsOwn
  <2>9. Latest'
    <3>1. ASSUME NEW x \in Key \ swept, rec'[x].status = "completed"
          PROVE  rec'[x].response = lastRun[x]
      BY <1>6, <2>2, <2>3, <3>1 DEF IInv, Latest
    <3>2. ASSUME NEW q \in Request, req'[q].pc = "save", req'[q].key \notin swept
          PROVE  req'[q].response = lastRun[req'[q].key]
      BY <1>7, <3>2 DEF IInv, Latest
    <3> QED
      BY <3>1, <3>2 DEF Latest
  <2> QED
    BY <2>4, <2>5, <2>6, <2>7, <2>8, <2>9 DEF IInv
<1> QED
  BY <1>8, <1>9

LEMMA SaveIInv ==
    ASSUME IInv, NEW p \in Request, SaveResponse(p) \/ SaveFails(p)
    PROVE  IInv'
<1>1. CASE SaveResponse(p)
  <2>1. req[p] \in Requests
    BY <1>1, RequestFacts DEF SaveResponse
  <2>2. req' = [req EXCEPT ![p].pc = "answered", ![p].response = req[p].response]
    BY <1>1, <2>1, TypeFacts DEF SaveResponse, Commit, IInv, Requests
  <2> QED
    BY <1>1, <2>2, SaveStep DEF SaveResponse
<1>2. CASE SaveFails(p)
  BY <1>2, SaveStep DEF SaveFails
<1> QED
  BY <1>1, <1>2

LEMMA ReleaseIInv ==
    ASSUME IInv, NEW p \in Request, Release(p)
    PROVE  IInv'
<1> DEFINE k == req[p].key
           u == [req[p] EXCEPT !.pc = "answered"]
<1>1. /\ req[p].pc = "release" /\ req[p] \in Requests /\ k \in Key /\ Holds(req[p])
      /\ req[p].response \in Responses \cup {NoResponse}
  BY RequestFacts DEF Release, Requests
<1>2. /\ req' = [req EXCEPT ![p].pc = "answered"]
      /\ req' = [req EXCEPT ![p] = u]
      /\ UNCHANGED <<store, sweep, lastRun, swept>>
  BY DEF Release
<1>3. CASE UNCHANGED <<rec, live>>
  <2>1. req' = [req EXCEPT ![p].pc = "answered", ![p].response = req[p].response]
    BY <1>1, <1>2, TypeFacts DEF IInv, Requests
  <2> QED
    BY <1>1, <1>2, <1>3, <2>1, AnswerStep DEF Holds
<1>4. CASE rec' = [rec EXCEPT ![k] = NoRecord] /\ live' = live \ {k}
  <2>1. /\ u \in Requests /\ u.pc = "answered" /\ u.key = k /\ u.print = req[p].print /\ u.sender = req[p].sender
        /\ u.response = req[p].response
    BY <1>1 DEF Requests
  <2> HIDE DEF u
  <2>2. \A q \in Request : IF q = p THEN req'[q] = u ELSE req'[q] = req[q]
    BY <1>2 DEF IInv, TypeOK
  <2>3. /\ rec'[k] = NoRecord
        /\ \A x \in Key : x # k => rec'[x] = rec[x]
    BY <1>1, <1>4 DEF IInv, TypeOK
  <2>4. Busy(p) /\ (k \notin swept => \A q \in Request : Busy(q) /\ req[q].key = k => q = p)
    BY <1>1 DEF IInv, OneRuns, Busy
  <2>5. \A q \in Request : Busy(q)' => /\ q # p /\ Busy(q) /\ req'[q] = req[q]
                                       /\ req[q].key \in Key
                                       /\ (req[q].key \in swept \/ req[q].key # k)
    BY <2>1, <2>2, <2>4, RequestFacts DEF Busy
  <2>6. TypeOK'
    <3>1. /\ req' \in [Request -> Requests] /\ rec' \in [Key -> Records]
          /\ live' \subseteq Key
      BY <1>2, <1>4, <2>1, TypeFacts, ConstantTypes DEF IInv
    <3>2. \A x \in Key : rec'[x].status = "completed" <=> rec'[x].response # NoResponse
      BY <2>3, TypeFacts DEF IInv, NoRecord
    <3> QED
      BY <1>2, <3>1, <3>2, TypeFacts, TypesSuffice DEF IInv
  <2>7. LiveHeld'
    BY <1>2, <1>4, <2>3, TypeFacts DEF IInv, LiveHeld
  <2>8. OneRuns'
    <3>1. ASSUME NEW q \in Request, Busy(q)', req'[q].key \notin swept
          PROVE  /\ req'[q].key \in live'
                 /\ \A o \in Request : Busy(o)' /\ req'[o].key = req'[q].key => o = q
      BY <1>4, <2>5, <3>1 DEF IInv, OneRuns
    <3>2. ASSUME NEW q \in Request, req'[q].pc \in {"handler", "save"}, req'[q].key \notin swept
          PROVE  rec'[req'[q].key].status = "pending"
      <4>1. Busy(q)'
        BY <3>2 DEF Busy
      <4>2. req'[q] = req[q] /\ req[q].key \in Key /\ req[q].key # k
        BY <2>5, <3>2, <4>1
      <4> QED
        BY <2>3, <3>2, <4>2 DEF IInv, OneRuns
    <3> QED
      BY <1>2, <3>1, <3>2 DEF OneRuns
  <2>9. Held'
    BY <1>1, <2>1, <2>2 DEF IInv, Held, Holds
  <2>10. RecordsOwn'
    BY <2>3, ConstantTypes DEF IInv, RecordsOwn
  <2>11. Latest'
    BY <1>2, <2>1, <2>2, <2>3, ConstantTypes DEF IInv, Latest
  <2> QED
    BY <2>6, <2>7, <2>8, <2>9, <2>10, <2>11 DEF IInv
<1> QED
  BY <1>3, <1>4 DEF Release

-----------------------------------------------------------------------------
(* Time, and the cleanup. *)

LEMMA ExpireIInv ==
    ASSUME IInv, NEW k \in Key, Expire(k)
    PROVE  IInv'
<1>1. /\ k \in live /\ live' = live \ {k}
      /\ rec' = [rec EXCEPT ![k].expired = (rec[k].status # "absent")]
      /\ \A p \in Request : Busy(p) => req[p].key # k
      /\ UNCHANGED <<store, sweep, lastRun, swept>>
  BY DEF Expire, InFlight, Busy
<1>2. \A p \in Request :
         /\ req[p] \in Requests /\ req'[p] \in Requests
         /\ req'[p].pc = req[p].pc /\ req'[p].key = req[p].key /\ req'[p].print = req[p].print
         /\ req'[p].response = req[p].response /\ req'[p].sender = req[p].sender
  BY TypeFacts DEF Expire, IInv, Requests
<1>3. /\ rec'[k].status = rec[k].status /\ rec'[k].print = rec[k].print
      /\ rec'[k].response = rec[k].response /\ rec'[k] \in Records
      /\ \A x \in Key : x # k => rec'[x] = rec[x]
  BY <1>1, TypeFacts DEF IInv, Records
<1>4. \A p \in Request : Busy(p)' <=> Busy(p)
  BY <1>2 DEF Busy
<1>5. TypeOK'
  <2>1. req' \in [Request -> Requests]
    BY <1>2 DEF Expire
  <2>2. rec' \in [Key -> Records] /\ live' \subseteq Key
    BY <1>1, <1>3, TypeFacts DEF IInv
  <2>3. \A x \in Key : rec'[x].status = "completed" <=> rec'[x].response # NoResponse
    BY <1>3, TypeFacts DEF IInv
  <2> QED
    BY <1>1, <2>1, <2>2, <2>3, TypeFacts, TypesSuffice DEF IInv
<1>6. LiveHeld'
  BY <1>1, <1>3, TypeFacts DEF IInv, LiveHeld
<1>7. OneRuns'
  <2>1. ASSUME NEW p \in Request, Busy(p)', req'[p].key \notin swept
        PROVE  /\ req'[p].key \in live'
               /\ \A q \in Request : Busy(q)' /\ req'[q].key = req'[p].key => q = p
    <3>1. Busy(p) /\ req'[p].key = req[p].key /\ req[p].key \notin swept /\ req[p].key # k
      BY <1>1, <1>2, <1>4, <2>1
    <3>2. \A q \in Request : Busy(q)' /\ req'[q].key = req'[p].key =>
             Busy(q) /\ req[q].key = req[p].key
      BY <1>2, <1>4, <3>1
    <3>3. /\ req[p].key \in live
          /\ \A q \in Request : Busy(q) /\ req[q].key = req[p].key => q = p
      BY <3>1 DEF IInv, OneRuns
    <3>4. req'[p].key \in live'
      BY <1>1, <3>1, <3>3
    <3> QED
      BY <3>1, <3>2, <3>3, <3>4
  <2>2. ASSUME NEW p \in Request, req'[p].pc \in {"handler", "save"}, req'[p].key \notin swept
        PROVE  rec'[req'[p].key].status = "pending"
    <3>1. Busy(p) /\ req[p].pc # "idle" /\ req[p].pc \in {"handler", "save"}
      BY <1>2, <2>2 DEF Busy
    <3>2. req'[p].key = req[p].key /\ req[p].key \in Key /\ req[p].key # k
      BY <1>1, <1>2, <3>1, RequestFacts
    <3> QED
      BY <1>3, <2>2, <3>1, <3>2 DEF IInv, OneRuns
  <2> QED
    BY <1>1, <2>1, <2>2 DEF OneRuns
<1>8. Held'
  BY <1>2 DEF IInv, Held, Holds
<1>9. RecordsOwn'
  BY <1>3 DEF IInv, RecordsOwn
<1>10. Latest'
  <2>1. ASSUME NEW x \in Key \ swept, rec'[x].status = "completed"
        PROVE  rec'[x].response = lastRun[x]
    BY <1>3, <2>1 DEF IInv, Latest
  <2>2. ASSUME NEW p \in Request, req'[p].pc = "save", req'[p].key \notin swept
        PROVE  req'[p].response = lastRun[req'[p].key]
    BY <1>2, <2>2 DEF IInv, Latest
  <2> QED
    BY <1>1, <2>1, <2>2 DEF Latest
<1> QED
  BY <1>5, <1>6, <1>7, <1>8, <1>9, <1>10 DEF IInv

\* Records go: of keys that are not live, or are from now on listed as swept.
LEMMA DeleteStep ==
    ASSUME IInv, NEW S \in SUBSET Key, Delete(S), UNCHANGED <<store, req, live, lastRun>>,
           sweep' \subseteq Key, swept' \subseteq Key, swept \subseteq swept',
           \A k \in S \ swept' : rec[k].status = "absent" \/ rec[k].expired
    PROVE  IInv'
<1>1. \A k \in Key : rec'[k] = IF k \in S THEN NoRecord ELSE rec[k]
  BY DEF Delete
<1>2. TypeOK'
  <2>1. rec' \in [Key -> Records]
    BY <1>1, TypeFacts, ConstantTypes DEF IInv, Delete
  <2>2. \A k \in Key : rec'[k].status = "completed" <=> rec'[k].response # NoResponse
    BY <1>1, TypeFacts DEF IInv, NoRecord
  <2> QED
    BY <2>1, <2>2, TypeFacts, TypesSuffice DEF IInv
<1>3. \A k \in S \ swept' : k \notin live /\ \A q \in Request : Busy(q) => req[q].key # k
  BY NewIsFree
<1>4. LiveHeld'
  BY <1>1, <1>3, TypeFacts DEF IInv, LiveHeld
<1>5. OneRuns'
  <2>1. ASSUME NEW p \in Request, Busy(p), req[p].key \notin swept'
        PROVE  /\ req[p].key \in live
               /\ \A q \in Request : Busy(q) /\ req[q].key = req[p].key => q = p
    BY <2>1 DEF IInv, OneRuns
  <2>2. ASSUME NEW p \in Request, req[p].pc \in {"handler", "save"}, req[p].key \notin swept'
        PROVE  rec'[req[p].key].status = "pending"
    <3>1. req[p].key \in Key /\ rec[req[p].key].status = "pending" /\ Busy(p)
      BY <2>2, RequestFacts DEF IInv, OneRuns, Busy
    <3> QED
      BY <1>1, <1>3, <2>2, <3>1
  <2>3. \A q \in Request : Busy(q)' <=> Busy(q)
    BY DEF Busy
  <2> QED
    BY <2>1, <2>2, <2>3 DEF OneRuns
<1>6. Held'
  BY DEF IInv, Held
<1>7. RecordsOwn'
  BY <1>1, ConstantTypes DEF IInv, RecordsOwn
<1>8. Latest'
  BY <1>1, ConstantTypes DEF IInv, Latest
<1> QED
  BY <1>2, <1>4, <1>5, <1>6, <1>7, <1>8 DEF IInv

LEMMA CleanupIInv ==
    ASSUME IInv, CleanupMemory \/ CleanupQuery \/ CleanupDelete
    PROVE  IInv'
<1>1. CASE CleanupMemory
  <2>1. PICK S \in Batches : Delete(S)
    BY <1>1 DEF CleanupMemory
  <2>2. S \in SUBSET Key /\ \A k \in S : rec[k].expired
    BY DEF Batches, Expired
  <2> QED
    BY <1>1, <2>1, <2>2, TypeFacts, DeleteStep DEF CleanupMemory, IInv
<1>2. CASE CleanupQuery
  <2>1. sweep' \subseteq Key
    BY <1>2 DEF CleanupQuery, Batches, Expired
  <2>2. TypeOK'
    BY <1>2, <2>1 DEF CleanupQuery, IInv, TypeOK
  <2> QED
    BY <1>2, <2>2 DEF CleanupQuery, IInv, LiveHeld, OneRuns, Held, Holds, RecordsOwn, Latest, Busy
<1>3. CASE CleanupDelete
  <2>1. CASE /\ Delete(sweep)
             /\ swept' = swept \cup {k \in sweep : rec[k].status # "absent" /\ ~rec[k].expired}
    BY <1>3, <2>1, TypeFacts, DeleteStep DEF CleanupDelete, IInv
  <2>2. CASE UNCHANGED <<rec, swept>>
    <3>1. TypeOK'
      BY <1>3, <2>2 DEF CleanupDelete, IInv, TypeOK
    <3> QED
      BY <1>3, <2>2, <3>1
         DEF CleanupDelete, IInv, LiveHeld, OneRuns, Held, Holds, RecordsOwn, Latest, Busy
  <2> QED
    BY <1>3, <2>1, <2>2 DEF CleanupDelete
<1> QED
  BY <1>1, <1>2, <1>3

LEMMA NextIInv == IInv /\ [Next]_vars => IInv'
<1> SUFFICES ASSUME IInv, [Next]_vars PROVE IInv'
  OBVIOUS
<1>1. CASE UNCHANGED vars
  <2>1. TypeOK'
    BY <1>1 DEF vars, IInv, TypeOK
  <2> QED
    BY <1>1, <2>1 DEF vars, IInv, LiveHeld, OneRuns, Held, Holds, RecordsOwn, Latest, Busy
<1>2. CASE Next
  BY <1>2, ArriveIInv, ReserveIInv, ReserveFailsIInv, EndIInv, SaveIInv, ReleaseIInv,
     HandleIInv, ExpireIInv, CleanupIInv DEF Next
<1> QED
  BY <1>1, <1>2

LEMMA Invariance == Spec => []IInv
BY InitIInv, NextIInv, PTL DEF Spec

-----------------------------------------------------------------------------
(* The theorems. *)

\* The model is type correct, and a record holds a response exactly when it is
\* completed (platform/idempotency/store.go: Record).
THEOREM TypeCorrect == Spec => []TypeOK
<1>1. IInv => TypeOK
  BY DEF IInv
<1> QED
  BY <1>1, Invariance, PTL

\* The middleware never runs two handlers under one key at the same time, unless a
\* cleanup deleted the reservation, however many requests carry the key and whatever
\* store calls fail or lose their replies.
THEOREM HandlersExclusive == Spec => []Exclusive
<1>1. IInv => Exclusive
  BY DEF IInv, OneRuns, Exclusive, Busy
<1> QED
  BY <1>1, Invariance, PTL

\* What SaveResponse stored, and Reserve hands out for a replay, is what the latest
\* handler run under the key answered, to a request of the record's fingerprint.
THEOREM RepliesFaithful == Spec => []ReplayFaithful
<1>1. IInv => ReplayFaithful
  BY DEF IInv, RecordsOwn, Latest, ReplayFaithful
<1> QED
  BY <1>1, Invariance, PTL

\* The middleware answers a request with the response to a request of the same key and
\* content, and with no other; and of the same requester, if it could tell who sends.
THEOREM AnswersOwn == Spec => []AnswersOwnRequest
<1>1. ASSUME IInv, NEW p \in Request, req[p].pc = "answered", req[p].response # NoResponse
      PROVE  /\ req[p].response.key = req[p].key /\ req[p].response.print = req[p].print
             /\ req[p].sender \in Known => req[p].response.sender = req[p].sender
  <2>1. /\ req[p].response.key = req[p].key /\ req[p].response.print = req[p].print
        /\ SentBy(req[p].key, req[p].sender) /\ SentBy(req[p].key, req[p].response.sender)
    BY <1>1 DEF IInv, Held, Holds
  <2>2. ASSUME req[p].sender \in Known
        PROVE  req[p].response.sender = req[p].sender
    BY <2>1, <2>2, IdentityAssumption DEF SentBy, ExtractRequester
  <2> QED
    BY <2>1, <2>2
<1>2. IInv => AnswersOwnRequest
  BY <1>1 DEF AnswersOwnRequest
<1> QED
  BY <1>2, Invariance, PTL

\* Were every sender known when the middleware runs, as main.go does not see to, nobody
\* would be answered with the response to a request that someone else sent.
THEOREM KnownUsersApart == ASSUME Known = Identity PROVE Spec => []PerUser
<1>1. ASSUME IInv, NEW p \in Request, req[p].pc = "answered", req[p].response # NoResponse
      PROVE  req[p].response.sender = req[p].sender
  <2>1. /\ SentBy(req[p].key, req[p].sender) /\ SentBy(req[p].key, req[p].response.sender)
    BY <1>1 DEF IInv, Held, Holds
  <2> QED
    BY <2>1 DEF SentBy, ExtractRequester
<1>2. IInv => PerUser
  BY <1>1 DEF PerUser
<1> QED
  BY <1>2, Invariance, PTL

\* A request that arrived goes on only by its own reservation.
LEMMA ArrivedStep ==
    ASSUME IInv, [Next]_vars, NEW p \in Request, req[p].pc = "arrived",
           req'[p].pc # "arrived"
    PROVE  Reserve(p) \/ ReserveFails(p)
<1> SUFFICES ASSUME ~Reserve(p), ~ReserveFails(p)
             PROVE  req'[p].pc = "arrived"
  OBVIOUS
<1>1. req \in [Request -> Requests]
  BY TypeFacts DEF IInv
<1>2. ASSUME NEW q \in Request, NEW header \in Header, NEW sender \in Identity,
             NEW content \in Content, Arrive(q, header, sender, content)
      PROVE  req'[p].pc = "arrived"
  BY <1>1, <1>2 DEF Arrive
<1>3. ASSUME NEW q \in Request, Reserve(q) \/ ReserveFails(q)
      PROVE  req'[p].pc = "arrived"
  BY <1>1, <1>3 DEF Reserve, ReserveFails
<1>4. ASSUME NEW q \in Request,
             Panic(q) \/ SaveResponse(q) \/ SaveFails(q) \/ Release(q) \/ Done(q)
      PROVE  req'[p].pc = "arrived"
  BY <1>1, <1>4 DEF Panic, SaveResponse, Commit, SaveFails, Release, Done
<1>5. ASSUME NEW q \in Request, NEW v \in Body, Handle(q, v)
      PROVE  req'[p].pc = "arrived"
  BY <1>1, <1>5 DEF Handle
<1>6. ASSUME NEW k \in Key, Expire(k)
      PROVE  req'[p].pc = "arrived"
  BY <1>1, <1>6 DEF Expire, Requests
<1>7. CASE CleanupMemory \/ CleanupQuery \/ CleanupDelete \/ UNCHANGED vars
  BY <1>7 DEF CleanupMemory, CleanupQuery, CleanupDelete, vars
<1> QED
  BY <1>2, <1>3, <1>4, <1>5, <1>6, <1>7 DEF Next

\* Reserve lets no request run its handler whose key is held by an earlier one, be it
\* running or answered: a retry of a request that was carried out is not carried out.
THEOREM NeverRerun == Spec => NoRerun
<1> DEFINE Kept == \A p \in Request : req[p].pc = "arrived" /\ req'[p].pc = "handler"
                      => req[p].key \notin live \ swept
<1>1. IInv /\ [Next]_vars => Kept
  <2> SUFFICES ASSUME IInv, [Next]_vars, NEW p \in Request,
                      req[p].pc = "arrived", req'[p].pc = "handler"
               PROVE  req[p].key \notin live \ swept
    OBVIOUS
  <2>1. /\ req[p] \in Requests /\ req[p].early \in BOOLEAN /\ req[p].key \in Key
        /\ req[p].print \in Fingerprint /\ rec[req[p].key] \in Records
    BY RequestFacts DEF Requests
  <2>2. req \in [Request -> Requests]
    BY TypeFacts DEF IInv
  <2>3. ~ReserveFails(p)
    BY <2>1, <2>2 DEF ReserveFails, Requests
  <2>4. Reserve(p)
    BY <2>3, ArrivedStep
  <2>5. Outcome(rec[req[p].key], req[p].print, req[p].early) = "new"
    BY <2>1, <2>2, <2>4 DEF Reserve, Requests
  <2>6. rec[req[p].key].status = "absent" \/ rec[req[p].key].expired
    BY <2>1, <2>5, OutcomeFacts
  <2> QED
    BY <2>1, <2>6, NewIsFree
<1> QED
  BY <1>1, Invariance, PTL DEF Spec, NoRerun

\* A request that finds an expired record is not answered with what it holds, in
\* either store, unless it read the clock before the record expired.
THEOREM ExpiredStaysUnused == Spec => ExpiredNotReplayed
<1> DEFINE Kept == \A p \in Request :
                      req[p].pc = "arrived" /\ req'[p].pc = "answered" /\ rec[req[p].key].expired
                      => req[p].early \/ req'[p].response = NoResponse
<1>1. IInv /\ [Next]_vars => Kept
  <2> SUFFICES ASSUME IInv, [Next]_vars, NEW p \in Request, req[p].pc = "arrived",
                      req'[p].pc = "answered", rec[req[p].key].expired, ~req[p].early
               PROVE  req'[p].response = NoResponse
    OBVIOUS
  <2>1. /\ req[p] \in Requests /\ req[p].early \in BOOLEAN /\ req[p].key \in Key
        /\ req[p].print \in Fingerprint /\ rec[req[p].key] \in Records
        /\ req[p].response = NoResponse
    BY RequestFacts DEF Requests, Holds
  <2>2. req \in [Request -> Requests]
    BY TypeFacts DEF IInv
  <2>3. CASE ReserveFails(p)
    BY <2>1, <2>2, <2>3 DEF ReserveFails, Requests
  <2>4. CASE Reserve(p)
    <3>1. Outcome(rec[req[p].key], req[p].print, req[p].early) # "completed"
      BY <2>1, OutcomeFacts
    <3>2. \/ req' = [req EXCEPT ![p].pc = "handler"]
          \/ req' = [req EXCEPT ![p].pc = "answered", ![p].response = NoResponse]
      BY <2>4, <3>1 DEF Reserve
    <3> QED
      BY <2>1, <2>2, <3>2 DEF Requests
  <2> QED
    BY <2>3, <2>4, ArrivedStep
<1> QED
  BY <1>1, Invariance, PTL DEF Spec, ExpiredNotReplayed

=============================================================================
