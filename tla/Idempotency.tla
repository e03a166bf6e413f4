----------------------------- MODULE Idempotency -----------------------------
(***************************************************************************)
(* platform/idempotency: the middleware that runs a mutating request's     *)
(* handler once per idempotency key and replays its response, over the     *)
(* memory or the Firestore store, with the cleanup that main.go schedules. *)
(*                                                                         *)
(* Time is abstracted to whether a record has expired.  A record outlives  *)
(* the request that reserved it: requests end after 60 s (the router's     *)
(* Timeout), records after 24 h (DefaultTTL).                              *)
(***************************************************************************)
EXTENDS Integers, FiniteSets

CONSTANTS
    Header,         \* values of the header Idempotency-Key
    Identity,       \* who sends requests: users and services
    Known,          \* whom an authentication in front of the middleware names
    Content,        \* requests: method, URL, content type and body
    Request,        \* HTTP requests in flight
    Body,           \* what handlers answer
    Stores,         \* the stores that may be in use: "memory", "firestore"
    Cleanup,        \* whether main.go runs CleanupExpired
    BatchSize,      \* records one CleanupExpired deletes at most
    Failures        \* what may go wrong, see FailureKinds

None == "none"
Anonymous == "anonymous"
NoKey == <<>>
FailureKinds == {"lost_reply",  \* a store call takes effect but reports an error
                 "store_error", \* a store call fails
                 "panic"}       \* the handler panics, or its instance dies

ASSUME IdentityAssumption == Known \subseteq Identity \ {Anonymous}
ASSUME StoreAssumption == Stores \subseteq {"memory", "firestore"} /\ Cleanup \in BOOLEAN
ASSUME BatchAssumption == BatchSize \in Nat \ {0}
ASSUME FailureAssumption == Failures \subseteq FailureKinds

\* extractRequester: the identity that an authentication left in the request's context.
\* main.go installs the middleware in front of every authentication, so that the program
\* has Known = {}, and all its requests are anonymous here.
ExtractRequester(sender) == IF sender \in Known THEN sender ELSE Anonymous
Requester == {ExtractRequester(i) : i \in Identity}

\* A key belongs to its requester, who also is part of what a request is recognised by.
ScopedKey(header, requester) == <<header, requester>>
RequestFingerprint(content, requester) == <<content, requester>>

Key == {ScopedKey(h, i) : h \in Header, i \in Requester}
Fingerprint == {RequestFingerprint(c, i) : c \in Content, i \in Requester}

VARIABLES
    store,      \* the store in use
    rec,        \* [Key -> the stored record, or NoRecord]
    req,        \* [Request -> what the request is doing]
    sweep,      \* the keys that a CleanupExpired found and is about to delete
    live,       \* history: keys reserved, and neither expired nor released since
    lastRun,    \* history: per key, the response of the latest handler run
    swept       \* history: keys of which CleanupExpired deleted an unexpired record

vars == <<store, rec, req, sweep, live, lastRun, swept>>

\* Responses, told apart by the run that gave them: of which request, and (history) by
\* whom it was sent.
Responses == [key : Key, print : Fingerprint, sender : Identity, body : Body]
NoResponse == [key |-> NoKey, print |-> NoKey, sender |-> None, body |-> None]

NoRecord == [status |-> "absent", print |-> NoKey, response |-> NoResponse, expired |-> FALSE]
Idle == [pc |-> "idle", key |-> NoKey, print |-> NoKey, sender |-> None, early |-> FALSE,
         response |-> NoResponse]

Pending(f) == [status |-> "pending", print |-> f, response |-> NoResponse, expired |-> FALSE]
Completed(f, v) == [status |-> "completed", print |-> f, response |-> v, expired |-> FALSE]

\* Calls of the memory store do not fail.
May(failure) == failure \in Failures /\ (failure = "panic" \/ store = "firestore")

Init ==
    /\ store \in Stores
    /\ rec = [k \in Key |-> NoRecord]
    /\ req = [p \in Request |-> Idle]
    /\ sweep = {}
    /\ live = {}
    /\ lastRun = [k \in Key |-> NoResponse]
    /\ swept = {}

-----------------------------------------------------------------------------
\* Middleware: the key and the fingerprint are computed, and the clock is read.  (A
\* request without a key, and one whose body cannot be read, are refused before.)
Arrive(p, header, sender, content) ==
    LET requester == ExtractRequester(sender)
    IN  /\ req[p].pc = "idle"
        /\ req' = [req EXCEPT ![p] = [Idle EXCEPT !.pc = "arrived",
                                                  !.key = ScopedKey(header, requester),
                                                  !.print = RequestFingerprint(content, requester),
                                                  !.sender = sender]]
        /\ UNCHANGED <<store, rec, sweep, live, lastRun, swept>>

\* A plausible bug: a pending record is not told from none.
OutcomePendingIsNew(r, f, early) ==
    IF r.status # "completed" \/ (r.expired /\ ~early) THEN "new"
    ELSE IF r.print # f THEN "mismatch" ELSE "completed"

\* A plausible bug: the fingerprint is not compared.
OutcomeAnyPrint(r, f, early) ==
    IF r.status = "absent" \/ (r.expired /\ ~early) THEN "new" ELSE r.status

\* A plausible bug: the expiry is not looked at.
OutcomeEverlasting(r, f, early) ==
    IF r.status = "absent" THEN "new" ELSE IF r.print # f THEN "mismatch" ELSE r.status

\* What Reserve answers about record r to fingerprint f.  A request that read the
\* clock early takes a record that expired meanwhile for live.  The Firestore store
\* compares fingerprints before it looks at the expiry, the memory store after.
Outcome(r, f, early) ==
    LET over == r.expired /\ ~early
    IN  IF r.status = "absent" \/ (over /\ (store = "memory" \/ r.print = f)) THEN "new"
        ELSE IF r.print # f THEN "mismatch"
        ELSE r.status

\* writeStoredResponse: status, headers and body as they were stored.
StoredResponse(r) == r.response

Reserve(p) ==
    LET k == req[p].key
        f == req[p].print
        outcome == Outcome(rec[k], f, req[p].early)
    IN  /\ req[p].pc = "arrived"
        /\ IF outcome = "new"
           THEN /\ rec' = [rec EXCEPT ![k] = Pending(f)]
                /\ live' = live \cup {k}
                /\ req' = [req EXCEPT ![p].pc = "handler"]
           ELSE \* the stored response, or 409
                /\ req' = [req EXCEPT ![p].pc = "answered",
                              ![p].response = IF outcome = "completed"
                                              THEN StoredResponse(rec[k]) ELSE NoResponse]
                /\ UNCHANGED <<rec, live>>
        /\ UNCHANGED <<store, sweep, lastRun, swept>>

\* Reserve reports an error, and may have made the reservation all the same.
ReserveFails(p) ==
    LET k == req[p].key
        f == req[p].print
        applied == Outcome(rec[k], f, req[p].early) = "new" /\ May("lost_reply")
    IN  /\ req[p].pc = "arrived"
        /\ May("store_error") \/ applied
        /\ \/ UNCHANGED <<rec, live>>
           \/ applied /\ rec' = [rec EXCEPT ![k] = Pending(f)] /\ live' = live \cup {k}
        /\ req' = [req EXCEPT ![p].pc = "answered"]
        /\ UNCHANGED <<store, sweep, lastRun, swept>>

\* What the recorder holds of a handler that answers v: nothing has reached the client.
Recorded(p, v) ==
    [key |-> req[p].key, print |-> req[p].print, sender |-> req[p].sender, body |-> v]

\* The handler runs; its response goes to the recorder.
Handle(p, v) ==
    LET k == req[p].key
        response == Recorded(p, v)
    IN  /\ req[p].pc = "handler"
        /\ req' = [req EXCEPT ![p].pc = "save", ![p].response = response]
        /\ lastRun' = [lastRun EXCEPT ![k] = response]
        /\ UNCHANGED <<store, rec, sweep, live, swept>>

\* SaveResponse refuses a record of another fingerprint, and creates a missing one.
Savable(p) == LET r == rec[req[p].key] IN r.status = "absent" \/ r.print = req[p].print

Stored(p) ==
    LET k == req[p].key
    IN  /\ Savable(p)
        /\ rec' = [rec EXCEPT ![k] = Completed(req[p].print, req[p].response)]
        /\ live' = live \cup {k}

\* A plausible bug: what the recorder holds is saved in a defer, panic or not.
PanicSaves(p) ==
    /\ "panic" \in Failures
    /\ req[p].pc \in {"handler", "save", "release"}
    /\ rec' = [rec EXCEPT ![req[p].key] = Completed(req[p].print, NoResponse)]
    /\ req' = [req EXCEPT ![p].pc = "answered", ![p].response = NoResponse]
    /\ UNCHANGED <<store, sweep, live, lastRun, swept>>

\* The panic leaves the middleware; RecoveryMiddleware answers further out.
Panic(p) ==
    /\ "panic" \in Failures
    /\ req[p].pc \in {"handler", "save", "release"}
    /\ req' = [req EXCEPT ![p].pc = "answered", ![p].response = NoResponse]
    /\ UNCHANGED <<store, rec, sweep, live, lastRun, swept>>

\* The recorder's response is sent.
Commit(p) == req' = [req EXCEPT ![p].pc = "answered"]

\* The response is stored, then the recorder is committed to the client.
SaveResponse(p) ==
    /\ req[p].pc = "save"
    /\ Stored(p)
    /\ Commit(p)
    /\ UNCHANGED <<store, sweep, lastRun, swept>>

SaveFails(p) ==
    /\ req[p].pc = "save"
    /\ \/ /\ May("store_error") \/ ~Savable(p)
          /\ UNCHANGED <<rec, live>>
       \/ May("lost_reply") /\ Stored(p)
    /\ req' = [req EXCEPT ![p].pc = "release", ![p].response = NoResponse]
    /\ UNCHANGED <<store, sweep, lastRun, swept>>

\* store.Release deletes the record of the key, whatever it holds; its failure is
\* only logged.  The client is told that the store failed.
Release(p) ==
    LET k == req[p].key
    IN  /\ req[p].pc = "release"
        /\ \/ rec' = [rec EXCEPT ![k] = NoRecord] /\ live' = live \ {k}
           \/ May("store_error") /\ UNCHANGED <<rec, live>>
        /\ req' = [req EXCEPT ![p].pc = "answered"]
        /\ UNCHANGED <<store, sweep, lastRun, swept>>

\* The client has its answer; it may send the request again, with the same key.
Done(p) ==
    /\ req[p].pc = "answered"
    /\ req' = [req EXCEPT ![p] = Idle]
    /\ UNCHANGED <<store, rec, sweep, live, lastRun, swept>>

-----------------------------------------------------------------------------
InFlight(k) == \E p \in Request :
                  req[p].key = k /\ req[p].pc \in {"handler", "save", "release"}

\* The time to live of what was last reserved or saved under k is over.
Expire(k) ==
    /\ k \in live
    /\ ~InFlight(k)
    /\ live' = live \ {k}
    /\ rec' = [rec EXCEPT ![k].expired = (rec[k].status # "absent")]
    /\ req' = [p \in Request |-> IF req[p].pc = "arrived" /\ req[p].key = k
                                 THEN [req[p] EXCEPT !.early = TRUE] ELSE req[p]]
    /\ UNCHANGED <<store, sweep, lastRun, swept>>

Expired == {k \in Key : rec[k].expired}

\* A batch of expired records: all of them, or as many as the limit allows.
Batches == {S \in SUBSET Expired : /\ S # {}
                                   /\ \/ Cardinality(S) = BatchSize
                                      \/ S = Expired /\ Cardinality(S) < BatchSize}

Delete(S) == rec' = [k \in Key |-> IF k \in S THEN NoRecord ELSE rec[k]]

\* MemoryStore.CleanupExpired holds the store's mutex throughout.
CleanupMemory ==
    /\ Cleanup /\ store = "memory"
    /\ \E S \in Batches : Delete(S)
    /\ UNCHANGED <<store, req, sweep, live, lastRun, swept>>

\* FirestoreStore.CleanupExpired: the query,
CleanupQuery ==
    /\ Cleanup /\ store = "firestore"
    /\ sweep = {}
    /\ sweep' \in Batches
    /\ UNCHANGED <<store, rec, req, live, lastRun, swept>>

\* and, later, the batch that deletes what the query found; or the run fails.
CleanupDelete ==
    /\ sweep # {}
    /\ \/ /\ Delete(sweep)
          /\ swept' = swept \cup {k \in sweep : rec[k].status # "absent" /\ ~rec[k].expired}
       \/ May("store_error") /\ UNCHANGED <<rec, swept>>
    /\ sweep' = {}
    /\ UNCHANGED <<store, req, live, lastRun>>

Next ==
    \/ \E p \in Request, header \in Header, sender \in Identity, content \in Content :
          Arrive(p, header, sender, content)
    \/ \E p \in Request : \/ Reserve(p)
                          \/ ReserveFails(p)
                          \/ Panic(p)
                          \/ SaveResponse(p)
                          \/ SaveFails(p)
                          \/ Release(p)
                          \/ Done(p)
    \/ \E p \in Request, v \in Body : Handle(p, v)
    \/ \E k \in Key : Expire(k)
    \/ CleanupMemory
    \/ CleanupQuery
    \/ CleanupDelete

Spec == Init /\ [][Next]_vars

-----------------------------------------------------------------------------
(* Properties.                                                             *)

\* The types, and that a record holds a response exactly when it is completed.
TypeOK ==
    /\ rec \in [Key -> [status : {"absent", "pending", "completed"},
                        print : Fingerprint \cup {NoKey},
                        response : Responses \cup {NoResponse},
                        expired : BOOLEAN]]
    /\ \A k \in Key : rec[k].status = "completed" <=> rec[k].response # NoResponse
    /\ req \in [Request -> [pc : {"idle", "arrived", "handler", "save", "release", "answered"},
                            key : Key \cup {NoKey},
                            print : Fingerprint \cup {NoKey},
                            sender : Identity \cup {None},
                            early : BOOLEAN,
                            response : Responses \cup {NoResponse}]]
    /\ sweep \subseteq Key
    /\ live \subseteq Key
    /\ lastRun \in [Key -> Responses \cup {NoResponse}]
    /\ swept \subseteq Key

\* Two requests with the same key never run their handlers at the same time, even
\* when the store's answers to some of them are lost (unless a cleanup deleted the
\* reservation of the key meanwhile, see CleanupSparesLive).
Exclusive ==
    \A p, q \in Request :
        /\ req[p].key = req[q].key
        /\ {req[p].pc, req[q].pc} \subseteq {"handler", "save", "release"}
        => p = q \/ req[p].key \in swept

\* A key whose reservation was neither released nor has expired does not start
\* another handler: a retry of a request that was carried out, whether or not its
\* response could be saved and delivered, is not carried out again.
NoRerun ==
    [][\A p \in Request :
         req[p].pc = "arrived" /\ req'[p].pc = "handler"
         => req[p].key \notin live \ swept]_vars

\* A stored response is the answer of the latest handler run under its key, to a
\* request with the record's fingerprint: what is replayed is never stale.
ReplayFaithful ==
    \A k \in Key \ swept : rec[k].status = "completed" =>
        /\ rec[k].response = lastRun[k]
        /\ rec[k].response.print = rec[k].print

\* What a client is answered, by its own run or by a replay, is the response of a
\* handler run on a request with the same key header and the same content as its own,
\* and of the same requester if the middleware could tell who sends, even if a cleanup
\* interfered.  (For a program in which it cannot, see PerUser.)
AnswersOwnRequest ==
    \A p \in Request : req[p].pc = "answered" /\ req[p].response # NoResponse =>
        /\ req[p].response.key = req[p].key
        /\ req[p].response.print = req[p].print
        /\ req[p].sender \in Known => req[p].response.sender = req[p].sender

\* doc/api/tasks/011 promises that requests are deduplicated per user: nobody is
\* answered with the response to a request that someone else sent.
PerUser ==
    \A p \in Request : req[p].pc = "answered" /\ req[p].response # NoResponse =>
        req[p].response.sender = req[p].sender

\* The response of an expired record is not replayed, although the record stays
\* until a cleanup or the next reservation (only a request that read the clock just
\* before may still be answered with it).
ExpiredNotReplayed ==
    [][\A p \in Request :
         req[p].pc = "arrived" /\ req'[p].pc = "answered" /\ rec[req[p].key].expired
         => req[p].early \/ req'[p].response = NoResponse]_vars

\* firestore.go says that CleanupExpired removes expired records: it never removes
\* the record of a key that was reserved again since.
CleanupSparesLive == swept = {}

=============================================================================
