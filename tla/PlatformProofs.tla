---------------------------- MODULE PlatformProofs ----------------------------
(***************************************************************************)
(* Jobs, for any calls, keys, deliveries and faults: two jobs have the     *)
(* same idempotency key only if the calls that queued them overlapped, and *)
(* every job ends once faults cease.                                       *)
(*                                                                         *)
(* Provider, for any number of concurrent calls of Client and of Close: at *)
(* most one Firestore client is open, and it is the provider's or in the   *)
(* hands of the Close that ends it; and every call returns.                *)
(*                                                                         *)
(* Where a theorem is about what must happen, that a step whose guard      *)
(* holds can be taken is a hypothesis; TLC finds it true in every run.     *)
(***************************************************************************)
EXTENDS Jobs, Provider, FiniteSetTheorems, TLAPS

-----------------------------------------------------------------------------
(* The background job dispatcher.                                            *)

Deliveries == [pc : {"idle", "reading", "storing", "ending", "acking"},
               job : JobCall \cup {NoKey}, error : BOOLEAN]

Present(c) == jobs[c].status # "absent"

\* A job is that of its call, and is there from its Insert on: before it is published,
\* and while a worker has it.
JobOfCall ==
    \A c \in JobCall :
        /\ Present(c) => /\ queueing[c].pc \in {"publishing", "failing", "done"}
                         /\ jobs[c].key = queueing[c].key
        /\ queueing[c].pc \in {"publishing", "failing"} => Present(c)
        /\ topic[c] # "unsent" => Present(c)
JobOfDelivery ==
    \A w \in Worker : delivery[w].pc # "idle" => delivery[w].job \in JobCall /\ Present(delivery[w].job)

\* What had ended when a call began has ended.
EarlierDone == \A c, d \in JobCall : c \in queueing[d].earlier => queueing[c].pc = "done"

\* A call that is about to insert, or has, found no job of its key by an earlier call.
LookedUp ==
    \A d \in JobCall : (queueing[d].pc = "inserting" \/ Present(d)) /\ queueing[d].key \in JobKey =>
        \A c \in queueing[d].earlier : ~(Present(c) /\ jobs[c].key = queueing[d].key)

JInv == JobsTypeOK /\ JobOfCall /\ JobOfDelivery /\ EarlierDone /\ LookedUp

-----------------------------------------------------------------------------
LEMMA JobTypeFacts ==
    ASSUME JobsTypeOK
    PROVE  /\ jobs \in [JobCall -> Job \cup {NoJob}] /\ queueing \in [JobCall -> QueueCall]
           /\ delivery \in [Worker -> Deliveries]
           /\ topic \in [JobCall -> {"unsent", "waiting", "acked"}]
           /\ suggestions \subseteq JobCall /\ upserts \in BOOLEAN
           /\ jobFaults \in 0..MaxJobFaults /\ lapsed \subseteq JobCall
BY DEF JobsTypeOK, Deliveries

LEMMA JobTypesSuffice ==
    ASSUME jobs' \in [JobCall -> Job \cup {NoJob}], queueing' \in [JobCall -> QueueCall],
           delivery' \in [Worker -> Deliveries],
           topic' \in [JobCall -> {"unsent", "waiting", "acked"}],
           suggestions' \subseteq JobCall, upserts' \in BOOLEAN,
           jobFaults' \in 0..MaxJobFaults, lapsed' \subseteq JobCall
    PROVE  JobsTypeOK'
BY DEF JobsTypeOK, Deliveries

\* A fault is counted within its bound.
LEMMA FaultType ==
    ASSUME JobsTypeOK, JobFault \/ UNCHANGED jobFaults
    PROVE  jobFaults' \in 0..MaxJobFaults
BY JobAssumption DEF JobsTypeOK, JobFault

LEMMA JobFacts ==
    /\ NoJob.status = "absent"
    /\ \A j \in Job : j.status # "absent"
    /\ \A k \in JobKey \cup {NoKey} : NewJob(k) \in Job /\ NewJob(k).key = k
BY DEF NoJob, Job, JobStatus, NewJob

LEMMA InitJInv == JobsInit => JInv
<1> SUFFICES ASSUME JobsInit PROVE JInv
  OBVIOUS
<1>1. JobsTypeOK
  BY JobAssumption DEF JobsInit, JobsTypeOK, QueueCall, NoDelivery
<1>2. /\ \A c \in JobCall : ~Present(c) /\ queueing[c].pc = "idle" /\ queueing[c].earlier = {}
                            /\ topic[c] = "unsent"
      /\ \A w \in Worker : delivery[w].pc = "idle"
  BY JobFacts DEF JobsInit, Present, NoDelivery
<1> QED
  BY <1>1, <1>2 DEF JInv, JobOfCall, JobOfDelivery, EarlierDone, LookedUp

\* A call goes on: its key and what was earlier stay, what it inserts is its job, and
\* it inserts only after a look-up that found none.
LEMMA JobCallStep ==
    ASSUME JInv, NEW c \in JobCall,
           NEW pc \in {"inserting", "publishing", "failing", "done"},
           queueing' = [queueing EXCEPT ![c].pc = pc],
           queueing[c].pc \notin {"idle", "done"},
           jobs' \in [JobCall -> Job \cup {NoJob}],
           \A d \in JobCall : d # c => jobs'[d] = jobs[d],
           Present(c)' => pc # "inserting" /\ jobs'[c].key = queueing[c].key
                          /\ (Present(c) \/ queueing[c].pc = "inserting"),
           Present(c) => Present(c)',
           pc \in {"publishing", "failing"} => Present(c)',
           pc = "inserting" => KeyedJobs(queueing[c].key) = {},
           topic' \in [JobCall -> {"unsent", "waiting", "acked"}],
           \A d \in JobCall : topic'[d] # "unsent" => topic[d] # "unsent" \/ Present(d),
           JobFault \/ UNCHANGED jobFaults, lapsed' \subseteq JobCall,
           UNCHANGED <<suggestions, delivery, upserts>>
    PROVE  JInv'
<1>1. /\ queueing \in [JobCall -> QueueCall] /\ queueing[c] \in QueueCall
      /\ c \notin queueing[c].earlier
  BY JobTypeFacts DEF JInv, EarlierDone
<1>2. PICK u : u = [queueing[c] EXCEPT !.pc = pc]
  OBVIOUS
<1>3. u \in QueueCall /\ u.pc = pc /\ u.key = queueing[c].key /\ u.earlier = queueing[c].earlier
  BY <1>1, <1>2 DEF QueueCall
<1>4. \A d \in JobCall : IF d = c THEN queueing'[d] = u ELSE queueing'[d] = queueing[d]
  BY <1>1, <1>2
<1>5. JobsTypeOK'
  <2>1. queueing' \in [JobCall -> QueueCall]
    BY <1>1, <1>2, <1>3
  <2> QED
    BY <2>1, JobTypeFacts, FaultType, JobTypesSuffice DEF JInv
<1>6. \A d \in JobCall : d # c => (Present(d)' <=> Present(d))
  BY DEF Present
<1>7. JobOfCall'
  BY <1>3, <1>4, <1>6 DEF JInv, JobOfCall
<1>8. JobOfDelivery'
  BY <1>6 DEF JInv, JobOfDelivery
<1>9. EarlierDone'
  BY <1>1, <1>3, <1>4 DEF JInv, EarlierDone
<1>10. LookedUp'
  <2> SUFFICES ASSUME NEW d \in JobCall, queueing'[d].pc = "inserting" \/ Present(d)',
                      queueing'[d].key \in JobKey, NEW e \in queueing'[d].earlier,
                      Present(e)', jobs'[e].key = queueing'[d].key
               PROVE  FALSE
    BY DEF LookedUp
  <2>1. e \in JobCall /\ e \in queueing[d].earlier /\ queueing[e].pc = "done" /\ e # c
        /\ queueing'[d].key = queueing[d].key
    BY <1>1, <1>3, <1>4 DEF JInv, EarlierDone, QueueCall
  <2>2. Present(e) /\ jobs[e].key = queueing[d].key
    BY <1>6, <2>1
  <2>3. CASE queueing[d].pc = "inserting" \/ Present(d)
    BY <2>1, <2>2, <2>3 DEF JInv, LookedUp
  <2>4. CASE d = c /\ pc = "inserting"
    BY <2>1, <2>2, <2>4 DEF KeyedJobs, Present
  <2> QED
    BY <1>3, <1>4, <1>6, <2>3, <2>4
<1> QED
  BY <1>5, <1>7, <1>8, <1>9, <1>10 DEF JInv

LEMMA CallsJInv ==
    ASSUME JInv, NEW c \in JobCall, QueueStep(c) \/ QueueDies(c)
    PROVE  JInv'
<1>1. /\ jobs \in [JobCall -> Job \cup {NoJob}] /\ queueing[c] \in QueueCall
      /\ topic \in [JobCall -> {"unsent", "waiting", "acked"}] /\ lapsed \subseteq JobCall
      /\ queueing[c].key \in JobKey \cup {NoKey}
      /\ Present(c) => /\ queueing[c].pc \in {"publishing", "failing", "done"}
                       /\ jobs[c].key = queueing[c].key
      /\ queueing[c].pc \in {"publishing", "failing"} => Present(c)
  BY JobTypeFacts DEF JInv, QueueCall, JobOfCall
<1>2. CASE FindByIdempotencyKey(c)
  <2>1. PICK pc \in {"inserting", "done"} :
           /\ queueing' = [queueing EXCEPT ![c].pc = pc]
           /\ pc = "inserting" => KeyedJobs(queueing[c].key) = {}
    BY <1>2 DEF FindByIdempotencyKey
  <2>2. /\ queueing[c].pc = "looking"
        /\ JobFault \/ UNCHANGED jobFaults
        /\ UNCHANGED <<jobs, suggestions, topic, delivery, upserts, lapsed>>
    BY <1>2 DEF FindByIdempotencyKey
  <2>3. ~Present(c) /\ (Present(c)' <=> Present(c))
    BY <1>1, <2>2 DEF Present
  <2> QED
    BY <1>1, <2>1, <2>2, <2>3, JobCallStep
<1>3. CASE InsertJob(c)
  <2>1. PICK pc \in {"publishing", "done"} :
           /\ queueing' = [queueing EXCEPT ![c].pc = pc]
           /\ \/ jobs' = [jobs EXCEPT ![c] = NewJob(queueing[c].key)]
              \/ jobs' = jobs /\ pc = "done"
    BY <1>3 DEF InsertJob
  <2>2. /\ queueing[c].pc = "inserting"
        /\ JobFault \/ UNCHANGED jobFaults
        /\ lapsed' \subseteq JobCall
        /\ UNCHANGED <<suggestions, topic, delivery, upserts>>
    BY <1>1, <1>3 DEF InsertJob
  <2>3. ~Present(c) /\ \A d \in JobCall : d # c => jobs'[d] = jobs[d]
    BY <1>1, <2>1, <2>2
  <2>4. CASE jobs' = [jobs EXCEPT ![c] = NewJob(queueing[c].key)]
    <3>1. jobs'[c] = NewJob(queueing[c].key) /\ jobs'[c] \in Job
      BY <1>1, <2>4, JobFacts
    <3>2. Present(c)' /\ jobs'[c].key = queueing[c].key
      BY <1>1, <3>1, JobFacts DEF Present
    <3>3. jobs' \in [JobCall -> Job \cup {NoJob}]
      BY <1>1, <2>4, <3>1
    <3> QED
      BY <1>1, <2>1, <2>2, <2>3, <3>2, <3>3, JobCallStep
  <2>5. CASE jobs' = jobs /\ pc = "done"
    <3>1. ~Present(c)'
      BY <2>3, <2>5 DEF Present
    <3> QED
      BY <1>1, <2>1, <2>2, <2>3, <2>5, <3>1, JobCallStep
  <2> QED
    BY <2>1, <2>4, <2>5
<1>4. CASE Publish(c)
  <2>1. PICK pc \in {"failing", "done"} : queueing' = [queueing EXCEPT ![c].pc = pc]
    BY <1>4 DEF Publish
  <2>2. /\ queueing[c].pc = "publishing"
        /\ JobFault \/ UNCHANGED jobFaults
        /\ topic' \in {topic, [topic EXCEPT ![c] = "waiting"]}
        /\ UNCHANGED <<jobs, suggestions, delivery, upserts, lapsed>>
    BY <1>4 DEF Publish
  <2>3. Present(c) /\ Present(c)' /\ jobs'[c].key = queueing[c].key
    BY <1>1, <2>2 DEF Present
  <2>4. /\ topic' \in [JobCall -> {"unsent", "waiting", "acked"}]
        /\ \A d \in JobCall : topic'[d] # "unsent" => topic[d] # "unsent" \/ Present(d)
    BY <1>1, <2>2, <2>3
  <2> QED
    BY <1>1, <2>1, <2>2, <2>3, <2>4, JobCallStep
<1>5. CASE FailJob(c)
  <2>1. /\ queueing[c].pc = "failing"
        /\ JobFault \/ UNCHANGED jobFaults
        /\ jobs' \in {jobs, [jobs EXCEPT ![c].status = "failed"]}
        /\ lapsed' \subseteq JobCall
        /\ queueing' = [queueing EXCEPT ![c].pc = "done"]
        /\ UNCHANGED <<suggestions, topic, delivery, upserts>>
    BY <1>1, <1>5 DEF FailJob
  <2>2. Present(c) /\ jobs[c] \in Job /\ jobs[c].key = queueing[c].key
    BY <1>1, <2>1, JobFacts DEF Present
  <2>3. PICK j : j = [jobs[c] EXCEPT !.status = "failed"]
    OBVIOUS
  <2>4. j \in Job /\ j.key = jobs[c].key /\ j.status = "failed"
    BY <2>2, <2>3 DEF Job, JobStatus
  <2>5. jobs' \in {jobs, [jobs EXCEPT ![c] = j]}
    BY <2>1, <2>3
  <2>6. /\ jobs' \in [JobCall -> Job \cup {NoJob}] /\ jobs'[c] \in {jobs[c], j}
        /\ \A d \in JobCall : d # c => jobs'[d] = jobs[d]
    BY <1>1, <2>4, <2>5
  <2>7. Present(c)' /\ jobs'[c].key = queueing[c].key
    BY <2>2, <2>4, <2>6 DEF Present
  <2> QED
    BY <1>1, <2>1, <2>2, <2>6, <2>7, JobCallStep
<1>6. CASE QueueDies(c)
  <2>1. /\ queueing[c].pc \notin {"idle", "done"} /\ JobFault
        /\ queueing' = [queueing EXCEPT ![c].pc = "done"]
        /\ lapsed' \subseteq JobCall
        /\ UNCHANGED <<jobs, suggestions, topic, delivery, upserts>>
    BY <1>1, <1>6 DEF QueueDies
  <2>2. Present(c)' <=> Present(c)
    BY <2>1 DEF Present
  <2> QED
    BY <1>1, <2>1, <2>2, JobCallStep
<1> QED
  BY <1>2, <1>3, <1>4, <1>5, <1>6 DEF QueueStep

LEMMA QueueJInv ==
    ASSUME JInv, NEW c \in JobCall, NEW k \in JobKey \cup {NoKey}, QueueAISuggestion(c, k)
    PROVE  JInv'
<1>1. PICK u : u = [pc |-> IF k = NoKey THEN "inserting" ELSE "looking", key |-> k,
                    earlier |-> {d \in JobCall : queueing[d].pc = "done"}]
  OBVIOUS
<1>2. /\ u \in QueueCall /\ u.pc \in {"inserting", "looking"} /\ u.key = k
      /\ u.pc = "inserting" => k \notin JobKey
      /\ \A d \in u.earlier : d \in JobCall /\ queueing[d].pc = "done"
  BY <1>1, JobAssumption DEF QueueCall
<1>3. /\ queueing[c].pc = "idle" /\ queueing' = [queueing EXCEPT ![c] = u]
      /\ UNCHANGED <<jobs, suggestions, topic, delivery, upserts, jobFaults, lapsed>>
  BY <1>1 DEF QueueAISuggestion
<1>4. \A d \in JobCall : IF d = c THEN queueing'[d] = u ELSE queueing'[d] = queueing[d]
  BY <1>3, JobTypeFacts DEF JInv
<1>5. \A d \in JobCall : Present(d)' <=> Present(d)
  BY <1>3 DEF Present
<1>6. ~Present(c)
  BY <1>3 DEF JInv, JobOfCall
<1>7. JobsTypeOK'
  <2>1. queueing' \in [JobCall -> QueueCall]
    BY <1>2, <1>3, JobTypeFacts DEF JInv
  <2> QED
    BY <1>3, <2>1, JobTypeFacts, JobTypesSuffice DEF JInv
<1>8. JobOfCall' /\ JobOfDelivery'
  BY <1>2, <1>3, <1>4, <1>5, <1>6 DEF JInv, JobOfCall, JobOfDelivery
<1>9. EarlierDone'
  BY <1>2, <1>3, <1>4 DEF JInv, EarlierDone
<1>10. LookedUp'
  <2> SUFFICES ASSUME NEW d \in JobCall, queueing'[d].pc = "inserting" \/ Present(d)',
                      queueing'[d].key \in JobKey, NEW e \in queueing'[d].earlier,
                      Present(e)', jobs'[e].key = queueing'[d].key
               PROVE  FALSE
    BY DEF LookedUp
  <2>1. d # c
    BY <1>2, <1>4, <1>5, <1>6
  <2>2. queueing'[d] = queueing[d] /\ queueing[d] \in QueueCall
    BY <1>4, <2>1, JobTypeFacts DEF JInv
  <2>3. e \in JobCall /\ Present(e) /\ (Present(d)' <=> Present(d))
    BY <1>5, <2>2 DEF QueueCall
  <2> QED
    BY <1>3, <1>5, <2>2, <2>3 DEF JInv, LookedUp
<1> QED
  BY <1>7, <1>8, <1>9, <1>10 DEF JInv

\* A delivery goes on, or ends; a job that it updates stays there, with its key.
LEMMA WorkStepJInv ==
    ASSUME JInv, NEW w \in Worker, NEW u \in Deliveries, delivery' = [delivery EXCEPT ![w] = u],
           u.pc # "idle" => u.job \in JobCall /\ Present(u.job),
           jobs' \in [JobCall -> Job \cup {NoJob}],
           \A c \in JobCall : (Present(c)' <=> Present(c)) /\ jobs'[c].key = jobs[c].key,
           topic' \in [JobCall -> {"unsent", "waiting", "acked"}],
           \A c \in JobCall : topic'[c] # "unsent" => Present(c),
           JobFault \/ UNCHANGED jobFaults, suggestions' \subseteq JobCall,
           UNCHANGED <<queueing, upserts, lapsed>>
    PROVE  JInv'
<1>1. JobsTypeOK'
  <2>1. delivery' \in [Worker -> Deliveries]
    BY JobTypeFacts DEF JInv
  <2> QED
    BY <2>1, JobTypeFacts, FaultType, JobTypesSuffice DEF JInv
<1>2. JobOfCall'
  BY DEF JInv, JobOfCall
<1>3. JobOfDelivery'
  <2>1. \A x \in Worker : IF x = w THEN delivery'[x] = u ELSE delivery'[x] = delivery[x]
    BY JobTypeFacts DEF JInv
  <2> QED
    BY <2>1 DEF JInv, JobOfDelivery
<1>4. EarlierDone'
  BY DEF JInv, EarlierDone
<1>5. LookedUp'
  BY JobTypeFacts DEF JInv, LookedUp, QueueCall
<1> QED
  BY <1>1, <1>2, <1>3, <1>4, <1>5 DEF JInv

LEMMA WorkersJInv ==
    ASSUME JInv, NEW w \in Worker,
           WorkStep(w) \/ WorkerDies(w) \/ \E c \in JobCall : Deliver(w, c)
    PROVE  JInv'
<1>1. /\ delivery[w] \in Deliveries /\ NoDelivery \in Deliveries /\ NoDelivery.pc = "idle"
      /\ jobs \in [JobCall -> Job \cup {NoJob}] /\ suggestions \subseteq JobCall
      /\ topic \in [JobCall -> {"unsent", "waiting", "acked"}]
      /\ \A c \in JobCall : topic[c] # "unsent" => Present(c)
      /\ delivery[w].pc # "idle" => delivery[w].job \in JobCall /\ Present(delivery[w].job)
  BY JobTypeFacts DEF JInv, NoDelivery, Deliveries, JobOfCall, JobOfDelivery
<1>2. UNCHANGED jobs => \A c \in JobCall : (Present(c)' <=> Present(c)) /\ jobs'[c].key = jobs[c].key
  BY DEF Present
<1>3. ASSUME NEW c \in JobCall, Deliver(w, c)
      PROVE  JInv'
  <2>1. PICK error \in BOOLEAN :
           delivery' = [delivery EXCEPT ![w] = [pc |-> "reading", job |-> c, error |-> error]]
    BY <1>3 DEF Deliver
  <2>2. PICK u : u = [pc |-> "reading", job |-> c, error |-> error]
    OBVIOUS
  <2>3. u \in Deliveries /\ u.job = c /\ Present(c)
    BY <1>1, <1>3, <2>2 DEF Deliver, Deliveries
  <2>4. UNCHANGED <<jobs, suggestions, topic, queueing, upserts, jobFaults, lapsed>>
    BY <1>3 DEF Deliver
  <2> QED
    BY <1>1, <1>2, <2>1, <2>2, <2>3, <2>4, WorkStepJInv
<1>4. ASSUME Nack(w), NEW S \in SUBSET JobCall, suggestions' = S,
             jobs' \in [JobCall -> Job \cup {NoJob}],
             \A c \in JobCall : (Present(c)' <=> Present(c)) /\ jobs'[c].key = jobs[c].key,
             JobFault \/ UNCHANGED jobFaults, UNCHANGED <<topic, queueing, upserts, lapsed>>
      PROVE  JInv'
  BY <1>1, <1>4, WorkStepJInv DEF Nack
<1>5. CASE FindJob(w)
  <2>1. CASE JobFault /\ Nack(w)
    BY <1>1, <1>2, <1>4, <1>5, <2>1 DEF FindJob
  <2>2. ASSUME NEW pc \in {"ending", "storing"}, delivery' = [delivery EXCEPT ![w].pc = pc],
               UNCHANGED jobFaults
        PROVE  JInv'
    <3>1. PICK u : u = [delivery[w] EXCEPT !.pc = pc]
      OBVIOUS
    <3>2. u \in Deliveries /\ u.job = delivery[w].job
      BY <1>1, <3>1 DEF Deliveries
    <3> QED
      BY <1>1, <1>2, <1>5, <2>2, <3>1, <3>2, WorkStepJInv DEF FindJob
  <2> QED
    BY <1>5, <2>1, <2>2 DEF FindJob
<1>6. CASE InsertSuggestion(w)
  <2>1. /\ suggestions' \subseteq JobCall /\ UNCHANGED <<jobs, topic, queueing, upserts, lapsed>>
        /\ JobFault \/ UNCHANGED jobFaults
        /\ Nack(w) \/ delivery' = [delivery EXCEPT ![w].pc = "ending"]
        /\ delivery[w].pc = "storing"
    BY <1>1, <1>6 DEF InsertSuggestion
  <2>2. CASE Nack(w)
    BY <1>1, <1>2, <1>4, <2>1, <2>2
  <2>3. CASE delivery' = [delivery EXCEPT ![w].pc = "ending"]
    <3>1. PICK u : u = [delivery[w] EXCEPT !.pc = "ending"]
      OBVIOUS
    <3>2. u \in Deliveries /\ u.job = delivery[w].job
      BY <1>1, <3>1 DEF Deliveries
    <3> QED
      BY <1>1, <1>2, <2>1, <2>3, <3>1, <3>2, WorkStepJInv
  <2> QED
    BY <2>1, <2>2, <2>3
<1>7. CASE UpdateStatus(w)
  <2>1. PICK c : c = delivery[w].job
    OBVIOUS
  <2>2. /\ c \in JobCall /\ Present(c) /\ jobs[c] \in Job /\ delivery[w].pc = "ending"
        /\ UNCHANGED <<suggestions, topic, queueing, upserts, lapsed>>
    BY <1>1, <1>7, <2>1, JobFacts DEF UpdateStatus, Present
  <2>3. PICK j : j = IF delivery[w].error THEN [jobs[c] EXCEPT !.status = "failed"]
                     ELSE [jobs[c] EXCEPT !.status = "succeeded", !.result = TRUE]
    OBVIOUS
  <2>4. j \in Job /\ j.key = jobs[c].key
    BY <2>2, <2>3 DEF Job, JobStatus
  <2>5. /\ jobs' \in {jobs, [jobs EXCEPT ![c] = j]}
        /\ \/ delivery' = [delivery EXCEPT ![w].pc = "acking"] /\ UNCHANGED jobFaults
           \/ JobFault /\ Nack(w)
    BY <1>7, <2>1, <2>3 DEF UpdateStatus
  <2>6. /\ jobs' \in [JobCall -> Job \cup {NoJob}]
        /\ \A d \in JobCall : d # c => jobs'[d] = jobs[d]
        /\ jobs'[c] \in {jobs[c], j}
    BY <1>1, <2>2, <2>4, <2>5
  <2>7. \A d \in JobCall : (Present(d)' <=> Present(d)) /\ jobs'[d].key = jobs[d].key
    BY <2>2, <2>4, <2>6, JobFacts DEF Present
  <2>8. CASE JobFault /\ Nack(w)
    BY <1>1, <1>4, <2>2, <2>6, <2>7, <2>8
  <2>9. CASE delivery' = [delivery EXCEPT ![w].pc = "acking"] /\ UNCHANGED jobFaults
    <3>1. PICK u : u = [delivery[w] EXCEPT !.pc = "acking"]
      OBVIOUS
    <3>2. u \in Deliveries /\ u.job = delivery[w].job
      BY <1>1, <3>1 DEF Deliveries
    <3> QED
      BY <1>1, <2>2, <2>6, <2>7, <2>9, <3>1, <3>2, WorkStepJInv
  <2> QED
    BY <2>5, <2>8, <2>9
<1>8. CASE Ack(w)
  <2>1. /\ delivery[w].pc = "acking" /\ topic' = [topic EXCEPT ![delivery[w].job] = "acked"]
        /\ delivery' = [delivery EXCEPT ![w] = NoDelivery]
        /\ UNCHANGED <<jobs, suggestions, queueing, upserts, jobFaults, lapsed>>
    BY <1>8 DEF Ack
  <2>2. /\ topic' \in [JobCall -> {"unsent", "waiting", "acked"}]
        /\ \A c \in JobCall : topic'[c] # "unsent" => Present(c)
    BY <1>1, <2>1
  <2> QED
    BY <1>1, <1>2, <2>1, <2>2, WorkStepJInv
<1>9. CASE WorkerDies(w)
  BY <1>1, <1>2, <1>4, <1>9 DEF WorkerDies
<1> QED
  BY <1>3, <1>5, <1>6, <1>7, <1>8, <1>9 DEF WorkStep

LEMMA NextJInv == JInv /\ [JobsNext]_jobVars => JInv'
<1> SUFFICES ASSUME JInv, [JobsNext]_jobVars PROVE JInv'
  OBVIOUS
<1>1. CASE UNCHANGED jobVars
  BY <1>1 DEF jobVars, JInv, JobsTypeOK, JobOfCall, JobOfDelivery, EarlierDone, LookedUp, Present
<1>2. CASE JobsNext
  BY <1>2, QueueJInv, CallsJInv, WorkersJInv DEF JobsNext
<1> QED
  BY <1>1, <1>2

LEMMA JobsInvariance == JobsSpec => []JInv
BY InitJInv, NextJInv, PTL DEF JobsSpec

-----------------------------------------------------------------------------
(* The theorems. *)

\* Jobs, messages and calls keep their types, and faults their bound
\* (services/background_job_dispatcher.go).
THEOREM JobsTyped == JobsSpec => []JobsTypeOK
<1>1. JInv => JobsTypeOK
  BY DEF JInv
<1> QED
  BY <1>1, JobsInvariance, PTL

\* QueueAISuggestion makes no second job for a key whose first call has ended, be it
\* with a job, with an error after the job was stored, or with its death.
THEOREM RetriesGetTheJob == JobsSpec => []OneJobPerKey
<1>1. ASSUME JInv PROVE OneJobPerKey
  <2> SUFFICES ASSUME NEW k \in JobKey, NEW c \in KeyedJobs(k), NEW d \in KeyedJobs(k)
               PROVE  c \notin queueing[d].earlier
    BY DEF OneJobPerKey
  <2>1. /\ c \in JobCall /\ d \in JobCall /\ Present(c) /\ Present(d)
        /\ jobs[c].key = k /\ jobs[d].key = k
    BY DEF KeyedJobs, Present
  <2> QED
    BY <1>1, <2>1 DEF JInv, JobOfCall, LookedUp
<1> QED
  BY <1>1, JobsInvariance, PTL

-----------------------------------------------------------------------------
(* Every queued job ends.                                                    *)

Queued(c) == jobs[c].status = "queued"
Conflicting(c) == c \in suggestions /\ ~upserts
\* The cases that JobsEnd speaks of.
Settled(c) == ~Queued(c) \/ c \in lapsed \/ Conflicting(c)

\* A queued job is in the hands of its call or of its message, unless the call lapsed; and
\* a message is acknowledged only after its job has ended.
JobOwed ==
    /\ \A c \in JobCall : Queued(c) =>
          c \in lapsed \/ queueing[c].pc \in {"publishing", "failing"} \/ topic[c] = "waiting"
    /\ \A w \in Worker : delivery[w].pc = "acking" => ~Queued(delivery[w].job)
JEndInv == JInv /\ JobOwed

\* What a step of the call c does.
LEMMA QueueingStep ==
    ASSUME JInv, NEW c \in JobCall, QueueStep(c) \/ QueueDies(c)
    PROVE  /\ \A d \in JobCall : d # c =>
                 jobs'[d] = jobs[d] /\ topic'[d] = topic[d] /\ queueing'[d] = queueing[d]
           /\ queueing[c].pc \in {"looking", "inserting", "publishing", "failing"}
           /\ lapsed \subseteq lapsed' /\ UNCHANGED <<suggestions, delivery, upserts>>
           /\ \A d \in JobCall : topic'[d] = topic[d] \/ topic'[d] = "waiting"
           /\ queueing[c].pc = "looking" => jobs'[c] = jobs[c] /\ topic'[c] = topic[c]
           /\ queueing[c].pc = "inserting" => \/ queueing'[c].pc = "publishing"
                                              \/ c \in lapsed'
           /\ queueing[c].pc = "publishing" =>
                 /\ jobs'[c] = jobs[c]
                 /\ \/ topic'[c] = "waiting"
                    \/ queueing'[c].pc = "failing" /\ jobFaults' # jobFaults
                    \/ c \in lapsed' /\ jobFaults' # jobFaults
           /\ queueing[c].pc = "failing" =>
                 /\ topic'[c] = topic[c]
                 /\ ~Queued(c)' \/ (c \in lapsed' /\ jobFaults' # jobFaults)
           /\ Queued(c)' => Queued(c) \/ queueing[c].pc = "inserting"
<1>1. /\ jobs \in [JobCall -> Job \cup {NoJob}] /\ queueing \in [JobCall -> QueueCall]
      /\ topic \in [JobCall -> {"unsent", "waiting", "acked"}] /\ jobFaults \in Int
      /\ queueing[c] \in QueueCall
      /\ queueing[c].pc \in {"publishing", "failing"} => jobs[c] \in Job
  BY JobTypeFacts, JobAssumption DEF JInv, JobOfCall, Present, NoJob
<1>2. JobFault => jobFaults' # jobFaults
  BY <1>1 DEF JobFault
<1>3. CASE FindByIdempotencyKey(c)
  BY <1>1, <1>3 DEF FindByIdempotencyKey, Queued
<1>4. CASE InsertJob(c)
  <2>1. /\ queueing[c].pc = "inserting" /\ UNCHANGED <<suggestions, topic, delivery, upserts>>
        /\ \/ queueing' = [queueing EXCEPT ![c].pc = "publishing"] /\ UNCHANGED lapsed
           \/ queueing' = [queueing EXCEPT ![c].pc = "done"] /\ lapsed' = lapsed \cup {c}
        /\ jobs' = jobs \/ jobs' = [jobs EXCEPT ![c] = NewJob(queueing[c].key)]
    BY <1>4 DEF InsertJob
  <2>2. \A d \in JobCall : d # c => jobs'[d] = jobs[d]
    BY <1>1, <2>1
  <2>3. \/ queueing'[c].pc = "publishing" /\ UNCHANGED lapsed
        \/ queueing'[c].pc = "done" /\ lapsed' = lapsed \cup {c}
    BY <1>1, <2>1 DEF QueueCall
  <2>4. \A d \in JobCall : d # c => queueing'[d] = queueing[d]
    BY <1>1, <2>1
  <2> QED
    BY <2>1, <2>2, <2>3, <2>4
<1>5. CASE Publish(c)
  <2>1. /\ queueing[c].pc = "publishing"
        /\ UNCHANGED <<jobs, suggestions, delivery, upserts, lapsed>>
        /\ \/ /\ queueing' = [queueing EXCEPT ![c].pc = "done"]
              /\ topic' = [topic EXCEPT ![c] = "waiting"]
           \/ /\ queueing' = [queueing EXCEPT ![c].pc = "failing"] /\ JobFault
              /\ topic' \in {topic, [topic EXCEPT ![c] = "waiting"]}
    BY <1>5 DEF Publish
  <2>2. \/ topic'[c] = "waiting"
        \/ queueing'[c].pc = "failing" /\ jobFaults' # jobFaults
    BY <1>1, <1>2, <2>1 DEF QueueCall
  <2>3. /\ \A d \in JobCall : d # c => topic'[d] = topic[d] /\ queueing'[d] = queueing[d]
        /\ topic'[c] = topic[c] \/ topic'[c] = "waiting"
    BY <1>1, <2>1
  <2> QED
    BY <2>1, <2>2, <2>3 DEF Queued
<1>6. CASE FailJob(c)
  BY <1>1, <1>2, <1>6 DEF FailJob, Queued, Job
<1>7. CASE QueueDies(c)
  BY <1>1, <1>2, <1>7 DEF QueueDies, Queued, QueueCall
<1> QED
  BY <1>3, <1>4, <1>5, <1>6, <1>7 DEF QueueStep

\* What a step of the worker w does, about the job c.
LEMMA WorkingStep ==
    ASSUME JInv, NEW w \in Worker, NEW c, c = delivery[w].job, WorkStep(w) \/ WorkerDies(w)
    PROVE  /\ \A v \in Worker : v # w => delivery'[v] = delivery[v]
           /\ UNCHANGED <<queueing, lapsed, upserts>> /\ suggestions \subseteq suggestions'
           /\ c \in JobCall /\ delivery[w].pc \in {"reading", "storing", "ending", "acking"}
           /\ \A d \in JobCall : Queued(d)' => Queued(d)
           /\ \A d \in JobCall : topic'[d] # topic[d] => d = c /\ delivery[w].pc = "acking"
           /\ delivery'[w].pc = "idle" \/ delivery'[w].job = c
           /\ delivery[w].pc = "reading" => \/ delivery'[w].pc \in {"storing", "ending"}
                                            \/ delivery'[w].pc = "idle" /\ jobFaults' # jobFaults
           /\ delivery[w].pc = "storing" => \/ delivery'[w].pc = "ending"
                                            \/ delivery'[w].pc = "idle" /\ Conflicting(c)'
                                            \/ delivery'[w].pc = "idle" /\ jobFaults' # jobFaults
           /\ delivery[w].pc = "ending" => \/ delivery'[w].pc = "acking" /\ ~Queued(c)'
                                           \/ delivery'[w].pc = "idle" /\ jobFaults' # jobFaults
           /\ delivery[w].pc = "acking" => delivery'[w].pc = "idle"
<1>1. /\ jobs \in [JobCall -> Job \cup {NoJob}] /\ delivery \in [Worker -> Deliveries]
      /\ topic \in [JobCall -> {"unsent", "waiting", "acked"}] /\ jobFaults \in Int
      /\ delivery[w] \in Deliveries
      /\ delivery[w].pc # "idle" => c \in JobCall /\ jobs[c] \in Job
  BY JobTypeFacts, JobAssumption DEF JInv, JobOfDelivery, Present, NoJob
<1>2. JobFault => jobFaults' # jobFaults
  BY <1>1 DEF JobFault
<1>3. Nack(w) => delivery'[w].pc = "idle" /\ \A v \in Worker : v # w => delivery'[v] = delivery[v]
  BY <1>1 DEF Nack, NoDelivery
<1>4. CASE FindJob(w)
  BY <1>1, <1>2, <1>3, <1>4 DEF FindJob, Queued, Deliveries
<1>5. CASE InsertSuggestion(w)
  <2>1. /\ delivery[w].pc = "storing" /\ UNCHANGED <<jobs, topic, queueing, upserts, lapsed>>
        /\ suggestions \subseteq suggestions'
        /\ \/ delivery' = [delivery EXCEPT ![w].pc = "ending"]
           \/ Nack(w) /\ Conflicting(c)'
           \/ Nack(w) /\ JobFault
    BY <1>5 DEF InsertSuggestion, Conflicting
  <2>2. CASE delivery' = [delivery EXCEPT ![w].pc = "ending"]
    BY <1>1, <2>1, <2>2 DEF Queued, Deliveries
  <2>3. CASE Nack(w) /\ Conflicting(c)'
    BY <1>1, <1>3, <2>1, <2>3 DEF Queued
  <2>4. CASE Nack(w) /\ JobFault
    BY <1>1, <1>2, <1>3, <2>1, <2>4 DEF Queued
  <2> QED
    BY <2>1, <2>2, <2>3, <2>4
<1>6. CASE UpdateStatus(w)
  BY <1>1, <1>2, <1>3, <1>6 DEF UpdateStatus, Queued, Job, Deliveries
<1>7. CASE Ack(w)
  BY <1>1, <1>7 DEF Ack, Queued, NoDelivery
<1>8. CASE WorkerDies(w)
  BY <1>1, <1>2, <1>3, <1>8 DEF WorkerDies, Queued, Deliveries
<1> QED
  BY <1>4, <1>5, <1>6, <1>7, <1>8 DEF WorkStep

\* The other steps: a call begins, a message is delivered.
LEMMA BeginningStep ==
    ASSUME JInv, [JobsNext]_jobVars
    PROVE  \/ \E c \in JobCall : QueueStep(c) \/ QueueDies(c)
           \/ \E w \in Worker : WorkStep(w) \/ WorkerDies(w)
           \/ /\ UNCHANGED <<jobs, suggestions, topic, upserts, lapsed>>
              /\ \A c \in JobCall : queueing[c].pc # "idle" => queueing'[c] = queueing[c]
              /\ \A w \in Worker : \/ delivery'[w] = delivery[w]
                                   \/ delivery[w].pc = "idle" /\ delivery'[w].pc = "reading"
<1>1. queueing \in [JobCall -> QueueCall] /\ delivery \in [Worker -> Deliveries]
  BY JobTypeFacts DEF JInv
<1>2. ASSUME NEW c \in JobCall, NEW k \in JobKey \cup {NoKey}, QueueAISuggestion(c, k)
      PROVE  /\ UNCHANGED <<jobs, suggestions, topic, upserts, lapsed, delivery>>
             /\ \A d \in JobCall : queueing[d].pc # "idle" => queueing'[d] = queueing[d]
  BY <1>1, <1>2 DEF QueueAISuggestion
<1>3. ASSUME NEW w \in Worker, NEW c \in JobCall, Deliver(w, c)
      PROVE  /\ UNCHANGED <<jobs, suggestions, topic, upserts, lapsed, queueing>>
             /\ \A v \in Worker : \/ delivery'[v] = delivery[v]
                                  \/ delivery[v].pc = "idle" /\ delivery'[v].pc = "reading"
  BY <1>1, <1>3 DEF Deliver
<1>4. CASE UNCHANGED jobVars
  BY <1>4 DEF jobVars
<1> QED
  BY <1>2, <1>3, <1>4 DEF JobsNext

LEMMA JobOwedInvariance == JobsSpec => []JEndInv
<1>1. JobsInit => JobOwed
  BY JobFacts DEF JobsInit, JobOwed, Queued, NoDelivery
<1>2. JEndInv /\ [JobsNext]_jobVars => JobOwed'
  <2> SUFFICES ASSUME JEndInv, [JobsNext]_jobVars PROVE JobOwed'
    OBVIOUS
  <2>1. /\ JInv
        /\ \A c \in JobCall : Queued(c) =>
              c \in lapsed \/ queueing[c].pc \in {"publishing", "failing"} \/ topic[c] = "waiting"
        /\ \A w \in Worker : delivery[w].pc = "acking" => ~Queued(delivery[w].job)
    BY DEF JEndInv, JobOwed
  <2>2. ASSUME NEW c \in JobCall, QueueStep(c) \/ QueueDies(c) PROVE JobOwed'
    <3>1. ASSUME NEW d \in JobCall, Queued(d)'
          PROVE  d \in lapsed' \/ queueing'[d].pc \in {"publishing", "failing"} \/ topic'[d] = "waiting"
      <4>1. CASE d # c
        <5>1. jobs'[d] = jobs[d] /\ topic'[d] = topic[d] /\ queueing'[d] = queueing[d] /\ lapsed \subseteq lapsed'
          BY <2>1, <2>2, <4>1, QueueingStep
        <5> QED
          BY <2>1, <3>1, <5>1 DEF Queued
      <4>2. CASE d = c
        <5>1. queueing[c].pc = "looking" => ~Queued(c)
          BY <2>1 DEF JInv, JobOfCall, Present, Queued
        <5> QED
          BY <2>1, <2>2, <3>1, <4>2, <5>1, QueueingStep
      <4> QED
        BY <4>1, <4>2
    <3>2. ASSUME NEW w \in Worker, delivery'[w].pc = "acking" PROVE ~Queued(delivery[w].job)'
      <4>1. UNCHANGED delivery /\ delivery[w].job \in JobCall /\ Present(delivery[w].job)
        BY <2>1, <2>2, <3>2, QueueingStep DEF JInv, JobOfDelivery
      <4>2. ~Queued(delivery[w].job) /\ Present(delivery[w].job)
        BY <2>1, <3>2, <4>1
      <4>3. PICK d \in JobCall : d = delivery[w].job
        BY <4>1
      <4>4. ~Queued(d)'
        <5>1. d # c => jobs'[d] = jobs[d]
          BY <2>1, <2>2, QueueingStep
        <5>2. queueing[c].pc = "inserting" => ~Present(c)
          BY <2>1 DEF JInv, JobOfCall
        <5>3. Queued(c)' => Queued(c) \/ queueing[c].pc = "inserting"
          BY <2>1, <2>2, QueueingStep
        <5> QED
          BY <4>2, <4>3, <5>1, <5>2, <5>3 DEF Queued
      <4> QED
        BY <4>1, <4>3, <4>4
    <3> QED
      BY <3>1, <3>2 DEF JobOwed
  <2>3. ASSUME NEW w \in Worker, WorkStep(w) \/ WorkerDies(w) PROVE JobOwed'
    <3>1. PICK c : c = delivery[w].job
      OBVIOUS
    <3>2. ASSUME NEW d \in JobCall, Queued(d)'
          PROVE  d \in lapsed' \/ queueing'[d].pc \in {"publishing", "failing"} \/ topic'[d] = "waiting"
      <4>1. Queued(d) /\ UNCHANGED <<lapsed, queueing>>
        BY <2>1, <2>3, <3>1, <3>2, WorkingStep
      <4>2. topic'[d] = topic[d]
        BY <2>1, <2>3, <3>1, <4>1, WorkingStep
      <4> QED
        BY <2>1, <4>1, <4>2
    <3>3. ASSUME NEW v \in Worker, delivery'[v].pc = "acking" PROVE ~Queued(delivery[v].job)'
      <4>1. CASE v = w
        BY <2>1, <2>3, <3>1, <3>3, <4>1, WorkingStep
      <4>2. CASE v # w
        <5>1. delivery'[v] = delivery[v]
          BY <2>1, <2>3, <3>1, <4>2, WorkingStep
        <5>2. delivery[v].job \in JobCall /\ ~Queued(delivery[v].job)
          BY <2>1, <3>3, <5>1 DEF JInv, JobOfDelivery
        <5>3. \A d \in JobCall : Queued(d)' => Queued(d)
          BY <2>1, <2>3, <3>1, WorkingStep
        <5>4. PICK d \in JobCall : d = delivery[v].job
          BY <5>2
        <5> QED
          BY <5>1, <5>2, <5>3, <5>4
      <4> QED
        BY <4>1, <4>2
    <3> QED
      BY <3>2, <3>3 DEF JobOwed
  <2>4. CASE /\ UNCHANGED <<jobs, suggestions, topic, upserts, lapsed>>
             /\ \A c \in JobCall : queueing[c].pc # "idle" => queueing'[c] = queueing[c]
             /\ \A w \in Worker : \/ delivery'[w] = delivery[w]
                                  \/ delivery[w].pc = "idle" /\ delivery'[w].pc = "reading"
    BY <2>1, <2>4 DEF JobOwed, Queued
  <2> QED
    BY <2>1, <2>2, <2>3, <2>4, BeginningStep
<1> QED
  BY <1>1, <1>2, JobsInvariance, PTL DEF JobsSpec, JEndInv

LEMMA JobsFairnessOf ==
    /\ \A c \in JobCall : (JobsFairness => QueueFairness(c)) /\ (JobsEnabled => QueueEnabled(c))
    /\ \A w \in Worker : (JobsFairness => WorkFairness(w)) /\ (JobsEnabled => WorkEnabled(w))
BY DEF JobsFairness, JobsEnabled

LEMMA JobsFairnessLasts == JobsFairness => []JobsFairness
<1>1. /\ \A c \in JobCall : QueueFairness(c) => []QueueFairness(c)
      /\ \A w \in Worker : WorkFairness(w) => []WorkFairness(w)
  <2>1. ASSUME NEW c \in JobCall PROVE QueueFairness(c) => []QueueFairness(c)
    BY PTL DEF QueueFairness
  <2>2. ASSUME NEW w \in Worker PROVE WorkFairness(w) => []WorkFairness(w)
    BY PTL DEF WorkFairness
  <2> QED
    BY <2>1, <2>2
<1>2. /\ (\A c \in JobCall : []QueueFairness(c)) => [](\A c \in JobCall : QueueFairness(c))
      /\ (\A w \in Worker : []WorkFairness(w)) => [](\A w \in Worker : WorkFairness(w))
  OBVIOUS
<1>3. JobsFairness => [](\A c \in JobCall : QueueFairness(c)) /\ [](\A w \in Worker : WorkFairness(w))
  BY <1>1, <1>2 DEF JobsFairness
<1>4. JobsFairness <=> (\A c \in JobCall : QueueFairness(c)) /\ (\A w \in Worker : WorkFairness(w))
  BY DEF JobsFairness
<1> QED
  BY <1>3, <1>4, PTL

\* The faults are bounded: they cease.
NoFaults == [][jobFaults' = jobFaults]_jobVars

LEMMA Faultless == [jobFaults' = jobFaults]_jobVars => jobFaults' = jobFaults
BY DEF jobVars

Working == []JEndInv /\ [][JobsNext]_jobVars /\ []JobsFairness /\ []JobsEnabled

WorkAt(w, s) == delivery[w].pc = s
WorkOn(w, c, s) == delivery[w].pc = s /\ delivery[w].job = c
CallIn(c, s) == queueing[c].pc = s
Sent(c) == topic[c] = "waiting"
Received(c) == \E w \in Worker : WorkOn(w, c, "reading")

LEMMA WorkGoesOn ==
    ASSUME NEW w \in Worker, JEndInv, [JobsNext]_jobVars
    PROVE  /\ WorkAt(w, "reading") =>
                 WorkAt(w, "reading")' \/ WorkAt(w, "storing")' \/ WorkAt(w, "ending")' \/ WorkAt(w, "idle")'
           /\ WorkAt(w, "storing") => WorkAt(w, "storing")' \/ WorkAt(w, "ending")' \/ WorkAt(w, "idle")'
           /\ WorkAt(w, "ending") => WorkAt(w, "ending")' \/ WorkAt(w, "acking")' \/ WorkAt(w, "idle")'
           /\ WorkAt(w, "acking") => WorkAt(w, "acking")' \/ WorkAt(w, "idle")'
           /\ WorkStep(w) =>
                 /\ WorkAt(w, "reading") => ~WorkAt(w, "reading")'
                 /\ WorkAt(w, "storing") => ~WorkAt(w, "storing")'
                 /\ WorkAt(w, "ending") => ~WorkAt(w, "ending")'
                 /\ WorkAt(w, "acking") => WorkAt(w, "idle")'
<1> USE DEF WorkAt
<1>1. JInv
  BY DEF JEndInv
<1>2. ASSUME WorkStep(w) \/ WorkerDies(w)
      PROVE  /\ delivery[w].pc = "reading" => delivery'[w].pc \in {"storing", "ending", "idle"}
             /\ delivery[w].pc = "storing" => delivery'[w].pc \in {"ending", "idle"}
             /\ delivery[w].pc = "ending" => delivery'[w].pc \in {"acking", "idle"}
             /\ delivery[w].pc = "acking" => delivery'[w].pc = "idle"
  BY <1>1, <1>2, WorkingStep
<1>3. ASSUME ~(WorkStep(w) \/ WorkerDies(w))
      PROVE  delivery'[w] = delivery[w] \/ delivery[w].pc = "idle"
  <2>1. ASSUME NEW v \in Worker, WorkStep(v) \/ WorkerDies(v) PROVE delivery'[w] = delivery[w]
    BY <1>1, <1>3, <2>1, WorkingStep
  <2>2. ASSUME NEW c \in JobCall, QueueStep(c) \/ QueueDies(c) PROVE delivery'[w] = delivery[w]
    BY <1>1, <2>2, QueueingStep
  <2> QED
    BY <1>1, <2>1, <2>2, BeginningStep
<1> QED
  BY <1>2, <1>3

\* A worker is free again and again.
LEMMA WorkerFree ==
    ASSUME NEW w \in Worker
    PROVE  Working => []<>WorkAt(w, "idle")
<1>1. JEndInv /\ [JobsNext]_jobVars =>
          /\ WorkAt(w, "reading") =>
                WorkAt(w, "reading")' \/ WorkAt(w, "storing")' \/ WorkAt(w, "ending")' \/ WorkAt(w, "idle")'
          /\ WorkAt(w, "storing") => WorkAt(w, "storing")' \/ WorkAt(w, "ending")' \/ WorkAt(w, "idle")'
          /\ WorkAt(w, "ending") => WorkAt(w, "ending")' \/ WorkAt(w, "acking")' \/ WorkAt(w, "idle")'
          /\ WorkAt(w, "acking") => WorkAt(w, "acking")' \/ WorkAt(w, "idle")'
  BY WorkGoesOn
<1>2. JEndInv /\ [JobsNext]_jobVars /\ <<WorkStep(w)>>_jobVars =>
          /\ WorkAt(w, "reading") => ~WorkAt(w, "reading")'
          /\ WorkAt(w, "storing") => ~WorkAt(w, "storing")'
          /\ WorkAt(w, "ending") => ~WorkAt(w, "ending")'
          /\ WorkAt(w, "acking") => WorkAt(w, "idle")'
  BY WorkGoesOn
<1>3. JEndInv => \/ WorkAt(w, "reading") \/ WorkAt(w, "storing") \/ WorkAt(w, "ending")
                 \/ WorkAt(w, "acking") \/ WorkAt(w, "idle")
  BY JobTypeFacts DEF JEndInv, JInv, Deliveries, WorkAt
<1>4. WorkAt(w, "reading") \/ WorkAt(w, "storing") \/ WorkAt(w, "ending") \/ WorkAt(w, "acking")
         => delivery[w].pc # "idle"
  BY DEF WorkAt
<1>5. (JobsFairness => WorkFairness(w)) /\ (JobsEnabled => WorkEnabled(w))
  BY JobsFairnessOf
<1>6. Working => (WorkAt(w, "acking") ~> WorkAt(w, "idle"))
  BY <1>1, <1>2, <1>4, <1>5, PTL DEF Working, WorkFairness, WorkEnabled
<1>7. Working => (WorkAt(w, "ending") ~> WorkAt(w, "acking") \/ WorkAt(w, "idle"))
  BY <1>1, <1>2, <1>4, <1>5, PTL DEF Working, WorkFairness, WorkEnabled
<1>8. Working => (WorkAt(w, "storing") ~> WorkAt(w, "ending") \/ WorkAt(w, "idle"))
  BY <1>1, <1>2, <1>4, <1>5, PTL DEF Working, WorkFairness, WorkEnabled
<1>9. Working => (WorkAt(w, "reading") ~> WorkAt(w, "storing") \/ WorkAt(w, "ending") \/ WorkAt(w, "idle"))
  BY <1>1, <1>2, <1>4, <1>5, PTL DEF Working, WorkFairness, WorkEnabled
<1> QED
  BY <1>3, <1>6, <1>7, <1>8, <1>9, PTL DEF Working

\* A delivery of the job c, once no more faults happen, settles it.
LEMMA DeliveryGoesOn ==
    ASSUME NEW w \in Worker, NEW c \in JobCall, JEndInv, [JobsNext]_jobVars, jobFaults' = jobFaults
    PROVE  /\ WorkOn(w, c, "reading") => \/ WorkOn(w, c, "reading")' \/ WorkOn(w, c, "storing")'
                                         \/ WorkOn(w, c, "ending")'
           /\ WorkOn(w, c, "storing") => WorkOn(w, c, "storing")' \/ WorkOn(w, c, "ending")' \/ Settled(c)'
           /\ WorkOn(w, c, "ending") => WorkOn(w, c, "ending")' \/ Settled(c)'
           /\ WorkStep(w) =>
                 /\ WorkOn(w, c, "reading") => ~WorkOn(w, c, "reading")'
                 /\ WorkOn(w, c, "storing") => ~WorkOn(w, c, "storing")'
                 /\ WorkOn(w, c, "ending") => ~WorkOn(w, c, "ending")'
<1> USE DEF WorkOn
<1>1. JInv
  BY DEF JEndInv
<1>2. ASSUME WorkStep(w) \/ WorkerDies(w), delivery[w].job = c
      PROVE  /\ delivery'[w].pc = "idle" \/ delivery'[w].job = c
             /\ delivery[w].pc = "reading" => delivery'[w].pc \in {"storing", "ending"}
             /\ delivery[w].pc = "storing" =>
                   delivery'[w].pc = "ending" \/ (delivery'[w].pc = "idle" /\ Settled(c)')
             /\ delivery[w].pc = "ending" => delivery'[w].pc = "acking" /\ Settled(c)'
  BY <1>1, <1>2, WorkingStep DEF Settled
<1>3. ASSUME ~(WorkStep(w) \/ WorkerDies(w))
      PROVE  delivery'[w] = delivery[w] \/ delivery[w].pc = "idle"
  <2>1. ASSUME NEW v \in Worker, WorkStep(v) \/ WorkerDies(v) PROVE delivery'[w] = delivery[w]
    BY <1>1, <1>3, <2>1, WorkingStep
  <2>2. ASSUME NEW d \in JobCall, QueueStep(d) \/ QueueDies(d) PROVE delivery'[w] = delivery[w]
    BY <1>1, <2>2, QueueingStep
  <2> QED
    BY <1>1, <2>1, <2>2, BeginningStep
<1> QED
  BY <1>2, <1>3

LEMMA DeliverySettles ==
    ASSUME NEW w \in Worker, NEW c \in JobCall
    PROVE  Working /\ NoFaults => (WorkOn(w, c, "reading") ~> Settled(c))
<1>1. JEndInv /\ [JobsNext]_jobVars /\ [jobFaults' = jobFaults]_jobVars =>
          /\ WorkOn(w, c, "reading") => \/ WorkOn(w, c, "reading")' \/ WorkOn(w, c, "storing")'
                                        \/ WorkOn(w, c, "ending")'
          /\ WorkOn(w, c, "storing") => WorkOn(w, c, "storing")' \/ WorkOn(w, c, "ending")' \/ Settled(c)'
          /\ WorkOn(w, c, "ending") => WorkOn(w, c, "ending")' \/ Settled(c)'
  BY DeliveryGoesOn, Faultless
<1>2. JEndInv /\ [JobsNext]_jobVars /\ [jobFaults' = jobFaults]_jobVars /\ <<WorkStep(w)>>_jobVars =>
          /\ WorkOn(w, c, "reading") => ~WorkOn(w, c, "reading")'
          /\ WorkOn(w, c, "storing") => ~WorkOn(w, c, "storing")'
          /\ WorkOn(w, c, "ending") => ~WorkOn(w, c, "ending")'
  BY DeliveryGoesOn, Faultless
<1>4. WorkOn(w, c, "reading") \/ WorkOn(w, c, "storing") \/ WorkOn(w, c, "ending")
         => delivery[w].pc # "idle"
  BY DEF WorkOn
<1>5. (JobsFairness => WorkFairness(w)) /\ (JobsEnabled => WorkEnabled(w))
  BY JobsFairnessOf
<1>7. Working /\ NoFaults => (WorkOn(w, c, "ending") ~> Settled(c))
  BY <1>1, <1>2, <1>4, <1>5, PTL DEF Working, NoFaults, WorkFairness, WorkEnabled
<1>8. Working /\ NoFaults => (WorkOn(w, c, "storing") ~> WorkOn(w, c, "ending") \/ Settled(c))
  BY <1>1, <1>2, <1>4, <1>5, PTL DEF Working, NoFaults, WorkFairness, WorkEnabled
<1>9. Working /\ NoFaults => (WorkOn(w, c, "reading") ~> WorkOn(w, c, "storing") \/ WorkOn(w, c, "ending"))
  BY <1>1, <1>2, <1>4, <1>5, PTL DEF Working, NoFaults, WorkFairness, WorkEnabled
<1> QED
  BY <1>7, <1>8, <1>9, PTL DEF Working, NoFaults

LEMMA DeliveriesSettle ==
    ASSUME NEW c \in JobCall
    PROVE  Working /\ NoFaults => (Received(c) ~> Settled(c))
<1> SUFFICES ASSUME []JEndInv, [][JobsNext]_jobVars, []JobsFairness, []JobsEnabled,
                    [][jobFaults' = jobFaults]_jobVars
             PROVE  Received(c) ~> Settled(c)
  BY DEF Working, NoFaults
<1>1. ASSUME NEW w \in Worker PROVE WorkOn(w, c, "reading") => <>Settled(c)
  BY DeliverySettles, PTL DEF Working, NoFaults
<1>2. Received(c) => <>Settled(c)
  BY <1>1 DEF Received
<1> QED
  BY <1>2, PTL

\* A message that is not acknowledged is delivered, and then its job ends.
LEMMA SentSettles ==
    ASSUME Worker # {}, NEW c \in JobCall
    PROVE  Working /\ NoFaults => (Sent(c) ~> Settled(c))
<1> PICK w \in Worker : TRUE
  OBVIOUS
<1>1. JEndInv /\ [JobsNext]_jobVars => (Sent(c) => Sent(c)' \/ Settled(c) \/ Settled(c)')
  <2> SUFFICES ASSUME JEndInv, [JobsNext]_jobVars, Sent(c), ~Settled(c) PROVE Sent(c)' \/ Settled(c)'
    OBVIOUS
  <2>1. JInv
    BY DEF JEndInv
  <2>2. ASSUME NEW d \in JobCall, QueueStep(d) \/ QueueDies(d) PROVE Sent(c)' \/ Settled(c)'
    BY <2>1, <2>2, QueueingStep DEF Sent, Settled, Queued
  <2>3. ASSUME NEW v \in Worker, WorkStep(v) \/ WorkerDies(v) PROVE Sent(c)' \/ Settled(c)'
    <3>1. PICK e : e = delivery[v].job
      OBVIOUS
    <3>2. topic'[c] # topic[c] => c = e /\ delivery[v].pc = "acking"
      BY <2>1, <2>3, <3>1, WorkingStep
    <3>3. delivery[v].pc = "acking" => ~Queued(e)
      BY <3>1 DEF JEndInv, JobOwed
    <3> QED
      BY <3>2, <3>3 DEF Sent, Settled
  <2> QED
    BY <2>1, <2>2, <2>3, BeginningStep DEF Sent
<1>2. JEndInv /\ [JobsNext]_jobVars /\ <<Delivered(c)>>_jobVars => Received(c)'
  <2> SUFFICES ASSUME JEndInv, NEW v \in Worker, Deliver(v, c) PROVE WorkOn(v, c, "reading")'
    BY DEF Delivered, Received
  <2> QED
    BY JobTypeFacts DEF JEndInv, JInv, Deliver, WorkOn
<1>3. (JobsFairness => QueueFairness(c)) /\ (JobsEnabled => QueueEnabled(c))
  BY JobsFairnessOf
<1>4. Sent(c) /\ WorkAt(w, "idle") => MayDeliver(c)
  BY DEF Sent, WorkAt, MayDeliver
<1>5. Working => []<>WorkAt(w, "idle")
  BY WorkerFree
<1>6. Working /\ NoFaults => (Received(c) ~> Settled(c))
  BY DeliveriesSettle
<1> QED
  BY <1>1, <1>2, <1>3, <1>4, <1>5, <1>6, PTL DEF Working, QueueFairness, QueueEnabled

\* A call that is about to publish, or to mark the job as failed, does so.
LEMMA CallEndsJob ==
    ASSUME NEW c \in JobCall
    PROVE  Working /\ NoFaults =>
             /\ (CallIn(c, "failing") ~> Settled(c))
             /\ (CallIn(c, "publishing") ~> CallIn(c, "failing") \/ Sent(c) \/ Settled(c))
<1>1. ASSUME JEndInv, [JobsNext]_jobVars, [jobFaults' = jobFaults]_jobVars
      PROVE  /\ CallIn(c, "failing") => CallIn(c, "failing")' \/ Settled(c)'
             /\ CallIn(c, "publishing") =>
                   CallIn(c, "publishing")' \/ CallIn(c, "failing")' \/ Sent(c)' \/ Settled(c)'
             /\ QueueStep(c) =>
                   /\ CallIn(c, "failing") => Settled(c)'
                   /\ CallIn(c, "publishing") => CallIn(c, "failing")' \/ Sent(c)' \/ Settled(c)'
  <2>1. JInv /\ jobFaults' = jobFaults
    BY <1>1, Faultless DEF JEndInv
  <2>2. ASSUME QueueStep(c) \/ QueueDies(c)
        PROVE  /\ CallIn(c, "failing") => Settled(c)'
               /\ CallIn(c, "publishing") => CallIn(c, "failing")' \/ Sent(c)' \/ Settled(c)'
    BY <2>1, <2>2, <1>1, QueueingStep DEF CallIn, Sent, Settled
  <2>3. ASSUME ~(QueueStep(c) \/ QueueDies(c))
        PROVE  queueing'[c] = queueing[c] \/ queueing[c].pc = "idle"
    <3>1. ASSUME NEW d \in JobCall, QueueStep(d) \/ QueueDies(d) PROVE queueing'[c] = queueing[c]
      BY <2>1, <2>3, <3>1, QueueingStep
    <3>2. ASSUME NEW v \in Worker, WorkStep(v) \/ WorkerDies(v) PROVE queueing'[c] = queueing[c]
      BY <2>1, <3>2, WorkingStep
    <3> QED
      BY <1>1, <2>1, <3>1, <3>2, BeginningStep
  <2> QED
    BY <2>2, <2>3 DEF CallIn
<1>3. /\ CallIn(c, "failing") \/ CallIn(c, "publishing") => queueing[c].pc \notin {"idle", "done"}
      /\ CallIn(c, "failing") => ~CallIn(c, "publishing")
  BY DEF CallIn
<1>4. (JobsFairness => QueueFairness(c)) /\ (JobsEnabled => QueueEnabled(c))
  BY JobsFairnessOf
<1>5. JEndInv /\ [JobsNext]_jobVars /\ [jobFaults' = jobFaults]_jobVars =>
          /\ CallIn(c, "failing") => CallIn(c, "failing")' \/ Settled(c)'
          /\ CallIn(c, "publishing") =>
                CallIn(c, "publishing")' \/ CallIn(c, "failing")' \/ Sent(c)' \/ Settled(c)'
  BY <1>1
<1>6. JEndInv /\ [JobsNext]_jobVars /\ [jobFaults' = jobFaults]_jobVars /\ <<QueueStep(c)>>_jobVars =>
          /\ CallIn(c, "failing") => Settled(c)'
          /\ CallIn(c, "publishing") => CallIn(c, "failing")' \/ Sent(c)' \/ Settled(c)'
  BY <1>1
<1>8. Working /\ NoFaults => (CallIn(c, "failing") ~> Settled(c))
  BY <1>3, <1>4, <1>5, <1>6, PTL DEF Working, NoFaults, QueueFairness, QueueEnabled
<1>9. Working /\ NoFaults => (CallIn(c, "publishing") ~> CallIn(c, "failing") \/ Sent(c) \/ Settled(c))
  BY <1>3, <1>4, <1>5, <1>6, PTL DEF Working, NoFaults, QueueFairness, QueueEnabled
<1> QED
  BY <1>8, <1>9

LEMMA QueuedSettles ==
    ASSUME Worker # {}, NEW c \in JobCall
    PROVE  Working /\ <>NoFaults => (Queued(c) ~> Settled(c))
<1>1. JEndInv => (Queued(c) => Settled(c) \/ CallIn(c, "publishing") \/ CallIn(c, "failing") \/ Sent(c))
  BY DEF JEndInv, JobOwed, Settled, CallIn, Sent
<1>2. ~Queued(c) => Settled(c)
  BY DEF Settled
<1>3. /\ Working /\ NoFaults => (Sent(c) ~> Settled(c))
      /\ Working /\ NoFaults => (CallIn(c, "failing") ~> Settled(c))
      /\ Working /\ NoFaults => (CallIn(c, "publishing") ~> CallIn(c, "failing") \/ Sent(c) \/ Settled(c))
  BY SentSettles, CallEndsJob
<1>4. Working /\ NoFaults => (Queued(c) ~> Settled(c))
  BY <1>1, <1>3, PTL DEF Working
<1> QED
  BY <1>2, <1>4, PTL DEF Working, NoFaults

\* Whatever failed before, every queued job ends, under fair scheduling, once the faults cease:
\* the faults of a behaviour are bounded, and so they do.
THEOREM JobsAlwaysEnd ==
    Worker # {} => (JobsSpec /\ []JobsEnabled /\ <>NoFaults => JobsEnd)
<1> SUFFICES ASSUME Worker # {}, NEW c \in JobCall
             PROVE  JobsSpec /\ []JobsEnabled /\ <>NoFaults =>
                       (jobs[c].status = "queued" ~>
                           \/ jobs[c].status # "queued"
                           \/ c \in lapsed
                           \/ c \in suggestions /\ ~upserts)
  BY DEF JobsEnd
<1>1. Working /\ <>NoFaults => (Queued(c) ~> Settled(c))
  BY QueuedSettles
<1>2. JobsSpec /\ []JobsEnabled /\ <>NoFaults => (Queued(c) ~> Settled(c))
  BY <1>1, JobOwedInvariance, JobsFairnessLasts, PTL DEF JobsSpec, Working
<1>3. /\ Queued(c) <=> jobs[c].status = "queued"
      /\ Settled(c) <=> \/ jobs[c].status # "queued"
                        \/ c \in lapsed
                        \/ c \in suggestions /\ ~upserts
  BY DEF Queued, Settled, Conflicting
<1> QED
  BY <1>2, <1>3, PTL

-----------------------------------------------------------------------------
(* The Firestore client provider.                                            *)

Callings == [pc : CallerPCs, on : Caller \cup {Nil}, got : InitResult \cup {"closed", "canceled"}]
Closings == [pc : {"idle", "locking", "waiting", "closing", "done"}, on : Caller \cup {Nil}]

\* The call that creates the client is the one that initCh names; it began with no
\* client, and Close waits for it.
Creation ==
    /\ \A c \in Caller : calling[c].pc = "creating" <=> initCh = c
    /\ initCh # Nil => provClient = Nil /\ ~provClosed

\* Who creates or waits refers to a channel; what is sent is a client or an error.
Channels ==
    /\ \A c \in Caller : /\ calling[c].pc = "waiting" => calling[c].on \in Caller
                         /\ calling[c].pc = "sending" => calling[c].got \in {"error", c}
    /\ \A z \in Closer : closing[z].pc = "waiting" => closing[z].on \in Caller

\* Before the provider is closed, the open client is its own, and no Close has one.
\* Afterwards it is in the hands of one Close.
Ownership ==
    /\ ~provClosed => opened \subseteq {provClient} /\ \A z \in Closer : closing[z].pc # "closing"
    /\ provClosed => /\ provClient = Nil
                     /\ \A o \in opened : \E z \in Closer : closing[z].pc = "closing" /\ closing[z].on = o
    /\ \A y, z \in Closer : closing[y].pc = "closing" /\ closing[z].pc = "closing" => y = z

PInv == ProviderTypeOK /\ Creation /\ Channels /\ Ownership

-----------------------------------------------------------------------------
LEMMA ProviderTypeFacts ==
    ASSUME ProviderTypeOK
    PROVE  /\ calling \in [Caller -> Callings] /\ closing \in [Closer -> Closings]
           /\ channel \in [Caller -> [buffer : InitResult, closed : BOOLEAN]]
           /\ provClient \in Caller \cup {Nil} /\ initCh \in Caller \cup {Nil}
           /\ opened \subseteq Caller
BY DEF ProviderTypeOK, Callings, Closings

LEMMA CallingTypes ==
    ASSUME NEW pc \in CallerPCs, NEW on \in Caller \cup {Nil},
           NEW got \in InitResult \cup {"closed", "canceled"}
    PROVE  /\ Calling(pc, on, got) \in Callings
           /\ Calling(pc, on, got).pc = pc /\ Calling(pc, on, got).on = on
           /\ Calling(pc, on, got).got = got
BY DEF Calling, Callings

LEMMA DoneFacts ==
    ASSUME NEW answer \in InitResult \cup {"closed", "canceled"}
    PROVE  Done(answer) \in Callings /\ Done(answer).pc = "done"
BY DEF Done, Calling, Callings, CallerPCs

LEMMA InitPInv == ProviderInit => PInv
<1> SUFFICES ASSUME ProviderInit PROVE PInv
  OBVIOUS
<1>1. ProviderTypeOK
  BY DEF ProviderInit, ProviderTypeOK, Empty, InitResult, Calling, CallerPCs
<1>2. /\ \A c \in Caller : calling[c].pc = "idle"
      /\ \A z \in Closer : closing[z].pc = "idle"
  BY DEF ProviderInit, Calling
<1>3. Creation /\ Channels /\ Ownership
  BY <1>2, ProviderAssumption DEF ProviderInit, Creation, Channels, Ownership
<1> QED
  BY <1>1, <1>3 DEF PInv

\* A call goes on without touching the client, nor creating one before or after.
LEMMA CallMoves ==
    ASSUME PInv, NEW c \in Caller, NEW u \in Callings, Goes(c, u),
           calling[c].pc # "creating", u.pc # "creating",
           u.pc = "waiting" => u.on \in Caller, u.pc # "sending",
           channel' \in [Caller -> [buffer : InitResult, closed : BOOLEAN]],
           UNCHANGED <<provClient, provClosed, initCh, opened, closing>>
    PROVE  PInv'
<1>1. \A d \in Caller : IF d = c THEN calling'[d] = u ELSE calling'[d] = calling[d]
  BY DEF Goes, PInv, ProviderTypeOK
<1>2. ProviderTypeOK'
  BY ProviderTypeFacts DEF PInv, ProviderTypeOK, Goes, Callings
<1>3. Creation'
  BY <1>1 DEF PInv, Creation
<1>4. Channels'
  BY <1>1 DEF PInv, Channels
<1>5. Ownership'
  BY DEF PInv, Ownership
<1> QED
  BY <1>2, <1>3, <1>4, <1>5 DEF PInv

LEMMA CallPInv ==
    ASSUME PInv, NEW c \in Caller, Ask(c) \/ CallStep(c) \/ Cancel(c)
    PROVE  PInv'
<1>1. /\ calling[c] \in Callings /\ calling[c].got \in InitResult \cup {"closed", "canceled"}
      /\ provClient \in Caller \cup {Nil} /\ initCh \in Caller \cup {Nil}
      /\ channel \in [Caller -> [buffer : InitResult, closed : BOOLEAN]]
  BY ProviderTypeFacts DEF PInv, Callings
<1>2. /\ Nil \in InitResult /\ "error" \in InitResult /\ Caller \subseteq InitResult
      /\ {"idle", "entering", "locking", "waiting", "creating", "sending", "checking", "done"}
            \subseteq CallerPCs
  BY DEF InitResult, CallerPCs
<1>3. CASE Ask(c)
  <2>1. PICK u : u = Calling("entering", Nil, Nil)
    OBVIOUS
  <2>2. u \in Callings /\ u.pc = "entering"
    BY <2>1 DEF Calling, Callings, CallerPCs, InitResult
  <2> QED
    BY <1>1, <1>3, <2>1, <2>2, CallMoves DEF Ask
<1>4. CASE Enter(c)
  <2>1. PICK u \in {Done("closed"), Calling("locking", Nil, Nil)} : Goes(c, u)
    BY <1>4 DEF Enter
  <2>2. u \in Callings /\ u.pc \in {"done", "locking"}
    BY <1>2, <2>1, CallingTypes, DoneFacts
  <2> QED
    BY <1>1, <1>4, <2>1, <2>2, CallMoves DEF Enter
<1>5. CASE Lock(c)
  <2>0. /\ calling[c].pc = "locking"
        /\ UNCHANGED <<provClient, provClosed, channel, opened, closing>>
    BY <1>5 DEF Lock
  <2>1. CASE initCh' = initCh /\ (Goes(c, Done(provClient)) \/ Goes(c, Done("closed")))
    <3>1. PICK u \in {Done(provClient), Done("closed")} : Goes(c, u)
      BY <2>1
    <3>2. u \in Callings /\ u.pc = "done"
      BY <1>1, <1>2, <3>1, DoneFacts
    <3> QED
      BY <1>1, <2>0, <2>1, <3>1, <3>2, CallMoves
  <2>2. CASE initCh' = initCh /\ initCh # Nil /\ Goes(c, Calling("waiting", initCh, Nil))
    <3>1. PICK u : u = Calling("waiting", initCh, Nil)
      OBVIOUS
    <3>2. u \in Callings /\ u.pc = "waiting" /\ u.on \in Caller
      BY <1>1, <1>2, <2>2, <3>1, CallingTypes
    <3> QED
      BY <1>1, <2>0, <2>2, <3>1, <3>2, CallMoves
  <2>3. CASE /\ provClient = Nil /\ ~provClosed /\ initCh = Nil
             /\ Goes(c, Calling("creating", c, Nil)) /\ initCh' = c
    <3>1. PICK u : u = Calling("creating", c, Nil)
      OBVIOUS
    <3>2. u \in Callings /\ u.pc = "creating"
      BY <1>2, <3>1, CallingTypes
    <3>3. \A d \in Caller : IF d = c THEN calling'[d] = u ELSE calling'[d] = calling[d]
      BY <2>3, <3>1 DEF Goes, PInv, ProviderTypeOK
    <3>4. ProviderTypeOK'
      BY <2>0, <2>3, <3>1, <3>2, ProviderTypeFacts DEF PInv, ProviderTypeOK, Goes, Callings
    <3>5. Creation'
      BY <2>0, <2>3, <3>2, <3>3, ProviderAssumption DEF PInv, Creation
    <3>6. Channels' /\ Ownership'
      BY <2>0, <3>2, <3>3 DEF PInv, Channels, Ownership
    <3> QED
      BY <3>4, <3>5, <3>6 DEF PInv
  <2> QED
    BY <1>5, <2>1, <2>2, <2>3 DEF Lock
<1>6. CASE CreateClient(c)
  <2>0. /\ calling[c].pc = "creating" /\ initCh = c /\ provClient = Nil /\ ~provClosed
        /\ opened = {} /\ initCh' = Nil /\ UNCHANGED <<provClosed, channel, closing>>
    BY <1>6, ProviderAssumption, ProviderTypeFacts DEF CreateClient, PInv, Creation, Ownership
  <2>1. PICK got \in {c, "error"} : Goes(c, Calling("sending", c, got))
    BY <1>6 DEF CreateClient
  <2>2. PICK u : u = Calling("sending", c, got)
    OBVIOUS
  <2>3. u \in Callings /\ u.pc = "sending" /\ u.got = got
    BY <1>2, <2>1, <2>2, CallingTypes
  <2>4. \A d \in Caller : IF d = c THEN calling'[d] = u ELSE calling'[d] = calling[d]
    BY <2>1, <2>2 DEF Goes, PInv, ProviderTypeOK
  <2>5. /\ opened' \subseteq {provClient'} /\ opened' \subseteq Caller
        /\ provClient' \in Caller \cup {Nil}
    BY <1>6, <2>0 DEF CreateClient
  <2>6. ProviderTypeOK'
    BY <2>0, <2>1, <2>2, <2>3, <2>5, ProviderTypeFacts DEF PInv, ProviderTypeOK, Goes, Callings
  <2>7. Creation'
    BY <2>0, <2>3, <2>4, ProviderAssumption DEF PInv, Creation
  <2>8. Channels'
    BY <2>0, <2>1, <2>3, <2>4 DEF PInv, Channels
  <2>9. Ownership'
    BY <2>0, <2>5 DEF PInv, Ownership
  <2> QED
    BY <2>6, <2>7, <2>8, <2>9 DEF PInv
<1>7. CASE Send(c)
  <2>0. /\ calling[c].pc = "sending" /\ calling[c].got \in {"error", c}
        /\ channel' = [channel EXCEPT ![c] = [buffer |-> calling[c].got, closed |-> TRUE]]
        /\ UNCHANGED <<provClient, provClosed, initCh, opened, closing>>
    BY <1>7 DEF Send, PInv, Channels
  <2>1. PICK u \in {Done("error"), Calling("checking", Nil, calling[c].got)} : Goes(c, u)
    BY <1>7 DEF Send
  <2>2. u \in Callings /\ u.pc \in {"done", "checking"}
    <3>1. CASE u = Done("error")
      BY <1>2, <3>1, DoneFacts
    <3>2. CASE u # Done("error")
      BY <1>1, <1>2, <2>0, <2>1, <3>2 DEF Calling, Callings, CallerPCs
    <3> QED
      BY <3>1, <3>2
  <2>3. channel' \in [Caller -> [buffer : InitResult, closed : BOOLEAN]]
    BY <1>1, <1>2, <2>0
  <2> QED
    BY <2>0, <2>1, <2>2, <2>3, CallMoves
<1>8. CASE Receive(c)
  <2>0. /\ calling[c].pc = "waiting" /\ calling[c].on \in Caller
        /\ channel' = [channel EXCEPT ![calling[c].on].buffer = Nil]
        /\ UNCHANGED <<provClient, provClosed, initCh, opened, closing>>
    BY <1>8 DEF Receive, Taken, PInv, Channels
  <2>1. PICK u \in {Done("error"), Calling("checking", Nil, channel[calling[c].on].buffer)} :
           Goes(c, u)
    BY <1>8 DEF Receive
  <2>2. u \in Callings /\ u.pc \in {"done", "checking"}
    <3>1. CASE u = Done("error")
      BY <1>2, <3>1, DoneFacts
    <3>2. CASE u # Done("error")
      BY <1>1, <1>2, <2>0, <2>1, <3>2 DEF Calling, Callings, CallerPCs
    <3> QED
      BY <3>1, <3>2
  <2>3. channel' \in [Caller -> [buffer : InitResult, closed : BOOLEAN]]
    BY <1>1, <1>2, <2>0
  <2> QED
    BY <2>0, <2>1, <2>2, <2>3, CallMoves
<1>9. CASE Cancel(c)
  <2>1. PICK u : u = Done("canceled")
    OBVIOUS
  <2>2. u \in Callings /\ u.pc = "done"
    BY <2>1, DoneFacts
  <2> QED
    BY <1>1, <1>9, <2>1, <2>2, CallMoves DEF Cancel
<1>10. CASE CheckClosed(c)
  <2>1. PICK u \in {Done("closed"), Done(calling[c].got)} : Goes(c, u)
    BY <1>10 DEF CheckClosed
  <2>2. u \in Callings /\ u.pc = "done"
    BY <1>1, <2>1, DoneFacts
  <2> QED
    BY <1>1, <1>10, <2>1, <2>2, CallMoves DEF CheckClosed
<1> QED
  BY <1>3, <1>4, <1>5, <1>6, <1>7, <1>8, <1>9, <1>10 DEF CallStep

LEMMA ClosePInv ==
    ASSUME PInv, NEW z \in Closer, Close(z) \/ CloseStep(z) \/ CloseCancel(z)
    PROVE  PInv'
<1>1. /\ closing \in [Closer -> Closings] /\ closing[z] \in Closings
      /\ channel \in [Caller -> [buffer : InitResult, closed : BOOLEAN]]
      /\ provClient \in Caller \cup {Nil} /\ initCh \in Caller \cup {Nil}
  BY ProviderTypeFacts DEF PInv
\* All steps of Close but the one that takes the client over, and the one that ends it.
<1>2. ASSUME NEW u \in Closings, closing' = [closing EXCEPT ![z] = u], u.pc # "closing",
             u.pc = "waiting" => u.on \in Caller, closing[z].pc # "closing",
             channel' \in [Caller -> [buffer : InitResult, closed : BOOLEAN]],
             UNCHANGED <<provClient, provClosed, initCh, opened, calling>>
      PROVE  PInv'
  <2>1. \A y \in Closer : IF y = z THEN closing'[y] = u ELSE closing'[y] = closing[y]
    BY <1>1, <1>2
  <2>2. ProviderTypeOK'
    BY <1>1, <1>2 DEF PInv, ProviderTypeOK, Closings
  <2>3. Creation' /\ Channels'
    BY <1>2, <2>1 DEF PInv, Creation, Channels
  <2>4. Ownership'
    BY <1>2, <2>1 DEF PInv, Ownership
  <2> QED
    BY <2>2, <2>3, <2>4 DEF PInv
<1>3. CASE Close(z)
  <2>1. PICK pc \in {"done", "locking"} : closing' = [closing EXCEPT ![z].pc = pc]
    BY <1>3 DEF Close
  <2>2. PICK u : u = [closing[z] EXCEPT !.pc = pc]
    OBVIOUS
  <2>3. u \in Closings /\ u.pc = pc
    BY <1>1, <2>1, <2>2 DEF Closings
  <2> QED
    BY <1>1, <1>2, <1>3, <2>1, <2>2, <2>3 DEF Close
<1>4. CASE CloseLock(z)
  <2>0. closing[z].pc = "locking" /\ UNCHANGED <<initCh, channel, opened, calling>>
    BY <1>4 DEF CloseLock
  <2>1. CASE closing' = [closing EXCEPT ![z].pc = "done"] /\ UNCHANGED <<provClient, provClosed>>
    <3>1. PICK u : u = [closing[z] EXCEPT !.pc = "done"]
      OBVIOUS
    <3>2. u \in Closings /\ u.pc = "done"
      BY <1>1, <3>1 DEF Closings
    <3> QED
      BY <1>1, <1>2, <2>0, <2>1, <3>1, <3>2
  <2>2. CASE /\ initCh # Nil /\ UNCHANGED <<provClient, provClosed>>
             /\ closing' = [closing EXCEPT ![z] = [pc |-> "waiting", on |-> initCh]]
    <3>1. PICK u : u = [pc |-> "waiting", on |-> initCh]
      OBVIOUS
    <3>2. u \in Closings /\ u.pc = "waiting" /\ u.on \in Caller
      BY <1>1, <2>2, <3>1 DEF Closings
    <3> QED
      BY <1>1, <1>2, <2>0, <2>2, <3>1, <3>2
  <2>3. CASE /\ ~provClosed /\ initCh = Nil /\ provClosed' = TRUE /\ provClient' = Nil
             /\ closing' = [closing EXCEPT ![z] = [pc |-> "closing", on |-> provClient]]
    <3>1. PICK u : u = [pc |-> "closing", on |-> provClient]
      OBVIOUS
    <3>2. u \in Closings /\ u.pc = "closing" /\ u.on = provClient
      BY <1>1, <3>1 DEF Closings
    <3>3. \A y \in Closer : IF y = z THEN closing'[y] = u ELSE closing'[y] = closing[y]
      BY <1>1, <2>3, <3>1
    <3>4. ProviderTypeOK'
      BY <1>1, <2>0, <2>3, <3>1, <3>2 DEF PInv, ProviderTypeOK, Closings
    <3>5. Creation' /\ Channels'
      BY <2>0, <2>3, <3>2, <3>3 DEF PInv, Creation, Channels
    <3>6. Ownership'
      BY <2>0, <2>3, <3>2, <3>3 DEF PInv, Ownership
    <3> QED
      BY <3>4, <3>5, <3>6 DEF PInv
  <2> QED
    BY <1>4, <2>1, <2>2, <2>3 DEF CloseLock
<1>5. CASE CloseReceive(z) \/ CloseCancel(z)
  <2>1. PICK pc \in {"locking", "done"} :
           closing' = [closing EXCEPT ![z] = [pc |-> pc, on |-> Nil]]
    BY <1>5 DEF CloseReceive, CloseCancel
  <2>2. PICK u : u = [pc |-> pc, on |-> Nil]
    OBVIOUS
  <2>3. u \in Closings /\ u.pc = pc
    BY <2>1, <2>2 DEF Closings
  <2>4. channel' \in [Caller -> [buffer : InitResult, closed : BOOLEAN]]
    BY <1>1, <1>5 DEF CloseReceive, CloseCancel, Taken, InitResult, PInv, Channels
  <2> QED
    BY <1>2, <1>5, <2>1, <2>2, <2>3, <2>4 DEF CloseReceive, CloseCancel
<1>6. CASE ShutDown(z)
  <2>1. /\ closing[z].pc = "closing" /\ opened' = opened \ {closing[z].on}
        /\ closing' = [closing EXCEPT ![z] = [pc |-> "done", on |-> Nil]]
        /\ UNCHANGED <<provClient, provClosed, initCh, channel, calling>>
    BY <1>6 DEF ShutDown
  <2>2. provClosed /\ opened' = {}
    BY <2>1 DEF PInv, Ownership
  <2>3. \A y \in Closer : closing'[y].pc \in {"waiting", "closing"} => closing'[y] = closing[y]
                                                                   /\ y # z
    BY <1>1, <2>1
  <2>4. ProviderTypeOK'
    BY <1>1, <2>1, <2>2 DEF PInv, ProviderTypeOK, Closings
  <2>5. Creation' /\ Channels'
    BY <2>1, <2>3 DEF PInv, Creation, Channels
  <2>6. Ownership'
    BY <2>1, <2>2, <2>3 DEF PInv, Ownership
  <2> QED
    BY <2>4, <2>5, <2>6 DEF PInv
<1> QED
  BY <1>3, <1>4, <1>5, <1>6 DEF CloseStep

LEMMA NextPInv == PInv /\ [ProviderNext]_provVars => PInv'
<1> SUFFICES ASSUME PInv, [ProviderNext]_provVars PROVE PInv'
  OBVIOUS
<1>1. CASE UNCHANGED provVars
  BY <1>1 DEF provVars, PInv, ProviderTypeOK, Creation, Channels, Ownership
<1>2. CASE ProviderNext
  BY <1>2, CallPInv, ClosePInv DEF ProviderNext
<1> QED
  BY <1>1, <1>2

LEMMA ProviderInvariance == ProviderSpec => []PInv
BY InitPInv, NextPInv, PTL DEF ProviderSpec

-----------------------------------------------------------------------------
(* The theorems. *)

\* The provider's fields, channels and calls keep their types
\* (platform/firestore/provider.go: Provider, initResult).
THEOREM ProviderTyped == ProviderSpec => []ProviderTypeOK
<1>1. PInv => ProviderTypeOK
  BY DEF PInv
<1> QED
  BY <1>1, ProviderInvariance, PTL

\* However the calls of Client and Close interleave, whichever fail or give up, at
\* most one Firestore client is open, the provider or one Close has it, and none is
\* left in a provider that is closed.
THEOREM OneClient == ProviderSpec => []ClientsAccounted
<1>1. ASSUME PInv PROVE ClientsAccounted
  <2>1. opened \subseteq {provClient} \cup {closing[z].on : z \in Closer}
    BY <1>1 DEF PInv, Ownership
  <2>2. \A x, y \in opened : x = y
    BY <1>1 DEF PInv, Ownership
  <2>3. opened = {} \/ \E x : opened = {x}
    BY <2>2
  <2>4. Cardinality(opened) <= 1
    <3>1. CASE opened = {}
      BY <3>1, FS_EmptySet
    <3>2. ASSUME NEW x, opened = {x} PROVE Cardinality(opened) = 1
      BY <3>2, FS_Singleton
    <3> QED
      BY <2>3, <3>1, <3>2
  <2> QED
    BY <1>1, <2>1, <2>4 DEF PInv, Ownership, ClientsAccounted
<1> QED
  BY <1>1, ProviderInvariance, PTL

-----------------------------------------------------------------------------
(* Every call of Client and of Close returns.                                *)

\* Whoever waits on a channel waits for a call that will close it, or has.
Awaited(d) == calling[d].pc \in {"creating", "sending"} \/ channel[d].closed
WaitersAwait ==
    /\ \A c \in Caller : calling[c].pc = "waiting" => Awaited(calling[c].on)
    /\ \A z \in Closer : closing[z].pc = "waiting" => Awaited(closing[z].on)
ReturnInv == PInv /\ WaitersAwait

LEMMA ClientStep ==
    ASSUME PInv, NEW c \in Caller, CallStep(c)
    PROVE  /\ \A d \in Caller : d # c => calling'[d] = calling[d]
           /\ UNCHANGED closing
           /\ \A d \in Caller : channel[d].closed => channel'[d].closed
           /\ calling[c].pc = "entering" => calling'[c].pc \in {"locking", "done"}
           /\ calling[c].pc = "locking" =>
                 \/ calling'[c].pc \in {"creating", "done"}
                 \/ /\ calling'[c].pc = "waiting" /\ calling'[c].on = initCh
                    /\ initCh \in Caller /\ calling[initCh].pc = "creating" /\ UNCHANGED initCh
           /\ calling[c].pc = "creating" => calling'[c].pc = "sending"
           /\ calling[c].pc = "sending" => calling'[c].pc \in {"checking", "done"} /\ channel'[c].closed
           /\ calling[c].pc = "waiting" => calling'[c].pc \in {"checking", "done"}
           /\ calling[c].pc = "checking" => calling'[c].pc = "done"
           /\ calling[c].pc \in CallerPCs \ {"idle", "done"}
<1>1. /\ calling \in [Caller -> Callings] /\ calling[c] \in Callings
      /\ channel \in [Caller -> [buffer : InitResult, closed : BOOLEAN]]
      /\ provClient \in Caller \cup {Nil} /\ initCh \in Caller \cup {Nil}
  BY ProviderTypeFacts DEF PInv
<1> USE DEF Callings, CallerPCs
<1>2. \A pc, on, got : Calling(pc, on, got).pc = pc /\ Calling(pc, on, got).on = on
  BY DEF Calling
<1>3. \A answer : Done(answer).pc = "done"
  BY DEF Done, Calling
<1>4. CASE Enter(c)
  BY <1>1, <1>2, <1>3, <1>4 DEF Enter, Goes
<1>5. CASE Lock(c)
  <2>1. initCh # Nil => calling[initCh].pc = "creating"
    BY <1>1 DEF PInv, Creation
  <2> QED
    BY <1>1, <1>2, <1>3, <1>5, <2>1 DEF Lock, Goes
<1>6. CASE CreateClient(c)
  BY <1>1, <1>2, <1>6 DEF CreateClient, Goes
<1>7. CASE Send(c)
  BY <1>1, <1>2, <1>3, <1>7 DEF Send, Goes
<1>8. CASE Receive(c)
  BY <1>1, <1>2, <1>3, <1>8 DEF Receive, Goes, Taken
<1>9. CASE CheckClosed(c)
  BY <1>1, <1>3, <1>9 DEF CheckClosed, Goes
<1> QED
  BY <1>4, <1>5, <1>6, <1>7, <1>8, <1>9 DEF CallStep

LEMMA CloserStep ==
    ASSUME PInv, NEW z \in Closer, CloseStep(z)
    PROVE  /\ \A y \in Closer : y # z => closing'[y] = closing[y]
           /\ UNCHANGED <<initCh, calling>>
           /\ \A d \in Caller : channel[d].closed => channel'[d].closed
           /\ closing[z].pc = "locking" =>
                 \/ closing'[z].pc = "done"
                 \/ closing'[z].pc = "waiting" /\ closing'[z].on = initCh /\ initCh # Nil
                 \/ closing'[z].pc = "closing"
           /\ closing[z].pc = "waiting" => closing'[z].pc = "locking"
           /\ closing[z].pc = "closing" => closing'[z].pc = "done"
           /\ closing[z].pc \in {"locking", "waiting", "closing"}
<1>1. /\ closing \in [Closer -> Closings] /\ closing[z] \in Closings
      /\ channel \in [Caller -> [buffer : InitResult, closed : BOOLEAN]]
  BY ProviderTypeFacts DEF PInv
<1>2. CASE CloseLock(z)
  BY <1>1, <1>2 DEF CloseLock, Closings
<1>3. CASE CloseReceive(z)
  BY <1>1, <1>3 DEF CloseReceive, Taken
<1>4. CASE ShutDown(z)
  BY <1>1, <1>4 DEF ShutDown
<1> QED
  BY <1>2, <1>3, <1>4 DEF CloseStep

\* The steps that no fairness speaks of: a call begins, or its context ends.
LEMMA OtherSteps ==
    ASSUME PInv, [ProviderNext]_provVars
    PROVE  \/ \E c \in Caller : CallStep(c)
           \/ \E z \in Closer : CloseStep(z)
           \/ /\ UNCHANGED <<initCh, channel>>
              /\ \A c \in Caller : \/ calling'[c] = calling[c]
                                   \/ calling[c].pc = "idle" /\ calling'[c].pc = "entering"
                                   \/ calling[c].pc = "waiting" /\ calling'[c].pc = "done"
              /\ \A z \in Closer : \/ closing'[z] = closing[z]
                                   \/ closing[z].pc = "idle" /\ closing'[z].pc \in {"locking", "done"}
                                   \/ closing[z].pc = "waiting" /\ closing'[z].pc = "done"
<1>1. /\ calling \in [Caller -> Callings] /\ closing \in [Closer -> Closings]
  BY ProviderTypeFacts DEF PInv
<1>2. ASSUME NEW c \in Caller, Ask(c) \/ Cancel(c)
      PROVE  /\ UNCHANGED <<initCh, channel, closing>>
             /\ \A d \in Caller : \/ calling'[d] = calling[d]
                                  \/ calling[d].pc = "idle" /\ calling'[d].pc = "entering"
                                  \/ calling[d].pc = "waiting" /\ calling'[d].pc = "done"
  BY <1>1, <1>2 DEF Ask, Cancel, Goes, Calling, Done
<1>3. ASSUME NEW z \in Closer, Close(z) \/ CloseCancel(z)
      PROVE  /\ UNCHANGED <<initCh, channel, calling>>
             /\ \A y \in Closer : \/ closing'[y] = closing[y]
                                  \/ closing[y].pc = "idle" /\ closing'[y].pc \in {"locking", "done"}
                                  \/ closing[y].pc = "waiting" /\ closing'[y].pc = "done"
  BY <1>1, <1>3 DEF Close, CloseCancel, Closings
<1>4. CASE UNCHANGED provVars
  BY <1>4 DEF provVars
<1> QED
  BY <1>2, <1>3, <1>4 DEF ProviderNext

\* What is awaited stays so.
LEMMA AwaitedStays ==
    ASSUME PInv, [ProviderNext]_provVars, NEW d \in Caller, Awaited(d)
    PROVE  Awaited(d)'
<1>1. ASSUME NEW c \in Caller, CallStep(c) PROVE Awaited(d)'
  BY <1>1, ClientStep DEF Awaited
<1>2. ASSUME NEW z \in Closer, CloseStep(z) PROVE Awaited(d)'
  BY <1>2, CloserStep DEF Awaited
<1> QED
  BY <1>1, <1>2, OtherSteps DEF Awaited

LEMMA ReturnInvariance == ProviderSpec => []ReturnInv
<1>1. ProviderInit => WaitersAwait
  BY DEF ProviderInit, WaitersAwait, Calling
<1>2. ReturnInv /\ [ProviderNext]_provVars => WaitersAwait'
  <2> SUFFICES ASSUME ReturnInv, [ProviderNext]_provVars PROVE WaitersAwait'
    OBVIOUS
  <2>1. /\ \A c \in Caller : calling[c].pc = "waiting" => calling[c].on \in Caller
        /\ \A z \in Closer : closing[z].pc = "waiting" => closing[z].on \in Caller
        /\ PInv
    BY DEF ReturnInv, PInv, Channels
  <2>2. ASSUME NEW d \in Caller, Awaited(d) PROVE Awaited(d)'
    BY <2>1, <2>2, AwaitedStays
  <2>3. initCh # Nil => initCh \in Caller /\ Awaited(initCh)
    BY <2>1 DEF PInv, Creation, Awaited, ProviderTypeOK
  <2>4. ASSUME NEW c \in Caller, calling'[c].pc = "waiting" PROVE Awaited(calling[c].on)'
    <3>1. \/ calling'[c] = calling[c]
          \/ calling'[c].on = initCh /\ initCh \in Caller /\ calling[initCh].pc = "creating"
      <4>1. ASSUME CallStep(c)
            PROVE  calling'[c].on = initCh /\ initCh \in Caller /\ calling[initCh].pc = "creating"
        BY <2>1, <2>4, <4>1, ClientStep DEF CallerPCs
      <4>2. ASSUME NEW d \in Caller, d # c, CallStep(d) PROVE calling'[c] = calling[c]
        BY <2>1, <4>2, ClientStep
      <4>3. ASSUME NEW z \in Closer, CloseStep(z) PROVE calling'[c] = calling[c]
        BY <2>1, <4>3, CloserStep
      <4> QED
        BY <2>1, <2>4, <4>1, <4>2, <4>3, OtherSteps
    <3>2. PICK d \in Caller : d = calling'[c].on /\ Awaited(d)
      BY <2>1, <2>4, <3>1 DEF ReturnInv, WaitersAwait, Awaited
    <3> QED
      BY <2>2, <3>2 DEF Awaited
  <2>5. ASSUME NEW z \in Closer, closing'[z].pc = "waiting" PROVE Awaited(closing[z].on)'
    <3>1. closing'[z] = closing[z] \/ (closing'[z].on = initCh /\ initCh # Nil)
      <4>1. ASSUME CloseStep(z) PROVE closing'[z].on = initCh /\ initCh # Nil
        BY <2>1, <2>5, <4>1, CloserStep
      <4>2. ASSUME NEW y \in Closer, y # z, CloseStep(y) PROVE closing'[z] = closing[z]
        BY <2>1, <4>2, CloserStep
      <4>3. ASSUME NEW c \in Caller, CallStep(c) PROVE closing'[z] = closing[z]
        BY <2>1, <4>3, ClientStep
      <4> QED
        BY <2>1, <2>5, <4>1, <4>2, <4>3, OtherSteps
    <3>2. PICK d \in Caller : d = closing'[z].on /\ Awaited(d)
      BY <2>1, <2>3, <2>5, <3>1 DEF ReturnInv, WaitersAwait
    <3> QED
      BY <2>2, <3>2 DEF Awaited
  <2> QED
    BY <2>4, <2>5 DEF WaitersAwait
<1> QED
  BY <1>1, <1>2, ProviderInvariance, PTL DEF ProviderSpec, ReturnInv

LEMMA ProviderFairnessOf ==
    /\ \A c \in Caller : /\ ProviderFairness => CallerFairness(c)
                         /\ ProviderEnabled => CallerEnabled(c)
    /\ \A z \in Closer : /\ ProviderFairness => CloserFairness(z)
                         /\ ProviderEnabled => CloserEnabled(z)
BY DEF ProviderFairness, ProviderEnabled

LEMMA ProviderFairnessLasts == ProviderFairness => []ProviderFairness
<1>1. /\ \A c \in Caller : CallerFairness(c) => []CallerFairness(c)
      /\ \A z \in Closer : CloserFairness(z) => []CloserFairness(z)
  <2>1. ASSUME NEW c \in Caller PROVE CallerFairness(c) => []CallerFairness(c)
    BY PTL DEF CallerFairness
  <2>2. ASSUME NEW z \in Closer PROVE CloserFairness(z) => []CloserFairness(z)
    BY PTL DEF CloserFairness
  <2> QED
    BY <2>1, <2>2
<1>2. /\ (\A c \in Caller : []CallerFairness(c)) => [](\A c \in Caller : CallerFairness(c))
      /\ (\A z \in Closer : []CloserFairness(z)) => [](\A z \in Closer : CloserFairness(z))
  OBVIOUS
<1>3. ProviderFairness => [](\A c \in Caller : CallerFairness(c)) /\ [](\A z \in Closer : CloserFairness(z))
  BY <1>1, <1>2 DEF ProviderFairness
<1>4. ProviderFairness <=> (\A c \in Caller : CallerFairness(c)) /\ (\A z \in Closer : CloserFairness(z))
  BY DEF ProviderFairness
<1> QED
  BY <1>3, <1>4, PTL

\* Under these conditions, the leads-to facts below hold.
Running == []ReturnInv /\ [][ProviderNext]_provVars /\ []ProviderFairness /\ []ProviderEnabled

CallAt(c, s) == calling[c].pc = s
CallOn(c, d) == calling[c].pc = "waiting" /\ calling[c].on = d

LEMMA CallerGoesOn ==
    ASSUME NEW c \in Caller, ReturnInv, [ProviderNext]_provVars
    PROVE  /\ CallAt(c, "entering") =>
                 CallAt(c, "entering")' \/ CallAt(c, "locking")' \/ CallAt(c, "done")'
           /\ CallAt(c, "locking") => \/ CallAt(c, "locking")' \/ CallAt(c, "creating")'
                                      \/ CallAt(c, "waiting")' \/ CallAt(c, "done")'
           /\ CallAt(c, "creating") => CallAt(c, "creating")' \/ CallAt(c, "sending")'
           /\ CallAt(c, "sending") => \/ CallAt(c, "sending")'
                                      \/ (CallAt(c, "checking") \/ CallAt(c, "done"))' /\ channel'[c].closed
           /\ CallAt(c, "waiting") =>
                 CallAt(c, "waiting")' \/ CallAt(c, "checking")' \/ CallAt(c, "done")'
           /\ CallAt(c, "checking") => CallAt(c, "checking")' \/ CallAt(c, "done")'
           /\ channel[c].closed => channel'[c].closed
           /\ \A d \in Caller : CallOn(c, d) => CallOn(c, d)' \/ ~CallAt(c, "waiting")'
           /\ CallStep(c) =>
                 /\ CallAt(c, "entering") => CallAt(c, "locking")' \/ CallAt(c, "done")'
                 /\ CallAt(c, "locking") =>
                       CallAt(c, "creating")' \/ CallAt(c, "waiting")' \/ CallAt(c, "done")'
                 /\ CallAt(c, "creating") => CallAt(c, "sending")'
                 /\ CallAt(c, "sending") => (CallAt(c, "checking") \/ CallAt(c, "done"))' /\ channel'[c].closed
                 /\ CallAt(c, "waiting") => CallAt(c, "checking")' \/ CallAt(c, "done")'
                 /\ CallAt(c, "checking") => CallAt(c, "done")'
<1> USE DEF CallAt, CallOn
<1>1. PInv
  BY DEF ReturnInv
<1>2. ASSUME CallStep(c)
      PROVE  /\ CallAt(c, "entering") => CallAt(c, "locking")' \/ CallAt(c, "done")'
             /\ CallAt(c, "locking") =>
                   CallAt(c, "creating")' \/ CallAt(c, "waiting")' \/ CallAt(c, "done")'
             /\ CallAt(c, "creating") => CallAt(c, "sending")'
             /\ CallAt(c, "sending") => (CallAt(c, "checking") \/ CallAt(c, "done"))' /\ channel'[c].closed
             /\ CallAt(c, "waiting") => CallAt(c, "checking")' \/ CallAt(c, "done")'
             /\ CallAt(c, "checking") => CallAt(c, "done")'
             /\ channel[c].closed => channel'[c].closed
  BY <1>1, <1>2, ClientStep
<1>3. ASSUME ~CallStep(c)
      PROVE  /\ channel[c].closed => channel'[c].closed
             /\ \/ calling'[c] = calling[c]
                \/ calling[c].pc = "idle"
                \/ calling[c].pc = "waiting" /\ calling'[c].pc = "done"
  <2>1. ASSUME NEW d \in Caller, CallStep(d)
        PROVE  calling'[c] = calling[c] /\ (channel[c].closed => channel'[c].closed)
    BY <1>1, <1>3, <2>1, ClientStep
  <2>2. ASSUME NEW z \in Closer, CloseStep(z)
        PROVE  calling'[c] = calling[c] /\ (channel[c].closed => channel'[c].closed)
    BY <1>1, <2>2, CloserStep
  <2> QED
    BY <1>1, <2>1, <2>2, OtherSteps
<1> QED
  BY <1>2, <1>3

\* A call that creates the client closes its channel.
LEMMA ChannelsClosed ==
    ASSUME NEW d \in Caller
    PROVE  Running => (CallAt(d, "creating") \/ CallAt(d, "sending") ~> channel[d].closed)
<1> DEFINE Shut == channel[d].closed
<1>1. ReturnInv /\ [ProviderNext]_provVars =>
          /\ CallAt(d, "creating") => CallAt(d, "creating")' \/ CallAt(d, "sending")'
          /\ CallAt(d, "sending") => CallAt(d, "sending")' \/ Shut'
  BY CallerGoesOn
<1>2. ReturnInv /\ [ProviderNext]_provVars /\ <<CallStep(d)>>_provVars =>
          /\ CallAt(d, "creating") => CallAt(d, "sending")'
          /\ CallAt(d, "sending") => Shut'
  BY CallerGoesOn
<1>3. (ProviderFairness => CallerFairness(d)) /\ (ProviderEnabled => CallerEnabled(d))
  BY ProviderFairnessOf
<1>4. CallAt(d, "creating") \/ CallAt(d, "sending") => MayStep(d)
  BY DEF CallAt, MayStep
<1> HIDE DEF Shut
<1>5. Running => (CallAt(d, "creating") \/ CallAt(d, "sending") ~> Shut)
  BY <1>1, <1>2, <1>3, <1>4, PTL DEF Running, CallerFairness, CallerEnabled
<1> QED
  BY <1>5 DEF Shut

\* A call that waits on a channel is woken by its closing, and goes on.
LEMMA WaiterWoken ==
    ASSUME NEW c \in Caller, NEW d \in Caller
    PROVE  Running => (CallOn(c, d) ~> CallAt(c, "checking") \/ CallAt(c, "done"))
<1> DEFINE Shut == channel[d].closed
           Woken == CallAt(c, "checking") \/ CallAt(c, "done")
<1>1. ReturnInv /\ [ProviderNext]_provVars =>
          /\ CallAt(c, "waiting") => CallAt(c, "waiting")' \/ Woken'
          /\ CallOn(c, d) => CallOn(c, d)' \/ ~CallAt(c, "waiting")'
          /\ Shut => Shut'
  BY CallerGoesOn
<1>2. ReturnInv /\ [ProviderNext]_provVars /\ <<CallStep(c)>>_provVars =>
          (CallAt(c, "waiting") => Woken')
  BY CallerGoesOn
<1>3. (ProviderFairness => CallerFairness(c)) /\ (ProviderEnabled => CallerEnabled(c))
  BY ProviderFairnessOf
<1>4. /\ CallOn(c, d) => CallAt(c, "waiting")
      /\ CallOn(c, d) /\ Shut => MayStep(c)
      /\ ReturnInv /\ CallOn(c, d) => CallAt(d, "creating") \/ CallAt(d, "sending") \/ Shut
  BY DEF CallOn, CallAt, MayStep, Readable, ReturnInv, WaitersAwait, Awaited
<1>5. Running => (CallAt(d, "creating") \/ CallAt(d, "sending") ~> Shut)
  BY ChannelsClosed
<1> HIDE DEF Shut, Woken
<1>6. Running => (CallOn(c, d) ~> Woken)
  BY <1>1, <1>2, <1>3, <1>4, <1>5, PTL DEF Running, CallerFairness, CallerEnabled
<1> QED
  BY <1>6 DEF Woken

LEMMA WaitersWoken ==
    ASSUME NEW c \in Caller
    PROVE  Running => (CallAt(c, "waiting") ~> CallAt(c, "checking") \/ CallAt(c, "done"))
<1> SUFFICES ASSUME []ReturnInv, [][ProviderNext]_provVars, []ProviderFairness, []ProviderEnabled
             PROVE  CallAt(c, "waiting") ~> CallAt(c, "checking") \/ CallAt(c, "done")
  BY DEF Running
<1> DEFINE Woken == CallAt(c, "checking") \/ CallAt(c, "done")
           Somewhere == \E d \in Caller : CallOn(c, d)
<1>1. ASSUME NEW d \in Caller PROVE CallOn(c, d) => <>Woken
  BY WaiterWoken, PTL DEF Running
<1>2. ReturnInv => (CallAt(c, "waiting") => Somewhere)
  BY DEF ReturnInv, PInv, Channels, CallAt, CallOn
<1>3. Somewhere => <>Woken
  BY <1>1
<1> HIDE DEF Somewhere, Woken
<1>4. CallAt(c, "waiting") ~> Woken
  BY <1>2, <1>3, PTL
<1> QED
  BY <1>4 DEF Woken

\* Client, by as many callers as there are, returns to each of them: whoever finds another
\* creating the client is woken, whether that succeeds or not, and whatever Close does.
THEOREM ClientsAnswered ==
    ProviderSpec /\ []ProviderEnabled =>
        \A c \in Caller : calling[c].pc = "entering" ~> calling[c].pc = "done"
<1> SUFFICES ASSUME NEW c \in Caller
             PROVE  ProviderSpec /\ []ProviderEnabled
                       => (calling[c].pc = "entering" ~> calling[c].pc = "done")
  OBVIOUS
<1>1. ReturnInv /\ [ProviderNext]_provVars =>
          /\ CallAt(c, "entering") =>
                CallAt(c, "entering")' \/ CallAt(c, "locking")' \/ CallAt(c, "done")'
          /\ CallAt(c, "locking") => \/ CallAt(c, "locking")' \/ CallAt(c, "creating")'
                                     \/ CallAt(c, "waiting")' \/ CallAt(c, "done")'
          /\ CallAt(c, "creating") => CallAt(c, "creating")' \/ CallAt(c, "sending")'
          /\ CallAt(c, "sending") => CallAt(c, "sending")' \/ CallAt(c, "checking")' \/ CallAt(c, "done")'
          /\ CallAt(c, "checking") => CallAt(c, "checking")' \/ CallAt(c, "done")'
  BY CallerGoesOn
<1>2. ReturnInv /\ [ProviderNext]_provVars /\ <<CallStep(c)>>_provVars =>
          /\ CallAt(c, "entering") => CallAt(c, "locking")' \/ CallAt(c, "done")'
          /\ CallAt(c, "locking") => CallAt(c, "creating")' \/ CallAt(c, "waiting")' \/ CallAt(c, "done")'
          /\ CallAt(c, "creating") => CallAt(c, "sending")'
          /\ CallAt(c, "sending") => CallAt(c, "checking")' \/ CallAt(c, "done")'
          /\ CallAt(c, "checking") => CallAt(c, "done")'
  BY CallerGoesOn
<1>3. (ProviderFairness => CallerFairness(c)) /\ (ProviderEnabled => CallerEnabled(c))
  BY ProviderFairnessOf
<1>4. CallAt(c, "entering") \/ CallAt(c, "locking") \/ CallAt(c, "creating") \/ CallAt(c, "sending")
         \/ CallAt(c, "checking") => MayStep(c)
  BY DEF CallAt, MayStep
<1>5. Running => (CallAt(c, "waiting") ~> CallAt(c, "checking") \/ CallAt(c, "done"))
  BY WaitersWoken
<1>6. Running => (CallAt(c, "entering") ~> CallAt(c, "done"))
  BY <1>1, <1>2, <1>3, <1>4, <1>5, PTL DEF Running, CallerFairness, CallerEnabled
<1>7. ProviderSpec /\ []ProviderEnabled => (CallAt(c, "entering") ~> CallAt(c, "done"))
  BY <1>6, ReturnInvariance, ProviderFairnessLasts, PTL DEF ProviderSpec, Running
<1> QED
  BY <1>7 DEF CallAt

-----------------------------------------------------------------------------
CloseAt(z, s) == closing[z].pc = s
CloseOn(z, d) == closing[z].pc = "waiting" /\ closing[z].on = d
Uncreated == initCh = Nil

\* No further call begins to create a client.  It is so in the end if the calls are finitely
\* many; else Close may find yet another creation, that fails, for ever.
NoneCreates == [][initCh' \in {initCh, Nil}]_provVars

LEMMA CloserGoesOn ==
    ASSUME NEW z \in Closer, ReturnInv, [ProviderNext]_provVars
    PROVE  /\ CloseAt(z, "locking") => \/ CloseAt(z, "locking")' \/ CloseAt(z, "closing")'
                                       \/ CloseAt(z, "waiting")' \/ CloseAt(z, "done")'
           /\ CloseAt(z, "waiting") =>
                 CloseAt(z, "waiting")' \/ CloseAt(z, "locking")' \/ CloseAt(z, "done")'
           /\ CloseAt(z, "closing") => CloseAt(z, "closing")' \/ CloseAt(z, "done")'
           /\ CloseAt(z, "locking") /\ Uncreated => ~CloseAt(z, "waiting")'
           /\ \A d \in Caller : CloseOn(z, d) => CloseOn(z, d)' \/ ~CloseAt(z, "waiting")'
           /\ CloseStep(z) =>
                 /\ ~CloseAt(z, "locking")' \/ ~CloseAt(z, "locking")
                 /\ CloseAt(z, "waiting") => CloseAt(z, "locking")'
                 /\ CloseAt(z, "closing") => CloseAt(z, "done")'
<1> USE DEF CloseAt, CloseOn, Uncreated
<1>1. PInv
  BY DEF ReturnInv
<1>2. CASE CloseStep(z)
  BY <1>1, <1>2, CloserStep
<1>3. CASE ~CloseStep(z)
  <2>1. \/ closing'[z] = closing[z]
        \/ closing[z].pc = "idle"
        \/ closing[z].pc = "waiting" /\ closing'[z].pc = "done"
    <3>1. ASSUME NEW d \in Caller, CallStep(d) PROVE closing'[z] = closing[z]
      BY <1>1, <3>1, ClientStep
    <3>2. ASSUME NEW y \in Closer, CloseStep(y) PROVE closing'[z] = closing[z]
      BY <1>1, <1>3, <3>2, CloserStep
    <3> QED
      BY <1>1, <3>1, <3>2, OtherSteps
  <2> QED
    BY <1>3, <2>1
<1> QED
  BY <1>2, <1>3

\* A creation ends.
LEMMA CreationsEnd ==
    ASSUME NEW d \in Caller
    PROVE  Running => (initCh = d ~> ~(initCh = d))
<1> DEFINE Creates == initCh = d
<1>1. ReturnInv => (Creates <=> CallAt(d, "creating"))
  BY DEF ReturnInv, PInv, Creation, CallAt
<1>2. ReturnInv /\ [ProviderNext]_provVars => (CallAt(d, "creating") => CallAt(d, "creating")' \/ CallAt(d, "sending")')
  BY CallerGoesOn
<1>3. ReturnInv /\ [ProviderNext]_provVars /\ <<CallStep(d)>>_provVars => (CallAt(d, "creating") => CallAt(d, "sending")')
  BY CallerGoesOn
<1>4. (ProviderFairness => CallerFairness(d)) /\ (ProviderEnabled => CallerEnabled(d))
  BY ProviderFairnessOf
<1>5. /\ CallAt(d, "creating") => MayStep(d)
      /\ CallAt(d, "sending") => ~CallAt(d, "creating")
  BY DEF CallAt, MayStep
<1> HIDE DEF Creates
<1>6. Running => (Creates ~> ~Creates)
  BY <1>1, <1>2, <1>3, <1>4, <1>5, PTL DEF Running, CallerFairness, CallerEnabled
<1> QED
  BY <1>6 DEF Creates

LEMMA AllCreated == Running /\ <>NoneCreates => <>[]Uncreated
<1> SUFFICES ASSUME []ReturnInv, [][ProviderNext]_provVars, []ProviderFairness, []ProviderEnabled
             PROVE  <>NoneCreates => <>[]Uncreated
  BY DEF Running
<1> DEFINE Somebody == \E d \in Caller : initCh = d
<1>1. ASSUME NEW d \in Caller PROVE initCh = d => (NoneCreates => <>Uncreated)
  <2> DEFINE Creates == initCh = d
  <2>1. Creates ~> ~Creates
    BY CreationsEnd, PTL DEF Running
  <2>2. Creates /\ [initCh' \in {initCh, Nil}]_provVars => Creates' \/ Uncreated'
    BY DEF provVars, Uncreated
  <2>3. NoneCreates => [][initCh' \in {initCh, Nil}]_provVars
    BY DEF NoneCreates
  <2> HIDE DEF Creates
  <2>4. Creates => (NoneCreates => <>Uncreated)
    BY <2>1, <2>2, <2>3, PTL
  <2> QED
    BY <2>4 DEF Creates
<1>2. ReturnInv => Somebody \/ Uncreated
  BY DEF ReturnInv, PInv, ProviderTypeOK, Uncreated
<1>3. Somebody => (NoneCreates => <>Uncreated)
  BY <1>1
<1>4. Uncreated /\ [initCh' \in {initCh, Nil}]_provVars => Uncreated'
  BY DEF provVars, Uncreated
<1> HIDE DEF Somebody
<1> QED
  BY <1>2, <1>3, <1>4, PTL DEF NoneCreates

LEMMA CloserWoken ==
    ASSUME NEW z \in Closer, NEW d \in Caller
    PROVE  Running => (CloseOn(z, d) ~> CloseAt(z, "locking") \/ CloseAt(z, "done"))
<1> DEFINE Shut == channel[d].closed
           Woken == CloseAt(z, "locking") \/ CloseAt(z, "done")
<1>1. ReturnInv /\ [ProviderNext]_provVars =>
          /\ CloseAt(z, "waiting") => CloseAt(z, "waiting")' \/ Woken'
          /\ CloseOn(z, d) => CloseOn(z, d)' \/ ~CloseAt(z, "waiting")'
  BY CloserGoesOn
<1>2. ReturnInv /\ [ProviderNext]_provVars => (Shut => Shut')
  BY CallerGoesOn
<1>3. ReturnInv /\ [ProviderNext]_provVars /\ <<CloseStep(z)>>_provVars =>
          (CloseAt(z, "waiting") => Woken')
  BY CloserGoesOn
<1>4. (ProviderFairness => CloserFairness(z)) /\ (ProviderEnabled => CloserEnabled(z))
  BY ProviderFairnessOf
<1>5. /\ CloseOn(z, d) => CloseAt(z, "waiting")
      /\ CloseOn(z, d) /\ Shut => MayClose(z)
      /\ ReturnInv /\ CloseOn(z, d) => CallAt(d, "creating") \/ CallAt(d, "sending") \/ Shut
  BY DEF CloseOn, CloseAt, CallAt, MayClose, Readable, ReturnInv, WaitersAwait, Awaited
<1>6. Running => (CallAt(d, "creating") \/ CallAt(d, "sending") ~> Shut)
  BY ChannelsClosed
<1> HIDE DEF Shut, Woken
<1>7. Running => (CloseOn(z, d) ~> Woken)
  BY <1>1, <1>2, <1>3, <1>4, <1>5, <1>6, PTL DEF Running, CloserFairness, CloserEnabled
<1> QED
  BY <1>7 DEF Woken

LEMMA ClosersWoken ==
    ASSUME NEW z \in Closer
    PROVE  Running => (CloseAt(z, "waiting") ~> CloseAt(z, "locking") \/ CloseAt(z, "done"))
<1> SUFFICES ASSUME []ReturnInv, [][ProviderNext]_provVars, []ProviderFairness, []ProviderEnabled
             PROVE  CloseAt(z, "waiting") ~> CloseAt(z, "locking") \/ CloseAt(z, "done")
  BY DEF Running
<1> DEFINE Woken == CloseAt(z, "locking") \/ CloseAt(z, "done")
           Somewhere == \E d \in Caller : CloseOn(z, d)
<1>1. ASSUME NEW d \in Caller PROVE CloseOn(z, d) => <>Woken
  BY CloserWoken, PTL DEF Running
<1>2. ReturnInv => (CloseAt(z, "waiting") => Somewhere)
  BY DEF ReturnInv, PInv, Channels, CloseAt, CloseOn
<1>3. Somewhere => <>Woken
  BY <1>1
<1> HIDE DEF Somewhere, Woken
<1>4. CloseAt(z, "waiting") ~> Woken
  BY <1>2, <1>3, PTL
<1> QED
  BY <1>4 DEF Woken

LEMMA CloseReturns ==
    ASSUME NEW z \in Closer
    PROVE  Running /\ <>NoneCreates => (CloseAt(z, "locking") ~> CloseAt(z, "done"))
<1>1. ReturnInv /\ [ProviderNext]_provVars =>
          /\ CloseAt(z, "locking") => \/ CloseAt(z, "locking")' \/ CloseAt(z, "closing")'
                                      \/ CloseAt(z, "waiting")' \/ CloseAt(z, "done")'
          /\ CloseAt(z, "waiting") => CloseAt(z, "waiting")' \/ CloseAt(z, "locking")' \/ CloseAt(z, "done")'
          /\ CloseAt(z, "closing") => CloseAt(z, "closing")' \/ CloseAt(z, "done")'
          /\ CloseAt(z, "locking") /\ Uncreated => ~CloseAt(z, "waiting")'
  BY CloserGoesOn
<1>2. ReturnInv /\ [ProviderNext]_provVars /\ <<CloseStep(z)>>_provVars =>
          /\ CloseAt(z, "locking") => ~CloseAt(z, "locking")'
          /\ CloseAt(z, "closing") => CloseAt(z, "done")'
  BY CloserGoesOn
<1>3. (ProviderFairness => CloserFairness(z)) /\ (ProviderEnabled => CloserEnabled(z))
  BY ProviderFairnessOf
<1>4. CloseAt(z, "locking") \/ CloseAt(z, "closing") => MayClose(z)
  BY DEF CloseAt, MayClose
<1>5. Running => (CloseAt(z, "waiting") ~> CloseAt(z, "locking") \/ CloseAt(z, "done"))
  BY ClosersWoken
<1>6. Running => (CloseAt(z, "closing") ~> CloseAt(z, "done"))
  BY <1>1, <1>2, <1>3, <1>4, PTL DEF Running, CloserFairness, CloserEnabled
<1>7. Running /\ []Uncreated => (CloseAt(z, "locking") ~> CloseAt(z, "closing") \/ CloseAt(z, "done"))
  BY <1>1, <1>2, <1>3, <1>4, PTL DEF Running, CloserFairness, CloserEnabled
<1>8. Running /\ <>[]Uncreated => (CloseAt(z, "locking") ~> CloseAt(z, "done"))
  \* Until creations cease, the call is at the mutex, waits, or closes.
  <2>1. Running => [](CloseAt(z, "locking") => [](CloseAt(z, "locking") \/ CloseAt(z, "waiting")
                                                  \/ CloseAt(z, "closing")) \/ <>CloseAt(z, "done"))
    BY <1>1, PTL DEF Running
  <2> QED
    BY <1>5, <1>6, <1>7, <2>1, PTL DEF Running
<1> QED
  BY <1>8, AllCreated

\* ... and Close returns, once no further call begins to create a client.
THEOREM EveryoneReturns == ProviderSpec /\ []ProviderEnabled /\ <>NoneCreates => CallersReturn
<1>1. ASSUME NEW z \in Closer
      PROVE  ProviderSpec /\ []ProviderEnabled /\ <>NoneCreates
                => (closing[z].pc = "locking" ~> closing[z].pc = "done")
  <2>1. ProviderSpec /\ []ProviderEnabled /\ <>NoneCreates
           => (CloseAt(z, "locking") ~> CloseAt(z, "done"))
    BY CloseReturns, ReturnInvariance, ProviderFairnessLasts, PTL DEF ProviderSpec, Running
  <2> QED
    BY <2>1 DEF CloseAt
<1> QED
  BY <1>1, ClientsAnswered DEF CallersReturn

=============================================================================
