-------------------------------- MODULE Jobs --------------------------------
(***************************************************************************)
(* services/background_job_dispatcher.go: QueueAISuggestion stores an AI   *)
(* job and publishes it to Pub/Sub; a worker takes the message, and calls  *)
(* CompleteAISuggestion, which stores the suggestion and ends the job.     *)
(*                                                                         *)
(* A job and its suggestion are named by the call that queues them.  The   *)
(* repositories are interfaces: a call of theirs may fail, and may have    *)
(* taken effect all the same.  Pub/Sub keeps a message until it is         *)
(* acknowledged, and may deliver it any number of times.                   *)
(***************************************************************************)
EXTENDS Integers, FiniteSets

CONSTANTS
    JobCall,        \* calls of QueueAISuggestion
    JobKey,         \* idempotency keys that clients send
    Worker,         \* concurrent deliveries to the AI worker
    MaxJobFaults    \* bound: repository errors, publish errors, deaths

NoKey == "none"
ASSUME JobAssumption == MaxJobFaults \in Nat /\ NoKey \notin JobKey

VARIABLES
    jobs,           \* [JobCall -> the stored job, or NoJob]
    suggestions,    \* the suggestions stored, named by the call
    topic,          \* [JobCall -> the state of its Pub/Sub message]
    queueing,       \* [JobCall -> what the call is doing]
    delivery,       \* [Worker -> what the worker is doing]
    upserts,        \* whether Insert of a suggestion overwrites, or conflicts
    jobFaults,      \* faults so far
    lapsed          \* history: calls that died, or got no answer about their job

jobVars == <<jobs, suggestions, topic, queueing, delivery, upserts, jobFaults, lapsed>>

\* In progress and canceled are declared statuses that no code gives.
JobStatus == {"queued", "succeeded", "failed"}
Job == [status : JobStatus, key : JobKey \cup {NoKey}, result : BOOLEAN]
NoJob == [status |-> "absent", key |-> NoKey, result |-> FALSE]
NewJob(k) == [status |-> "queued", key |-> k, result |-> FALSE]

\* pc, key, and the calls that had ended when this one began.
QueueCall == [pc : {"idle", "looking", "inserting", "publishing", "failing", "done"},
              key : JobKey \cup {NoKey}, earlier : SUBSET JobCall]
NoDelivery == [pc |-> "idle", job |-> NoKey, error |-> FALSE]

JobsTypeOK ==
    /\ jobs \in [JobCall -> Job \cup {NoJob}]
    /\ suggestions \subseteq JobCall
    /\ topic \in [JobCall -> {"unsent", "waiting", "acked"}]
    /\ queueing \in [JobCall -> QueueCall]
    /\ delivery \in [Worker -> [pc : {"idle", "reading", "storing", "ending", "acking"},
                                job : JobCall \cup {NoKey}, error : BOOLEAN]]
    /\ upserts \in BOOLEAN
    /\ jobFaults \in 0..MaxJobFaults
    /\ lapsed \subseteq JobCall

JobsInit ==
    /\ jobs = [c \in JobCall |-> NoJob]
    /\ suggestions = {}
    /\ topic = [c \in JobCall |-> "unsent"]
    /\ queueing = [c \in JobCall |-> [pc |-> "idle", key |-> NoKey, earlier |-> {}]]
    /\ delivery = [w \in Worker |-> NoDelivery]
    /\ upserts \in BOOLEAN
    /\ jobFaults = 0
    /\ lapsed = {}

JobFault == jobFaults < MaxJobFaults /\ jobFaults' = jobFaults + 1

-----------------------------------------------------------------------------
\* QueueAISuggestion: the command is valid; without a key there is no look-up.
QueueAISuggestion(c, k) ==
    /\ queueing[c].pc = "idle"
    /\ queueing' = [queueing EXCEPT ![c] =
           [pc |-> IF k = NoKey THEN "inserting" ELSE "looking", key |-> k,
            earlier |-> {d \in JobCall : queueing[d].pc = "done"}]]
    /\ UNCHANGED <<jobs, suggestions, topic, delivery, upserts, jobFaults, lapsed>>

KeyedJobs(k) == {d \in JobCall : jobs[d].status # "absent" /\ jobs[d].key = k}

\* A plausible bug: any error of the look-up is taken for "no such job".
FindByKeyIgnoringErrors(c) ==
    /\ queueing[c].pc = "looking"
    /\ \/ /\ queueing' = [queueing EXCEPT ![c].pc =
                 IF KeyedJobs(queueing[c].key) # {} THEN "done" ELSE "inserting"]
          /\ UNCHANGED jobFaults
       \/ JobFault /\ queueing' = [queueing EXCEPT ![c].pc = "inserting"]
    /\ UNCHANGED <<jobs, suggestions, topic, delivery, upserts, lapsed>>

\* A job with the key is answered as it stands, failed ones included.
FindByIdempotencyKey(c) ==
    /\ queueing[c].pc = "looking"
    /\ \/ /\ queueing' = [queueing EXCEPT ![c].pc =
                 IF KeyedJobs(queueing[c].key) # {} THEN "done" ELSE "inserting"]
          /\ UNCHANGED jobFaults
       \/ JobFault /\ queueing' = [queueing EXCEPT ![c].pc = "done"]
    /\ UNCHANGED <<jobs, suggestions, topic, delivery, upserts, lapsed>>

InsertJob(c) ==
    LET stored == [jobs EXCEPT ![c] = NewJob(queueing[c].key)]
    IN  /\ queueing[c].pc = "inserting"
        /\ \/ /\ jobs' = stored
              /\ queueing' = [queueing EXCEPT ![c].pc = "publishing"]
              /\ UNCHANGED <<jobFaults, lapsed>>
           \/ /\ JobFault
              /\ jobs' \in {jobs, stored}
              /\ queueing' = [queueing EXCEPT ![c].pc = "done"]
              /\ lapsed' = lapsed \cup {c}
        /\ UNCHANGED <<suggestions, topic, delivery, upserts>>

\* PublishSuggestionJob waits for the server's answer: an error may hide a success.
Publish(c) ==
    LET sent == [topic EXCEPT ![c] = "waiting"]
    IN  /\ queueing[c].pc = "publishing"
        /\ \/ /\ topic' = sent
              /\ queueing' = [queueing EXCEPT ![c].pc = "done"]
              /\ UNCHANGED jobFaults
           \/ /\ JobFault
              /\ topic' \in {topic, sent}
              /\ queueing' = [queueing EXCEPT ![c].pc = "failing"]
        /\ UNCHANGED <<jobs, suggestions, delivery, upserts, lapsed>>

\* A plausible bug: a job that could not be published is left queued.
PublishAndForget(c) ==
    /\ queueing[c].pc = "failing"
    /\ queueing' = [queueing EXCEPT ![c].pc = "done"]
    /\ UNCHANGED <<jobs, suggestions, topic, delivery, upserts, jobFaults, lapsed>>

\* failJob, whatever has become of the job since.  Its own error is only logged.
FailJob(c) ==
    LET failed == [jobs EXCEPT ![c].status = "failed"]
    IN  /\ queueing[c].pc = "failing"
        /\ \/ jobs' = failed /\ UNCHANGED <<jobFaults, lapsed>>
           \/ JobFault /\ jobs' \in {jobs, failed} /\ lapsed' = lapsed \cup {c}
        /\ queueing' = [queueing EXCEPT ![c].pc = "done"]
        /\ UNCHANGED <<suggestions, topic, delivery, upserts>>

\* The instance dies, or the request is cut off, between two steps of the call.
QueueDies(c) ==
    /\ queueing[c].pc \notin {"idle", "done"}
    /\ JobFault
    /\ queueing' = [queueing EXCEPT ![c].pc = "done"]
    /\ lapsed' = lapsed \cup {c}
    /\ UNCHANGED <<jobs, suggestions, topic, delivery, upserts>>

-----------------------------------------------------------------------------
\* Pub/Sub delivers a message that is not acknowledged, perhaps not for the first
\* time; the model answers with a suggestion or an error.
Deliver(w, c) ==
    /\ delivery[w].pc = "idle" /\ topic[c] = "waiting"
    /\ \E error \in BOOLEAN :
          delivery' = [delivery EXCEPT ![w] = [pc |-> "reading", job |-> c, error |-> error]]
    /\ UNCHANGED <<jobs, suggestions, topic, queueing, upserts, jobFaults, lapsed>>

\* CompleteAISuggestion failed, or the worker died: the message is delivered again.
Nack(w) == delivery' = [delivery EXCEPT ![w] = NoDelivery]

\* CompleteAISuggestion: FindByID.  The status of the job is not looked at.
FindJob(w) ==
    /\ delivery[w].pc = "reading"
    /\ \/ /\ delivery' = [delivery EXCEPT ![w].pc =
                 IF delivery[w].error THEN "ending" ELSE "storing"]
          /\ UNCHANGED jobFaults
       \/ JobFault /\ Nack(w)
    /\ UNCHANGED <<jobs, suggestions, topic, queueing, upserts, lapsed>>

InsertSuggestion(w) ==
    LET c == delivery[w].job
        conflict == c \in suggestions /\ ~upserts
    IN  /\ delivery[w].pc = "storing"
        /\ \/ /\ ~conflict
              /\ suggestions' = suggestions \cup {c}
              /\ delivery' = [delivery EXCEPT ![w].pc = "ending"]
              /\ UNCHANGED jobFaults
           \/ conflict /\ Nack(w) /\ UNCHANGED <<suggestions, jobFaults>>
           \/ ~conflict /\ JobFault /\ suggestions' = suggestions \cup {c} /\ Nack(w)
        /\ UNCHANGED <<jobs, topic, queueing, upserts, lapsed>>

\* UpdateStatus to failed, or to succeeded with the reference of the suggestion.
UpdateStatus(w) ==
    LET c == delivery[w].job
        ended == IF delivery[w].error THEN [jobs EXCEPT ![c].status = "failed"]
                 ELSE [jobs EXCEPT ![c].status = "succeeded", ![c].result = TRUE]
    IN  /\ delivery[w].pc = "ending"
        /\ \/ /\ jobs' = ended
              /\ delivery' = [delivery EXCEPT ![w].pc = "acking"]
              /\ UNCHANGED jobFaults
           \/ JobFault /\ jobs' \in {jobs, ended} /\ Nack(w)
        /\ UNCHANGED <<suggestions, topic, queueing, upserts, lapsed>>

Ack(w) ==
    /\ delivery[w].pc = "acking"
    /\ topic' = [topic EXCEPT ![delivery[w].job] = "acked"]
    /\ delivery' = [delivery EXCEPT ![w] = NoDelivery]
    /\ UNCHANGED <<jobs, suggestions, queueing, upserts, jobFaults, lapsed>>

WorkerDies(w) ==
    /\ delivery[w].pc # "idle"
    /\ JobFault /\ Nack(w)
    /\ UNCHANGED <<jobs, suggestions, topic, queueing, upserts, lapsed>>

QueueStep(c) == FindByIdempotencyKey(c) \/ InsertJob(c) \/ Publish(c) \/ FailJob(c)
WorkStep(w) == FindJob(w) \/ InsertSuggestion(w) \/ UpdateStatus(w) \/ Ack(w)

JobsNext ==
    \/ \E c \in JobCall, k \in JobKey \cup {NoKey} : QueueAISuggestion(c, k)
    \/ \E c \in JobCall : QueueStep(c) \/ QueueDies(c)
    \/ \E w \in Worker, c \in JobCall : Deliver(w, c)
    \/ \E w \in Worker : WorkStep(w) \/ WorkerDies(w)

\* A call that has begun goes on or dies, a delivery too; and Pub/Sub does not pass
\* over an unacknowledged message for ever.
Delivered(c) == \E w \in Worker : Deliver(w, c)
QueueFairness(c) == WF_jobVars(QueueStep(c)) /\ SF_jobVars(Delivered(c))
WorkFairness(w) == WF_jobVars(WorkStep(w))
JobsFairness == (\A c \in JobCall : QueueFairness(c)) /\ (\A w \in Worker : WorkFairness(w))

JobsSpec == JobsInit /\ [][JobsNext]_jobVars /\ JobsFairness

\* When these steps can be taken.
MayDeliver(c) == topic[c] = "waiting" /\ \E w \in Worker : delivery[w].pc = "idle"
QueueEnabled(c) ==
    /\ queueing[c].pc \notin {"idle", "done"} => ENABLED <<QueueStep(c)>>_jobVars
    /\ MayDeliver(c) => ENABLED <<Delivered(c)>>_jobVars
WorkEnabled(w) == delivery[w].pc # "idle" => ENABLED <<WorkStep(w)>>_jobVars
JobsEnabled == (\A c \in JobCall : QueueEnabled(c)) /\ (\A w \in Worker : WorkEnabled(w))

-----------------------------------------------------------------------------
\* Two jobs have the same idempotency key only if their calls overlapped: a client
\* that retries after its first call ended gets the job of the first call, even if
\* that call died or reported an error.
OneJobPerKey ==
    \A k \in JobKey : \A c, d \in KeyedJobs(k) :
        c # d => c \notin queueing[d].earlier /\ d \notin queueing[c].earlier

\* A queued job succeeds or fails in the end, unless its call died or got no answer
\* from the repository, or the suggestion was stored by a delivery that failed later
\* and the repository takes the next Insert for a conflict.
JobsEnd ==
    \A c \in JobCall : jobs[c].status = "queued" ~>
        \/ jobs[c].status # "queued"
        \/ c \in lapsed
        \/ c \in suggestions /\ ~upserts

=============================================================================
