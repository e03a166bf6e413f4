------------------------------- MODULE Health -------------------------------
(***************************************************************************)
(* handlers/health.go, services/system_service.go and                      *)
(* repositories/health_repository.go, as main.go wires them: /readyz       *)
(* probes Firestore and Secret Manager side by side, each within its own   *)
(* time, waits for both and answers for the whole.                         *)
(*                                                                         *)
(* Secret Manager is probed by resolving a secret, which the fetcher       *)
(* (module Secrets) caches or takes from the fallback file.                *)
(***************************************************************************)
EXTENDS Integers

CONSTANTS
    ReadyCall,      \* concurrent requests of /readyz
    ProbeTimeout,   \* the time that each probe is given, in ticks
    ReadyTimeout    \* the time that the request is given, in ticks

Dependency == {"firestore", "secretManager"}

ASSUME HealthAssumption ==
    ProbeTimeout \in [Dependency -> Nat \ {0}] /\ ReadyTimeout \in Nat \ {0}

VARIABLES
    reachable,      \* the dependencies that answer at the moment
    healthSecret,   \* whether the secret of the probe is in Secret Manager, in the fallback file
    healthCached,   \* whether the fetcher has a value for it
    ready           \* [ReadyCall -> what the request is doing]

healthVars == <<reachable, healthSecret, healthCached, ready>>

Waiting == "waiting"
Statuses == {"ok", "degraded", "error"}

\* reached and late are history: the dependencies that answered at some moment of the
\* request, and the probes that ended when their time was over or the client gone.
NoReady == [pc |-> "idle", ticks |-> 0, gone |-> FALSE,
            results |-> [d \in Dependency |-> Waiting], details |-> {}, reached |-> {}, late |-> {}]

HealthTypeOK ==
    /\ reachable \subseteq Dependency
    /\ healthSecret \in [stored : BOOLEAN, fallback : BOOLEAN]
    /\ healthCached \in BOOLEAN
    /\ ready \in [ReadyCall -> [pc : {"idle", "collecting", "200", "503"},
                                ticks : 0..ReadyTimeout, gone : BOOLEAN,
                                results : [Dependency -> Statuses \cup {Waiting}],
                                details : SUBSET Dependency,
                                reached : SUBSET Dependency, late : SUBSET Dependency]]

HealthInit ==
    /\ reachable = Dependency
    /\ healthSecret \in [stored : BOOLEAN, fallback : BOOLEAN]
    /\ healthCached = FALSE
    /\ ready = [c \in ReadyCall |-> NoReady]

Collecting(c) == ready[c].pc = "collecting"

\* A dependency fails or recovers.
Switch(d) ==
    /\ reachable' = IF d \in reachable THEN reachable \ {d} ELSE reachable \cup {d}
    /\ ready' = [c \in ReadyCall |->
                   IF Collecting(c) /\ d \notin reachable
                   THEN [ready[c] EXCEPT !.reached = @ \cup {d}] ELSE ready[c]]
    /\ UNCHANGED <<healthSecret, healthCached>>

HealthTick(c) ==
    /\ Collecting(c) /\ ready[c].ticks < ReadyTimeout
    /\ ready' = [ready EXCEPT ![c].ticks = @ + 1]
    /\ UNCHANGED <<reachable, healthSecret, healthCached>>

ClientLeaves(c) ==
    /\ Collecting(c) /\ ~ready[c].gone
    /\ ready' = [ready EXCEPT ![c].gone = TRUE]
    /\ UNCHANGED <<reachable, healthSecret, healthCached>>

-----------------------------------------------------------------------------
\* Readyz calls HealthReport, and Collect starts the probes.
Readyz(c) ==
    /\ ~Collecting(c)
    /\ ready' = [ready EXCEPT ![c] = [NoReady EXCEPT !.pc = "collecting", !.reached = reachable]]
    /\ UNCHANGED <<reachable, healthSecret, healthCached>>

\* The context of the probe is done: its own timeout, that of Readyz, or the client's end.
ProbeOver(c, d) ==
    ready[c].gone \/ ready[c].ticks >= ProbeTimeout[d] \/ ready[c].ticks >= ReadyTimeout

\* A plausible bug: a probe that answers is well, in time or not.
ProbeStatusUntimed(err, over) ==
    CASE err = "none" -> "ok"
      [] err = "context" -> "error"
      [] err = "failure" -> "degraded"

\* How Collect judges what a probe returned, when its context was over or not.
ProbeStatus(err, over) ==
    CASE err = "none" -> IF over THEN "error" ELSE "ok"
      [] err = "context" -> "error"
      [] err = "failure" -> "degraded"

Record(c, d, err) ==
    LET over == ProbeOver(c, d)
    IN  ready' = [ready EXCEPT ![c].results[d] = ProbeStatus(err, over),
                               ![c].late = IF over THEN @ \cup {d} ELSE @]

\* What a call that Google answers, or does not answer, may fail with.
Failure(c, d) == {"failure"} \cup (IF ProbeOver(c, d) THEN {"context"} ELSE {})

ProbeFirestore(c) ==
    /\ Collecting(c) /\ ready[c].results["firestore"] = Waiting
    /\ \E err \in Failure(c, "firestore") \cup (IF "firestore" \in reachable THEN {"none"} ELSE {}) :
          Record(c, "firestore", err)
    /\ UNCHANGED <<reachable, healthSecret, healthCached>>

\* Resolve: the cache; Secret Manager, where a missing secret is as good as a found one;
\* the fallback file, when the failure is one that Resolve falls back on.
ProbeSecretManager(c) ==
    /\ Collecting(c) /\ ready[c].results["secretManager"] = Waiting
    /\ \/ /\ healthCached \/ ("secretManager" \in reachable /\ ~healthSecret.stored)
          /\ Record(c, "secretManager", "none")
          /\ UNCHANGED healthCached
       \/ /\ ~healthCached
          /\ healthSecret.fallback \/ ("secretManager" \in reachable /\ healthSecret.stored)
          /\ Record(c, "secretManager", "none")
          /\ healthCached' = TRUE
       \/ /\ ~healthCached
          /\ \E err \in Failure(c, "secretManager") : Record(c, "secretManager", err)
          /\ UNCHANGED healthCached
    /\ UNCHANGED <<reachable, healthSecret>>

\* The status of the report: the worst one of a probe.
Overall(results) ==
    CASE \E d \in Dependency : results[d] = "error" -> "error"
      [] \A d \in Dependency : results[d] = "ok" -> "ok"
      [] OTHER -> "degraded"

\* Collect waits for all probes, however long they take.
Collected(c) == \A d \in Dependency : ready[c].results[d] # Waiting

\* HealthReport adds the version and the uptime.  It fails only for probes without a name
\* or a function, which main.go does not make.
HealthReport(results) == [status |-> Overall(results), checks |-> results]

\* What the response lists under "details".
Details(report) == {d \in Dependency : report.checks[d] # "ok"}

RespondReady(c) ==
    LET report == HealthReport(ready[c].results)
    IN  /\ Collecting(c) /\ Collected(c)
        /\ ready' = [ready EXCEPT ![c].pc = IF report.status = "ok" THEN "200" ELSE "503",
                                  ![c].details = Details(report)]
        /\ UNCHANGED <<reachable, healthSecret, healthCached>>

HealthNext ==
    \/ \E d \in Dependency : Switch(d)
    \/ \E c \in ReadyCall :
          \/ HealthTick(c) \/ ClientLeaves(c)
          \/ Readyz(c) \/ ProbeFirestore(c) \/ ProbeSecretManager(c) \/ RespondReady(c)

HealthSpec == HealthInit /\ [][HealthNext]_healthVars

-----------------------------------------------------------------------------
\* A 200 from /readyz says that every probe ended in its time, and that every dependency
\* answered at some moment of the request, whatever failed and recovered around it;
\* except that Secret Manager is never asked again once its secret is in the cache.
\* A 503 names what failed.
ReadyTells ==
    \A c \in ReadyCall :
        /\ ready[c].pc = "200" =>
              /\ ready[c].late = {}
              /\ Dependency \subseteq
                    ready[c].reached \cup (IF healthCached THEN {"secretManager"} ELSE {})
        /\ ready[c].pc = "503" => ready[c].late \subseteq ready[c].details /\ ready[c].details # {}

=============================================================================
