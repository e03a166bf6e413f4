------------------------------ MODULE Profiles ------------------------------
(***************************************************************************)
(* services/user_service.go over repositories/firestore/user_repository.go: *)
(* the profile of one user, seeded from Firebase at its first use, edited  *)
(* by the user, masked and (de)activated by staff, under an optimistic     *)
(* lock: the update time of the document that a caller read.               *)
(*                                                                         *)
(* Of a profile are kept its version, what tells personal data from the    *)
(* mask, one field that users edit, and the active flag.                   *)
(*                                                                         *)
(* The audit record of a change is appended by audit_log_service.go, whose *)
(* Record reports a failed Append to its logger and to nobody else.        *)
(***************************************************************************)
EXTENDS Integers, FiniteSets

CONSTANTS
    ProfCall,       \* calls of the user service
    ProfName,       \* display names that users choose
    FirebaseName,   \* the display name Firebase has
    MaxVersion      \* bound: writes to the document

MaskName == "Masked User"
ASSUME ProfileAssumption ==
    MaxVersion \in Nat /\ MaskName \notin ProfName \cup {FirebaseName}

VARIABLES
    profile,        \* the Firestore document, or NoProfile
    profCalls,      \* [ProfCall -> what the call is doing]
    auditService,   \* whether the service was built with an audit service
    audits,         \* calls whose audit record is stored
    warned,         \* history: calls whose Append failed, which Record logged
    committed,      \* history: calls whose change was stored
    cutShort        \* history: calls that died or could not read the result back

profVars == <<profile, profCalls, auditService, audits, warned, committed, cutShort>>

\* version is the document's update time; masked is PiiMaskedAt # nil; email tells
\* whether the address is the user's.
Profile == [version : 1..MaxVersion, name : ProfName \cup {FirebaseName, MaskName},
            email : {"real", "masked"}, masked : BOOLEAN, active : BOOLEAN]
NoProfile == [version |-> 0, name |-> FirebaseName, email |-> "real",
              masked |-> FALSE, active |-> TRUE]
NoCommand == [op |-> "none"]
Command == [op : {"get", "mask"}] \cup [op : {"update"}, name : ProfName]
           \cup [op : {"active"}, to : BOOLEAN]
\* expected is the version the client says it saw, or 0 when it does not say.
IdleCall == [pc |-> "idle", command |-> NoCommand, expected |-> 0, read |-> NoProfile]

ProfilesTypeOK ==
    /\ profile \in Profile \cup {NoProfile}
    /\ profCalls \in [ProfCall -> [pc : {"idle", "loading", "seeding", "writing", "rereading", "done"},
                                   command : Command \cup {NoCommand}, expected : 0..MaxVersion,
                                   read : Profile \cup {NoProfile}]]
    /\ auditService \in BOOLEAN
    /\ audits \subseteq ProfCall /\ warned \subseteq ProfCall
    /\ committed \subseteq ProfCall /\ cutShort \subseteq ProfCall

ProfilesInit ==
    /\ profile = NoProfile
    /\ profCalls = [p \in ProfCall |-> IdleCall]
    /\ auditService \in BOOLEAN
    /\ audits = {} /\ warned = {} /\ committed = {} /\ cutShort = {}

StartCall(p, command, expected) ==
    /\ profCalls[p].pc = "idle"
    /\ expected # 0 => command.op \in {"update", "active"}
    /\ profCalls' = [profCalls EXCEPT ![p] =
           [IdleCall EXCEPT !.pc = "loading", !.command = command, !.expected = expected]]
    /\ UNCHANGED <<profile, auditService, audits, warned, committed, cutShort>>

\* What each command makes of the profile that the call read.
Changed(seen, command) ==
    CASE command.op = "update" -> [seen EXCEPT !.name = command.name]
      [] command.op = "mask" -> [seen EXCEPT !.name = MaskName, !.email = "masked",
                                             !.masked = TRUE, !.active = FALSE]
      [] command.op = "active" -> [seen EXCEPT !.active = command.to]
      [] OTHER -> seen

\* The call has the profile: it ends if that is not the one the client expects or
\* nothing is to change.  A mask is always written.
WithProfile(call, seen) ==
    LET stops == \/ call.command.op = "get"
                 \/ call.expected \notin {0, seen.version}
                 \/ call.command.op # "mask" /\ Changed(seen, call.command) = seen
    IN  [call EXCEPT !.pc = IF stops THEN "done" ELSE "writing", !.read = seen]

\* getProfile: the profile is read, and sought in Firebase when there is none; only
\* SetUserActive takes none for an error.  The repository and Firebase may fail.
GetProfile(p) ==
    LET call == profCalls[p]
    IN  /\ call.pc = "loading"
        /\ profCalls' \in {[profCalls EXCEPT ![p].pc = "done"],
                           [profCalls EXCEPT ![p] =
                               IF profile # NoProfile THEN WithProfile(call, profile)
                               ELSE [call EXCEPT !.pc = IF call.command.op = "active"
                                                        THEN "done" ELSE "seeding"]]}
        /\ UNCHANGED <<profile, auditService, audits, warned, committed, cutShort>>

\* UpdateProfile of the repository without LastSyncTime: the document is set to the
\* Firebase data whatever is there by now.
Seed(p) ==
    LET fresh == [NoProfile EXCEPT !.version = profile.version + 1]
    IN  /\ profCalls[p].pc = "seeding"
        /\ profile.version < MaxVersion
        /\ \/ profile' = fresh /\ profCalls' = [profCalls EXCEPT ![p] = WithProfile(profCalls[p], fresh)]
           \/ profile' \in {profile, fresh} /\ profCalls' = [profCalls EXCEPT ![p].pc = "done"]
        /\ UNCHANGED <<auditService, audits, warned, committed, cutShort>>

\* A plausible bug: the update time is not compared.
WriteBlindly(p) ==
    LET call == profCalls[p]
        after == [Changed(call.read, call.command) EXCEPT !.version = profile.version + 1]
    IN  /\ call.pc = "writing" /\ profile.version < MaxVersion
        /\ profile' = after
        /\ profCalls' = [profCalls EXCEPT ![p].pc = "rereading"]
        /\ committed' = committed \cup {p}
        /\ UNCHANGED <<auditService, audits, warned, cutShort>>

\* UpdateProfile of the repository with LastSyncTime: one transaction compares the
\* update time and sets the document, or the call ends with a conflict.
Write(p) ==
    LET call == profCalls[p]
        after == [Changed(call.read, call.command) EXCEPT !.version = profile.version + 1]
    IN  /\ call.pc = "writing" /\ profile.version < MaxVersion
        /\ \/ /\ call.read.version = profile.version
              /\ profile' = after
              /\ profCalls' = [profCalls EXCEPT ![p].pc = "rereading"]
              /\ committed' = committed \cup {p}
           \/ /\ call.read.version # profile.version
              /\ profCalls' = [profCalls EXCEPT ![p].pc = "done"]
              /\ UNCHANGED <<profile, committed>>
        /\ UNCHANGED <<auditService, audits, warned, cutShort>>

\* The repository reads the document back; when that fails, the call ends there.
ReadBackFails(p) ==
    /\ profCalls[p].pc = "rereading"
    /\ profCalls' = [profCalls EXCEPT ![p].pc = "done"]
    /\ cutShort' = cutShort \cup {p}
    /\ UNCHANGED <<profile, auditService, audits, warned, committed>>

\* A plausible bug: a mask is not audited when the profile was masked before.
AuditSome(p) ==
    /\ profCalls[p].pc = "rereading"
    /\ profCalls' = [profCalls EXCEPT ![p].pc = "done"]
    /\ audits' = IF profCalls[p].command.op = "mask" /\ profCalls[p].read.masked
                 THEN audits ELSE audits \cup {p}
    /\ UNCHANGED <<profile, auditService, warned, committed, cutShort>>

\* The document is read back, and appendAudit has the audit service, if there is one,
\* append the record.  Append may fail, and may have stored the record all the same:
\* Record logs the failure, and the call succeeds.
ReadBack(p) ==
    /\ profCalls[p].pc = "rereading"
    /\ profCalls' = [profCalls EXCEPT ![p].pc = "done"]
    /\ \/ /\ auditService
          /\ audits' = audits \cup {p}
          /\ UNCHANGED warned
       \/ /\ auditService
          /\ audits' \in {audits, audits \cup {p}}
          /\ warned' = warned \cup {p}
       \/ /\ ~auditService
          /\ UNCHANGED <<audits, warned>>
    /\ UNCHANGED <<profile, auditService, committed, cutShort>>

\* The instance dies or the request is cut off.
CallDies(p) ==
    /\ profCalls[p].pc \notin {"idle", "done"}
    /\ profCalls' = [profCalls EXCEPT ![p].pc = "done"]
    /\ cutShort' = cutShort \cup {p}
    /\ UNCHANGED <<profile, auditService, audits, warned, committed>>

ProfilesNext ==
    \/ \E p \in ProfCall, command \in Command, expected \in {0, profile.version} :
          StartCall(p, command, expected)
    \/ \E p \in ProfCall : \/ GetProfile(p) \/ Seed(p) \/ Write(p)
                           \/ ReadBack(p) \/ ReadBackFails(p) \/ CallDies(p)

ProfilesSpec == ProfilesInit /\ [][ProfilesNext]_profVars

-----------------------------------------------------------------------------
\* A stored change touches what its command is about and nothing else, whatever was
\* stored since the call read the profile: no name, mask or deactivation is undone by
\* a call about something else.  The exception is a call that found no profile and
\* seeds it after another call did: it overwrites even a mask.
ChangesSurvive ==
    [][profile'.version = profile.version \/ profile = NoProfile \/ \E p \in ProfCall :
         \/ profCalls[p].pc = "seeding" /\ profCalls'[p].pc # "seeding"
         \/ /\ profCalls[p].pc = "writing" /\ profCalls'[p].pc = "rereading"
            /\ profile' = [Changed(profile, profCalls[p].command)
                               EXCEPT !.version = profile.version + 1]
      ]_profVars

\* Audit records and stored changes go together, whatever dies, conflicts or fails on
\* the way: a record, or the warning that it could not be appended, is of a stored
\* change, and a call that ends with a stored change leaves one of the two if there is
\* an audit service, unless it died or could not read its result back.
AuditTrail ==
    \A p \in ProfCall : profCalls[p].pc = "done" =>
        /\ p \in audits \cup warned => p \in committed /\ auditService
        /\ p \in committed /\ auditService => p \in audits \cup warned \cup cutShort

=============================================================================
