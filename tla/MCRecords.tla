----------------------------- MODULE MCRecords ------------------------------
(* The reservations under Firestore's TTL beside the caches of MCCaches: what *)
(* is kept, and may be gone or outdated when it is used.  The two share no    *)
(* variable: each behaviour is one of theirs, and one run explores both.      *)
EXTENDS MCInventory, MCCaches

VARIABLE records    \* whose behaviour this is

RecordsInit ==
    /\ Init /\ CachesInit
    /\ records \in {"reservations", "caches"}
    /\ records # "caches" => part = "keys" /\ jwks = {}

ReservationsStep == records = "reservations" /\ Next /\ UNCHANGED <<cacheVars, records>>
CachesStep == records = "caches" /\ CachesNext /\ UNCHANGED <<vars, records>>

RecordsNext == ReservationsStep \/ CachesStep
recordVars == <<vars, cacheVars, records>>
RecordsSpec == RecordsInit /\ [][RecordsNext]_recordVars

RecordsSymmetry == Permutations(Kid) \cup Permutations(Watcher)

=============================================================================
