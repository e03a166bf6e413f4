------------------------------ MODULE Provider ------------------------------
(***************************************************************************)
(* platform/firestore/provider.go: the Firestore client that all           *)
(* repositories share, created by the first call that needs it while the   *)
(* others wait on a channel, and closed at shutdown.                       *)
(*                                                                         *)
(* Clients and channels are named by the call of Client that makes them.   *)
(* A step is what happens between two operations on the mutex, the channel *)
(* or the closed flag.                                                     *)
(***************************************************************************)
EXTENDS Integers, FiniteSets

CONSTANTS
    Caller,         \* calls of Client, by repositories and RunTransaction
    Closer          \* calls of Close

Nil == "nil"
ASSUME ProviderAssumption == Nil \notin Caller

VARIABLES
    provClient,     \* p.client
    provClosed,     \* p.closed
    initCh,         \* p.initCh: the call that creates the client
    channel,        \* [Caller -> its channel: what is buffered, and whether it is closed]
    opened,         \* Firestore clients created and not closed
    calling,        \* [Caller -> what the call is doing]
    closing         \* [Closer -> what the call is doing]

provVars == <<provClient, provClosed, initCh, channel, opened, calling, closing>>

\* initResult, or Nil when nothing is buffered.  A received zero value is the same as
\* a result without client and without error.
InitResult == {Nil, "error"} \cup Caller
Empty == [buffer |-> Nil, closed |-> FALSE]
Calling(pc, on, got) == [pc |-> pc, on |-> on, got |-> got]
Done(answer) == Calling("done", Nil, answer)

CallerPCs == {"idle", "entering", "locking", "waiting", "creating", "sending", "checking", "done"}
ProviderTypeOK ==
    /\ provClient \in Caller \cup {Nil}
    /\ provClosed \in BOOLEAN
    /\ initCh \in Caller \cup {Nil}
    /\ channel \in [Caller -> [buffer : InitResult, closed : BOOLEAN]]
    /\ opened \subseteq Caller
    /\ calling \in [Caller -> [pc : CallerPCs, on : Caller \cup {Nil},
                               got : InitResult \cup {"closed", "canceled"}]]
    /\ closing \in [Closer -> [pc : {"idle", "locking", "waiting", "closing", "done"},
                               on : Caller \cup {Nil}]]

ProviderInit ==
    /\ provClient = Nil /\ provClosed = FALSE /\ initCh = Nil
    /\ channel = [c \in Caller |-> Empty]
    /\ opened = {}
    /\ calling = [c \in Caller |-> Calling("idle", Nil, Nil)]
    /\ closing = [z \in Closer |-> [pc |-> "idle", on |-> Nil]]

Goes(c, next) == calling' = [calling EXCEPT ![c] = next]

-----------------------------------------------------------------------------
\* A repository operation or a transaction asks for the client.
Ask(c) ==
    /\ calling[c].pc = "idle" /\ Goes(c, Calling("entering", Nil, Nil))
    /\ UNCHANGED <<provClient, provClosed, initCh, channel, opened, closing>>

Enter(c) ==
    /\ calling[c].pc = "entering"
    /\ Goes(c, IF provClosed THEN Done("closed") ELSE Calling("locking", Nil, Nil))
    /\ UNCHANGED <<provClient, provClosed, initCh, channel, opened, closing>>

\* Under the mutex: the client is there, the provider is closed, another call is
\* creating the client, or this one will.
Lock(c) ==
    /\ calling[c].pc = "locking"
    /\ \/ provClient # Nil /\ Goes(c, Done(provClient)) /\ UNCHANGED initCh
       \/ provClient = Nil /\ provClosed /\ Goes(c, Done("closed")) /\ UNCHANGED initCh
       \/ /\ provClient = Nil /\ ~provClosed /\ initCh # Nil
          /\ Goes(c, Calling("waiting", initCh, Nil)) /\ UNCHANGED initCh
       \/ /\ provClient = Nil /\ ~provClosed /\ initCh = Nil
          /\ Goes(c, Calling("creating", c, Nil)) /\ initCh' = c
    /\ UNCHANGED <<provClient, provClosed, channel, opened, closing>>

\* createClient, and the result under the mutex.
CreateClient(c) ==
    /\ calling[c].pc = "creating"
    /\ \/ /\ opened' = opened \cup {c} /\ provClient' = c
          /\ Goes(c, Calling("sending", c, c))
       \/ /\ provClient' = Nil /\ UNCHANGED opened
          /\ Goes(c, Calling("sending", c, "error"))
    /\ initCh' = Nil
    /\ UNCHANGED <<provClosed, channel, closing>>

\* A plausible bug: the waiting calls are told of a client but not of an error.
SendClientOnly(c) ==
    /\ calling[c].pc = "sending"
    /\ channel' = IF calling[c].got = "error" THEN channel
                  ELSE [channel EXCEPT ![c] = [buffer |-> calling[c].got, closed |-> TRUE]]
    /\ Goes(c, IF calling[c].got = "error" THEN Done("error")
               ELSE Calling("checking", Nil, calling[c].got))
    /\ UNCHANGED <<provClient, provClosed, initCh, opened, closing>>

\* The result goes into the channel, which is closed: one receiver takes it.
Send(c) ==
    /\ calling[c].pc = "sending"
    /\ channel' = [channel EXCEPT ![c] = [buffer |-> calling[c].got, closed |-> TRUE]]
    /\ Goes(c, IF calling[c].got = "error" THEN Done("error")
               ELSE Calling("checking", Nil, calling[c].got))
    /\ UNCHANGED <<provClient, provClosed, initCh, opened, closing>>

\* A receive takes what is buffered; from a closed and empty channel it takes Nil.
Readable(d) == channel[d].buffer # Nil \/ channel[d].closed
Taken(d) == channel' = [channel EXCEPT ![d].buffer = Nil]

Receive(c) ==
    LET d == calling[c].on
    IN  /\ calling[c].pc = "waiting" /\ Readable(d) /\ Taken(d)
        /\ Goes(c, IF channel[d].buffer = "error" THEN Done("error")
                   ELSE Calling("checking", Nil, channel[d].buffer))
        /\ UNCHANGED <<provClient, provClosed, initCh, opened, closing>>

\* The caller's context is done first.
Cancel(c) ==
    /\ calling[c].pc = "waiting" /\ Goes(c, Done("canceled"))
    /\ UNCHANGED <<provClient, provClosed, initCh, channel, opened, closing>>

CheckClosed(c) ==
    /\ calling[c].pc = "checking"
    /\ Goes(c, Done(IF provClosed THEN "closed" ELSE calling[c].got))
    /\ UNCHANGED <<provClient, provClosed, initCh, channel, opened, closing>>

-----------------------------------------------------------------------------
Close(z) ==
    /\ closing[z].pc = "idle"
    /\ closing' = [closing EXCEPT ![z].pc = IF provClosed THEN "done" ELSE "locking"]
    /\ UNCHANGED <<provClient, provClosed, initCh, channel, opened, calling>>

\* A plausible bug: Close does not wait for a client that is being created.
CloseAtOnce(z) ==
    /\ closing[z].pc = "locking" /\ ~provClosed
    /\ provClosed' = TRUE /\ provClient' = Nil
    /\ closing' = [closing EXCEPT ![z] = [pc |-> "closing", on |-> provClient]]
    /\ UNCHANGED <<initCh, channel, opened, calling>>

\* Under the mutex: another Close was first, a client is being created, or there is
\* a client to close, or none.
CloseLock(z) ==
    /\ closing[z].pc = "locking"
    /\ \/ /\ provClosed
          /\ closing' = [closing EXCEPT ![z].pc = "done"]
          /\ UNCHANGED <<provClient, provClosed>>
       \/ /\ ~provClosed /\ initCh # Nil
          /\ closing' = [closing EXCEPT ![z] = [pc |-> "waiting", on |-> initCh]]
          /\ UNCHANGED <<provClient, provClosed>>
       \/ /\ ~provClosed /\ initCh = Nil
          /\ provClosed' = TRUE /\ provClient' = Nil
          /\ closing' = [closing EXCEPT ![z] = [pc |-> "closing", on |-> provClient]]
    /\ UNCHANGED <<initCh, channel, opened, calling>>

\* Close takes the result out of the channel, as a waiting caller would, and looks again.
CloseReceive(z) ==
    /\ closing[z].pc = "waiting" /\ Readable(closing[z].on) /\ Taken(closing[z].on)
    /\ closing' = [closing EXCEPT ![z] = [pc |-> "locking", on |-> Nil]]
    /\ UNCHANGED <<provClient, provClosed, initCh, opened, calling>>

CloseCancel(z) ==
    /\ closing[z].pc = "waiting"
    /\ closing' = [closing EXCEPT ![z] = [pc |-> "done", on |-> Nil]]
    /\ UNCHANGED <<provClient, provClosed, initCh, channel, opened, calling>>

\* client.Close runs in a goroutine of its own, which goes on if Close gives up.
ShutDown(z) ==
    /\ closing[z].pc = "closing"
    /\ opened' = opened \ {closing[z].on}
    /\ closing' = [closing EXCEPT ![z] = [pc |-> "done", on |-> Nil]]
    /\ UNCHANGED <<provClient, provClosed, initCh, channel, calling>>

CallStep(c) == Enter(c) \/ Lock(c) \/ CreateClient(c) \/ Send(c) \/ Receive(c) \/ CheckClosed(c)
CloseStep(z) == CloseLock(z) \/ CloseReceive(z) \/ ShutDown(z)

ProviderNext ==
    \/ \E c \in Caller : Ask(c) \/ CallStep(c) \/ Cancel(c)
    \/ \E z \in Closer : Close(z) \/ CloseStep(z) \/ CloseCancel(z)

\* Goroutines run, and createClient ends: it has a dial timeout.  No context need end.
CallerFairness(c) == WF_provVars(CallStep(c))
CloserFairness(z) == WF_provVars(CloseStep(z))
ProviderFairness == (\A c \in Caller : CallerFairness(c)) /\ (\A z \in Closer : CloserFairness(z))

ProviderSpec == ProviderInit /\ [][ProviderNext]_provVars /\ ProviderFairness

\* When these steps can be taken.
MayStep(c) == \/ calling[c].pc \in {"entering", "locking", "creating", "sending", "checking"}
              \/ calling[c].pc = "waiting" /\ Readable(calling[c].on)
MayClose(z) == \/ closing[z].pc \in {"locking", "closing"}
               \/ closing[z].pc = "waiting" /\ Readable(closing[z].on)
CallerEnabled(c) == MayStep(c) => ENABLED <<CallStep(c)>>_provVars
CloserEnabled(z) == MayClose(z) => ENABLED <<CloseStep(z)>>_provVars
ProviderEnabled == (\A c \in Caller : CallerEnabled(c)) /\ (\A z \in Closer : CloserEnabled(z))

-----------------------------------------------------------------------------
\* At most one Firestore client is open, and it is the provider's or in the hands of
\* the Close that ends it: racing callers do not make two, and shutdown leaves none.
ClientsAccounted ==
    /\ Cardinality(opened) <= 1
    /\ opened \subseteq {provClient} \cup {closing[z].on : z \in Closer}
    /\ provClosed => provClient = Nil

\* Every call of Client and of Close returns, without help of its context: whoever
\* waits is woken, by a client, an error, or the closed channel.
CallersReturn ==
    /\ \A c \in Caller : calling[c].pc = "entering" ~> calling[c].pc = "done"
    /\ \A z \in Closer : closing[z].pc = "locking" ~> closing[z].pc = "done"

\* What the comment of Client promises: "Client returns the lazily initialised
\* Firestore client", or an error.
ClientOrError == \A c \in Caller : calling[c].pc = "done" => calling[c].got # Nil

=============================================================================
