------------------------------- MODULE Reviews -------------------------------
(***************************************************************************)
(* services/review_service.go: customers review delivered orders, staff    *)
(* moderate the reviews and reply to approved ones.                        *)
(*                                                                         *)
(* Every operation reads, decides and writes in separate repository calls, *)
(* and every write is unconditional.  A review is named by the call that   *)
(* created it.  Commands are valid (texts are sanitised and clean); events *)
(* are left out: their errors are ignored and nothing reads them.          *)
(***************************************************************************)
EXTENDS Integers, FiniteSets

CONSTANTS
    RevOrder,       \* orders, all of one user
    RevCreate,      \* calls of Create
    RevStaff        \* calls of Moderate and StoreReply

NoOrder == "none"
ASSUME ReviewAssumption == NoOrder \notin RevOrder

VARIABLES
    delivered,      \* orders in a status that allows reviews
    reviews,        \* [RevCreate -> the stored review, or NoReview]
    creating,       \* [RevCreate -> what the call is doing]
    staffing,       \* [RevStaff -> what the call is doing]
    reversed        \* history: reviews whose decision another one overwrote

revVars == <<delivered, reviews, creating, staffing, reversed>>

Decision == {"approved", "rejected"}
Review == [status : Decision \cup {"pending"}, order : RevOrder, reply : BOOLEAN]
NoReview == [status |-> "absent", order |-> NoOrder, reply |-> FALSE]
\* A plausible bug: the review is stored without a status.
NewReviewUnset(o) == [status |-> "unset", order |-> o, reply |-> FALSE]
NewReview(o) == [status |-> "pending", order |-> o, reply |-> FALSE]

NoCreate == [pc |-> "idle", order |-> NoOrder, earlier |-> {}]
\* A staff call: the decision it brings, or "reply" or "unreply" (an empty message).
NoStaff == [pc |-> "idle", review |-> NoOrder, command |-> NoOrder]
StaffDone == [NoStaff EXCEPT !.pc = "done"]

ReviewsTypeOK ==
    /\ delivered \subseteq RevOrder
    /\ reviews \in [RevCreate -> Review \cup {NoReview}]
    /\ creating \in [RevCreate -> [pc : {"idle", "ordering", "checking", "inserting", "done"},
                                   order : RevOrder \cup {NoOrder},
                                   earlier : SUBSET RevCreate]]
    /\ staffing \in [RevStaff -> [pc : {"idle", "reading", "writing", "done"},
                                  review : RevCreate \cup {NoOrder},
                                  command : Decision \cup {"reply", "unreply", NoOrder}]]
    /\ reversed \subseteq RevCreate

ReviewsInit ==
    /\ delivered = {}
    /\ reviews = [c \in RevCreate |-> NoReview]
    /\ creating = [c \in RevCreate |-> NoCreate]
    /\ staffing = [s \in RevStaff |-> NoStaff]
    /\ reversed = {}

\* The order service, external to this module, moves the order on.
DeliverOrder(o) ==
    /\ o \notin delivered
    /\ delivered' = delivered \cup {o}
    /\ UNCHANGED <<reviews, creating, staffing, reversed>>

-----------------------------------------------------------------------------
Create(c, o) ==
    /\ creating[c].pc = "idle"
    /\ creating' = [creating EXCEPT ![c] =
           [pc |-> "ordering", order |-> o,
            earlier |-> {d \in RevCreate : creating[d].pc = "done"}]]
    /\ UNCHANGED <<delivered, reviews, staffing, reversed>>

\* Create: the order is read, and must be the user's and delivered or completed.
CheckOrder(c) ==
    /\ creating[c].pc = "ordering"
    /\ \E pc \in {"checking", "done"} :  \* the repository may fail
          /\ pc = "checking" => creating[c].order \in delivered
          /\ creating' = [creating EXCEPT ![c].pc = pc]
    /\ UNCHANGED <<delivered, reviews, staffing, reversed>>

ReviewsOf(o) == {c \in RevCreate : reviews[c].order = o}

\* A plausible bug: any error of the look-up is taken for "no review yet".
CheckNothing(c) ==
    /\ creating[c].pc = "checking"
    /\ \E pc \in {"inserting", "done"} : creating' = [creating EXCEPT ![c].pc = pc]
    /\ UNCHANGED <<delivered, reviews, staffing, reversed>>

\* Only a look-up that finds nothing lets the call go on: a review is a conflict, an
\* error of the repository ends the call.
EnsureNoExistingReview(c) ==
    /\ creating[c].pc = "checking"
    /\ \E pc \in {"inserting", "done"} :
          /\ pc = "inserting" => ReviewsOf(creating[c].order) = {}
          /\ creating' = [creating EXCEPT ![c].pc = pc]
    /\ UNCHANGED <<delivered, reviews, staffing, reversed>>

\* Insert, which may fail with or without effect; then the event.
InsertReview(c) ==
    /\ creating[c].pc = "inserting"
    /\ reviews' \in {reviews, [reviews EXCEPT ![c] = NewReview(creating[c].order)]}
    /\ creating' = [creating EXCEPT ![c].pc = "done"]
    /\ UNCHANGED <<delivered, staffing, reversed>>

-----------------------------------------------------------------------------
\* Moderate and StoreReply: one call each, of a review that exists.
Staff(s, c, command) ==
    /\ staffing[s].pc = "idle" /\ reviews[c].status # "absent"
    /\ staffing' = [staffing EXCEPT ![s] = [pc |-> "reading", review |-> c, command |-> command]]
    /\ UNCHANGED <<delivered, reviews, creating, reversed>>

\* A plausible bug: the status of the review is not looked at.
AllowsAny(review, command) == TRUE

\* A decision is for a pending review, a reply for an approved one.
Allows(review, command) ==
    review.status = IF command \in Decision THEN "pending" ELSE "approved"

\* The review is read.  Nothing is left to do when it has the status already, cannot
\* take the command, or the repository fails.
FindReview(s) ==
    /\ staffing[s].pc = "reading"
    /\ \/ /\ Allows(reviews[staffing[s].review], staffing[s].command)
          /\ staffing' = [staffing EXCEPT ![s].pc = "writing"]
       \/ staffing' = [staffing EXCEPT ![s] = StaffDone]
    /\ UNCHANGED <<delivered, reviews, creating, reversed>>

\* UpdateStatus, whatever the status is by now; the reply stays.
Moderate(s) ==
    LET c == staffing[s].review
    IN  /\ staffing[s].pc = "writing" /\ staffing[s].command \in Decision
        /\ reviews' = [reviews EXCEPT ![c].status = staffing[s].command]
        /\ reversed' = IF reviews[c].status \in Decision \ {staffing[s].command}
                       THEN reversed \cup {c} ELSE reversed
        /\ staffing' = [staffing EXCEPT ![s] = StaffDone]
        /\ UNCHANGED <<delivered, creating>>

\* UpdateReply: an empty message takes the reply away.
StoreReply(s) ==
    /\ staffing[s].pc = "writing" /\ staffing[s].command \in {"reply", "unreply"}
    /\ reviews' = [reviews EXCEPT ![staffing[s].review].reply = staffing[s].command = "reply"]
    /\ staffing' = [staffing EXCEPT ![s] = StaffDone]
    /\ UNCHANGED <<delivered, creating, reversed>>

ReviewsNext ==
    \/ \E o \in RevOrder : DeliverOrder(o)
    \/ \E c \in RevCreate, o \in RevOrder : Create(c, o)
    \/ \E c \in RevCreate : CheckOrder(c) \/ EnsureNoExistingReview(c) \/ InsertReview(c)
    \/ \E s \in RevStaff, c \in RevCreate, command \in Decision \cup {"reply", "unreply"} :
          Staff(s, c, command)
    \/ \E s \in RevStaff : FindReview(s) \/ Moderate(s) \/ StoreReply(s)

ReviewsSpec == ReviewsInit /\ [][ReviewsNext]_revVars

-----------------------------------------------------------------------------
\* An order has two reviews only if the calls that created them overlapped.
OneReviewPerOrder ==
    \A o \in RevOrder : \A c, d \in ReviewsOf(o) :
        c # d => c \notin creating[d].earlier /\ d \notin creating[c].earlier

\* A review that carries a reply is approved, unless two moderators who both read it
\* as pending decided differently and the second write won.
RepliesOnApproved ==
    \A c \in RevCreate : reviews[c].reply => reviews[c].status = "approved" \/ c \in reversed

=============================================================================
