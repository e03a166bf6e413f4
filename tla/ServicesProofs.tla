---------------------------- MODULE ServicesProofs ----------------------------
(***************************************************************************)
(* The review service, the user service, the readiness probes and the      *)
(* low-stock list, for any calls, orders, names, timeouts, stock and       *)
(* pages.  The four share no variable, and each has its own specification, *)
(* invariant and theorems.  The last section puts the six services side    *)
(* by side, as the runs do: what the specification of one implies, the     *)
(* composition implies as well.                                            *)
(***************************************************************************)
EXTENDS MCServices, PlatformProofs, FiniteSetTheorems, WellFoundedInduction, TLAPS

-----------------------------------------------------------------------------
(* Reviews.                                                                  *)

Creations == [pc : {"idle", "ordering", "checking", "inserting", "done"},
              order : RevOrder \cup {NoOrder}, earlier : SUBSET RevCreate]
Commands == Decision \cup {"reply", "unreply"}
Staffings == [pc : {"idle", "reading", "writing", "done"}, review : RevCreate \cup {NoOrder},
              command : Commands \cup {NoOrder}]

Written(c) == reviews[c].status # "absent"

\* A review is written by the last step of its call, for the order of the call.
ReviewOfCall ==
    \A c \in RevCreate :
        /\ creating[c].pc # "idle" => creating[c].order \in RevOrder
        /\ Written(c) => creating[c].pc = "done" /\ reviews[c].order = creating[c].order

\* What had ended when a call began has ended.
RevEarlierDone == \A c, d \in RevCreate : c \in creating[d].earlier => creating[c].pc = "done"

\* A call that is about to insert, or has, found no review of its order by an earlier call.
RevLookedUp ==
    \A d \in RevCreate : creating[d].pc = "inserting" \/ Written(d) =>
        \A c \in creating[d].earlier : reviews[c].order # creating[d].order

\* A staff call is about a review that exists; one that is to store a reply found it
\* approved, and it still is unless another decision came in between.
StaffOnReviews ==
    \A s \in RevStaff :
        LET c == staffing[s].review
        IN  /\ staffing[s].pc \in {"reading", "writing"} =>
                  c \in RevCreate /\ Written(c) /\ staffing[s].command \in Commands
            /\ staffing[s].pc = "writing" /\ staffing[s].command = "reply" =>
                  reviews[c].status = "approved" \/ c \in reversed

ReviewsInv == ReviewsTypeOK /\ ReviewOfCall /\ RevEarlierDone /\ RevLookedUp
              /\ StaffOnReviews /\ RepliesOnApproved

LEMMA ReviewTypeFacts ==
    ASSUME ReviewsTypeOK
    PROVE  /\ delivered \subseteq RevOrder /\ reversed \subseteq RevCreate
           /\ reviews \in [RevCreate -> Review \cup {NoReview}]
           /\ creating \in [RevCreate -> Creations] /\ staffing \in [RevStaff -> Staffings]
BY DEF ReviewsTypeOK, Creations, Staffings, Commands

LEMMA ReviewTypesSuffice ==
    ASSUME delivered' \subseteq RevOrder, reversed' \subseteq RevCreate,
           reviews' \in [RevCreate -> Review \cup {NoReview}],
           creating' \in [RevCreate -> Creations], staffing' \in [RevStaff -> Staffings]
    PROVE  ReviewsTypeOK'
BY DEF ReviewsTypeOK, Creations, Staffings, Commands

LEMMA ReviewFacts ==
    /\ NoReview.status = "absent" /\ NoReview.order \notin RevOrder /\ NoReview.reply = FALSE
    /\ \A r \in Review : r.status # "absent" /\ r.order \in RevOrder /\ r.reply \in BOOLEAN
    /\ \A o \in RevOrder : NewReview(o) \in Review /\ NewReview(o).order = o
                           /\ NewReview(o).reply = FALSE
BY ReviewAssumption DEF NoReview, Review, Decision, NewReview

LEMMA ReviewsInitInv == ReviewsInit => ReviewsInv
<1> SUFFICES ASSUME ReviewsInit PROVE ReviewsInv
  OBVIOUS
<1>1. ReviewsTypeOK
  BY DEF ReviewsInit, ReviewsTypeOK, NoCreate, NoStaff
<1>2. /\ \A c \in RevCreate : ~Written(c) /\ reviews[c].reply = FALSE
                              /\ creating[c].pc = "idle" /\ creating[c].earlier = {}
      /\ \A s \in RevStaff : staffing[s].pc = "idle"
  BY ReviewFacts DEF ReviewsInit, Written, NoCreate, NoStaff
<1> QED
  BY <1>1, <1>2 DEF ReviewsInv, ReviewOfCall, RevEarlierDone, RevLookedUp, StaffOnReviews,
                    RepliesOnApproved

\* A Create goes on to u: its order and what was earlier stay once it began, it inserts
\* only after a look-up that found none, and only its last step writes, its own review.
LEMMA CreateStep ==
    ASSUME ReviewsInv, NEW c \in RevCreate, NEW u \in Creations,
           creating' = [creating EXCEPT ![c] = u], creating[c].pc # "done",
           u.pc # "idle", u.order \in RevOrder,
           \A d \in u.earlier : creating[d].pc = "done" /\ (d \in creating[c].earlier \/ u.pc = "ordering"),
           creating[c].pc # "idle" => u.order = creating[c].order,
           u.pc = "inserting" => ReviewsOf(u.order) = {},
           reviews' \in {reviews, [reviews EXCEPT ![c] = NewReview(u.order)]},
           reviews' # reviews => creating[c].pc = "inserting" /\ u.pc = "done",
           UNCHANGED <<delivered, staffing, reversed>>
    PROVE  ReviewsInv'
<1>1. /\ reviews \in [RevCreate -> Review \cup {NoReview}]
      /\ creating \in [RevCreate -> Creations]
      /\ ~Written(c) /\ reviews[c] = NoReview
      /\ NewReview(u.order) \in Review /\ NewReview(u.order).order = u.order
      /\ NewReview(u.order).reply = FALSE
  BY ReviewTypeFacts, ReviewFacts DEF ReviewsInv, ReviewOfCall, Written
<1>2. \A d \in RevCreate : IF d = c THEN creating'[d] = u ELSE creating'[d] = creating[d]
  BY <1>1
<1>3. /\ reviews' \in [RevCreate -> Review \cup {NoReview}]
      /\ reviews'[c] \in {NoReview, NewReview(u.order)}
      /\ \A d \in RevCreate : d # c => reviews'[d] = reviews[d] /\ (Written(d)' <=> Written(d))
  BY <1>1 DEF Written
<1>4. Written(c)' => creating[c].pc = "inserting" /\ u.pc = "done" /\ reviews'[c].order = u.order
  BY <1>1, <1>3, ReviewFacts DEF Written
<1>5. ReviewsTypeOK'
  <2>1. creating' \in [RevCreate -> Creations]
    BY <1>1
  <2> QED
    BY <1>3, <2>1, ReviewTypeFacts, ReviewTypesSuffice DEF ReviewsInv
<1>6. ReviewOfCall'
  BY <1>2, <1>3, <1>4 DEF ReviewsInv, ReviewOfCall
<1>7. RevEarlierDone'
  BY <1>2 DEF ReviewsInv, RevEarlierDone, Creations
<1>8. RevLookedUp'
  <2> SUFFICES ASSUME NEW d \in RevCreate, creating'[d].pc = "inserting" \/ Written(d)',
                      NEW e \in creating'[d].earlier, reviews'[e].order = creating'[d].order
               PROVE  FALSE
    BY DEF RevLookedUp
  <2>1. e \in RevCreate /\ creating[e].pc = "done" /\ e # c /\ reviews'[e] = reviews[e]
    BY <1>1, <1>2, <1>3 DEF ReviewsInv, RevEarlierDone, Creations
  <2>2. CASE d # c
    BY <1>2, <1>3, <2>1, <2>2 DEF ReviewsInv, RevLookedUp
  <2>3. CASE d = c /\ u.pc = "inserting"
    BY <1>2, <2>1, <2>3 DEF ReviewsOf
  <2>4. CASE d = c /\ Written(c)'
    BY <1>2, <1>4, <2>1, <2>4 DEF ReviewsInv, RevLookedUp
  <2> QED
    BY <1>2, <2>2, <2>3, <2>4
<1>9. StaffOnReviews'
  <2>1. \A s \in RevStaff : staffing[s].pc \in {"reading", "writing"} => staffing[s].review # c
    BY <1>1 DEF ReviewsInv, StaffOnReviews
  <2> QED
    BY <1>3, <2>1 DEF ReviewsInv, StaffOnReviews
<1>10. RepliesOnApproved'
  BY <1>1, <1>3, ReviewFacts DEF ReviewsInv, RepliesOnApproved
<1> QED
  BY <1>5, <1>6, <1>7, <1>8, <1>9, <1>10 DEF ReviewsInv

LEMMA CreatesInv ==
    ASSUME ReviewsInv, NEW c \in RevCreate,
           \/ \E o \in RevOrder : Create(c, o)
           \/ CheckOrder(c) \/ EnsureNoExistingReview(c) \/ InsertReview(c)
    PROVE  ReviewsInv'
<1>1. /\ creating \in [RevCreate -> Creations] /\ creating[c] \in Creations
      /\ creating[c].pc # "idle" => creating[c].order \in RevOrder
      /\ \A d \in creating[c].earlier : d \in RevCreate /\ creating[d].pc = "done"
  BY ReviewTypeFacts DEF ReviewsInv, ReviewOfCall, RevEarlierDone, Creations
<1>2. ASSUME NEW o \in RevOrder, Create(c, o)
      PROVE  ReviewsInv'
  <2>1. PICK u : u = [pc |-> "ordering", order |-> o,
                      earlier |-> {d \in RevCreate : creating[d].pc = "done"}]
    OBVIOUS
  <2>2. /\ u \in Creations /\ u.pc = "ordering" /\ u.order = o
        /\ \A d \in u.earlier : creating[d].pc = "done"
    BY <2>1 DEF Creations
  <2>3. creating[c].pc = "idle" /\ creating' = [creating EXCEPT ![c] = u]
        /\ UNCHANGED <<delivered, reviews, staffing, reversed>>
    BY <1>2, <2>1 DEF Create
  <2> QED
    BY <2>2, <2>3, CreateStep
<1>3. ASSUME NEW pc \in {"checking", "inserting", "done"},
             creating' = [creating EXCEPT ![c].pc = pc],
             creating[c].pc \in {"ordering", "checking", "inserting"},
             pc = "inserting" => ReviewsOf(creating[c].order) = {},
             reviews' \in {reviews, [reviews EXCEPT ![c] = NewReview(creating[c].order)]},
             reviews' # reviews => creating[c].pc = "inserting" /\ pc = "done",
             UNCHANGED <<delivered, staffing, reversed>>
      PROVE  ReviewsInv'
  <2>1. PICK u : u = [creating[c] EXCEPT !.pc = pc]
    OBVIOUS
  <2>2. /\ u \in Creations /\ u.pc = pc /\ u.order = creating[c].order
        /\ u.earlier = creating[c].earlier
    BY <1>1, <2>1 DEF Creations
  <2>3. creating' = [creating EXCEPT ![c] = u]
    BY <1>3, <2>1
  <2>4. /\ u.order \in RevOrder
        /\ \A d \in u.earlier : creating[d].pc = "done" /\ d \in creating[c].earlier
        /\ u.pc = "inserting" => ReviewsOf(u.order) = {}
        /\ reviews' \in {reviews, [reviews EXCEPT ![c] = NewReview(u.order)]}
        /\ reviews' # reviews => creating[c].pc = "inserting" /\ u.pc = "done"
    BY <1>1, <1>3, <2>2
  <2> QED
    BY <1>3, <2>2, <2>3, <2>4, CreateStep
<1>4. CASE CheckOrder(c)
  BY <1>3, <1>4 DEF CheckOrder
<1>5. CASE EnsureNoExistingReview(c)
  BY <1>3, <1>5 DEF EnsureNoExistingReview
<1>6. CASE InsertReview(c)
  BY <1>3, <1>6 DEF InsertReview
<1> QED
  BY <1>2, <1>4, <1>5, <1>6

\* A staff call goes on to u; a review c whose status or reply it sets stays where it is.
LEMMA StaffStep ==
    ASSUME ReviewsInv, NEW s \in RevStaff, NEW u \in Staffings,
           staffing' = [staffing EXCEPT ![s] = u],
           u.pc \in {"reading", "writing"} =>
               u.review \in RevCreate /\ Written(u.review) /\ u.command \in Commands,
           u.pc = "writing" /\ u.command = "reply" =>
               reviews[u.review].status = "approved",
           u.pc = "writing" => UNCHANGED <<reviews, reversed>>,
           reviews' \in [RevCreate -> Review \cup {NoReview}], reversed' \subseteq RevCreate,
           reversed \subseteq reversed',
           \A c \in RevCreate : /\ Written(c)' <=> Written(c)
                                /\ reviews'[c].order = reviews[c].order
                                /\ reviews[c].status = "approved" =>
                                      reviews'[c].status = "approved" \/ c \in reversed'
                                /\ reviews'[c].reply => \/ reviews[c].reply
                                                        \/ reviews'[c].status = "approved"
                                                        \/ c \in reversed',
           UNCHANGED <<delivered, creating>>
    PROVE  ReviewsInv'
<1>1. \A t \in RevStaff : IF t = s THEN staffing'[t] = u ELSE staffing'[t] = staffing[t]
  BY ReviewTypeFacts DEF ReviewsInv
<1>2. ReviewsTypeOK'
  <2>1. staffing' \in [RevStaff -> Staffings]
    BY ReviewTypeFacts DEF ReviewsInv
  <2> QED
    BY <2>1, ReviewTypeFacts, ReviewTypesSuffice DEF ReviewsInv
<1>3. ReviewOfCall' /\ RevEarlierDone'
  BY DEF ReviewsInv, ReviewOfCall, RevEarlierDone
<1>4. RevLookedUp'
  <2>1. \A d \in RevCreate : creating[d].earlier \subseteq RevCreate
    BY ReviewTypeFacts DEF ReviewsInv, Creations
  <2> QED
    BY <2>1 DEF ReviewsInv, RevLookedUp
<1>5. StaffOnReviews'
  BY <1>1 DEF ReviewsInv, StaffOnReviews
<1>6. RepliesOnApproved'
  BY DEF ReviewsInv, RepliesOnApproved
<1> QED
  BY <1>2, <1>3, <1>4, <1>5, <1>6 DEF ReviewsInv

LEMMA StaffInv ==
    ASSUME ReviewsInv, NEW s \in RevStaff,
           \/ \E c \in RevCreate, command \in Commands : Staff(s, c, command)
           \/ FindReview(s) \/ Moderate(s) \/ StoreReply(s)
    PROVE  ReviewsInv'
<1>1. /\ reviews \in [RevCreate -> Review \cup {NoReview}] /\ reversed \subseteq RevCreate
      /\ staffing \in [RevStaff -> Staffings] /\ staffing[s] \in Staffings
      /\ StaffDone \in Staffings /\ StaffDone.pc = "done"
      /\ staffing[s].pc \in {"reading", "writing"} =>
            /\ staffing[s].review \in RevCreate /\ Written(staffing[s].review)
            /\ staffing[s].command \in Commands
  BY ReviewTypeFacts DEF ReviewsInv, StaffOnReviews, StaffDone, NoStaff, Staffings
<1>2. UNCHANGED reviews => \A c \in RevCreate : Written(c)' <=> Written(c)
  BY DEF Written
<1>3. ASSUME NEW c \in RevCreate, NEW command \in Commands, Staff(s, c, command)
      PROVE  ReviewsInv'
  <2>1. PICK u : u = [pc |-> "reading", review |-> c, command |-> command]
    OBVIOUS
  <2>2. /\ u \in Staffings /\ u.pc = "reading" /\ u.review = c /\ u.command = command
        /\ Written(c)
    BY <1>3, <2>1 DEF Staffings, Staff, Written
  <2>3. staffing' = [staffing EXCEPT ![s] = u] /\ UNCHANGED <<delivered, reviews, creating, reversed>>
    BY <1>3, <2>1 DEF Staff
  <2> QED
    BY <1>1, <1>2, <2>2, <2>3, StaffStep
<1>4. CASE FindReview(s)
  <2>1. UNCHANGED <<delivered, reviews, creating, reversed>> /\ staffing[s].pc = "reading"
    BY <1>4 DEF FindReview
  <2>2. CASE staffing' = [staffing EXCEPT ![s] = StaffDone]
    BY <1>1, <1>2, <2>1, <2>2, StaffStep
  <2>3. CASE /\ Allows(reviews[staffing[s].review], staffing[s].command)
             /\ staffing' = [staffing EXCEPT ![s].pc = "writing"]
    <3>1. PICK u : u = [staffing[s] EXCEPT !.pc = "writing"]
      OBVIOUS
    <3>2. /\ u \in Staffings /\ u.pc = "writing" /\ u.review = staffing[s].review
          /\ u.command = staffing[s].command
      BY <1>1, <3>1 DEF Staffings
    <3>3. u.command = "reply" => reviews[u.review].status = "approved"
      BY <2>3, <3>2 DEF Allows, Decision
    <3>4. staffing' = [staffing EXCEPT ![s] = u]
      BY <2>3, <3>1
    <3> QED
      BY <1>1, <1>2, <2>1, <3>2, <3>3, <3>4, StaffStep
  <2> QED
    BY <1>4, <2>2, <2>3 DEF FindReview
<1>5. CASE Moderate(s) \/ StoreReply(s)
  <2>1. PICK c : c = staffing[s].review
    OBVIOUS
  <2>2. c \in RevCreate /\ Written(c) /\ reviews[c] \in Review
    BY <1>1, <1>5, <2>1, ReviewFacts DEF Moderate, StoreReply, Written
  <2>3. PICK answered \in BOOLEAN : answered = (staffing[s].command = "reply")
    OBVIOUS
  <2>4. PICK r : r = IF Moderate(s) THEN [reviews[c] EXCEPT !.status = staffing[s].command]
                     ELSE [reviews[c] EXCEPT !.reply = answered]
    OBVIOUS
  <2>5. /\ r \in Review /\ r.order = reviews[c].order
        /\ Moderate(s) => r.status = staffing[s].command /\ r.reply = reviews[c].reply
                          /\ staffing[s].command \in Decision
        /\ ~Moderate(s) => r.status = reviews[c].status /\ r.reply = answered
    BY <2>2, <2>4 DEF Review, Moderate
  <2>6. reviews' = [reviews EXCEPT ![c] = r]
    BY <1>1, <1>5, <2>1, <2>3, <2>4 DEF Moderate, StoreReply
  <2>7. \A d \in RevCreate : IF d = c THEN reviews'[d] = r ELSE reviews'[d] = reviews[d]
    BY <1>1, <2>6
  <2>8. /\ staffing' = [staffing EXCEPT ![s] = StaffDone] /\ UNCHANGED <<delivered, creating>>
        /\ reversed' \subseteq RevCreate /\ reversed \subseteq reversed'
        /\ ~Moderate(s) => reversed' = reversed
        /\ Moderate(s) /\ reviews[c].status \in Decision \ {staffing[s].command} => c \in reversed'
        /\ staffing[s].pc = "writing"
    BY <1>1, <1>5, <2>1, <2>2 DEF Moderate, StoreReply
  <2>9. reviews[c].status = "approved" => r.status = "approved" \/ c \in reversed'
    BY <2>5, <2>8 DEF Decision
  <2>10. r.reply => reviews[c].reply \/ r.status = "approved" \/ c \in reversed'
    BY <1>5, <2>1, <2>3, <2>5, <2>8 DEF ReviewsInv, StaffOnReviews
  <2>11. \A d \in RevCreate : Written(d)' <=> Written(d)
    BY <2>2, <2>5, <2>7, ReviewFacts DEF Written
  <2>12. reviews' \in [RevCreate -> Review \cup {NoReview}]
    BY <1>1, <2>5, <2>6
  <2> QED
    BY <1>1, <2>5, <2>7, <2>8, <2>9, <2>10, <2>11, <2>12, StaffStep
<1> QED
  BY <1>3, <1>4, <1>5

LEMMA ReviewsNextInv == ReviewsInv /\ [ReviewsNext]_revVars => ReviewsInv'
<1> SUFFICES ASSUME ReviewsInv, [ReviewsNext]_revVars PROVE ReviewsInv'
  OBVIOUS
<1>1. ASSUME UNCHANGED <<reviews, creating, staffing, reversed>>, delivered' \subseteq RevOrder
      PROVE  ReviewsInv'
  <2>1. ReviewsTypeOK'
    BY <1>1 DEF ReviewsInv, ReviewsTypeOK
  <2>2. \A c \in RevCreate : Written(c)' <=> Written(c)
    BY <1>1 DEF Written
  <2>3. ReviewOfCall' /\ RevEarlierDone' /\ RepliesOnApproved'
    BY <1>1, <2>2 DEF ReviewsInv, ReviewOfCall, RevEarlierDone, RepliesOnApproved
  <2>4. RevLookedUp' /\ StaffOnReviews'
    BY <1>1, <2>2 DEF ReviewsInv, RevLookedUp, StaffOnReviews
  <2> QED
    BY <2>1, <2>3, <2>4 DEF ReviewsInv
<1>2. CASE UNCHANGED revVars
  BY <1>1, <1>2, ReviewTypeFacts DEF revVars, ReviewsInv
<1>3. ASSUME NEW o \in RevOrder, DeliverOrder(o)
      PROVE  ReviewsInv'
  BY <1>1, <1>3, ReviewTypeFacts DEF DeliverOrder, ReviewsInv
<1> QED
  BY <1>2, <1>3, CreatesInv, StaffInv DEF ReviewsNext, Commands

\* Two reviews of one order were created by calls that overlapped.
LEMMA ReviewsOnce == ReviewsInv => OneReviewPerOrder
<1> SUFFICES ASSUME ReviewsInv, NEW o \in RevOrder, NEW c \in ReviewsOf(o), NEW d \in ReviewsOf(o),
                    c \in creating[d].earlier
             PROVE  FALSE
  BY DEF OneReviewPerOrder
<1>1. /\ c \in RevCreate /\ d \in RevCreate /\ reviews[c].order = o /\ reviews[d].order = o
      /\ reviews[d] \in Review \cup {NoReview}
  BY ReviewTypeFacts DEF ReviewsOf, ReviewsInv
<1>2. Written(d)
  BY <1>1, ReviewFacts DEF Written
<1> QED
  BY <1>1, <1>2 DEF ReviewsInv, ReviewOfCall, RevLookedUp

\* The state of the review service has its type.
THEOREM ReviewsTyped == ReviewsSpec => []ReviewsTypeOK
<1>1. ReviewsInv => ReviewsTypeOK
  BY DEF ReviewsInv
<1> QED
  BY <1>1, ReviewsInitInv, ReviewsNextInv, PTL DEF ReviewsSpec

\* Reviews of the same order are created by overlapping calls or not at all.
THEOREM ReviewsUnique == ReviewsSpec => []OneReviewPerOrder
BY ReviewsOnce, ReviewsInitInv, ReviewsNextInv, PTL DEF ReviewsSpec

\* A reply is on an approved review, unless two decisions crossed.
THEOREM RepliesApproved == ReviewsSpec => []RepliesOnApproved
<1>1. ReviewsInv => RepliesOnApproved
  BY DEF ReviewsInv
<1> QED
  BY <1>1, ReviewsInitInv, ReviewsNextInv, PTL DEF ReviewsSpec

-----------------------------------------------------------------------------
(* Profiles.                                                                 *)

ProfCalls == [pc : {"idle", "loading", "seeding", "writing", "rereading", "done"},
              command : Command \cup {NoCommand}, expected : 0..MaxVersion,
              read : Profile \cup {NoProfile}]

\* A version that a call read names one content of the document: while the version is
\* still the stored one, what the call read is what is stored.
ReadsExact ==
    \A p \in ProfCall : /\ profCalls[p].read.version <= profile.version
                        /\ profCalls[p].read.version = profile.version => profCalls[p].read = profile

\* A call begins with a command, stores its change at most once, on its way to the read
\* of the result, and appends its audit record, or fails to, after both.
CommandsBegun == \A p \in ProfCall : profCalls[p].pc # "idle" => profCalls[p].command \in Command
ChangesStored ==
    \A p \in ProfCall :
        /\ p \in audits \cup warned => p \in committed /\ auditService
        /\ p \in committed => profCalls[p].pc \in {"rereading", "done"}
        /\ profCalls[p].pc = "rereading" => p \in committed
        /\ profCalls[p].pc = "done" /\ p \in committed /\ auditService
              => p \in audits \cup warned \cup cutShort

ProfInv == ProfilesTypeOK /\ ReadsExact /\ CommandsBegun /\ ChangesStored

LEMMA ProfileTypeFacts ==
    ASSUME ProfilesTypeOK
    PROVE  /\ profile \in Profile \cup {NoProfile} /\ profCalls \in [ProfCall -> ProfCalls]
           /\ auditService \in BOOLEAN /\ audits \subseteq ProfCall /\ warned \subseteq ProfCall
           /\ committed \subseteq ProfCall /\ cutShort \subseteq ProfCall
BY DEF ProfilesTypeOK, ProfCalls

LEMMA ProfileTypesSuffice ==
    ASSUME profile' \in Profile \cup {NoProfile}, profCalls' \in [ProfCall -> ProfCalls],
           auditService' \in BOOLEAN, audits' \subseteq ProfCall, warned' \subseteq ProfCall,
           committed' \subseteq ProfCall, cutShort' \subseteq ProfCall
    PROVE  ProfilesTypeOK'
BY DEF ProfilesTypeOK, ProfCalls

\* Any content of the document, stored or not.
Fields == [version : 0..MaxVersion, name : ProfName \cup {FirebaseName, MaskName},
           email : {"real", "masked"}, masked : BOOLEAN, active : BOOLEAN]

LEMMA ProfileFacts ==
    /\ NoProfile.version = 0 /\ MaxVersion \in Nat
    /\ \A f \in Profile : f.version \in 1..MaxVersion
    /\ \A f \in Profile \cup {NoProfile} : f.version \in 0..MaxVersion
    /\ Profile \cup {NoProfile} \subseteq Fields
    /\ \A f \in Fields, v \in 1..MaxVersion :
          [f EXCEPT !.version = v] \in Profile /\ [f EXCEPT !.version = v].version = v
<1>1. NoProfile \in Fields /\ NoProfile.version = 0 /\ MaxVersion \in Nat
  BY ProfileAssumption DEF NoProfile, Fields
<1>2. \A f \in Profile : f.version \in 1..MaxVersion /\ f \in Fields
  BY <1>1 DEF Profile, Fields
<1>3. \A f \in Fields : f.version \in 0..MaxVersion
  BY DEF Fields
<1>4. \A f \in Fields, v \in 1..MaxVersion :
         [f EXCEPT !.version = v] \in Profile /\ [f EXCEPT !.version = v].version = v
  BY DEF Fields, Profile
<1> QED
  BY <1>1, <1>2, <1>3, <1>4

\* What a command makes of a profile is a profile, up to its version.
LEMMA ChangedType ==
    ASSUME NEW f \in Fields, NEW command \in Command
    PROVE  Changed(f, command) \in Fields
<1>1. CASE command.op = "update"
  <2>1. command.name \in ProfName
    BY <1>1 DEF Command
  <2> QED
    BY <1>1, <2>1 DEF Changed, Fields
<1>2. CASE command.op = "mask"
  BY <1>2 DEF Changed, Fields
<1>3. CASE command.op = "active"
  <2>1. command.to \in BOOLEAN
    BY <1>3 DEF Command
  <2>2. PICK to \in BOOLEAN : to = command.to
    BY <2>1
  <2>3. Changed(f, command) = [f EXCEPT !.active = to]
    BY <1>3, <2>2 DEF Changed
  <2> QED
    BY <2>3 DEF Fields
<1>4. CASE command.op = "get"
  BY <1>4 DEF Changed
<1>5. command.op \in {"get", "mask", "update", "active"}
  BY DEF Command
<1> QED
  BY <1>1, <1>2, <1>3, <1>4, <1>5

\* A call that has the profile holds just that.
LEMMA WithProfileType ==
    ASSUME NEW call \in ProfCalls, NEW seen \in Profile \cup {NoProfile}
    PROVE  /\ WithProfile(call, seen) \in ProfCalls /\ WithProfile(call, seen).read = seen
           /\ WithProfile(call, seen).pc \in {"writing", "done"}
           /\ WithProfile(call, seen).command = call.command
BY DEF WithProfile, ProfCalls

LEMMA ProfilesInitInv == ProfilesInit => ProfInv
<1> SUFFICES ASSUME ProfilesInit PROVE ProfInv
  OBVIOUS
<1>1. ProfilesTypeOK
  BY ProfileAssumption DEF ProfilesInit, ProfilesTypeOK, IdleCall
<1>2. \A p \in ProfCall : profCalls[p].pc = "idle" /\ profCalls[p].read = profile
  BY DEF ProfilesInit, IdleCall
<1> QED
  BY <1>1, <1>2, ProfileFacts DEF ProfilesInit, ProfInv, ReadsExact, CommandsBegun, ChangesStored

\* A call goes on to u, the document stays or gets the next version, and what the call
\* then holds is no newer than the document, and is the document if as new.
LEMMA ProfCallStep ==
    ASSUME ProfInv, NEW p \in ProfCall, NEW u \in ProfCalls, profCalls' = [profCalls EXCEPT ![p] = u],
           u.command \in Command,
           \/ profile' = profile
           \/ profile' \in Profile /\ profile'.version = profile.version + 1,
           u.read = profile' \/ u.read = profCalls[p].read \/ u.read = NoProfile,
           audits' \subseteq ProfCall, warned' \subseteq ProfCall, auditService' = auditService,
           committed' \subseteq ProfCall, cutShort' \subseteq ProfCall,
           \A q \in ProfCall : q # p => /\ q \in audits' <=> q \in audits
                                        /\ q \in warned' <=> q \in warned
                                        /\ q \in committed' <=> q \in committed
                                        /\ q \in cutShort => q \in cutShort',
           p \in audits' \cup warned' => p \in committed' /\ auditService,
           p \in committed' => u.pc \in {"rereading", "done"},
           u.pc = "rereading" => p \in committed',
           u.pc = "done" /\ p \in committed' /\ auditService
              => p \in audits' \cup warned' \cup cutShort'
    PROVE  ProfInv'
<1>1. \A q \in ProfCall : IF q = p THEN profCalls'[q] = u ELSE profCalls'[q] = profCalls[q]
  BY ProfileTypeFacts DEF ProfInv
<1>2. /\ profile \in Profile \cup {NoProfile} /\ profile' \in Profile \cup {NoProfile}
      /\ \A q \in ProfCall : profCalls[q].read \in Profile \cup {NoProfile}
  BY ProfileTypeFacts DEF ProfInv, ProfCalls
<1>3. ProfilesTypeOK'
  <2>1. profCalls' \in [ProfCall -> ProfCalls]
    BY ProfileTypeFacts DEF ProfInv
  <2>2. auditService' \in BOOLEAN
    BY ProfileTypeFacts DEF ProfInv
  <2> QED
    BY <1>2, <2>1, <2>2, ProfileTypesSuffice
<1>4. ReadsExact'
  <2>1. /\ profile.version \in Nat /\ profile'.version \in Nat /\ NoProfile.version = 0
        /\ profile'.version = 0 => profile' = NoProfile
        /\ \A q \in ProfCall : profCalls[q].read.version \in Nat
    BY <1>2, ProfileFacts
  <2>2. \A q \in ProfCall : /\ profCalls[q].read.version <= profile'.version
                            /\ profCalls[q].read.version = profile'.version =>
                                  profCalls[q].read = profile'
    BY <2>1 DEF ProfInv, ReadsExact
  <2> QED
    BY <1>1, <2>1, <2>2 DEF ReadsExact
<1>5. CommandsBegun' /\ ChangesStored'
  BY <1>1 DEF ProfInv, CommandsBegun, ChangesStored
<1> QED
  BY <1>3, <1>4, <1>5 DEF ProfInv

\* The version and the content of what a Write stores.
LEMMA WriteStores ==
    ASSUME ProfInv, NEW p \in ProfCall, profCalls[p].pc = "writing", profile.version < MaxVersion,
           profile' = [Changed(profCalls[p].read, profCalls[p].command)
                           EXCEPT !.version = profile.version + 1]
    PROVE  profile' \in Profile /\ profile'.version = profile.version + 1
<1>1. /\ profCalls[p].read \in Profile \cup {NoProfile} /\ profCalls[p].command \in Command
      /\ profile.version \in 0..MaxVersion /\ MaxVersion \in Nat
  BY ProfileTypeFacts, ProfileFacts DEF ProfInv, CommandsBegun, ProfCalls
<1>2. profile.version + 1 \in 1..MaxVersion
  BY <1>1
<1>3. Changed(profCalls[p].read, profCalls[p].command) \in Fields
  BY <1>1, ProfileFacts, ChangedType
<1> QED
  BY <1>2, <1>3, ProfileFacts

LEMMA ProfileCallsInv ==
    ASSUME ProfInv, NEW p \in ProfCall,
           \/ \E command \in Command, expected \in {0, profile.version} : StartCall(p, command, expected)
           \/ GetProfile(p) \/ Seed(p) \/ Write(p)
           \/ ReadBack(p) \/ ReadBackFails(p) \/ CallDies(p)
    PROVE  ProfInv'
<1>1. /\ profile \in Profile \cup {NoProfile} /\ profCalls \in [ProfCall -> ProfCalls]
      /\ auditService \in BOOLEAN /\ audits \subseteq ProfCall /\ warned \subseteq ProfCall
      /\ committed \subseteq ProfCall /\ cutShort \subseteq ProfCall
      /\ profCalls[p] \in ProfCalls
      /\ profCalls[p].pc # "idle" => profCalls[p].command \in Command
      /\ profile.version \in 0..MaxVersion /\ MaxVersion \in Nat
      /\ p \in audits \cup warned => p \in committed /\ auditService
      /\ p \in committed => profCalls[p].pc \in {"rereading", "done"}
      /\ profCalls[p].pc = "rereading" => p \in committed
  BY ProfileTypeFacts, ProfileFacts DEF ProfInv, CommandsBegun, ChangesStored
<1>2. ASSUME NEW pc \in {"seeding", "rereading", "done"}
      PROVE  /\ [profCalls[p] EXCEPT !.pc = pc] \in ProfCalls
             /\ [profCalls[p] EXCEPT !.pc = pc].pc = pc
             /\ [profCalls[p] EXCEPT !.pc = pc].command = profCalls[p].command
             /\ [profCalls[p] EXCEPT !.pc = pc].read = profCalls[p].read
  BY <1>1 DEF ProfCalls
<1>3. ASSUME NEW command \in Command, NEW expected \in {0, profile.version},
             StartCall(p, command, expected)
      PROVE  ProfInv'
  <2>1. PICK u : u = [IdleCall EXCEPT !.pc = "loading", !.command = command, !.expected = expected]
    OBVIOUS
  <2>2. /\ u \in ProfCalls /\ u.pc = "loading" /\ u.command = command /\ u.read = NoProfile
    <3>1. IdleCall \in ProfCalls /\ IdleCall.read = NoProfile
      BY <1>1 DEF ProfCalls, IdleCall
    <3>2. expected \in 0..MaxVersion
      BY <1>1
    <3> QED
      BY <2>1, <3>1, <3>2 DEF ProfCalls
  <2>3. /\ profCalls' = [profCalls EXCEPT ![p] = u] /\ profCalls[p].pc = "idle"
        /\ UNCHANGED <<profile, auditService, audits, warned, committed, cutShort>>
    BY <1>3, <2>1 DEF StartCall
  <2> QED
    BY <1>1, <2>2, <2>3, ProfCallStep
<1>4. CASE GetProfile(p)
  <2>1. /\ profCalls[p].pc = "loading" /\ p \notin committed /\ profCalls[p].command \in Command
        /\ UNCHANGED <<profile, auditService, audits, warned, committed, cutShort>>
    BY <1>1, <1>4 DEF GetProfile
  <2>2. PICK u : /\ profCalls' = [profCalls EXCEPT ![p] = u]
                 /\ \/ u = [profCalls[p] EXCEPT !.pc = "done"]
                    \/ u = [profCalls[p] EXCEPT !.pc = "seeding"]
                    \/ u = WithProfile(profCalls[p], profile)
    <3>1. \/ profCalls' = [profCalls EXCEPT ![p] = [profCalls[p] EXCEPT !.pc = "done"]]
          \/ profCalls' = [profCalls EXCEPT ![p] = [profCalls[p] EXCEPT !.pc = "seeding"]]
          \/ profCalls' = [profCalls EXCEPT ![p] = WithProfile(profCalls[p], profile)]
      BY <1>4 DEF GetProfile
    <3> QED
      BY <3>1
  <2>3. /\ u \in ProfCalls /\ u.command = profCalls[p].command
        /\ u.pc \in {"done", "seeding", "writing"}
        /\ (u.read = profile \/ u.read = profCalls[p].read)
    <3>1. CASE u = WithProfile(profCalls[p], profile)
      BY <1>1, <3>1, WithProfileType
    <3> QED
      BY <1>2, <2>2, <3>1
  <2> QED
    BY <1>1, <2>1, <2>2, <2>3, ProfCallStep
<1>5. CASE Seed(p)
  <2>1. PICK fresh : fresh = [NoProfile EXCEPT !.version = profile.version + 1]
    OBVIOUS
  <2>2. /\ profCalls[p].pc = "seeding" /\ p \notin committed /\ profCalls[p].command \in Command
        /\ UNCHANGED <<auditService, audits, warned, committed, cutShort>>
        /\ profile.version + 1 \in 1..MaxVersion
    BY <1>1, <1>5 DEF Seed
  <2>3. fresh \in Profile /\ fresh.version = profile.version + 1
    BY <2>1, <2>2, ProfileFacts
  <2>4. PICK u : /\ profCalls' = [profCalls EXCEPT ![p] = u]
                 /\ \/ profile' = fresh /\ u = WithProfile(profCalls[p], fresh)
                    \/ profile' \in {profile, fresh} /\ u = [profCalls[p] EXCEPT !.pc = "done"]
    <3>1. \/ /\ profile' = fresh
             /\ profCalls' = [profCalls EXCEPT ![p] = WithProfile(profCalls[p], fresh)]
          \/ /\ profile' \in {profile, fresh}
             /\ profCalls' = [profCalls EXCEPT ![p] = [profCalls[p] EXCEPT !.pc = "done"]]
      BY <1>5, <2>1 DEF Seed
    <3> QED
      BY <3>1
  <2>5. /\ u \in ProfCalls /\ u.command = profCalls[p].command /\ u.pc \in {"done", "writing"}
        /\ (u.read = profile' \/ u.read = profCalls[p].read)
    <3>1. CASE profile' = fresh /\ u = WithProfile(profCalls[p], fresh)
      BY <1>1, <2>3, <3>1, WithProfileType
    <3> QED
      BY <1>2, <2>4, <3>1
  <2>6. profile' = profile \/ (profile' \in Profile /\ profile'.version = profile.version + 1)
    BY <2>3, <2>4
  <2> QED
    BY <1>1, <2>2, <2>4, <2>5, <2>6, ProfCallStep
<1>6. CASE Write(p)
  <2>1. /\ profCalls[p].pc = "writing" /\ p \notin committed /\ p \notin audits \cup warned
        /\ profCalls[p].command \in Command /\ profile.version < MaxVersion
        /\ UNCHANGED <<auditService, audits, warned, cutShort>>
    BY <1>1, <1>6 DEF Write
  <2>2. CASE /\ profile' = [Changed(profCalls[p].read, profCalls[p].command)
                                EXCEPT !.version = profile.version + 1]
             /\ profCalls' = [profCalls EXCEPT ![p].pc = "rereading"]
             /\ committed' = committed \cup {p}
    <3>1. profile' \in Profile /\ profile'.version = profile.version + 1
      BY <2>1, <2>2, WriteStores
    <3>2. PICK u : u = [profCalls[p] EXCEPT !.pc = "rereading"]
      OBVIOUS
    <3>3. /\ u \in ProfCalls /\ u.pc = "rereading" /\ u.command = profCalls[p].command
          /\ u.read = profCalls[p].read /\ profCalls' = [profCalls EXCEPT ![p] = u]
      BY <1>2, <2>2, <3>2
    <3> QED
      BY <1>1, <2>1, <2>2, <3>1, <3>3, ProfCallStep
  <2>3. CASE /\ profCalls' = [profCalls EXCEPT ![p].pc = "done"]
             /\ UNCHANGED <<profile, committed>>
    <3>1. PICK u : u = [profCalls[p] EXCEPT !.pc = "done"]
      OBVIOUS
    <3>2. /\ u \in ProfCalls /\ u.pc = "done" /\ u.command = profCalls[p].command
          /\ u.read = profCalls[p].read /\ profCalls' = [profCalls EXCEPT ![p] = u]
      BY <1>2, <2>3, <3>1
    <3> QED
      BY <1>1, <2>1, <2>3, <3>2, ProfCallStep
  <2> QED
    BY <1>6, <2>2, <2>3 DEF Write
<1>7. CASE ReadBack(p) \/ ReadBackFails(p) \/ CallDies(p)
  <2>1. /\ profCalls[p].pc # "idle" /\ profCalls[p].command \in Command
        /\ UNCHANGED <<profile, auditService, committed>>
    BY <1>1, <1>7 DEF ReadBack, ReadBackFails, CallDies
  <2>2. PICK u : u = [profCalls[p] EXCEPT !.pc = "done"]
    OBVIOUS
  <2>3. /\ u \in ProfCalls /\ u.pc = "done" /\ u.command = profCalls[p].command
        /\ u.read = profCalls[p].read /\ profCalls' = [profCalls EXCEPT ![p] = u]
    BY <1>2, <1>7, <2>2 DEF ReadBack, ReadBackFails, CallDies
  <2>4. CASE ReadBack(p)
    <3>1. /\ p \in committed /\ UNCHANGED cutShort
          /\ audits' \in {audits, audits \cup {p}} /\ warned' \in {warned, warned \cup {p}}
          /\ IF auditService THEN p \in audits' \cup warned' ELSE UNCHANGED <<audits, warned>>
      BY <1>1, <2>4 DEF ReadBack
    <3>2. p \in audits' \cup warned' => auditService
      BY <1>1, <3>1
    <3> QED
      BY <1>1, <2>1, <2>3, <3>1, <3>2, ProfCallStep
  <2>5. CASE ReadBackFails(p) \/ CallDies(p)
    <3>1. UNCHANGED <<audits, warned>> /\ cutShort' = cutShort \cup {p}
      BY <2>5 DEF ReadBackFails, CallDies
    <3> QED
      BY <1>1, <2>1, <2>3, <3>1, ProfCallStep
  <2> QED
    BY <1>7, <2>4, <2>5
<1> QED
  BY <1>3, <1>4, <1>5, <1>6, <1>7

LEMMA ProfilesNextInv == ProfInv /\ [ProfilesNext]_profVars => ProfInv'
<1>1. ASSUME ProfInv, UNCHANGED profVars
      PROVE  ProfInv'
  BY <1>1 DEF profVars, ProfInv, ProfilesTypeOK, ReadsExact, CommandsBegun, ChangesStored
<1> QED
  BY <1>1, ProfileCallsInv DEF ProfilesNext

\* The state of the user service has its type.
THEOREM ProfilesTyped == ProfilesSpec => []ProfilesTypeOK
<1>1. ProfInv => ProfilesTypeOK
  BY DEF ProfInv
<1> QED
  BY <1>1, ProfilesInitInv, ProfilesNextInv, PTL DEF ProfilesSpec

\* Stored changes and audit records go together: whatever fails, a record or the warning
\* that it could not be appended is of a stored change, and with an audit service a stored
\* change leaves one of the two, but for calls that were cut short.
THEOREM ChangesAudited == ProfilesSpec => []AuditTrail
<1>1. ProfInv => AuditTrail
  BY DEF ProfInv, ChangesStored, AuditTrail
<1> QED
  BY <1>1, ProfilesInitInv, ProfilesNextInv, PTL DEF ProfilesSpec

\* No stored change undoes what another call stored, but for a late seed: a call writes
\* only while the version it read is the stored one, and then it read what is stored.
THEOREM NoChangeUndone == ProfilesSpec => ChangesSurvive
<1> DEFINE Kept ==
       \/ profile'.version = profile.version \/ profile = NoProfile
       \/ \E p \in ProfCall :
            \/ profCalls[p].pc = "seeding" /\ profCalls'[p].pc # "seeding"
            \/ /\ profCalls[p].pc = "writing" /\ profCalls'[p].pc = "rereading"
               /\ profile' = [Changed(profile, profCalls[p].command)
                                  EXCEPT !.version = profile.version + 1]
<1>1. ProfInv /\ [ProfilesNext]_profVars => [Kept]_profVars
  <2> SUFFICES ASSUME ProfInv, ProfilesNext PROVE Kept
    OBVIOUS
  <2>1. CASE profile' = profile
    BY <2>1
  <2>2. ASSUME NEW p \in ProfCall, Seed(p)
        PROVE  Kept
    <3>1. profCalls \in [ProfCall -> ProfCalls] /\ profCalls[p] \in ProfCalls
          /\ profile \in Profile \cup {NoProfile} /\ profile.version \in Nat
      BY ProfileTypeFacts, ProfileFacts DEF ProfInv
    <3>2. \A f \in Profile \cup {NoProfile} : WithProfile(profCalls[p], f).pc # "seeding"
      BY <3>1, WithProfileType
    <3>3. [NoProfile EXCEPT !.version = profile.version + 1] \in Profile
      <4>1. profile.version + 1 \in 1..MaxVersion
        BY <2>2, <3>1, ProfileFacts DEF Seed
      <4> QED
        BY <4>1, ProfileFacts
    <3>4. profCalls[p].pc = "seeding" /\ profCalls'[p].pc # "seeding"
      BY <2>2, <3>1, <3>2, <3>3 DEF Seed, ProfCalls
    <3> QED
      BY <3>4
  <2>3. ASSUME NEW p \in ProfCall, Write(p)
        PROVE  Kept
    <3>1. CASE profCalls[p].read.version = profile.version
      <4>1. profCalls[p].read = profile
        BY <3>1 DEF ProfInv, ReadsExact
      <4>2. profCalls'[p].pc = "rereading"
        BY <2>3, <3>1, ProfileTypeFacts DEF Write, ProfInv, ProfCalls
      <4> QED
        BY <2>3, <3>1, <4>1, <4>2 DEF Write
    <3> QED
      BY <2>3, <3>1 DEF Write
  <2> QED
    BY <2>1, <2>2, <2>3 DEF ProfilesNext, StartCall, GetProfile, ReadBack, ReadBackFails, CallDies
<1> QED
  BY <1>1, ProfilesInitInv, ProfilesNextInv, PTL DEF ProfilesSpec, ChangesSurvive

-----------------------------------------------------------------------------
(* Readiness.                                                                *)

Requests == [pc : {"idle", "collecting", "200", "503"}, ticks : 0..ReadyTimeout, gone : BOOLEAN,
             results : [Dependency -> Statuses \cup {Waiting}], details : SUBSET Dependency,
             reached : SUBSET Dependency, late : SUBSET Dependency]

\* What a request r has of its probes: one that was late has ended and not well, and one
\* that ended well was answered while the request ran, or from the cache.
ProbesSound(r) ==
    /\ \A d \in r.late : r.results[d] \notin {Waiting, "ok"}
    /\ \A d \in Dependency : r.results[d] = "ok" =>
          d \in r.reached \/ (d = "secretManager" /\ healthCached)
Answered(r) ==
    /\ r.pc = "200" => \A d \in Dependency : r.results[d] = "ok"
    /\ r.pc = "503" => r.details = {d \in Dependency : r.results[d] # "ok"} /\ r.details # {}

\* What answers now has answered during the requests that are still running.
ReachedSound(r) == r.pc = "collecting" => reachable \subseteq r.reached

RequestSound(r) == r \in Requests /\ ProbesSound(r) /\ Answered(r) /\ ReachedSound(r)
HealthInv == HealthTypeOK /\ \A c \in ReadyCall : RequestSound(ready[c])

LEMMA HealthTypeFacts ==
    ASSUME HealthTypeOK
    PROVE  /\ reachable \subseteq Dependency /\ healthCached \in BOOLEAN
           /\ healthSecret \in [stored : BOOLEAN, fallback : BOOLEAN]
           /\ ready \in [ReadyCall -> Requests]
BY DEF HealthTypeOK, Requests

LEMMA FreshRequest ==
    ASSUME NEW reached \in SUBSET Dependency
    PROVE  /\ NoReady \in Requests
           /\ [NoReady EXCEPT !.pc = "collecting", !.reached = reached] \in Requests
<1>1. 0 \in 0..ReadyTimeout
  BY HealthAssumption
<1>2. [d \in Dependency |-> Waiting] \in [Dependency -> Statuses \cup {Waiting}]
  OBVIOUS
<1> QED
  BY <1>1, <1>2 DEF NoReady, Requests

LEMMA HealthInitInv == HealthInit => HealthInv
<1> SUFFICES ASSUME HealthInit PROVE HealthInv
  OBVIOUS
<1>1. \A c \in ReadyCall : ready[c] = NoReady
  BY DEF HealthInit
<1>2. NoReady \in Requests
  BY FreshRequest
<1>3. HealthTypeOK
  BY <1>2 DEF HealthInit, HealthTypeOK, Requests
<1>4. RequestSound(NoReady)
  BY <1>2 DEF NoReady, RequestSound, ProbesSound, Answered, ReachedSound, Waiting
<1> QED
  BY <1>1, <1>3, <1>4 DEF HealthInv

\* Every step of one request leaves the others alone; the cache only fills.
LEMMA RequestStep ==
    ASSUME HealthInv, NEW c \in ReadyCall, NEW u \in Requests, ready' = [ready EXCEPT ![c] = u],
           healthCached' \in BOOLEAN, healthCached => healthCached',
           ProbesSound(u)', Answered(u), ReachedSound(u),
           UNCHANGED <<reachable, healthSecret>>
    PROVE  HealthInv'
<1>1. \A d \in ReadyCall : IF d = c THEN ready'[d] = u ELSE ready'[d] = ready[d]
  BY HealthTypeFacts DEF HealthInv
<1>2. HealthTypeOK'
  <2>1. ready' \in [ReadyCall -> Requests]
    BY HealthTypeFacts DEF HealthInv
  <2> QED
    BY <2>1, HealthTypeFacts DEF HealthInv, HealthTypeOK, Requests
<1>3. ASSUME NEW d \in ReadyCall
      PROVE  RequestSound(ready[d])'
  <2>1. CASE d = c
    BY <1>1, <2>1 DEF RequestSound, ProbesSound, Answered, ReachedSound
  <2>2. CASE d # c
    BY <1>1, <2>2 DEF HealthInv, RequestSound, ProbesSound, Answered, ReachedSound
  <2> QED
    BY <2>1, <2>2
<1> QED
  BY <1>2, <1>3 DEF HealthInv

\* A probe that ends is recorded: as late when its context was over, and then not as well.
LEMMA RecordStep ==
    ASSUME HealthInv, NEW c \in ReadyCall, NEW d \in Dependency,
           NEW err \in {"none", "context", "failure"}, Record(c, d, err), Collecting(c),
           ready[c].results[d] = Waiting,
           err = "none" => d \in reachable \/ (d = "secretManager" /\ healthCached'),
           healthCached' \in BOOLEAN, healthCached => healthCached',
           UNCHANGED <<reachable, healthSecret>>
    PROVE  HealthInv'
<1>1. /\ ready[c] \in Requests /\ ProbesSound(ready[c]) /\ reachable \subseteq ready[c].reached
      /\ ready[c].pc = "collecting"
  BY DEF HealthInv, RequestSound, ReachedSound, Collecting
<1>2. PICK s : s = ProbeStatus(err, ProbeOver(c, d))
  OBVIOUS
<1>3. s \in Statuses /\ (s = "ok" => err = "none" /\ ~ProbeOver(c, d))
  BY <1>2 DEF ProbeStatus, Statuses
<1>4. PICK late \in SUBSET Dependency :
         late = IF ProbeOver(c, d) THEN ready[c].late \cup {d} ELSE ready[c].late
  BY <1>1 DEF Requests
<1>5. PICK u : u = [ready[c] EXCEPT !.results = [ready[c].results EXCEPT ![d] = s], !.late = late]
  OBVIOUS
<1>6. ready' = [ready EXCEPT ![c] = u]
  BY <1>2, <1>4, <1>5, HealthTypeFacts DEF Record, HealthInv
<1>7. /\ u \in Requests /\ u.pc = "collecting" /\ u.reached = ready[c].reached /\ u.late = late
      /\ u.results = [ready[c].results EXCEPT ![d] = s]
  BY <1>1, <1>3, <1>5 DEF Requests
<1>8. ready[c].results \in [Dependency -> Statuses \cup {Waiting}]
  BY <1>1 DEF Requests
<1>9. \A e \in Dependency : IF e = d THEN u.results[e] = s ELSE u.results[e] = ready[c].results[e]
  BY <1>7, <1>8
<1>10. ProbesSound(u)'
  <2>1. s # Waiting
    BY <1>3 DEF Statuses, Waiting
  <2>2. \A e \in u.late : u.results[e] \notin {Waiting, "ok"}
    BY <1>1, <1>3, <1>4, <1>7, <1>9, <2>1 DEF ProbesSound
  <2>3. \A e \in Dependency : u.results[e] = "ok" =>
           e \in u.reached \/ (e = "secretManager" /\ healthCached')
    BY <1>1, <1>3, <1>7, <1>9 DEF ProbesSound
  <2> QED
    BY <2>2, <2>3 DEF ProbesSound
<1>11. Answered(u) /\ ReachedSound(u)
  BY <1>1, <1>7 DEF Answered, ReachedSound
<1> QED
  BY <1>6, <1>7, <1>10, <1>11, RequestStep

LEMMA RequestsInv ==
    ASSUME HealthInv, NEW c \in ReadyCall,
           \/ HealthTick(c) \/ ClientLeaves(c)
           \/ Readyz(c) \/ ProbeFirestore(c) \/ ProbeSecretManager(c) \/ RespondReady(c)
    PROVE  HealthInv'
<1>1. /\ ready[c] \in Requests /\ RequestSound(ready[c]) /\ healthCached \in BOOLEAN
      /\ reachable \subseteq Dependency /\ ReadyTimeout \in Nat
      /\ ready \in [ReadyCall -> Requests]
  BY HealthTypeFacts, HealthAssumption DEF HealthInv, RequestSound
<1>2. CASE HealthTick(c) \/ ClientLeaves(c)
  <2>1. PICK u : ready' = [ready EXCEPT ![c] = u]
                 /\ u \in {[ready[c] EXCEPT !.ticks = ready[c].ticks + 1], [ready[c] EXCEPT !.gone = TRUE]}
                 /\ (HealthTick(c) => u = [ready[c] EXCEPT !.ticks = ready[c].ticks + 1])
                 /\ (~HealthTick(c) => u = [ready[c] EXCEPT !.gone = TRUE])
    <3>1. CASE HealthTick(c)
      BY <3>1 DEF HealthTick
    <3>2. CASE ~HealthTick(c)
      BY <1>2, <3>2 DEF ClientLeaves
    <3> QED
      BY <3>1, <3>2
  <2>2. /\ Collecting(c) /\ UNCHANGED <<reachable, healthSecret, healthCached>>
        /\ HealthTick(c) => ready[c].ticks < ReadyTimeout
    BY <1>2 DEF HealthTick, ClientLeaves
  <2>3. /\ u \in Requests /\ u.pc = ready[c].pc /\ u.results = ready[c].results
        /\ u.late = ready[c].late /\ u.reached = ready[c].reached /\ u.details = ready[c].details
    <3>1. CASE HealthTick(c)
      <4>1. ready[c].ticks + 1 \in 0..ReadyTimeout
        BY <1>1, <2>2, <3>1 DEF Requests
      <4> QED
        BY <1>1, <2>1, <3>1, <4>1 DEF Requests
    <3>2. CASE ~HealthTick(c)
      BY <1>1, <2>1, <3>2 DEF Requests
    <3> QED
      BY <3>1, <3>2
  <2>4. ProbesSound(u)' /\ Answered(u) /\ ReachedSound(u)
    BY <1>1, <2>2, <2>3 DEF RequestSound, ProbesSound, Answered, ReachedSound
  <2> QED
    BY <1>1, <2>1, <2>2, <2>3, <2>4, RequestStep
<1>3. CASE Readyz(c)
  <2>1. PICK u : u = [NoReady EXCEPT !.pc = "collecting", !.reached = reachable]
    OBVIOUS
  <2>2. /\ u \in Requests /\ u.pc = "collecting" /\ u.reached = reachable /\ u.late = {}
        /\ u.results = [d \in Dependency |-> Waiting]
    BY <1>1, <2>1, FreshRequest DEF NoReady
  <2>3. ready' = [ready EXCEPT ![c] = u] /\ UNCHANGED <<reachable, healthSecret, healthCached>>
    BY <1>3, <2>1 DEF Readyz
  <2>4. ProbesSound(u)' /\ Answered(u) /\ ReachedSound(u)
    BY <2>2 DEF ProbesSound, Answered, ReachedSound, Waiting
  <2> QED
    BY <1>1, <2>2, <2>3, <2>4, RequestStep
<1>4. CASE ProbeFirestore(c)
  <2>1. PICK err \in {"none", "context", "failure"} :
           Record(c, "firestore", err) /\ (err = "none" => "firestore" \in reachable)
    BY <1>4 DEF ProbeFirestore, Failure
  <2>2. /\ Collecting(c) /\ ready[c].results["firestore"] = Waiting /\ "firestore" \in Dependency
        /\ UNCHANGED <<reachable, healthSecret, healthCached>>
    BY <1>4 DEF ProbeFirestore, Dependency
  <2> QED
    BY <1>1, <2>1, <2>2, RecordStep
<1>5. CASE ProbeSecretManager(c)
  <2>1. PICK err \in {"none", "context", "failure"} :
           /\ Record(c, "secretManager", err)
           /\ err = "none" => "secretManager" \in reachable \/ healthCached'
    BY <1>5 DEF ProbeSecretManager, Failure
  <2>2. /\ Collecting(c) /\ ready[c].results["secretManager"] = Waiting
        /\ "secretManager" \in Dependency /\ UNCHANGED <<reachable, healthSecret>>
        /\ healthCached' \in BOOLEAN /\ (healthCached => healthCached')
    <3>1. healthCached' = healthCached \/ healthCached' = TRUE
      BY <1>5 DEF ProbeSecretManager
    <3>2. healthCached' \in BOOLEAN /\ (healthCached => healthCached')
      BY <1>1, <3>1
    <3> QED
      BY <1>5, <3>2 DEF ProbeSecretManager, Dependency
  <2> QED
    BY <2>1, <2>2, RecordStep
<1>6. CASE RespondReady(c)
  <2>1. PICK u : u = [ready[c] EXCEPT
                         !.pc = IF Overall(ready[c].results) = "ok" THEN "200" ELSE "503",
                         !.details = {d \in Dependency : ready[c].results[d] # "ok"}]
    OBVIOUS
  <2>2. /\ u \in Requests /\ u.results = ready[c].results
        /\ u.late = ready[c].late /\ u.reached = ready[c].reached
        /\ u.pc = IF Overall(ready[c].results) = "ok" THEN "200" ELSE "503"
        /\ u.details = {d \in Dependency : ready[c].results[d] # "ok"}
    BY <1>1, <2>1 DEF Requests
  <2>3. ready' = [ready EXCEPT ![c] = u] /\ UNCHANGED <<reachable, healthSecret, healthCached>>
    BY <1>6, <2>1 DEF RespondReady, HealthReport, Details
  <2>4. Overall(ready[c].results) = "ok" <=> \A d \in Dependency : ready[c].results[d] = "ok"
    BY DEF Overall, Dependency
  <2>5. Answered(u)
    BY <2>2, <2>4 DEF Answered
  <2>6. ProbesSound(u)' /\ ReachedSound(u)
    BY <1>1, <2>2, <2>3 DEF RequestSound, ProbesSound, ReachedSound
  <2> QED
    BY <1>1, <2>2, <2>3, <2>5, <2>6, RequestStep
<1> QED
  BY <1>2, <1>3, <1>4, <1>5, <1>6

LEMMA HealthNextInv == HealthInv /\ [HealthNext]_healthVars => HealthInv'
<1> SUFFICES ASSUME HealthInv, [HealthNext]_healthVars PROVE HealthInv'
  OBVIOUS
<1>1. CASE UNCHANGED healthVars
  BY <1>1 DEF healthVars, HealthInv, HealthTypeOK, RequestSound, ProbesSound, Answered, ReachedSound
<1>2. ASSUME NEW d \in Dependency, Switch(d)
      PROVE  HealthInv'
  <2>1. /\ reachable' \subseteq Dependency /\ reachable' \subseteq reachable \cup {d}
        /\ UNCHANGED <<healthSecret, healthCached>>
    BY <1>2, HealthTypeFacts DEF Switch, HealthInv
  <2>2. ASSUME NEW c \in ReadyCall
        PROVE  /\ ready'[c] \in Requests /\ ready'[c].pc = ready[c].pc
               /\ ready'[c].results = ready[c].results /\ ready'[c].late = ready[c].late
               /\ ready'[c].details = ready[c].details
               /\ ready[c].reached \subseteq ready'[c].reached
               /\ ready[c].pc = "collecting" => reachable' \subseteq ready'[c].reached
    <3>1. ready[c] \in Requests /\ ReachedSound(ready[c])
      BY DEF HealthInv, RequestSound
    <3>2. CASE Collecting(c) /\ d \notin reachable
      <4>1. ready'[c] = [ready[c] EXCEPT !.reached = ready[c].reached \cup {d}]
        BY <1>2, <3>2 DEF Switch
      <4> QED
        BY <2>1, <3>1, <3>2, <4>1 DEF Requests, ReachedSound
    <3>3. CASE ~(Collecting(c) /\ d \notin reachable)
      <4>1. ready'[c] = ready[c]
        BY <1>2, <3>3 DEF Switch
      <4>2. Collecting(c) => reachable' \subseteq reachable
        BY <1>2, <3>3 DEF Switch
      <4> QED
        BY <3>1, <4>1, <4>2 DEF ReachedSound, Collecting
    <3> QED
      BY <3>2, <3>3
  <2>3. \A c \in ReadyCall : RequestSound(ready[c])'
    BY <2>1, <2>2 DEF HealthInv, RequestSound, ProbesSound, Answered, ReachedSound
  <2>4. ready' \in [ReadyCall -> Requests]
    BY <1>2, <2>2 DEF Switch
  <2>5. HealthTypeOK'
    BY <2>1, <2>4, HealthTypeFacts DEF HealthInv, HealthTypeOK, Requests
  <2> QED
    BY <2>3, <2>5 DEF HealthInv
<1> QED
  BY <1>1, <1>2, RequestsInv DEF HealthNext

\* What ReadyTells says of the answers follows from what is known of their probes.
LEMMA ProbesTell == HealthInv => ReadyTells
<1> SUFFICES ASSUME HealthInv, NEW c \in ReadyCall
             PROVE  /\ ready[c].pc = "200" =>
                         /\ ready[c].late = {}
                         /\ Dependency \subseteq ready[c].reached
                               \cup (IF healthCached THEN {"secretManager"} ELSE {})
                    /\ ready[c].pc = "503" =>
                         ready[c].late \subseteq ready[c].details /\ ready[c].details # {}
  BY DEF ReadyTells
<1>1. /\ ready[c].late \subseteq Dependency /\ ProbesSound(ready[c]) /\ Answered(ready[c])
  BY DEF HealthInv, RequestSound, Requests
<1> QED
  BY <1>1 DEF ProbesSound, Answered

\* The state of the readiness handler has its type.
THEOREM HealthTyped == HealthSpec => []HealthTypeOK
<1>1. HealthInv => HealthTypeOK
  BY DEF HealthInv
<1> QED
  BY <1>1, HealthInitInv, HealthNextInv, PTL DEF HealthSpec

\* /readyz answers 200 only when every probe ended in time and every dependency answered
\* during the request, or from the cache; a 503 names what failed.
THEOREM ReadinessTrue == HealthSpec => []ReadyTells
BY ProbesTell, HealthInitInv, HealthNextInv, PTL DEF HealthSpec

-----------------------------------------------------------------------------
(* The low-stock list.  Finite sets of numbers have least elements, which is *)
(* all the induction that pages need.                                        *)

LEMMA NatOrder == \E smaller : /\ IsWellFoundedOn(smaller, Nat)
                              /\ \A m, n \in Nat : n < m => <<n, m>> \in smaller
<1>1. \A m, n \in Nat : n < m => <<n, m>> \in OpToRel(<, Nat)
  BY DEF OpToRel
<1> QED
  BY <1>1, NatLessThanWellFounded, Zenon

LEMMA Least == ASSUME NEW T \in SUBSET Nat, T # {} PROVE \E m \in T : \A n \in T : m <= n
<1>1. PICK smaller : /\ IsWellFoundedOn(smaller, Nat)
                     /\ \A m, n \in Nat : n < m => <<n, m>> \in smaller
  BY NatOrder
<1>2. PICK m \in T : \A n \in T : ~ (<<n, m>> \in smaller)
  BY <1>1, WFMin
<1>3. \A n \in T : n \in Nat /\ m \in Nat /\ ~(n < m)
  BY <1>1, <1>2
<1> QED
  BY <1>3

StockTyped == stock \in [Book!Stocked -> Book!Docs]
Cursors == Int \X Sku

\* The documents of skus that come before that of s.
Ahead(threshold, skus, s) == {t \in skus : Before(Place(threshold, t), Place(threshold, s))}

LEMMA StockedFacts ==
    /\ Book!Stocked \subseteq Sku /\ Sku \subseteq Nat
    /\ \A skus \in SUBSET Book!Stocked : IsFiniteSet(skus) /\ Cardinality(skus) \in Nat
BY LowStockAssumption, FS_Subset, FS_CardinalityType

LEMMA BeforeOrders ==
    /\ \A x \in Cursors : ~Before(x, x)
    /\ \A x, y, z \in Cursors : Before(x, y) /\ Before(y, z) => Before(x, z)
    /\ \A x, y \in Cursors : x # y => Before(x, y) \/ Before(y, x)
<1>1. \A x \in Cursors : x[1] \in Int /\ x[2] \in Nat /\ x = <<x[1], x[2]>>
  <2> SUFFICES ASSUME NEW n \in Int, NEW s \in Sku
               PROVE  LET x == <<n, s>> IN x[1] \in Int /\ x[2] \in Nat /\ x = <<x[1], x[2]>>
    BY DEF Cursors
  <2> QED
    BY StockedFacts
<1>2. \A x \in Cursors : ~Before(x, x)
  BY <1>1 DEF Before
<1>3. \A x, y, z \in Cursors : Before(x, y) /\ Before(y, z) => Before(x, z)
  BY <1>1 DEF Before
<1>4. \A x, y \in Cursors : x # y => Before(x, y) \/ Before(y, x)
  <2> SUFFICES ASSUME NEW x \in Cursors, NEW y \in Cursors, ~Before(x, y), ~Before(y, x)
               PROVE  x = y
    OBVIOUS
  <2>1. x[1] = y[1] /\ x[2] = y[2]
    BY <1>1 DEF Before
  <2> QED
    BY <1>1, <2>1
<1> QED
  BY <1>2, <1>3, <1>4

LEMMA PlaceFacts ==
    ASSUME StockTyped, NEW threshold \in Nat
    PROVE  /\ \A s \in Book!Stocked : Place(threshold, s) \in Cursors
           /\ \A s, t \in Book!Stocked : s # t => Place(threshold, s) # Place(threshold, t)
<1>1. \A s \in Book!Stocked : stock[s].available \in Int /\ s \in Sku /\ SafetyStock[s] \in Nat
  BY StockedFacts, LowStockAssumption DEF StockTyped, Book!Docs
<1>2. \A s \in Book!Stocked : Level(stock[s].available, threshold, s) \in Int
  BY <1>1 DEF Level
<1> QED
  BY <1>1, <1>2 DEF Place, Cursors

LEMMA CursorFacts == NoCursor \notin Cursors
<1>1. \A n \in Int, s \in Sku : <<n, s>> # <<>>
  OBVIOUS
<1> QED
  BY <1>1 DEF NoCursor, Cursors

\* Of two documents, the later one has more before it.
LEMMA RankFacts ==
    ASSUME StockTyped, NEW threshold \in Nat, NEW skus \in SUBSET Book!Stocked
    PROVE  /\ \A s \in skus : /\ Cardinality(Ahead(threshold, skus, s)) \in Nat
                              /\ Cardinality(Ahead(threshold, skus, s)) < Cardinality(skus)
           /\ \A s, t \in skus : Before(Place(threshold, s), Place(threshold, t)) =>
                 Cardinality(Ahead(threshold, skus, s)) < Cardinality(Ahead(threshold, skus, t))
<1>1. ASSUME NEW A \in SUBSET skus, NEW B \in SUBSET skus, A \subseteq B, A # B
      PROVE  Cardinality(A) \in Nat /\ Cardinality(A) < Cardinality(B)
  <2>1. IsFiniteSet(B)
    BY StockedFacts
  <2> QED
    BY <1>1, <2>1, FS_Subset, FS_CardinalityType
<1>2. \A s \in skus : s \in Book!Stocked /\ Place(threshold, s) \in Cursors
  BY PlaceFacts
<1>3. ASSUME NEW s \in skus
      PROVE  /\ Ahead(threshold, skus, s) \subseteq skus
             /\ s \notin Ahead(threshold, skus, s)
  BY <1>2, BeforeOrders DEF Ahead
<1>4. ASSUME NEW s \in skus, NEW t \in skus, Before(Place(threshold, s), Place(threshold, t))
      PROVE  /\ Ahead(threshold, skus, s) \subseteq Ahead(threshold, skus, t)
             /\ s \in Ahead(threshold, skus, t)
  BY <1>2, <1>4, BeforeOrders DEF Ahead
<1>5. ASSUME NEW s \in skus, NEW t \in skus, Before(Place(threshold, s), Place(threshold, t))
      PROVE  Cardinality(Ahead(threshold, skus, s)) < Cardinality(Ahead(threshold, skus, t))
  BY <1>1, <1>3, <1>4, <1>5
<1>6. ASSUME NEW s \in skus
      PROVE  /\ Cardinality(Ahead(threshold, skus, s)) \in Nat
             /\ Cardinality(Ahead(threshold, skus, s)) < Cardinality(skus)
  BY <1>1, <1>3
<1> QED
  BY <1>5, <1>6

\* The leading documents are downward closed, and they are all if there is room for more.
LEMMA LeadingFacts ==
    ASSUME StockTyped, NEW threshold \in Nat, NEW skus \in SUBSET Book!Stocked, NEW n \in Nat
    PROVE  /\ Leading(n, threshold, skus) \subseteq skus
           /\ \A s \in Leading(n, threshold, skus), t \in skus :
                 Before(Place(threshold, t), Place(threshold, s)) => t \in Leading(n, threshold, skus)
           /\ Cardinality(Leading(n, threshold, skus)) < n => Leading(n, threshold, skus) = skus
           /\ Cardinality(skus) <= n => Leading(n, threshold, skus) = skus
<1> DEFINE leading == Leading(n, threshold, skus)
           rank(s) == Cardinality(Ahead(threshold, skus, s))
<1>1. leading = {s \in skus : rank(s) < n}
  BY DEF Leading, Ahead
<1>2. /\ \A s \in skus : rank(s) \in Nat /\ rank(s) < Cardinality(skus)
      /\ \A s, t \in skus : Before(Place(threshold, s), Place(threshold, t)) => rank(s) < rank(t)
  BY RankFacts
<1>3. Cardinality(skus) \in Nat
  BY StockedFacts
<1>4. \A s \in leading, t \in skus : Before(Place(threshold, t), Place(threshold, s)) => t \in leading
  BY <1>1, <1>2
<1>5. ASSUME Cardinality(leading) < n, leading # skus
      PROVE  FALSE
  <2> DEFINE ranks == {k \in Nat : \E s \in skus \ leading : rank(s) = k}
  <2>1. PICK s \in skus \ leading : TRUE
    BY <1>1, <1>5
  <2>2. rank(s) \in ranks
    BY <1>2
  <2>3. PICK k \in ranks : \A j \in ranks : k <= j
    <3> HIDE DEF rank
    <3> QED
      BY <2>2, Least
  <2>4. PICK t \in skus \ leading : rank(t) = k
    BY <2>3
  <2>5. Ahead(threshold, skus, t) \subseteq leading
    <3> SUFFICES ASSUME NEW u \in skus, Before(Place(threshold, u), Place(threshold, t))
                 PROVE  u \in leading
      BY DEF Ahead
    <3>1. rank(u) < rank(t) /\ rank(u) \in Nat /\ rank(t) \in Nat
      BY <1>2
    <3>2. rank(u) \in ranks => k <= rank(u)
      BY <2>3
    <3> QED
      BY <2>4, <3>1, <3>2
  <2>6. IsFiniteSet(leading)
    BY <1>1, StockedFacts
  <2>7. rank(t) <= Cardinality(leading) /\ Cardinality(leading) \in Nat
    BY <2>5, <2>6, FS_Subset, FS_CardinalityType
  <2>8. rank(t) \in Nat /\ ~(rank(t) < n)
    BY <1>1, <1>2, <2>4
  <2> QED
    BY <1>5, <2>7, <2>8
<1>6. Cardinality(skus) <= n => leading = skus
  BY <1>1, <1>2, <1>3
<1> QED
  BY <1>1, <1>4, <1>5, <1>6

\* Some documents have a last one.
LEMMA LastFacts ==
    ASSUME StockTyped, NEW threshold \in Nat, NEW skus \in SUBSET Book!Stocked, skus # {}
    PROVE  /\ Last(threshold, skus) \in skus
           /\ \A t \in skus : ~Before(Place(threshold, Last(threshold, skus)), Place(threshold, t))
<1> DEFINE rank(s) == Cardinality(Ahead(threshold, skus, s))
           left(s) == Cardinality(skus) - rank(s)
           lefts == {k \in Nat : \E s \in skus : left(s) = k}
<1>1. /\ \A s \in skus : rank(s) \in Nat /\ rank(s) < Cardinality(skus)
      /\ \A s, t \in skus : Before(Place(threshold, s), Place(threshold, t)) => rank(s) < rank(t)
  BY RankFacts
<1>2. Cardinality(skus) \in Nat
  BY StockedFacts
<1>3. /\ \A s \in skus : left(s) \in Nat
      /\ \A s, t \in skus : Before(Place(threshold, s), Place(threshold, t)) => left(t) < left(s)
  BY <1>1, <1>2
<1> HIDE DEF left
<1>4. lefts # {} /\ \A s \in skus : left(s) \in lefts
  BY <1>3
<1>5. PICK k \in lefts : \A j \in lefts : k <= j
  BY <1>4, Least
<1>6. PICK s \in skus : left(s) = k
  BY <1>5
<1>7. ASSUME NEW t \in skus, Before(Place(threshold, s), Place(threshold, t))
      PROVE  FALSE
  <2>1. left(t) < left(s) /\ left(t) \in Nat /\ left(s) \in Nat /\ k <= left(t)
    BY <1>3, <1>4, <1>5, <1>7
  <2> QED
    BY <1>6, <2>1
<1>8. \E u \in skus : \A t \in skus : ~Before(Place(threshold, u), Place(threshold, t))
  BY <1>7
<1> QED
  BY <1>8 DEF Last

\* What one page is: all that matches, if it is the last one; otherwise what lies up to its
\* token.
LEMMA PageFacts ==
    ASSUME StockTyped, NEW threshold \in Nat, NEW size \in Nat \ {0},
           NEW after \in {NoCursor} \cup Cursors, NEW found, NEW items, NEW token,
           found = Found(threshold, size, after), items = Leading(size, threshold, found),
           token = PageToken(threshold, size, found)
    PROVE  /\ items \subseteq Matching(threshold, after)
           /\ token \in {NoCursor} \cup Cursors
           /\ token = NoCursor => items = Matching(threshold, after)
           /\ token # NoCursor =>
                 /\ after = NoCursor \/ Before(after, token)
                 /\ \A s \in Matching(threshold, after) :
                       s \in items <=> ~Before(token, Place(threshold, s))
<1> DEFINE matching == Matching(threshold, after)
<1>1. matching \in SUBSET Book!Stocked
  BY DEF Matching
<1>2. /\ found \subseteq matching
      /\ \A s \in found, t \in matching : Before(Place(threshold, t), Place(threshold, s)) => t \in found
      /\ Cardinality(found) < size + 1 => found = matching
  <2>1. found = Leading(size + 1, threshold, matching) /\ size + 1 \in Nat
    BY DEF Found
  <2> HIDE DEF matching
  <2> QED
    BY <1>1, <2>1, LeadingFacts
<1> HIDE DEF matching
<1>3. found \in SUBSET Book!Stocked /\ Cardinality(found) \in Nat
  BY <1>1, <1>2, StockedFacts
<1>4. /\ items \subseteq found
      /\ \A s \in items, t \in found : Before(Place(threshold, t), Place(threshold, s)) => t \in items
      /\ Cardinality(items) < size => items = found
      /\ Cardinality(found) <= size => items = found
  BY <1>3, LeadingFacts
<1>5. CASE Cardinality(found) <= size
  <2>1. token = NoCursor
    BY <1>3, <1>5 DEF PageToken
  <2>2. items = matching
    BY <1>2, <1>3, <1>4, <1>5
  <2> QED
    BY <2>1, <2>2 DEF matching
<1>6. CASE Cardinality(found) > size
  <2>1. items # {}
    <3>1. Cardinality({}) = 0
      BY FS_EmptySet
    <3>2. ASSUME items = {} PROVE FALSE
      BY <1>3, <1>4, <1>6, <3>1, <3>2
    <3> QED
      BY <3>2
  <2> DEFINE last == Last(threshold, items)
  <2>2. /\ last \in items
        /\ \A t \in items : ~Before(Place(threshold, last), Place(threshold, t))
    BY <1>3, <1>4, <2>1, LastFacts
  <2>3. token = Place(threshold, last)
    BY <1>3, <1>6 DEF PageToken
  <2> HIDE DEF last
  <2>4. token \in Cursors /\ \A s \in matching : Place(threshold, s) \in Cursors
    BY <1>1, <1>3, <1>4, <2>2, <2>3, PlaceFacts
  <2>5. token # NoCursor
    BY <2>4, CursorFacts
  <2>6. ASSUME NEW s \in matching, s \notin items PROVE Before(token, Place(threshold, s))
    <3>1. ~Before(Place(threshold, s), token)
      BY <1>2, <1>4, <2>2, <2>3, <2>6
    <3>2. Place(threshold, s) # token
      BY <1>1, <1>3, <1>4, <2>2, <2>3, <2>6, PlaceFacts
    <3> QED
      BY <2>4, <3>1, <3>2, BeforeOrders
  <2>7. \A s \in items : ~Before(token, Place(threshold, s))
    BY <2>2, <2>3
  <2>8. after = NoCursor \/ Before(after, token)
    BY <1>2, <1>4, <2>2, <2>3 DEF matching, Matching
  <2> QED
    BY <1>2, <1>4, <2>4, <2>5, <2>6, <2>7, <2>8 DEF matching
<1> QED
  BY <1>3, <1>5, <1>6

\* A walk has not come to document s yet.
ToCome(w, s) == w.after = NoCursor \/ Before(w.after, Place(w.threshold, s))

\* A document that is low all the while is listed or still to come, unless it fell; one
\* that is listed does not come again, unless it rose.
Tracked(w, s) ==
    /\ s \in w.low => Low(stock[s].available, w.threshold, s)
    /\ s \in w.low \ w.fell => w.listed[s] >= 1 \/ ToCome(w, s)
    /\ s \notin w.rose => w.listed[s] <= 1 /\ (w.listed[s] >= 1 => ~ToCome(w, s))

LowInv ==
    /\ LowStockTypeOK
    /\ walk.pc = "walking" => /\ walk.size # 0
                              /\ \A s \in Book!Stocked : Tracked(walk, s)
    /\ WalkFaithful

Walks == [pc : {"idle", "walking", "done"}, threshold : Thresholds \cup {0}, size : 0..MaxPage,
          after : {NoCursor} \cup (Int \X Sku), listed : [Book!Stocked -> Nat],
          low : SUBSET Book!Stocked, fell : SUBSET Book!Stocked, rose : SUBSET Book!Stocked]

LEMMA LowTypeFacts ==
    ASSUME LowStockTypeOK
    PROVE  StockTyped /\ book \in [Reservation -> Book!Reservations] /\ walk \in Walks
BY DEF LowStockTypeOK, StockTyped, Walks

LEMMA NoWalkFacts == NoWalk \in Walks /\ NoWalk.pc = "idle"
BY LowStockAssumption DEF NoWalk, Walks

LEMMA InitLowInv == LowStockInit => LowInv
<1> SUFFICES ASSUME LowStockInit PROVE LowInv
  OBVIOUS
<1>1. stock \in [Book!Stocked -> Book!Docs]
  BY LowStockAssumption DEF LowStockInit, Book!Init, Book!StockDoc, Book!Docs
<1>2. book \in [Reservation -> Book!Reservations]
  BY DEF LowStockInit, Book!Init, Book!NoReservation, Book!Reservations, Book!Status, Book!Lines
<1>3. walk \in Walks /\ walk.pc = "idle"
  BY NoWalkFacts DEF LowStockInit
<1> QED
  BY <1>1, <1>2, <1>3 DEF LowInv, LowStockTypeOK, Walks, WalkFaithful

\* One page, of a walk w that has been right so far.
LEMMA PageKeeps ==
    ASSUME LowInv, NEW w \in Walks, w.size # 0, \A s \in Book!Stocked : Tracked(w, s),
           Page(w), UNCHANGED <<stock, book>>
    PROVE  LowInv'
<1> DEFINE found == Found(w.threshold, w.size, w.after)
           items == Leading(w.size, w.threshold, found)
           token == PageToken(w.threshold, w.size, found)
           listed == [s \in Book!Stocked |-> w.listed[s] + (IF s \in items THEN 1 ELSE 0)]
<1>1. /\ w.threshold \in Nat /\ w.size \in Nat \ {0} /\ w.size \in 0..MaxPage
      /\ w.after \in {NoCursor} \cup Cursors /\ w.listed \in [Book!Stocked -> Nat]
  BY LowStockAssumption DEF Walks, Cursors
<1>2. StockTyped
  BY LowTypeFacts DEF LowInv
<1>3. /\ items \subseteq Matching(w.threshold, w.after)
      /\ token \in {NoCursor} \cup Cursors
      /\ token = NoCursor => items = Matching(w.threshold, w.after)
      /\ token # NoCursor =>
            /\ w.after = NoCursor \/ Before(w.after, token)
            /\ \A s \in Matching(w.threshold, w.after) :
                  s \in items <=> ~Before(token, Place(w.threshold, s))
  BY <1>1, <1>2, PageFacts
<1>4. walk' = [w EXCEPT !.pc = IF token = NoCursor THEN "done" ELSE "walking",
                        !.after = token, !.listed = listed]
  BY DEF Page
<1> HIDE DEF found, items, token, listed
<1>5. listed \in [Book!Stocked -> Nat]
  BY <1>1 DEF listed
<1>6. walk' \in Walks
  BY <1>3, <1>4, <1>5 DEF Walks, Cursors
<1>7. /\ walk'.pc = IF token = NoCursor THEN "done" ELSE "walking"
      /\ walk'.after = token /\ walk'.listed = listed /\ walk'.size = w.size
      /\ walk'.low = w.low /\ walk'.fell = w.fell /\ walk'.rose = w.rose
      /\ walk'.threshold = w.threshold
  BY <1>4 DEF Walks
<1>8. ASSUME NEW s \in Book!Stocked
      PROVE  /\ s \in Matching(w.threshold, w.after) <=>
                   Low(stock[s].available, w.threshold, s) /\ ToCome(w, s)
             /\ listed[s] = w.listed[s] + (IF s \in items THEN 1 ELSE 0)
             /\ w.listed[s] \in Nat
  BY <1>1 DEF Matching, ToCome, listed
<1>9. CASE token = NoCursor
  <2>1. ASSUME NEW s \in Book!Stocked
        PROVE  /\ s \in w.low \ w.fell => listed[s] >= 1
               /\ s \notin w.rose => listed[s] <= 1
    <3>1. Tracked(w, s)
      OBVIOUS
    <3> QED
      BY <1>3, <1>8, <1>9, <3>1 DEF Tracked
  <2> QED
    BY <1>6, <1>7, <1>9, <2>1 DEF LowInv, LowStockTypeOK, Walks, WalkFaithful
<1>10. CASE token # NoCursor
  <2>1. ASSUME NEW s \in Book!Stocked
        PROVE  Tracked(walk, s)'
    <3> DEFINE place == Place(w.threshold, s)
    <3>1. Tracked(w, s)
      OBVIOUS
    <3>2. Place(walk.threshold, s)' = place
      BY <1>7 DEF Place
    <3>3. ToCome(walk, s)' <=> Before(token, place)
      BY <1>7, <1>10, <3>2 DEF ToCome
    <3>4. place \in Cursors /\ token \in Cursors /\ w.after \in {NoCursor} \cup Cursors
      BY <1>1, <1>2, <1>3, <1>10, PlaceFacts
    <3>5. Before(token, place) => ToCome(w, s)
      BY <1>3, <1>10, <3>4, BeforeOrders DEF ToCome
    <3>6. Low(stock[s].available, walk.threshold, s)' <=> Low(stock[s].available, w.threshold, s)
      BY <1>7 DEF Low, Level
    <3>7. s \in items <=> Low(stock[s].available, w.threshold, s) /\ ToCome(w, s) /\ ~Before(token, place)
      BY <1>3, <1>8, <1>10
    <3> HIDE DEF place
    <3> QED
      BY <1>7, <1>8, <3>1, <3>3, <3>5, <3>6, <3>7 DEF Tracked
  <2>2. LowStockTypeOK'
    BY <1>6 DEF LowInv, LowStockTypeOK, Walks
  <2> QED
    BY <1>1, <1>7, <1>10, <2>1, <2>2 DEF LowInv, WalkFaithful
<1> QED
  BY <1>9, <1>10

\* The stock moves by whole pieces.
LEMMA AdjustTypes ==
    ASSUME StockTyped, NEW op \in {"reserve", "commit", "release"}, NEW lines \in Book!Lines,
           Book!AdjustStock(op, lines)
    PROVE  stock' \in [Book!Stocked -> Book!Docs]
<1>1. \A s \in DOMAIN lines : lines[s] \in Nat
  BY LowStockAssumption DEF Book!Lines, Book!Empty
<1>2. ASSUME NEW s \in Book!Stocked, s \in DOMAIN lines
      PROVE  Book!Adjusted(op, stock[s], lines[s]) \in Book!Docs
  BY <1>1, <1>2 DEF StockTyped, Book!Docs, Book!Adjusted, Book!StockDoc
<1> QED
  BY <1>2 DEF Book!AdjustStock, StockTyped

LEMMA MoveTypes ==
    ASSUME LowStockTypeOK, StockMoves
    PROVE  stock' \in [Book!Stocked -> Book!Docs] /\ book' \in [Reservation -> Book!Reservations]
<1> USE LowTypeFacts
<1>1. \A r \in Reservation : book[r] \in Book!Reservations /\ book[r].lines \in Book!Lines
  BY DEF Book!Reservations
<1>2. ASSUME NEW r \in Reservation, NEW o \in OrderRef, NEW b \in Basket, Book!Reserve(r, o, b)
      PROVE  stock' \in [Book!Stocked -> Book!Docs] /\ book' \in [Reservation -> Book!Reservations]
  <2>1. Book!AdjustStock("reserve", b) /\ b \in Book!Lines
    BY <1>2 DEF Book!Reserve, Book!Lines
  <2>2. Book!Reserved(o, b) \in Book!Reservations
    BY <2>1 DEF Book!Reserved, Book!Reservations, Book!Status
  <2> QED
    BY <1>2, <2>1, <2>2, AdjustTypes DEF Book!Reserve
<1>3. ASSUME NEW r \in Reservation, NEW op \in {"commit", "release"}, Book!Settle(op, r)
      PROVE  stock' \in [Book!Stocked -> Book!Docs] /\ book' \in [Reservation -> Book!Reservations]
  <2>1. Book!AdjustStock(op, book[r].lines)
    BY <1>3 DEF Book!Settle
  <2>2. [book[r] EXCEPT !.status = Book!Final(op)] \in Book!Reservations
    BY <1>1 DEF Book!Reservations, Book!Status, Book!Final
  <2>3. book' \in [Reservation -> Book!Reservations]
    BY <1>3, <2>2 DEF Book!Settle
  <2> QED
    BY <1>1, <2>1, <2>3, AdjustTypes
<1> QED
  BY <1>2, <1>3 DEF StockMoves, Book!Commit, Book!Release

\* Stock that moves under a walk.
LEMMA MovesKeep == ASSUME LowInv, StockMoves PROVE LowInv'
<1>1. StockTyped /\ stock' \in [Book!Stocked -> Book!Docs]
      /\ book' \in [Reservation -> Book!Reservations] /\ walk \in Walks
  BY LowTypeFacts, MoveTypes DEF LowInv
<1>2. CASE walk.pc # "walking"
  <2>1. walk' = walk
    BY <1>2 DEF StockMoves
  <2> QED
    BY <1>1, <1>2, <2>1 DEF LowInv, LowStockTypeOK, Walks, WalkFaithful
<1>3. CASE walk.pc = "walking"
  <2> DEFINE low == {s \in walk.low : Low(stock'[s].available, walk.threshold, s)}
             fell == walk.fell \cup {s \in Book!Stocked : stock'[s].available < stock[s].available}
             rose == walk.rose \cup {s \in Book!Stocked : stock'[s].available > stock[s].available}
  <2>1. walk' = [walk EXCEPT !.low = low, !.fell = fell, !.rose = rose]
    BY <1>3 DEF StockMoves
  <2>2. low \subseteq walk.low /\ fell \subseteq Book!Stocked /\ rose \subseteq Book!Stocked
    BY <1>1 DEF Walks
  <2>3. ASSUME NEW s \in Book!Stocked
        PROVE  /\ s \in low => s \in walk.low /\ Low(stock'[s].available, walk.threshold, s)
               /\ s \notin fell => s \notin walk.fell /\ ~(stock'[s].available < stock[s].available)
               /\ s \notin rose => s \notin walk.rose /\ ~(stock'[s].available > stock[s].available)
    OBVIOUS
  <2> HIDE DEF low, fell, rose
  <2>4. /\ walk'.pc = "walking" /\ walk'.low = low /\ walk'.fell = fell /\ walk'.rose = rose
        /\ walk'.threshold = walk.threshold /\ walk'.after = walk.after /\ walk'.size = walk.size
        /\ walk'.listed = walk.listed
    BY <1>1, <1>3, <2>1 DEF Walks
  <2>5. walk' \in Walks
    BY <1>1, <2>1, <2>2 DEF Walks
  <2>6. walk.threshold \in Nat /\ walk.after \in {NoCursor} \cup Cursors
    BY <1>1, LowStockAssumption DEF Walks, Cursors
  <2>7. ASSUME NEW s \in Book!Stocked
        PROVE  Tracked(walk, s)'
    <3> DEFINE old == Level(stock[s].available, walk.threshold, s)
               new == Level(stock'[s].available, walk.threshold, s)
    <3>1. Tracked(walk, s)
      BY <1>3 DEF LowInv
    <3>2. /\ old \in Int /\ new \in Int
          /\ ~(stock'[s].available < stock[s].available) => new >= old
          /\ ~(stock'[s].available > stock[s].available) => new <= old
      <4>1. stock[s].available \in Int /\ stock'[s].available \in Int /\ SafetyStock[s] \in Nat
        BY <1>1, StockedFacts, LowStockAssumption DEF StockTyped, Book!Docs
      <4> QED
        BY <4>1 DEF Level
    <3>3. Place(walk.threshold, s) = <<old, s>> /\ Place(walk.threshold, s)' = <<new, s>>
      BY <2>4 DEF Place, Level
    <3> HIDE DEF old, new
    <3>4. ASSUME NEW c \in Cursors
          PROVE  /\ Before(c, <<old, s>>) /\ new >= old => Before(c, <<new, s>>)
                 /\ Before(c, <<new, s>>) /\ new <= old => Before(c, <<old, s>>)
      <4>1. c[1] \in Int
        BY DEF Cursors
      <4> QED
        BY <3>2, <4>1 DEF Before
    <3>5. /\ ToCome(walk, s) /\ new >= old => ToCome(walk, s)'
          /\ ToCome(walk, s)' /\ new <= old => ToCome(walk, s)
      BY <2>4, <2>6, <3>3, <3>4 DEF ToCome
    <3>6. s \in low => Low(stock[s].available, walk.threshold, s)'
      BY <2>3, <2>4 DEF Low, Level
    <3> QED
      BY <2>3, <2>4, <3>1, <3>2, <3>5, <3>6 DEF Tracked
  <2>8. LowStockTypeOK'
    BY <1>1, <2>5 DEF LowStockTypeOK, Walks
  <2>9. walk'.size # 0
    BY <1>3, <2>4 DEF LowInv
  <2> QED
    BY <2>4, <2>7, <2>8, <2>9 DEF LowInv, WalkFaithful
<1> QED
  BY <1>2, <1>3

LEMMA NextLowInv == LowInv /\ [LowStockNext]_lowVars => LowInv'
<1> SUFFICES ASSUME LowInv, [LowStockNext]_lowVars PROVE LowInv'
  OBVIOUS
<1>1. StockTyped /\ book \in [Reservation -> Book!Reservations] /\ walk \in Walks
  BY LowTypeFacts DEF LowInv
<1>2. ASSUME NEW threshold \in Thresholds, NEW size \in PageSizes, FirstPage(threshold, size)
      PROVE  LowInv'
  <2> DEFINE low == {s \in Book!Stocked : Low(stock[s].available, threshold, s)}
             w == [NoWalk EXCEPT !.threshold = threshold, !.size = Limit(size), !.low = low]
  <2>1. Limit(size) \in 0..MaxPage /\ Limit(size) # 0
    BY LowStockAssumption DEF Limit
  <2>2. low \subseteq Book!Stocked
    OBVIOUS
  <2>3. \A s \in low : s \in Book!Stocked /\ Low(stock[s].available, threshold, s)
    OBVIOUS
  <2> HIDE DEF low
  <2>4. w \in Walks
    BY <2>1, <2>2, LowStockAssumption DEF NoWalk, Walks
  <2>5. /\ w.size # 0 /\ w.threshold = threshold /\ w.after = NoCursor /\ w.low = low
        /\ \A s \in Book!Stocked : w.listed[s] = 0
    BY <2>1 DEF NoWalk
  <2>6. Page(w) /\ UNCHANGED <<stock, book>>
    BY <1>2 DEF FirstPage, low
  <2> HIDE DEF w
  <2>7. \A s \in Book!Stocked : Tracked(w, s)
    BY <2>3, <2>5 DEF Tracked, ToCome
  <2> QED
    BY <2>4, <2>5, <2>6, <2>7, PageKeeps
<1>3. CASE NextPage
  BY <1>1, <1>3, PageKeeps DEF LowInv, NextPage
<1>4. CASE Leave
  BY <1>1, <1>4, NoWalkFacts DEF Leave, LowInv, LowStockTypeOK, StockTyped, Walks, WalkFaithful
<1>5. CASE UNCHANGED lowVars
  <2>1. UNCHANGED <<stock, book, walk>>
    BY <1>5 DEF lowVars
  <2>2. \A s \in Book!Stocked : Tracked(walk, s) => Tracked(walk, s)'
    BY <2>1 DEF Tracked, ToCome, Place, Low, Level
  <2> QED
    BY <1>1, <2>1, <2>2 DEF LowInv, LowStockTypeOK, StockTyped, Walks, WalkFaithful
<1> QED
  BY <1>2, <1>3, <1>4, <1>5, MovesKeep DEF LowStockNext

LEMMA LowStockInvariance == LowStockSpec => []LowInv
BY InitLowInv, NextLowInv, PTL DEF LowStockSpec

\* The stock, the reservations and the client's walk keep their types.
THEOREM LowStockTyped == LowStockSpec => []LowStockTypeOK
<1>1. LowInv => LowStockTypeOK
  BY DEF LowInv
<1> QED
  BY <1>1, LowStockInvariance, PTL

\* ListLowStock: whoever follows the tokens to the end has got every SKU that was low all
\* the while and did not fall, and none twice that did not rise.
THEOREM WalksFaithful == LowStockSpec => []WalkFaithful
<1>1. LowInv => WalkFaithful
  BY DEF LowInv
<1> QED
  BY <1>1, LowStockInvariance, PTL

-----------------------------------------------------------------------------
(* The six services side by side. *)

\* A behaviour of the six is a behaviour of each: they share no variable.
LEMMA SideBySide ==
    Spec => /\ JobsSpec /\ ReviewsSpec /\ ProfilesSpec
            /\ ProviderSpec /\ HealthSpec /\ LowStockSpec
<1>1. [Next]_vars => /\ [JobsNext]_jobVars /\ [ReviewsNext]_revVars /\ [ProfilesNext]_profVars
                     /\ [ProviderNext]_provVars /\ [HealthNext]_healthVars /\ [LowStockNext]_lowVars
  BY DEF Next, vars, JobsStep, ReviewsStep, ProfilesStep, ProviderStep, HealthStep, LowStockStep
<1>2. Init => /\ JobsInit /\ ReviewsInit /\ ProfilesInit
              /\ ProviderInit /\ HealthInit /\ LowStockInit
  BY DEF Init
<1> QED
  BY <1>1, <1>2, PTL DEF Spec, JobsSpec, ReviewsSpec, ProfilesSpec, ProviderSpec, HealthSpec, LowStockSpec

\* ... and the state of each keeps its type, whoever takes the steps.
THEOREM ServicesTyped == Spec => []ServicesTypeOK
<1>1. JobsTypeOK /\ ReviewsTypeOK /\ ProfilesTypeOK /\ ProviderTypeOK /\ HealthTypeOK /\ LowStockTypeOK
         => ServicesTypeOK
  BY DEF ServicesTypeOK
<1> QED
  BY <1>1, SideBySide, JobsTyped, ReviewsTyped, ProfilesTyped, ProviderTyped, HealthTyped,
     LowStockTyped, PTL
=============================================================================
