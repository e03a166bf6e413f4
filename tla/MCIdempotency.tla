---------------------------- MODULE MCIdempotency ----------------------------
(* Requests with two values of the header and two contents.  The middleware  *)
(* knows no requester, so that who sends a request changes nothing but what  *)
(* PerUser says: its run has two senders, the others have one.               *)
EXTENDS Idempotency, TLC

Symmetry == Permutations(Header) \cup Permutations(Identity) \cup Permutations(Content)
            \cup Permutations(Request) \cup Permutations(Body)

=============================================================================
