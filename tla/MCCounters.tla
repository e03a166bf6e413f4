----------------------------- MODULE MCCounters ------------------------------
(* Two instances and the options with which their callers draw.            *)
EXTENDS Counters, TLC

Opts(step, max, initial) == [step |-> step, max |-> max, initial |-> initial]

\* Callers that agree on the limit, and differ in the step.
LimitOptions == {Opts(0, Unset, Unset), Opts(2, 3, Unset)}

Symmetry == Permutations(Instance) \cup Permutations(Call)

=============================================================================
