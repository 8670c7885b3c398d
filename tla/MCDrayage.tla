----------------------------- MODULE MCDrayage -----------------------------
EXTENDS DrayageJobs, TLC

CONSTANTS c1, c2

Symmetry == Permutations(Callers)

\* While a call is behind no other is in flight, and a delivery that was
\* reopened after its return was made is not taken further.
OvertakenOnce ==
  /\ \A c, d \in Callers : call[c].behind /\ d # c => call[d].step = "idle"
  /\ l1.activated /\ l1.status # "COMPLETED" =>
       \A c \in Callers : call[c].step \in {"update", "assign", "confirm"} => call[c].behind
=============================================================================
