----------------------------- MODULE MCRefunds -----------------------------
(* A small and a large refund.  Everyone approves level 1, which applies to  *)
(* the large refund only, level 2 notifies, one person approves level 3.     *)
EXTENDS RefundApprovals, TLC

CONSTANTS a1, a2, r1, r2

SmallAndLarge == <<{2}, {1, 2}, {1, 2}>>
RemoveFirst   == {<<1, 0>>}
Symmetry      == Permutations(Approvers) \cup Permutations(Requests)

\* Where something goes wrong (an edit, a death, a failed lookup) the contract
\* stays open, and where it is closed nothing goes wrong.
ClosedWithoutMishap == deposit.closed => mishaps = 0
=============================================================================
