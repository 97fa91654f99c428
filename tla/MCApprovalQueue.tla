--------------------------- MODULE MCApprovalQueue --------------------------
(* A small instance of the approval queue: two questions on one subject.   *)
EXTENDS ApprovalQueue, TLC

CONSTANTS q1, q2, s1

MCSubjectOf == [q \in {q1, q2} |-> s1]
MCKindOf == (q1 :> "action_unpinned") @@ (q2 :> "adhoc")
MCGrantWindows == {0}
=============================================================================
