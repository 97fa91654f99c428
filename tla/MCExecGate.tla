----------------------------- MODULE MCExecGate -----------------------------
(* Two exec handlers and one decider around one question: a .byn command   *)
(* (q1) or an ad hoc request (q2).                                         *)
EXTENDS ExecGate, TLC

CONSTANTS q1, q2, s1, e1, e2

MCSubjectOf == [q \in Questions |-> s1]
MCKindOf == [q \in Questions |-> IF q = q1 THEN "action_unpinned" ELSE "adhoc"]
MCGrantWindows == {0, 1}

\* Bound of the ad hoc half: a grant's window is one tick and ends within it;
\* cards that lapse unanswered are explored with q1, to MaxTime.
AdhocTime == 2

\* Each behaviour is about one of the two: a card names no other question, so
\* the two only meet in the cards a project may have waiting (MCApprovalQueue).
OneQuestion ==
    \E q \in Questions :
        /\ \A i \in DOMAIN queue : queue[i].question = q
        /\ \A e \in Execs : exec[e].pc = "idle" \/ exec[e].question = q
        /\ q = q2 => now < AdhocTime

ExecSymmetry == Permutations({e1, e2})
=============================================================================
