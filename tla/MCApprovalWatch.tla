--------------------------- MODULE MCApprovalWatch --------------------------
(* One watcher and two deciders around one question and two cards.         *)
EXTENDS ApprovalWatch, TLC

CONSTANTS q1, s1

MCSubjectOf == q1 :> s1
MCKindOf == q1 :> "action_unpinned"
MCGrantWindows == {0}
=============================================================================
