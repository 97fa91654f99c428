-------------------------- MODULE ApprovalContract --------------------------
(***************************************************************************)
(* What the approval queue promises about a card, whatever its storage:    *)
(* a card is put to the owner once, an answer to it is final, authority    *)
(* comes only from a yes and ends for good, and a clock that runs out ends *)
(* an unanswered card or a grant but never starts one.                     *)
(***************************************************************************)
EXTENDS Integers

CONSTANT Cards

VARIABLE card   \* [Cards -> {"none", "open", "granted", "closed"}]

CInit == card = [c \in Cards |-> "none"]

Ask(c) == card[c] = "none" /\ card' = [card EXCEPT ![c] = "open"]

\* One clock tick may close several cards and grants at once.
Lapse == \E S \in SUBSET {c \in Cards : card[c] \in {"open", "granted"}} :
            card' = [c \in Cards |-> IF c \in S THEN "closed" ELSE card[c]]

Grant(c) == card[c] = "open" /\ card' = [card EXCEPT ![c] = "granted"]

Close(c) == card[c] \in {"open", "granted"} /\ card' = [card EXCEPT ![c] = "closed"]

CNext == Lapse \/ \E c \in Cards : Ask(c) \/ Grant(c) \/ Close(c)

CSpec == CInit /\ [][CNext]_card
=============================================================================
