--------------------------- MODULE ApprovalQueue ---------------------------
(***************************************************************************)
(* The approval queue of internal/approval: the cards that ask the owner   *)
(* whether a command may run, and the grants the answers leave behind.     *)
(*                                                                         *)
(* Every method of approval.Store takes the store's mutex, reloads the     *)
(* queue file, and either returns or replaces the file by a rename, so     *)
(* each method is one atomic step here.  A method that returns before it   *)
(* saves leaves every variable unchanged, including the lapses that        *)
(* `expire' marked in its private copy.                                    *)
(*                                                                         *)
(* A question is the pair (Subject, Fingerprint) of the code.  The         *)
(* fingerprint hashes the subject together with vault, scope and command   *)
(* (approvalgate.go fingerprintOf, adhoc.go adhocApprovalKey), so the      *)
(* fingerprint alone determines the question and its subject.              *)
(*                                                                         *)
(* Prune, which drops answered cards, has no caller in the daemon and is   *)
(* left out.                                                               *)
(***************************************************************************)
EXTENDS Integers, Sequences, FiniteSets

CONSTANTS
    Agents,                \* identities an asker can be attributed to
    NoAgent,               \* Requestor.AgentKey = "": byn could not attribute the asker
    Questions,             \* fingerprints
    Subjects,              \* .byn files, or directories for ad hoc requests
    SubjectOf,             \* [Questions -> Subjects]
    KindOf,                \* [Questions -> Kinds]
    DefaultTTL,            \* how long a card waits for an answer
    ActionGrantFor,        \* window of a plain approval of a .byn command
    AdhocGrantFor,         \* window of a plain approval of an ad hoc request
    DenialHoldFor,         \* cooldown of a question refused too often
    MaxPendingPerProject,  \* cards one subject may have waiting
    MaxDenialsBeforeHold,  \* consecutive denials that start the cooldown
    GrantWindows,          \* windows an owner picks; 0 leaves the kind's default
    AskOnceChoices,        \* whether askers say that one run is enough
    MaxRequests,           \* bound of the model: cards ever created
    MaxTime                \* bound of the model: clock ticks

Kinds == {"trust_widening", "action_unpinned", "adhoc"}

ASSUME QueueAssumption ==
    /\ NoAgent \notin Agents
    /\ SubjectOf \in [Questions -> Subjects]
    /\ KindOf \in [Questions -> Kinds]
    /\ DefaultTTL \in Nat \ {0}
    /\ ActionGrantFor \in Nat \ {0}
    /\ AdhocGrantFor \in Nat \ {0}
    /\ DenialHoldFor \in Nat \ {0}
    /\ MaxPendingPerProject \in Nat \ {0}
    /\ MaxDenialsBeforeHold \in Nat \ {0}
    /\ GrantWindows \subseteq Nat
    /\ AskOnceChoices \subseteq BOOLEAN
    /\ MaxRequests \in Nat
    /\ MaxTime \in Nat

VARIABLES
    queue,      \* file.Requests: the cards, oldest first; an index is a request id
    denials,    \* file.Denials: consecutive denials of a question
    holds,      \* file.Holds: when the cooldown of a question ends, 0 for none
    now,        \* Store.now()
    decisions   \* decisions recorded so far; orders DecidedAt

qvars == <<queue, denials, holds, now, decisions>>

(***************************************************************************)
(* A card.  `decided' is DecidedAt as a position in the order of           *)
(* decisions (0: undecided): the code compares nanosecond timestamps only  *)
(* to find the latest.  `until' is GrantedUntil and 0 is the zero time.    *)
(* Wording, requestor details, Repeats, Reason and Late are presentation   *)
(* and are left out.                                                       *)
(***************************************************************************)
Statuses == {"pending", "approved", "denied", "expired", "revoked",
             "cancelled", "used"}

Request == [question : Questions, agent : Agents \cup {NoAgent},
            askOnce : BOOLEAN, status : Statuses, once : BOOLEAN,
            anyone : BOOLEAN, capability : BOOLEAN,
            expires : Nat, until : Nat, decided : Nat]

Answered(r) == r.status \in {"approved", "denied", "revoked", "used", "cancelled"}

Grants(kind) == kind \in {"action_unpinned", "adhoc"}

Window(kind) == CASE kind = "action_unpinned" -> ActionGrantFor
                  [] kind = "adhoc"           -> AdhocGrantFor
                  [] OTHER                    -> 0

Ids == 1..Len(queue)

(***************************************************************************)
(* expire: what a method sees after it has marked the lapsed cards and     *)
(* dropped the keys of lapsed grants.                                      *)
(***************************************************************************)
Lapsed(r) == r.status = "pending" /\ now > r.expires

\* Mutation: expire drops keys but forgets to mark the lapsed card.
ExpireOneUnmarked(r) ==
    [r EXCEPT !.capability = IF r.status = "approved" /\ now >= r.until
                               THEN FALSE ELSE r.capability]

ExpireOne(r) ==
    [r EXCEPT !.status = IF Lapsed(r) THEN "expired" ELSE r.status,
              !.capability = IF r.status = "approved" /\ now >= r.until
                               THEN FALSE ELSE r.capability]

Expire == [i \in Ids |-> ExpireOne(queue[i])]

Waiting(i) == queue[i].status = "pending" /\ ~Lapsed(queue[i])

CardsOf(q) == {i \in Ids : Waiting(i) /\ queue[i].question = q}

PendingOn(s) == {i \in Ids : Waiting(i) /\ SubjectOf[queue[i].question] = s}

OnHold(q) == holds[q] # 0 /\ now < holds[q]

\* The readers return the first card that matches, in queue order.
IsFirst(i, S) == i \in S /\ \A j \in S : i <= j

-----------------------------------------------------------------------------
(* Enqueue: the three ways it can end.                                     *)

\* Mutations: Enqueue forgets Status, or ExpiresAt.
NewCardNoStatus(q, a, askOnce) ==
    [question |-> q, agent |-> a, askOnce |-> askOnce, status |-> "",
     once |-> FALSE, anyone |-> FALSE, capability |-> FALSE,
     expires |-> now + DefaultTTL, until |-> 0, decided |-> 0]

NewCardNoExpiry(q, a, askOnce) ==
    [question |-> q, agent |-> a, askOnce |-> askOnce, status |-> "pending",
     once |-> FALSE, anyone |-> FALSE, capability |-> FALSE,
     expires |-> 0, until |-> 0, decided |-> 0]

NewCard(q, a, askOnce) ==
    [question |-> q, agent |-> a, askOnce |-> askOnce, status |-> "pending",
     once |-> FALSE, anyone |-> FALSE, capability |-> FALSE,
     expires |-> now + DefaultTTL, until |-> 0, decided |-> 0]

\* Mutation: the served hold goes, its count stays.
ClearServedHoldKeepsCount(q) ==
    holds' = [holds EXCEPT ![q] = 0] /\ UNCHANGED denials

\* A cooldown that has been served is deleted together with its count.
ClearServedHold(q) ==
    /\ holds' = [holds EXCEPT ![q] = 0]
    /\ denials' = [denials EXCEPT ![q] = IF holds[q] = 0 THEN denials[q] ELSE 0]

\* Mutation: the limit is off by one.
EnqueueCreatesOneMore(q) ==
    /\ ~OnHold(q)
    /\ CardsOf(q) = {}
    /\ Cardinality(PendingOn(SubjectOf[q])) <= MaxPendingPerProject

EnqueueCreates(q) ==
    /\ ~OnHold(q)
    /\ CardsOf(q) = {}
    /\ Cardinality(PendingOn(SubjectOf[q])) < MaxPendingPerProject

EnqueueNew(q, a, askOnce) ==
    /\ EnqueueCreates(q)
    /\ Len(queue) < MaxRequests
    /\ queue' = Append(Expire, NewCard(q, a, askOnce))
    /\ ClearServedHold(q)
    /\ UNCHANGED <<now, decisions>>

\* The same question is already waiting: its card is reused.
EnqueueRepeat(q) ==
    /\ ~OnHold(q)
    /\ CardsOf(q) # {}
    /\ queue' = Expire
    /\ ClearServedHold(q)
    /\ UNCHANGED <<now, decisions>>

\* ErrOnHold or ErrRateLimited.
EnqueueRefused(q) ==
    /\ ~EnqueueCreates(q)
    /\ OnHold(q) \/ CardsOf(q) = {}
    /\ UNCHANGED qvars

Enqueue(q, a, askOnce) ==
    EnqueueNew(q, a, askOnce) \/ EnqueueRepeat(q) \/ EnqueueRefused(q)

-----------------------------------------------------------------------------
(* decide: an answer changes only a card that still waits.                 *)

\* The window of a grant; a widening is applied once and leaves no window.
GrantWindow(kind, win) == IF win = 0 THEN Window(kind) ELSE win

GrantedUntil(kind, win) == IF Grants(kind) THEN now + GrantWindow(kind, win) ELSE 0

ApprovedCard(r, until, once, anyone) ==
    [r EXCEPT !.status = "approved", !.until = until, !.once = once,
              !.anyone = anyone, !.decided = decisions + 1]

\* Mutation: a late yes overwrites whatever the card has become.
DecideApproveLate(i, win, once, anyone) ==
    LET q == queue[i].question IN
    /\ queue' = [Expire EXCEPT ![i] =
                   ApprovedCard(@, GrantedUntil(KindOf[q], win), once, anyone)]
    /\ denials' = [denials EXCEPT ![q] = 0]
    /\ holds' = [holds EXCEPT ![q] = 0]
    /\ decisions' = decisions + 1
    /\ UNCHANGED now

DecideApprove(i, win, once, anyone) ==
    LET q == queue[i].question IN
    /\ Waiting(i)
    /\ queue' = [Expire EXCEPT ![i] =
                   ApprovedCard(@, GrantedUntil(KindOf[q], win), once, anyone)]
    /\ denials' = [denials EXCEPT ![q] = 0]
    /\ holds' = [holds EXCEPT ![q] = 0]
    /\ decisions' = decisions + 1
    /\ UNCHANGED now

ClosedCard(r, status) == [r EXCEPT !.status = status, !.decided = decisions + 1]

\* Mutation: a late no overwrites an approval.
DecideDenyLate(i) ==
    LET q == queue[i].question IN
    /\ queue' = [Expire EXCEPT ![i] = ClosedCard(@, "denied")]
    /\ denials' = [denials EXCEPT ![q] = denials[q] + 1]
    /\ holds' = [holds EXCEPT ![q] = IF denials[q] + 1 >= MaxDenialsBeforeHold
                                       THEN now + DenialHoldFor ELSE holds[q]]
    /\ decisions' = decisions + 1
    /\ UNCHANGED now

DecideDeny(i) ==
    LET q == queue[i].question IN
    /\ Waiting(i)
    /\ queue' = [Expire EXCEPT ![i] = ClosedCard(@, "denied")]
    /\ denials' = [denials EXCEPT ![q] = denials[q] + 1]
    /\ holds' = [holds EXCEPT ![q] = IF denials[q] + 1 >= MaxDenialsBeforeHold
                                       THEN now + DenialHoldFor ELSE holds[q]]
    /\ decisions' = decisions + 1
    /\ UNCHANGED now

\* Answered or expired already: the record on file is returned and nothing is saved.
DecideMoot(i) == ~Waiting(i) /\ UNCHANGED qvars

-----------------------------------------------------------------------------
(* The other ways a card changes.                                          *)

SealedCard(r) == [r EXCEPT !.capability = TRUE]

AttachCapability(i) ==
    /\ queue' = [queue EXCEPT ![i] = SealedCard(@)]
    /\ UNCHANGED <<denials, holds, now, decisions>>

\* Mutation: the keys go, the grant itself is left standing.
EndedGrantStands(r, status) ==
    [r EXCEPT !.capability = FALSE, !.decided = decisions + 1]

\* A grant that ends takes its keys and its window with it.
EndedGrant(r, status) ==
    [r EXCEPT !.status = status, !.capability = FALSE, !.until = 0,
              !.decided = decisions + 1]

Revoke(i) ==
    /\ queue[i].status = "approved"
    /\ queue' = [queue EXCEPT ![i] = EndedGrant(@, "revoked")]
    /\ decisions' = decisions + 1
    /\ UNCHANGED <<denials, holds, now>>

\* The single-use grants a run of q can spend, whoever they were given to.
Spendable(q) ==
    {i \in Ids : /\ queue[i].once /\ queue[i].status = "approved"
                 /\ queue[i].question = q /\ now < queue[i].until}

Spend(i) ==
    /\ queue' = [queue EXCEPT ![i] = EndedGrant(@, "used")]
    /\ decisions' = decisions + 1
    /\ UNCHANGED <<denials, holds, now>>

ConsumeOnce(q) ==
    \/ \E i \in Ids : IsFirst(i, Spendable(q)) /\ Spend(i)
    \/ Spendable(q) = {} /\ UNCHANGED qvars

Cancel(i) ==
    /\ Waiting(i)
    /\ queue' = [Expire EXCEPT ![i] = ClosedCard(@, "cancelled")]
    /\ decisions' = decisions + 1
    /\ UNCHANGED <<denials, holds, now>>

\* List is the one reader that saves what expire marked.
List == queue' = Expire /\ UNCHANGED <<denials, holds, now, decisions>>

Tick == now < MaxTime /\ now' = now + 1 /\ UNCHANGED <<queue, denials, holds, decisions>>

-----------------------------------------------------------------------------
(* Readers.                                                                *)

\* grantUsableBy: for anyone, unattributed, or the agent that asked.
UsableBy(r, a) == r.anyone \/ r.agent = NoAgent \/ r.agent = a

InForce(i) == queue[i].status = "approved" /\ now < queue[i].until

\* ActionGrantRequest returns the first of these.
LiveGrants(q, a) ==
    {i \in Ids : /\ Grants(KindOf[queue[i].question])
                 /\ InForce(i) /\ queue[i].question = q
                 /\ UsableBy(queue[i], a)}

AnswersTo(q) == {i \in Ids : Answered(queue[i]) /\ queue[i].question = q}

Latest(S) == CHOOSE i \in S : \A j \in S : queue[j].decided <= queue[i].decided

\* LastDenial: the latest answer of any kind was a refusal.
Refused(q) == AnswersTo(q) # {} /\ queue[Latest(AnswersTo(q))].status = "denied"

-----------------------------------------------------------------------------
QInit ==
    /\ queue = <<>>
    /\ denials = [q \in Questions |-> 0]
    /\ holds = [q \in Questions |-> 0]
    /\ now = 1
    /\ decisions = 0

(***************************************************************************)
(* Every call the daemon can make on the store, in any order.  Calls that  *)
(* save nothing (DecideMoot, EnqueueRefused, ConsumeOnce with nothing to   *)
(* spend) are covered by stuttering.  Only an ad hoc request is given a    *)
(* capability; DecideFor, DecideOnce and DecideForAnyone set neither, one  *)
(* or the other of once and anyone, never both.                            *)
(***************************************************************************)
QNext ==
    \/ \E q \in Questions, a \in Agents \cup {NoAgent}, o \in AskOnceChoices :
          EnqueueNew(q, a, o)
    \/ \E q \in Questions : EnqueueRepeat(q)
    \/ \E i \in Ids, w \in GrantWindows, m \in {"plain", "once", "anyone"} :
          DecideApprove(i, w, m = "once", m = "anyone")
    \/ \E i \in Ids : DecideDeny(i)
    \/ \E i \in Ids : KindOf[queue[i].question] = "adhoc" /\ AttachCapability(i)
    \/ \E i \in Ids : Revoke(i)
    \/ \E q \in Questions, i \in Ids : IsFirst(i, Spendable(q)) /\ Spend(i)
    \/ \E i \in Ids : Cancel(i)
    \/ List
    \/ Tick

QSpec == QInit /\ [][QNext]_qvars

-----------------------------------------------------------------------------
(* Properties.                                                             *)

\* Type correctness of the queue file as load() would return it.
TypeOK ==
    /\ queue \in Seq(Request)
    /\ Len(queue) <= MaxRequests
    /\ denials \in [Questions -> Nat]
    /\ holds \in [Questions -> Nat]
    /\ now \in Nat \ {0}
    /\ decisions \in Nat

\* Asking the same question twice does not produce a second card: Enqueue
\* reuses the waiting one however asks, answers, lapses and withdrawals
\* interleave, so the owner never has two open cards for one question.
OneCardPerQuestion ==
    \A i, j \in Ids :
        /\ queue[i].status = "pending" /\ queue[j].status = "pending"
        /\ queue[i].question = queue[j].question
        => i = j

\* One subject never has more than MaxPendingPerProject cards waiting, across
\* all the questions and agents that ask about it (Enqueue, ErrRateLimited).
PendingBounded ==
    \A s \in Subjects : Cardinality(PendingOn(s)) <= MaxPendingPerProject

\* A cooldown is in force exactly when the count of consecutive denials has
\* reached the limit, and a question in cooldown has no card open: the only
\* way back to the owner is through Enqueue after the hold was served.
HeldQuestionIsQuiet ==
    \A q \in Questions :
        /\ holds[q] # 0 <=> denials[q] >= MaxDenialsBeforeHold
        /\ holds[q] # 0 => \A i \in Ids :
              queue[i].status = "pending" => queue[i].question # q

\* Authority is never revived: a grant in force after a step was in force
\* before it or was a card waiting for its answer.  A lapsed, revoked, spent,
\* refused, expired or withdrawn card never authorizes a run again, whatever
\* late decision, capability or repeat arrives for it.
NoRevival == [][\A i \in Ids : InForce(i)' => InForce(i) \/ Waiting(i)]_qvars

\* A card's life as the contract sees it.
CardState(i) ==
    IF i \notin Ids THEN "none"
    ELSE IF Waiting(i) THEN "open"
    ELSE IF InForce(i) THEN "granted"
    ELSE "closed"

Contract == INSTANCE ApprovalContract
    WITH Cards <- 1..MaxRequests, card <- [i \in 1..MaxRequests |-> CardState(i)]

\* The queue file implements the contract of a card: asked once, answered at
\* most once, granted only from open, closed for ever.
ImplementsContract == Contract!CSpec

\* LastDenial's comment: it returns "the most recent refusal of this exact
\* question, if there is one that has not been superseded by an approval", and
\* Cancel's: a withdrawal "must leave no mark on the owner's answer history".
\* So a question whose last answer by the owner was a refusal stays refused.
OwnerAnswersTo(q) == {i \in AnswersTo(q) : queue[i].status # "cancelled"}

WallSurvivesWithdrawal ==
    \A q \in Questions :
        /\ OwnerAnswersTo(q) # {}
        /\ queue[Latest(OwnerAnswersTo(q))].status = "denied"
        => Refused(q)
=============================================================================
