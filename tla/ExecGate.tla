------------------------------ MODULE ExecGate ------------------------------
(***************************************************************************)
(* Running a command on an approval: the gates of exec (execfetch.go for a *)
(* command a .byn does not pin, adhoc.go authorizeAdhoc for a request that *)
(* names its variables) and the handler that answers a card                *)
(* (handleApprovalDecide), each as the several critical sections it is.    *)
(*                                                                         *)
(* The store locks per call, so between the check that finds a grant, the  *)
(* call that spends it and the delivery of the values any other handler    *)
(* may run.  Callers here offer no credential: a password or a presence    *)
(* token bypasses the queue.  Whether the values can be opened (the vault  *)
(* unlocked, a capability on the record) is a free choice.                 *)
(***************************************************************************)
EXTENDS ApprovalQueue

CONSTANTS
    Execs,            \* connections running exec.fetch or exec.spawn
    Approvers,        \* connections running approval.decide
    OnceGrantWindow,  \* window of a single-use grant when the owner named none
    StoreMayFail      \* whether the write of a spent grant may fail

ASSUME GateAssumption ==
    /\ OnceGrantWindow \in GrantWindows \ {0}   \* an owner may name any window
    /\ StoreMayFail \in BOOLEAN
    /\ Questions # {}

VARIABLES
    exec,      \* each exec handler: where it is and what it holds
    decider,   \* each decide handler: where it is and what it read
    ran,       \* history: runs delivered on each card, counted to two
    spentFor,  \* history: the grant whose run spent this card (0: not spent)
    over       \* history: cards whose revocation or spending has returned

gvars == <<exec, decider, ran, spentFor, over>>
vars == <<qvars, gvars>>

Cards == 1..MaxRequests

ExecIdle == [pc |-> "idle", question |-> CHOOSE q \in Questions : TRUE,
             agent |-> NoAgent, force |-> FALSE, grant |-> 0,
             late |-> FALSE, walled |-> 0]

DeciderIdle == [pc |-> "idle", card |-> 0, approve |-> FALSE]

Goto(e, pc) == exec' = [exec EXCEPT ![e].pc = pc]

ExecReturns(e) == exec' = [exec EXCEPT ![e] = ExecIdle]

\* The refusal in force on a question, as its place in the order of decisions.
Wall(q) == IF Refused(q) THEN queue[Latest(AnswersTo(q))].decided ELSE 0

-----------------------------------------------------------------------------
(* exec: the grant.                                                        *)

\* actionApproved and ActionGrantRequest: the first live grant this caller may use.
FindGrant(e, q, a) ==
    /\ exec[e].pc = "idle"
    /\ \E i \in Ids :
         /\ IsFirst(i, LiveGrants(q, a))
         /\ exec' = [exec EXCEPT ![e] =
                [ExecIdle EXCEPT !.pc = "granted", !.question = q,
                                 !.grant = i, !.late = i \in over]]
    /\ UNCHANGED <<qvars, decider, ran, spentFor, over>>

FindNoGrant(e, q, a, force) ==
    /\ exec[e].pc = "idle"
    /\ LiveGrants(q, a) = {}
    /\ exec' = [exec EXCEPT ![e] =
           [ExecIdle EXCEPT !.pc = "asking", !.question = q, !.agent = a,
                            !.force = force, !.walled = Wall(q)]]
    /\ UNCHANGED <<qvars, decider, ran, spentFor, over>>

\* consumeOnceGrant: best effort, and its result only reaches the audit line.
ConsumeOnceGrant(e) ==
    LET q == exec[e].question IN
    \/ \E i \in Ids : /\ IsFirst(i, Spendable(q)) /\ Spend(i)
                      /\ spentFor' = [spentFor EXCEPT ![i] = exec[e].grant]
                      /\ over' = over \cup {i}
    \/ /\ Spendable(q) = {} \/ StoreMayFail
       /\ UNCHANGED <<qvars, spentFor, over>>

Ran(e) == ran' = [ran EXCEPT ![exec[e].grant] = IF @ = 2 THEN 2 ELSE @ + 1]

\* Mutation: the grant is never spent.
ActionSpendNothing(e) ==
    /\ exec[e].pc = "granted" /\ KindOf[exec[e].question] = "action_unpinned"
    /\ Goto(e, "authorized")
    /\ UNCHANGED <<qvars, decider, ran, spentFor, over>>

\* A command of a .byn: spend the grant, then open the values.
ActionSpend(e) ==
    /\ exec[e].pc = "granted" /\ KindOf[exec[e].question] = "action_unpinned"
    /\ ConsumeOnceGrant(e)
    /\ Goto(e, "authorized")
    /\ UNCHANGED <<decider, ran>>

ActionDeliver(e) ==
    /\ exec[e].pc = "authorized"
    /\ Ran(e) \/ UNCHANGED ran      \* the values open, or CodeLocked
    /\ ExecReturns(e)
    /\ UNCHANGED <<qvars, decider, spentFor, over>>

\* An ad hoc request: open the values, then spend the grant and hand them over.
AdhocOpen(e) ==
    /\ exec[e].pc = "granted" /\ KindOf[exec[e].question] = "adhoc"
    /\ Goto(e, "opened") \/ ExecReturns(e)
    /\ UNCHANGED <<qvars, decider, ran, spentFor, over>>

\* Mutation: the values are handed over and the grant is kept.
AdhocDeliverFree(e) ==
    /\ exec[e].pc = "opened"
    /\ Ran(e)
    /\ ExecReturns(e)
    /\ UNCHANGED <<qvars, decider, spentFor, over>>

AdhocDeliver(e) ==
    /\ exec[e].pc = "opened"
    /\ ConsumeOnceGrant(e)
    /\ Ran(e)
    /\ ExecReturns(e)
    /\ UNCHANGED decider

-----------------------------------------------------------------------------
(* exec: the question.                                                     *)

\* Mutations: no wall, or a refusal that does not return.
MeetNoWall(e) ==
    /\ exec[e].pc = "asking"
    /\ Goto(e, "raising")
    /\ UNCHANGED <<qvars, decider, ran, spentFor, over>>

MeetWallHangs(e) ==
    /\ exec[e].pc = "asking"
    /\ Goto(e, IF Refused(exec[e].question) /\ ~exec[e].force THEN "refused" ELSE "raising")
    /\ UNCHANGED <<qvars, decider, ran, spentFor, over>>

\* LastDenial: a refused question is a wall unless the caller forces it.
MeetWall(e) ==
    /\ exec[e].pc = "asking"
    /\ IF Refused(exec[e].question) /\ ~exec[e].force
         THEN ExecReturns(e) ELSE Goto(e, "raising")
    /\ UNCHANGED <<qvars, decider, ran, spentFor, over>>

Raise(e, askOnce) ==
    /\ exec[e].pc = "raising"
    /\ Enqueue(exec[e].question, exec[e].agent, askOnce)
    /\ ExecReturns(e)
    /\ UNCHANGED <<decider, ran, spentFor, over>>

\* handleExecPreflight on a command no pinned action matches: what it says would
\* happen.  A refusal is looked for first, and a grant whoever may use it.
Preflight(q) ==
    IF Refused(q) THEN "denied"
    ELSE IF \E i \in Ids : KindOf[q] = "action_unpinned" /\ queue[i].question = q /\ InForce(i)
      THEN "approved" ELSE "asks"

-----------------------------------------------------------------------------
(* handleApprovalDecide.                                                   *)

\* Get: the handler keeps the copy it read; only immutable fields are used.
OpenCard(h, i, approve) ==
    /\ decider[h].pc = "idle"
    /\ decider' = [decider EXCEPT ![h] =
           [pc |-> IF approve /\ KindOf[queue[i].question] = "adhoc"
                     THEN "sealing" ELSE "deciding",
            card |-> i, approve |-> approve]]
    /\ UNCHANGED <<qvars, exec, ran, spentFor, over>>

\* The grant's keys are sealed into the card, or sealing yields none or fails.
SealGrant(h) ==
    /\ decider[h].pc = "sealing"
    /\ \/ AttachCapability(decider[h].card) /\ decider' = [decider EXCEPT ![h].pc = "deciding"]
       \/ UNCHANGED qvars /\ decider' = [decider EXCEPT ![h].pc = "deciding"]
       \/ UNCHANGED qvars /\ decider' = [decider EXCEPT ![h] = DeciderIdle]
    /\ UNCHANGED <<exec, ran, spentFor, over>>

ResolveOnce(approverOnce, approverAlways, askedOnce) ==
    approverOnce \/ (~approverAlways /\ askedOnce)

\* A yes: --anyone takes precedence over single use, and a single-use answer
\* with no window of its own gets the short one.
AnswerYes(i, win, approverOnce, approverAlways, anyone) ==
    LET once == ResolveOnce(approverOnce, approverAlways, queue[i].askOnce) IN
    DecideApprove(i, IF once /\ win = 0 THEN OnceGrantWindow ELSE win,
                  once /\ ~anyone, anyone)

Decide(h) ==
    /\ decider[h].pc = "deciding"
    /\ LET i == decider[h].card IN
       \/ /\ decider[h].approve
          /\ \E win \in GrantWindows, o, always, anyone \in BOOLEAN :
                AnswerYes(i, win, o, always, anyone)
       \/ ~decider[h].approve /\ DecideDeny(i)
       \/ DecideMoot(i)
    /\ decider' = [decider EXCEPT ![h] = DeciderIdle]
    /\ UNCHANGED <<exec, ran, spentFor, over>>

TakeBack(h, i) ==
    /\ decider[h].pc = "idle"
    /\ Revoke(i)
    /\ over' = over \cup {i}
    /\ UNCHANGED <<exec, decider, ran, spentFor>>

-----------------------------------------------------------------------------
OtherStep ==
    /\ \/ \E i \in Ids : Cancel(i)
       \/ List
       \/ Tick
    /\ UNCHANGED gvars

\* A daemon that stops drops its handlers; the queue is a file.
Restart ==
    /\ exec' = [e \in Execs |-> ExecIdle]
    /\ decider' = [h \in Approvers |-> DeciderIdle]
    /\ UNCHANGED <<qvars, ran, spentFor, over>>

GInit ==
    /\ QInit
    /\ exec = [e \in Execs |-> ExecIdle]
    /\ decider = [h \in Approvers |-> DeciderIdle]
    /\ ran = [i \in Cards |-> 0]
    /\ spentFor = [i \in Cards |-> 0]
    /\ over = {}

GNext ==
    \/ \E e \in Execs, q \in Questions, a \in Agents \cup {NoAgent} :
          FindGrant(e, q, a) \/ \E force \in BOOLEAN : FindNoGrant(e, q, a, force)
    \/ \E e \in Execs : ActionSpend(e) \/ ActionDeliver(e) \/ AdhocOpen(e)
                        \/ AdhocDeliver(e) \/ MeetWall(e)
    \/ \E e \in Execs, o \in AskOnceChoices : Raise(e, o)
    \/ \E h \in Approvers, i \in Ids :
          TakeBack(h, i) \/ \E approve \in BOOLEAN : OpenCard(h, i, approve)
    \/ \E h \in Approvers : SealGrant(h) \/ Decide(h)
    \/ OtherStep
    \/ Restart

GSpec == GInit /\ [][GNext]_vars

-----------------------------------------------------------------------------
(* Properties.                                                             *)

\* Type correctness of the handlers' state.
GateTypeOK ==
    /\ exec \in [Execs -> [pc : {"idle", "granted", "authorized", "opened",
                                 "asking", "raising"},
                           question : Questions, agent : Agents \cup {NoAgent},
                           force : BOOLEAN, grant : 0..MaxRequests,
                           late : BOOLEAN, walled : Nat]]
    /\ decider \in [Approvers -> [pc : {"idle", "sealing", "deciding"},
                                  card : 0..MaxRequests, approve : BOOLEAN]]
    /\ ran \in [Cards -> 0..2]
    /\ spentFor \in [Cards -> 0..MaxRequests]
    /\ over \subseteq Cards

\* A command runs only on a yes: a card that ever carried a run was approved,
\* and what it is now is what can follow an approval.  A refusal, a withdrawal
\* or a lapse that races the run never ends up on a card that ran.
RunsAnswerTheOwner ==
    \A i \in Ids : ran[i] > 0 => queue[i].status \in {"approved", "used", "revoked"}

\* Once a revocation has returned to the owner, or a single-use grant has been
\* spent, no exec that starts afterwards is authorized by that card, whatever
\* decisions, seals and crashes come between.
EndedGrantAuthorizesNoNewRun ==
    \A e \in Execs : exec[e].pc # "idle" => ~exec[e].late

\* A refused command hits a wall (LastDenial): an exec that started with the
\* question refused, and was not told to force it, gets to raise a card only
\* if a later answer came in while it was running.
RefusalIsAWall ==
    \A e \in Execs :
        /\ exec[e].pc = "raising" /\ ~exec[e].force /\ exec[e].walled # 0
        => \E j \in AnswersTo(exec[e].question) : queue[j].decided > exec[e].walled

\* A run on a single-use grant is paid for: if the grant is still in force
\* after the run, that run spent another single-use grant of the question.
OnceRunIsPaidFor ==
    \A i \in Ids :
        queue[i].once /\ ran[i] > 0 /\ InForce(i) => \E j \in Ids : spentFor[j] = i

\* "This has to agree with the gate or it is worse than nothing" (execpreflight.go):
\* what the pre-flight calls approved, and nothing else, an exec of this caller would
\* find a grant for.
PreflightIsTheGate ==
    \A q \in Questions, a \in Agents \cup {NoAgent} :
        KindOf[q] = "action_unpinned" => (Preflight(q) = "approved" <=> LiveGrants(q, a) # {})

\* DecideOnce: "the grant is spent the first time byn authorizes a run with it".
OnceRunsOnce == \A i \in Ids : queue[i].once => ran[i] <= 1
=============================================================================
