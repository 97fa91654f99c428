--------------------------- MODULE ApprovalProofs ---------------------------
(***************************************************************************)
(* Proofs about the handlers that use the approval queue, for every number *)
(* of handlers, cards and questions. Waiting for an answer: subscribing    *)
(* before looking again loses no wakeup, and a wakeup always finds a card  *)
(* that has ended. Running a command on an approval: the gates use the     *)
(* queue only as the store allows, and their several critical sections     *)
(* never turn a stale answer into a run.                                   *)
(***************************************************************************)
EXTENDS ApprovalWatch, ExecGate, ApprovalQueueProofs

-----------------------------------------------------------------------------
(* What the handlers know of their cards.                                  *)

\* A watch in progress is about a card that exists, and only a subscribed
\* watch has a channel.
WatchHeld ==
    \A w \in Watchers :
        /\ wpc[w] # "idle" => wcard[w] \in Ids
        /\ chan[w] # "none" => wpc[w] \in {"subscribed", "waiting"}

\* What a decider is about to publish has ended.
PublishingEnded ==
    \A d \in Deciders : publishing[d] # 0 => publishing[d] \in Ids /\ ~Waiting(publishing[d])

\* A closed channel tells of an end.
ClosedEnded == \A w \in Watchers : chan[w] = "closed" => ~Waiting(wcard[w])

WatchInv == TypeOK /\ WatchTypeOK /\ WatchHeld /\ PublishingEnded /\ ClosedEnded

-----------------------------------------------------------------------------
(* The store under the handlers.                                           *)

\* ByWatchTicket shows an end exactly when the card no longer waits.
LEMMA TicketShows ==
    ASSUME TypeOK, NEW i \in Ids
    PROVE  /\ ByWatchTicket(i).status \in Statuses
           /\ ByWatchTicket(i).status = "pending" <=> Waiting(i)
           /\ Ended(ByWatchTicket(i)) <=> ~Waiting(i)
           /\ Answered(queue[i]) => ~Waiting(i)
<1>1. queue[i] \in Request
  BY ExpireType
<1>2. /\ ByWatchTicket(i).status = IF Lapsed(queue[i]) THEN "expired" ELSE queue[i].status
      /\ ByWatchTicket(i).status \in Statuses
  BY <1>1, ExpireOneType DEF ByWatchTicket, Request
<1> QED
  BY <1>2 DEF Ended, Answered, Waiting, Lapsed, Statuses

\* Every step of the handlers is, for the queue, a call of one of its methods.
LEMMA WatchStepIsQueueStep ==
    ASSUME [WNext]_watchVars
    PROVE  [QNext]_qvars
<1>1. ASSUME NEW w \in Watchers, NEW status, NEW timedOut, Return(w, status, timedOut)
      PROVE  UNCHANGED qvars
  BY <1>1 DEF Return
<1>2. ASSUME NEW w \in Watchers, NEW i \in Ids, LookUp(w, i) PROVE UNCHANGED qvars
  BY <1>1, <1>2 DEF LookUp
<1>3. ASSUME NEW w \in Watchers,
             \/ Subscribe(w) \/ Reread(w) \/ Wake(w)
             \/ PollTick(w) \/ Deadline(w) \/ CallerGone(w)
      PROVE  UNCHANGED qvars
  BY <1>1, <1>3 DEF Subscribe, Reread, Wake, PollTick, Deadline, CallerGone
<1>4. ASSUME NEW d \in Deciders, NEW i \in Ids,
             HandleDecide(d, i) \/ HandleRevoke(d, i) \/ HandleCancel(d, i)
      PROVE  [QNext]_qvars
  BY <1>4 DEF HandleDecide, HandleRevoke, HandleCancel, Decides, DecideMoot, QNext
<1>5. CASE StoreStep
  BY <1>5 DEF StoreStep, QNext
<1> QED
  BY <1>2, <1>3, <1>4, <1>5 DEF WNext, watchVars, Publish, RestartWatch

\* A card that no longer waits never waits again.
LEMMA EndIsFinal ==
    ASSUME TypeOK, [QNext]_qvars, NEW j \in Ids, Waiting(j)'
    PROVE  Waiting(j)
<1>1. ASSUME NEW q \in Questions, NEW a \in Agents \cup {NoAgent},
             NEW o \in AskOnceChoices, EnqueueNew(q, a, o)
      PROVE  Waiting(j)
  <2>1. queue'[j] = ExpireOne(queue[j]) /\ now' = now
    BY <1>1, NewShape DEF EnqueueNew
  <2> QED
    BY <2>1, KeepState DEF Kept
<1>2. CASE KeepsAll
  BY <1>2 DEF KeepsAll, Kept
<1>3. ASSUME NEW i \in Ids, MovesOne(i) PROVE Waiting(j)
  BY <1>3 DEF MovesOne, Moved, Kept, Waiting
<1>4. CASE Tick
  BY <1>4, ExpireType DEF Tick, Waiting, Lapsed, TypeOK, Request
<1> QED
  BY <1>1, <1>2, <1>3, <1>4, StepShape

\* Cards are kept, and what has ended stays ended, under every step.
LEMMA QueueMoves ==
    ASSUME WatchInv, [WNext]_watchVars
    PROVE  /\ TypeOK'
           /\ \A j \in Ids : j \in Ids' /\ (Waiting(j)' => Waiting(j))
           /\ Len(queue) \in Nat /\ Len(queue') \in Nat /\ Len(queue) <= Len(queue')
<1>1. TypeOK /\ [QNext]_qvars
  BY WatchStepIsQueueStep DEF WatchInv
<1>2. TypeOK' /\ \A j \in Ids : j \in Ids' /\ (Waiting(j)' => Waiting(j))
  BY <1>1, NextType, CardsAdvance, EndIsFinal
<1>3. Len(queue) \in Nat /\ Len(queue') \in Nat
  BY <1>1, <1>2 DEF TypeOK
<1> QED
  BY <1>2, <1>3 DEF Ids

\* An answering call answers its own card and no other.
LEMMA AnswersOwnCard ==
    ASSUME TypeOK, NEW i \in Ids, Decides(i) \/ Revoke(i) \/ Cancel(i) \/ UNCHANGED qvars,
           NEW j \in Ids, j # i, Answered(queue'[j])
    PROVE  Answered(queue[j])
<1>1. queue'[j] \in {queue[j], ExpireOne(queue[j])}
  <2>1. ASSUME NEW w \in GrantWindows, NEW m \in {"plain", "once", "anyone"},
               DecideApprove(i, w, m = "once", m = "anyone")
        PROVE  queue'[j] = ExpireOne(queue[j])
    BY <2>1, ApproveShape
  <2>2. CASE DecideDeny(i)
    BY <2>2, CloseShape DEF DecideDeny, Statuses
  <2>3. CASE Cancel(i)
    BY <2>3, CloseShape DEF Cancel, Statuses
  <2>4. CASE Revoke(i)
    BY <2>4, EndShape DEF Revoke, Statuses
  <2>5. CASE UNCHANGED qvars
    BY <2>5 DEF qvars
  <2> QED
    BY <2>1, <2>2, <2>3, <2>4, <2>5 DEF Decides, DecideMoot
<1> QED
  BY <1>1, ExpireType, ExpireOneType DEF Answered, Lapsed

\* The steps that announce nothing answer nothing: a grant that a run spends
\* was answered before.
LEMMA StoreStepAnswersNone ==
    ASSUME TypeOK, StoreStep, NEW j \in Ids, Answered(queue'[j])
    PROVE  Answered(queue[j])
<1>1. ASSUME queue'[j] \in {queue[j], ExpireOne(queue[j])} PROVE Answered(queue[j])
  BY <1>1, ExpireType, ExpireOneType DEF Answered, Lapsed
<1>2. ASSUME NEW q \in Questions, NEW o \in AskOnceChoices, EnqueueNew(q, NoAgent, o)
      PROVE  Answered(queue[j])
  BY <1>1, <1>2, NewShape
<1>3. ASSUME NEW q \in Questions, NEW i \in Ids, IsFirst(i, Spendable(q)), Spend(i)
      PROVE  Answered(queue[j])
  <2>1. i # j => queue'[j] = queue[j]
    BY <1>3, EndShape DEF Spend, Statuses
  <2>2. queue[i].status = "approved"
    BY <1>3 DEF IsFirst, Spendable
  <2> QED
    BY <1>1, <2>1, <2>2 DEF Answered
<1>4. CASE List
  BY <1>1, <1>4, ExpireShape DEF List
<1>5. CASE Tick
  BY <1>1, <1>5 DEF Tick
<1> QED
  BY <1>2, <1>3, <1>4, <1>5 DEF StoreStep

\* After the call its handler publishes, the card has ended.
LEMMA CallEndsCard ==
    ASSUME TypeOK, NEW i \in Ids,
           Decides(i) \/ Revoke(i) \/ Cancel(i) \/ (~Waiting(i) /\ UNCHANGED qvars)
    PROVE  ~Waiting(i)'
<1>1. ASSUME NEW w \in GrantWindows, NEW m \in {"plain", "once", "anyone"},
             DecideApprove(i, w, m = "once", m = "anyone")
      PROVE  ~Waiting(i)'
  BY <1>1, ApproveShape DEF Waiting
<1>2. CASE DecideDeny(i)
  BY <1>2, CloseShape DEF DecideDeny, Statuses, Waiting
<1>3. CASE Cancel(i)
  BY <1>3, CloseShape DEF Cancel, Statuses, Waiting
<1>4. CASE Revoke(i)
  BY <1>4, EndShape DEF Revoke, Statuses, Waiting
<1>5. CASE ~Waiting(i) /\ UNCHANGED qvars
  BY <1>5 DEF Waiting, Lapsed, qvars
<1> QED
  BY <1>1, <1>2, <1>3, <1>4, <1>5 DEF Decides, DecideMoot

-----------------------------------------------------------------------------
(* The handlers.                                                           *)

Responses == [status : Statuses \cup {"none"}, timedOut : BOOLEAN]

\* The ways one watch changes in a step of the daemon.
WatchStays(w) ==
    /\ wpc'[w] = wpc[w] /\ wcard'[w] = wcard[w] /\ resp'[w] = resp[w]
    /\ \/ chan'[w] = chan[w]
       \/ /\ chan[w] = "open" /\ chan'[w] = "closed"
          /\ \E d \in Deciders : publishing[d] = wcard[w] /\ publishing[d] # 0

WatchReturns(w) ==
    /\ wpc'[w] = "idle" /\ wcard'[w] = 0 /\ chan'[w] = "none"
    /\ resp'[w] \in Responses
    /\ ~resp'[w].timedOut => resp'[w].status # "pending"

WatchLooks(w) ==
    /\ wpc[w] = "idle" /\ wpc'[w] = "looked"
    /\ wcard'[w] \in Ids /\ chan'[w] = chan[w] /\ resp'[w] = NoResponse

WatchSubscribes(w) ==
    /\ wpc[w] = "looked" /\ wpc'[w] = "subscribed"
    /\ wcard'[w] = wcard[w] /\ chan'[w] = "open" /\ resp'[w] = resp[w]

WatchWaits(w) ==
    /\ wpc[w] = "subscribed" /\ wpc'[w] = "waiting"
    /\ wcard'[w] = wcard[w] /\ chan'[w] = chan[w] /\ resp'[w] = resp[w]
    /\ Waiting(wcard[w]) /\ UNCHANGED qvars

WatchWays(w) == \/ WatchStays(w) \/ WatchReturns(w) \/ WatchLooks(w)
                \/ WatchSubscribes(w) \/ WatchWaits(w)

\* An answer to the caller is a response, and it is an end unless it says that
\* the wait ran out.
LEMMA ReturnIs ==
    ASSUME WatchInv, NEW w \in Watchers, NEW status \in Statuses, NEW timedOut \in BOOLEAN,
           timedOut \/ status # "pending", Return(w, status, timedOut)
    PROVE  \A v \in Watchers : WatchWays(v)
<1>1. /\ wpc \in [Watchers -> {"idle", "looked", "subscribed", "waiting"}]
      /\ wcard \in [Watchers -> 0..Len(queue)]
      /\ chan \in [Watchers -> {"none", "open", "closed"}]
      /\ resp \in [Watchers -> Responses]
  BY DEF WatchInv, WatchTypeOK, Responses
<1>2. \A v \in Watchers : v # w => WatchStays(v)
  BY <1>1 DEF Return, WatchStays
<1>3. [status |-> status, timedOut |-> timedOut] \in Responses
  BY DEF Responses
<1>4. WatchReturns(w)
  BY <1>1, <1>3 DEF Return, WatchReturns
<1> QED
  BY <1>2, <1>4 DEF WatchWays

\* Every step changes a watch in one of those ways.
LEMMA WatchSteps ==
    ASSUME WatchInv, [WNext]_watchVars
    PROVE  \A v \in Watchers : WatchWays(v)
<1>0. /\ TypeOK
      /\ wpc \in [Watchers -> {"idle", "looked", "subscribed", "waiting"}]
      /\ wcard \in [Watchers -> 0..Len(queue)]
      /\ chan \in [Watchers -> {"none", "open", "closed"}]
      /\ resp \in [Watchers -> Responses]
  BY DEF WatchInv, WatchTypeOK, Responses
<1>1. ASSUME UNCHANGED <<wpc, wcard, chan, resp>> PROVE \A v \in Watchers : WatchWays(v)
  BY <1>1 DEF WatchWays, WatchStays
<1>2. ASSUME NEW w \in Watchers, NEW i \in Ids, LookUp(w, i)
      PROVE  \A v \in Watchers : WatchWays(v)
  <2>1. CASE Ended(ByWatchTicket(i)) /\ Return(w, ByWatchTicket(i).status, FALSE)
    BY <1>0, <2>1, TicketShows, ReturnIs
  <2>2. CASE /\ wpc' = [wpc EXCEPT ![w] = "looked"]
             /\ wcard' = [wcard EXCEPT ![w] = i]
             /\ resp' = [resp EXCEPT ![w] = NoResponse]
             /\ UNCHANGED <<qvars, chan, publishing>>
    <3>1. WatchLooks(w)
      BY <1>0, <1>2, <2>2 DEF LookUp, WatchLooks
    <3>2. \A v \in Watchers : v # w => WatchStays(v)
      BY <1>0, <2>2 DEF WatchStays
    <3> QED
      BY <3>1, <3>2 DEF WatchWays
  <2> QED
    BY <1>2, <2>1, <2>2 DEF LookUp
<1>3. ASSUME NEW w \in Watchers, Subscribe(w) PROVE \A v \in Watchers : WatchWays(v)
  <2>1. WatchSubscribes(w)
    BY <1>0, <1>3 DEF Subscribe, WatchSubscribes
  <2>2. \A v \in Watchers : v # w => WatchStays(v)
    BY <1>0, <1>3 DEF Subscribe, WatchStays
  <2> QED
    BY <2>1, <2>2 DEF WatchWays
<1>4. ASSUME NEW w \in Watchers, Reread(w) PROVE \A v \in Watchers : WatchWays(v)
  <2>0. wcard[w] \in Ids
    BY <1>4 DEF WatchInv, WatchHeld, Reread
  <2>1. CASE Ended(ByWatchTicket(wcard[w])) /\ Return(w, ByWatchTicket(wcard[w]).status, FALSE)
    BY <1>0, <2>0, <2>1, TicketShows, ReturnIs
  <2>2. CASE /\ ~Ended(ByWatchTicket(wcard[w]))
             /\ wpc' = [wpc EXCEPT ![w] = "waiting"]
             /\ UNCHANGED <<qvars, wcard, chan, resp, publishing>>
    <3>1. WatchWaits(w)
      BY <1>0, <1>4, <2>0, <2>2, TicketShows DEF Reread, WatchWaits
    <3>2. \A v \in Watchers : v # w => WatchStays(v)
      BY <1>0, <2>2 DEF WatchStays
    <3> QED
      BY <3>1, <3>2 DEF WatchWays
  <2> QED
    BY <1>4, <2>1, <2>2 DEF Reread
<1>5. ASSUME NEW w \in Watchers, Wake(w) \/ PollTick(w) \/ Deadline(w) \/ CallerGone(w)
      PROVE  \A v \in Watchers : WatchWays(v)
  <2>0. wcard[w] \in Ids
    BY <1>5 DEF WatchInv, WatchHeld, Wake, PollTick, Deadline, CallerGone
  <2>1. CASE Wake(w)
    BY <1>0, <2>0, <2>1, TicketShows, ReturnIs DEF Wake, WatchInv, ClosedEnded
  <2>2. CASE PollTick(w)
    BY <1>0, <2>0, <2>2, TicketShows, ReturnIs DEF PollTick
  <2>3. CASE Deadline(w)
    BY <1>0, <2>0, <2>3, TicketShows, ReturnIs DEF Deadline
  <2>4. CASE CallerGone(w)
    BY <2>4, ReturnIs DEF CallerGone, Statuses
  <2> QED
    BY <1>5, <2>1, <2>2, <2>3, <2>4
<1>6. ASSUME NEW d \in Deciders, Publish(d) PROVE \A v \in Watchers : WatchWays(v)
  BY <1>0, <1>6 DEF Publish, WatchWays, WatchStays
<1>7. CASE RestartWatch
  <2>1. NoResponse \in Responses /\ NoResponse.status # "pending"
    BY DEF NoResponse, Responses
  <2> QED
    BY <1>7, <2>1 DEF RestartWatch, WatchWays, WatchReturns
<1> QED
  BY <1>1, <1>2, <1>3, <1>4, <1>5, <1>6, <1>7
  DEF WNext, watchVars, wvars, HandleDecide, HandleRevoke, HandleCancel, StoreStep

\* The handlers' variables stay functions on the handlers.
LEMMA WatchDomains ==
    ASSUME WatchInv, [WNext]_watchVars
    PROVE  /\ wpc' = [v \in Watchers |-> wpc'[v]] /\ wcard' = [v \in Watchers |-> wcard'[v]]
           /\ chan' = [v \in Watchers |-> chan'[v]] /\ resp' = [v \in Watchers |-> resp'[v]]
           /\ publishing' = [d \in Deciders |-> publishing'[d]]
<1> DEFINE WGoal == /\ wpc' = [v \in Watchers |-> wpc'[v]]
                    /\ wcard' = [v \in Watchers |-> wcard'[v]]
                    /\ chan' = [v \in Watchers |-> chan'[v]]
                    /\ resp' = [v \in Watchers |-> resp'[v]]
           DGoal == publishing' = [d \in Deciders |-> publishing'[d]]
<1>0. /\ wpc = [v \in Watchers |-> wpc[v]] /\ wcard = [v \in Watchers |-> wcard[v]]
      /\ chan = [v \in Watchers |-> chan[v]] /\ resp = [v \in Watchers |-> resp[v]]
      /\ publishing = [d \in Deciders |-> publishing[d]]
  BY DEF WatchInv, WatchTypeOK
<1>1. ASSUME UNCHANGED <<wpc, wcard, chan, resp>> PROVE WGoal
  BY <1>0, <1>1
<1>2. ASSUME UNCHANGED publishing PROVE DGoal
  BY <1>0, <1>2
<1>3. ASSUME NEW w \in Watchers, NEW status, NEW timedOut, Return(w, status, timedOut)
      PROVE  WGoal /\ DGoal
  BY <1>0, <1>3 DEF Return
<1>4. ASSUME NEW w \in Watchers, NEW i \in Ids, LookUp(w, i) PROVE WGoal /\ DGoal
  <2>1. CASE Return(w, ByWatchTicket(i).status, FALSE)
    BY <1>3, <2>1
  <2>2. CASE /\ wpc' = [wpc EXCEPT ![w] = "looked"]
             /\ wcard' = [wcard EXCEPT ![w] = i]
             /\ resp' = [resp EXCEPT ![w] = NoResponse]
             /\ UNCHANGED <<qvars, chan, publishing>>
    BY <1>0, <2>2
  <2> QED
    BY <1>4, <2>1, <2>2 DEF LookUp
<1>5. ASSUME NEW w \in Watchers, Subscribe(w) PROVE WGoal /\ DGoal
  BY <1>0, <1>5 DEF Subscribe
<1>6. ASSUME NEW w \in Watchers, Reread(w) PROVE WGoal /\ DGoal
  <2>1. CASE Return(w, ByWatchTicket(wcard[w]).status, FALSE)
    BY <1>3, <2>1
  <2>2. CASE /\ wpc' = [wpc EXCEPT ![w] = "waiting"]
             /\ UNCHANGED <<qvars, wcard, chan, resp, publishing>>
    BY <1>0, <2>2
  <2> QED
    BY <1>6, <2>1, <2>2 DEF Reread
<1>7. ASSUME NEW d \in Deciders, Publish(d) PROVE WGoal /\ DGoal
  BY <1>0, <1>7 DEF Publish
<1>8. ASSUME NEW d \in Deciders, NEW i \in Ids,
             HandleDecide(d, i) \/ HandleRevoke(d, i) \/ HandleCancel(d, i)
      PROVE  WGoal /\ DGoal
  BY <1>0, <1>8 DEF HandleDecide, HandleRevoke, HandleCancel
<1>9. CASE RestartWatch
  BY <1>9 DEF RestartWatch
<1> HIDE DEF WGoal, DGoal
<1>10. ASSUME NEW w \in Watchers, Wake(w) \/ PollTick(w) \/ Deadline(w) \/ CallerGone(w)
       PROVE  WGoal /\ DGoal
  BY <1>3, <1>10 DEF Wake, PollTick, Deadline, CallerGone
<1>11. ASSUME UNCHANGED wvars PROVE WGoal /\ DGoal
  BY <1>1, <1>2, <1>11 DEF wvars
<1>12. ASSUME RestartWatch PROVE WGoal /\ DGoal
  BY <1>9, <1>12 DEF WGoal, DGoal
<1>13. WGoal /\ DGoal
  BY <1>4, <1>5, <1>6, <1>7, <1>8, <1>10, <1>11, <1>12 DEF WNext, watchVars, StoreStep
<1> QED
  BY <1>13 DEF WGoal, DGoal

\* A decider announces only a card that has ended, and only after it was free.
LEMMA PublishSteps ==
    ASSUME WatchInv, [WNext]_watchVars, NEW d \in Deciders
    PROVE  \/ publishing'[d] = publishing[d]
           \/ publishing'[d] = 0
           \/ publishing[d] = 0 /\ \E i \in Ids : publishing'[d] = i /\ ~Waiting(i)'
<1> DEFINE Goal == \/ publishing'[d] = publishing[d]
                   \/ publishing'[d] = 0
                   \/ publishing[d] = 0 /\ \E i \in Ids : publishing'[d] = i /\ ~Waiting(i)'
<1>0. TypeOK /\ publishing \in [Deciders -> 0..Len(queue)]
  BY DEF WatchInv, WatchTypeOK
<1>1. ASSUME UNCHANGED publishing PROVE Goal
  BY <1>1
<1>2. ASSUME NEW c \in Deciders, NEW i \in Ids,
             HandleDecide(c, i) \/ HandleRevoke(c, i) \/ HandleCancel(c, i)
      PROVE  Goal
  <2>1. ~Waiting(i)'
    BY <1>0, <1>2, CallEndsCard DEF HandleDecide, HandleRevoke, HandleCancel
  <2>2. publishing[c] = 0 /\ publishing' = [publishing EXCEPT ![c] = i]
    BY <1>2 DEF HandleDecide, HandleRevoke, HandleCancel
  <2> QED
    BY <1>0, <2>1, <2>2
<1>3. ASSUME NEW c \in Deciders, Publish(c) PROVE Goal
  BY <1>0, <1>3 DEF Publish
<1>4. CASE RestartWatch
  BY <1>4 DEF RestartWatch
<1>5. ASSUME NEW w \in Watchers, NEW status, NEW timedOut, Return(w, status, timedOut)
      PROVE  UNCHANGED publishing
  BY <1>5 DEF Return
<1>6. ASSUME \/ \E w \in Watchers, i \in Ids : LookUp(w, i)
             \/ \E w \in Watchers : Subscribe(w) \/ Reread(w) \/ Wake(w) \/ PollTick(w)
                                    \/ Deadline(w) \/ CallerGone(w)
             \/ StoreStep
             \/ UNCHANGED watchVars
      PROVE  UNCHANGED publishing
  BY <1>5, <1>6 DEF LookUp, Subscribe, Reread, Wake, PollTick, Deadline, CallerGone,
                    StoreStep, watchVars, wvars
<1> QED
  BY <1>1, <1>2, <1>3, <1>4, <1>6 DEF WNext

\* What the handlers know of their cards stays true under every other call.
LEMMA WatchInvStep ==
    ASSUME WatchInv, [WNext]_watchVars
    PROVE  WatchInv' /\ (DecisionIsAnEnd => DecisionIsAnEnd')
<1>0. /\ TypeOK' /\ \A j \in Ids : j \in Ids' /\ (Waiting(j)' => Waiting(j))
      /\ Len(queue) \in Nat /\ Len(queue') \in Nat /\ Len(queue) <= Len(queue')
  BY QueueMoves
<1>1. \A w \in Watchers :
        /\ wpc[w] \in {"idle", "looked", "subscribed", "waiting"}
        /\ wcard[w] \in 0..Len(queue)
        /\ chan[w] \in {"none", "open", "closed"}
        /\ resp[w] \in Responses
        /\ wpc[w] # "idle" => wcard[w] \in Ids
        /\ chan[w] # "none" => wpc[w] \in {"subscribed", "waiting"}
        /\ chan[w] = "closed" => ~Waiting(wcard[w])
  BY DEF WatchInv, WatchTypeOK, Responses, WatchHeld, ClosedEnded
<1>2. NoResponse \in Responses /\ NoResponse.status # "pending"
  BY DEF NoResponse, Responses
<1>3. ASSUME NEW w \in Watchers
      PROVE  /\ wpc'[w] \in {"idle", "looked", "subscribed", "waiting"}
             /\ wcard'[w] \in 0..Len(queue')
             /\ chan'[w] \in {"none", "open", "closed"}
             /\ resp'[w] \in Responses
             /\ wpc'[w] # "idle" => wcard'[w] \in Ids'
             /\ chan'[w] # "none" => wpc'[w] \in {"subscribed", "waiting"}
             /\ DecisionIsAnEnd => (~resp'[w].timedOut => resp'[w].status # "pending")
  <2>1. CASE WatchStays(w)
    BY <1>0, <1>1, <2>1 DEF WatchStays, DecisionIsAnEnd
  <2>2. CASE WatchReturns(w)
    BY <1>0, <2>2 DEF WatchReturns
  <2>3. CASE WatchLooks(w)
    BY <1>0, <1>1, <1>2, <2>3 DEF WatchLooks, Ids
  <2>4. CASE WatchSubscribes(w) \/ WatchWaits(w)
    BY <1>0, <1>1, <2>4 DEF WatchSubscribes, WatchWaits, DecisionIsAnEnd
  <2> QED
    BY <2>1, <2>2, <2>3, <2>4, WatchSteps DEF WatchWays
<1>4. ASSUME NEW w \in Watchers, chan'[w] = "closed"
      PROVE  \E i \in Ids : wcard'[w] = i /\ ~Waiting(i)
  <2>1. CASE WatchStays(w)
    BY <1>1, <1>4, <2>1 DEF WatchStays, WatchInv, PublishingEnded
  <2>2. CASE WatchLooks(w) \/ WatchWaits(w)
    BY <1>1, <1>4, <2>2 DEF WatchLooks, WatchWaits
  <2>3. CASE WatchReturns(w) \/ WatchSubscribes(w)
    BY <1>4, <2>3 DEF WatchReturns, WatchSubscribes
  <2> QED
    BY <2>1, <2>2, <2>3, WatchSteps DEF WatchWays
<1>5. ClosedEnded'
  BY <1>0, <1>4 DEF ClosedEnded, Waiting, Lapsed
<1>6. ASSUME NEW d \in Deciders
      PROVE  /\ publishing'[d] \in 0..Len(queue')
             /\ publishing'[d] # 0 => \E i \in Ids' : publishing'[d] = i /\ ~Waiting(i)'
  <2>0. publishing[d] \in 0..Len(queue)
    BY DEF WatchInv, WatchTypeOK
  <2>1. CASE publishing'[d] = publishing[d]
    BY <1>0, <2>0, <2>1 DEF WatchInv, PublishingEnded
  <2>2. CASE publishing'[d] = 0
    BY <1>0, <2>2
  <2>3. ASSUME NEW i \in Ids, publishing'[d] = i, ~Waiting(i)'
        PROVE  /\ publishing'[d] \in 0..Len(queue')
               /\ publishing'[d] # 0 => \E k \in Ids' : publishing'[d] = k /\ ~Waiting(k)'
    BY <1>0, <2>3 DEF Ids
  <2> QED
    BY <2>1, <2>2, <2>3, PublishSteps
<1>7. PublishingEnded'
  BY <1>6 DEF PublishingEnded, Waiting, Lapsed
<1>8. WatchTypeOK'
  BY <1>3, <1>6, WatchDomains DEF WatchTypeOK, Responses
<1>9. WatchHeld'
  BY <1>3 DEF WatchHeld
<1>10. DecisionIsAnEnd => DecisionIsAnEnd'
  BY <1>3 DEF DecisionIsAnEnd
<1> QED
  BY <1>0, <1>5, <1>7, <1>8, <1>9, <1>10 DEF WatchInv

\* A daemon starts with no watch and an empty queue.
LEMMA WatchInvInit == ASSUME WInit PROVE WatchInv /\ DecisionIsAnEnd
<1>1. TypeOK /\ Len(queue) \in Nat
  BY InitType DEF WInit, TypeOK
<1>2. NoResponse \in Responses /\ NoResponse.status # "pending"
  BY DEF NoResponse, Responses
<1> QED
  BY <1>1, <1>2 DEF WInit, WatchInv, WatchTypeOK, WatchHeld, PublishingEnded, ClosedEnded,
                    DecisionIsAnEnd, Responses

\* The handlers' state is well formed, and what they announce has ended.
THEOREM WatchInvariant == WSpec => []WatchInv
<1>1. WInit => WatchInv
  BY WatchInvInit
<1>2. WatchInv /\ [WNext]_watchVars => WatchInv'
  BY WatchInvStep
<1> QED
  BY <1>1, <1>2, PTL DEF WSpec

\* The watch and decide handlers use the queue as its specification allows, so
\* every theorem about the queue holds while they race.
THEOREM WatchUsesTheQueue == WSpec => QSpec
<1>1. WInit => QInit
  BY DEF WInit
<1>2. [WNext]_watchVars => [QNext]_qvars
  BY WatchStepIsQueueStep
<1> QED
  BY <1>1, <1>2, PTL DEF WSpec, QSpec

\* No publish, however late or repeated, wakes a watcher into answering
\* "pending" as a decision (handleApprovalWatch, decisionBroadcaster.publish).
THEOREM DecisionIsAnEndHolds == WSpec => []DecisionIsAnEnd
<1>1. WInit => DecisionIsAnEnd
  BY WatchInvInit
<1>2. WatchInv /\ DecisionIsAnEnd /\ [WNext]_watchVars => DecisionIsAnEnd'
  BY WatchInvStep
<1> QED
  BY <1>1, <1>2, WatchInvariant, PTL DEF WSpec

-----------------------------------------------------------------------------
(* No wakeup is lost.                                                      *)

\* A card that a step answers is one its handler will publish.
LEMMA AnswerIsAnnounced ==
    ASSUME WatchInv, [WNext]_watchVars, NEW j \in Ids, Answered(queue'[j]), ~Answered(queue[j])
    PROVE  \E d \in Deciders : publishing'[d] = j
<1>0. TypeOK /\ publishing \in [Deciders -> 0..Len(queue)]
  BY DEF WatchInv, WatchTypeOK
<1>1. ASSUME NEW d \in Deciders, NEW i \in Ids,
             HandleDecide(d, i) \/ HandleRevoke(d, i) \/ HandleCancel(d, i)
      PROVE  publishing'[d] = j
  <2>1. i = j
    BY <1>0, <1>1, AnswersOwnCard DEF HandleDecide, HandleRevoke, HandleCancel
  <2> QED
    BY <1>0, <1>1, <2>1 DEF HandleDecide, HandleRevoke, HandleCancel
<1>2. ~StoreStep
  BY <1>0, StoreStepAnswersNone
<1>3. ASSUME UNCHANGED qvars PROVE FALSE
  BY <1>3 DEF qvars
<1>4. ASSUME NEW w \in Watchers, NEW status, NEW timedOut, Return(w, status, timedOut)
      PROVE  FALSE
  BY <1>3, <1>4 DEF Return
<1> QED
  BY <1>1, <1>2, <1>3, <1>4
  DEF WNext, watchVars, LookUp, Subscribe, Reread, Wake, PollTick, Deadline, CallerGone,
      Publish, RestartWatch

\* A publication that is due stays due until it is made, and making it closes
\* every channel open for the card.
LEMMA AnnouncementStays ==
    ASSUME WatchInv, [WNext]_watchVars, NEW d \in Deciders, publishing[d] # 0,
           NEW w \in Watchers, WatchStays(w), chan'[w] = "open", wcard[w] = publishing[d]
    PROVE  publishing'[d] = publishing[d]
<1>0. publishing \in [Deciders -> 0..Len(queue)]
  BY DEF WatchInv, WatchTypeOK
<1>1. chan[w] = "open" /\ wcard'[w] = wcard[w] /\ wpc'[w] = wpc[w] /\ wpc[w] # "idle"
  BY DEF WatchStays, WatchInv, WatchHeld
<1>2. ASSUME NEW c \in Deciders, Publish(c) PROVE publishing'[d] = publishing[d]
  BY <1>0, <1>1, <1>2 DEF Publish
<1>3. ASSUME NEW c \in Deciders, NEW i \in Ids,
             HandleDecide(c, i) \/ HandleRevoke(c, i) \/ HandleCancel(c, i)
      PROVE  publishing'[d] = publishing[d]
  BY <1>0, <1>3 DEF HandleDecide, HandleRevoke, HandleCancel
<1>4. ~RestartWatch
  BY <1>1 DEF RestartWatch
<1>5. ASSUME NEW v \in Watchers, NEW status, NEW timedOut, Return(v, status, timedOut)
      PROVE  UNCHANGED publishing
  BY <1>5 DEF Return
<1> QED
  BY <1>2, <1>3, <1>4, <1>5
  DEF WNext, watchVars, wvars, LookUp, Subscribe, Reread, Wake, PollTick, Deadline, CallerGone,
      StoreStep

\* The second look comes after the channel is registered, so a card that is
\* answered later is announced to it.
LEMMA NoLostWakeupStep ==
    ASSUME WatchInv, NoLostWakeup, [WNext]_watchVars
    PROVE  NoLostWakeup'
<1> SUFFICES ASSUME NEW w \in Watchers, wpc'[w] = "waiting", chan'[w] = "open",
                    Answered(queue'[wcard'[w]])
             PROVE  \E d \in Deciders : publishing'[d] = wcard'[w]
  BY DEF NoLostWakeup
<1>1. CASE WatchStays(w)
  <2>1. wpc[w] = "waiting" /\ chan[w] = "open" /\ wcard'[w] = wcard[w] /\ wcard[w] \in Ids
    BY <1>1 DEF WatchStays, WatchInv, WatchHeld
  <2>2. CASE Answered(queue[wcard[w]])
    <3>1. PICK d \in Deciders : publishing[d] = wcard[w]
      BY <2>1, <2>2 DEF NoLostWakeup
    <3>2. publishing[d] # 0
      BY <2>1, <3>1 DEF Ids
    <3> QED
      BY <1>1, <2>1, <3>1, <3>2, AnnouncementStays
  <2>3. CASE ~Answered(queue[wcard[w]])
    BY <2>1, <2>3, AnswerIsAnnounced
  <2> QED
    BY <2>2, <2>3
<1>2. CASE WatchWaits(w)
  <2>1. wcard[w] \in Ids /\ Waiting(wcard[w]) /\ wcard'[w] = wcard[w] /\ queue' = queue
    BY <1>2 DEF WatchWaits, WatchInv, WatchHeld, qvars
  <2> QED
    BY <2>1, TicketShows DEF WatchInv
<1>3. CASE WatchReturns(w) \/ WatchLooks(w) \/ WatchSubscribes(w)
  BY <1>3 DEF WatchReturns, WatchLooks, WatchSubscribes
<1> QED
  BY <1>1, <1>2, <1>3, WatchSteps DEF WatchWays

\* No wakeup is lost: a handler that waits on an open channel for an answered
\* card is about to be published to (handleApprovalWatch).
THEOREM NoLostWakeupHolds == WSpec => []NoLostWakeup
<1>1. WInit => NoLostWakeup
  BY DEF WInit, NoLostWakeup
<1>2. WatchInv /\ NoLostWakeup /\ [WNext]_watchVars => NoLostWakeup'
  BY NoLostWakeupStep
<1> QED
  BY <1>1, <1>2, WatchInvariant, PTL DEF WSpec

-----------------------------------------------------------------------------
(* What the handlers hold between their critical sections.                 *)

\* An exec that found a grant keeps its card; the card was approved then, so
\* it is approved now or its grant has ended, and it answers the question the
\* exec is about.
GrantHeld ==
    \A e \in Execs : exec[e].pc \in {"granted", "authorized", "opened"} =>
        /\ exec[e].grant \in Ids
        /\ queue[exec[e].grant].status \in {"approved", "used", "revoked"}
        /\ queue[exec[e].grant].question = exec[e].question

\* A decide handler keeps the card it read, and seals keys for ad hoc cards only.
CardHeld ==
    \A h \in Approvers : decider[h].pc # "idle" =>
        /\ decider[h].card \in Ids
        /\ decider[h].pc = "sealing" => KindOf[queue[decider[h].card].question] = "adhoc"

\* The history of ended grants is about cards whose grant has ended.
OverEnded == \A i \in over : i \in Ids /\ queue[i].status \in {"used", "revoked"}

\* Runs were delivered on cards that carry an answer that allowed them.
RunsAnswered ==
    \A i \in Cards : ran[i] > 0 => i \in Ids /\ queue[i].status \in {"approved", "used", "revoked"}

GateInv == TypeOK /\ GateTypeOK /\ Stamped /\ GrantHeld /\ CardHeld

-----------------------------------------------------------------------------
(* The gates and the queue.                                                *)

ExecStates == [pc : {"idle", "granted", "authorized", "opened", "asking", "raising"},
               question : Questions, agent : Agents \cup {NoAgent},
               force : BOOLEAN, grant : 0..MaxRequests,
               late : BOOLEAN, walled : Nat]

DeciderStates == [pc : {"idle", "sealing", "deciding"}, card : 0..MaxRequests, approve : BOOLEAN]

\* A handler that has returned is in a proper state and holds no card.
LEMMA IdleTypes ==
    /\ ExecIdle \in ExecStates /\ ExecIdle.pc = "idle" /\ ~ExecIdle.late
    /\ DeciderIdle \in DeciderStates /\ DeciderIdle.pc = "idle"
<1>1. MaxRequests \in Nat
  BY QueueAssumption
<1>2. (CHOOSE q \in Questions : TRUE) \in Questions
  BY GateAssumption
<1> QED
  BY <1>1, <1>2 DEF ExecIdle, DeciderIdle, ExecStates, DeciderStates

\* Every step of a gate, of a decide handler or of another caller is, for the
\* queue, a call of one of its methods or nothing.
LEMMA GateStepIsQueueStep ==
    ASSUME GateInv, [GNext]_vars
    PROVE  [QNext]_qvars
<1>0. \A e \in Execs : exec[e].question \in Questions /\ exec[e].agent \in Agents \cup {NoAgent}
  BY DEF GateInv, GateTypeOK
<1>1. ASSUME NEW e \in Execs, ActionSpend(e) \/ AdhocDeliver(e) PROVE [QNext]_qvars
  BY <1>0, <1>1 DEF ActionSpend, AdhocDeliver, ConsumeOnceGrant, QNext
<1>2. ASSUME NEW e \in Execs, NEW o \in AskOnceChoices, Raise(e, o) PROVE [QNext]_qvars
  BY <1>0, <1>2 DEF Raise, Enqueue, EnqueueRefused, QNext
<1>3. ASSUME NEW h \in Approvers, SealGrant(h) PROVE [QNext]_qvars
  BY <1>3 DEF SealGrant, GateInv, CardHeld, QNext
<1>4. ASSUME NEW h \in Approvers, Decide(h) PROVE [QNext]_qvars
  <2>1. decider[h].card \in Ids
    BY <1>4 DEF Decide, GateInv, CardHeld
  <2>2. ASSUME NEW win \in GrantWindows, NEW o \in BOOLEAN, NEW always \in BOOLEAN,
               NEW anyone \in BOOLEAN, AnswerYes(decider[h].card, win, o, always, anyone)
        PROVE  QNext
    <3>1. PICK w \in GrantWindows, once \in BOOLEAN :
               DecideApprove(decider[h].card, w, once /\ ~anyone, anyone)
      <4>1. PICK once \in BOOLEAN : once = ResolveOnce(o, always, queue[decider[h].card].askOnce)
        BY <2>1, ExpireType DEF ResolveOnce, GateInv, Request
      <4>2. (IF once /\ win = 0 THEN OnceGrantWindow ELSE win) \in GrantWindows
        BY GateAssumption
      <4> QED
        BY <2>2, <4>1, <4>2 DEF AnswerYes
    <3>2. PICK m \in {"plain", "once", "anyone"} :
               /\ (m = "once") = (once /\ ~anyone)
               /\ (m = "anyone") = anyone
      <4>1. CASE anyone
        BY <4>1
      <4>2. CASE ~anyone /\ once
        BY <4>2
      <4>3. CASE ~anyone /\ ~once
        BY <4>3
      <4> QED
        BY <4>1, <4>2, <4>3
    <3> QED
      BY <2>1, <3>1, <3>2 DEF QNext
  <2> QED
    BY <1>4, <2>1, <2>2 DEF Decide, DecideMoot, QNext
<1>5. ASSUME NEW h \in Approvers, NEW i \in Ids, TakeBack(h, i) PROVE [QNext]_qvars
  BY <1>5 DEF TakeBack, QNext
<1>6. CASE OtherStep
  BY <1>6 DEF OtherStep, QNext
<1>7. CASE UNCHANGED qvars
  BY <1>7
<1> QED
  BY <1>1, <1>2, <1>3, <1>4, <1>5, <1>6, <1>7
  DEF GNext, vars, FindGrant, FindNoGrant, ActionDeliver, AdhocOpen, MeetWall, OpenCard, Restart

\* A card's answer only moves forward: its question stays, a card that was
\* approved stays approved or ends, an ended grant stays ended.
LEMMA AnswersLast ==
    ASSUME GateInv, [GNext]_vars
    PROVE  /\ TypeOK'
           /\ \A j \in Ids :
                /\ j \in Ids'
                /\ queue'[j].question = queue[j].question
                /\ queue[j].status \in {"approved", "used", "revoked"}
                     => queue'[j].status \in {"approved", "used", "revoked"}
                /\ queue[j].status \in {"used", "revoked"}
                     => queue'[j].status \in {"used", "revoked"}
<1>1. TypeOK /\ [QNext]_qvars
  BY GateStepIsQueueStep DEF GateInv
<1> QED
  BY <1>1, NextType, CardsAdvance DEF Advances

\* Ids are cards the model can hold.
LEMMA IdsBounded ==
    ASSUME TypeOK
    PROVE  \A i \in Ids : i \in Cards /\ i \in 0..MaxRequests
BY QueueAssumption DEF TypeOK, Ids, Cards

-----------------------------------------------------------------------------
(* Type correctness and what the handlers hold.                            *)

\* The refusal in force is a stamp of the card that carries it.
LEMMA WallIs ==
    ASSUME TypeOK, Stamped, NEW q \in Questions
    PROVE  /\ Wall(q) \in Nat
           /\ Wall(q) # 0 => \E j \in AnswersTo(q) : queue[j].status = "denied"
                                                     /\ queue[j].decided = Wall(q)
<1>1. AnswersTo(q) \subseteq Ids
  BY DEF AnswersTo
<1>2. CASE Refused(q)
  <2>1. Latest(AnswersTo(q)) \in AnswersTo(q)
    BY <1>1, <1>2, LatestExists DEF Refused
  <2> QED
    BY <1>1, <1>2, <2>1, ExpireType DEF Wall, Refused, Request
<1> QED
  BY <1>2 DEF Wall

\* The ways one exec handler changes in a step of the daemon.
ExecStays(e) == exec'[e] = exec[e]

ExecEnds(e) == exec'[e] = ExecIdle

ExecFinds(e) ==
    /\ exec'[e].pc = "granted"
    /\ exec'[e].grant \in Ids /\ InForce(exec'[e].grant)
    /\ queue[exec'[e].grant].question = exec'[e].question
    /\ exec'[e].late = (exec'[e].grant \in over)
    /\ UNCHANGED <<qvars, ran, spentFor, over>>

ExecAsks(e) ==
    /\ exec'[e].pc = "asking" /\ ~exec'[e].late
    /\ exec'[e].walled = Wall(exec'[e].question)
    /\ UNCHANGED <<qvars, ran, spentFor, over>>

ExecGoes(e) ==
    /\ exec[e].pc = "granted"
    /\ exec'[e] \in {[exec[e] EXCEPT !.pc = "authorized"], [exec[e] EXCEPT !.pc = "opened"]}

ExecRaises(e) ==
    /\ exec[e].pc = "asking"
    /\ exec'[e] = [exec[e] EXCEPT !.pc = "raising"]
    /\ ~Refused(exec[e].question) \/ exec[e].force
    /\ UNCHANGED <<qvars, ran, spentFor, over>>

\* Every step changes an exec handler in one of those ways, and keeps its type.
LEMMA ExecSteps ==
    ASSUME GateInv, [GNext]_vars
    PROVE  /\ exec' \in [Execs -> ExecStates]
           /\ \A e \in Execs : \/ ExecStays(e) \/ ExecEnds(e) \/ ExecFinds(e)
                               \/ ExecAsks(e) \/ ExecGoes(e) \/ ExecRaises(e)
<1> DEFINE Ways(e) == \/ ExecStays(e) \/ ExecEnds(e) \/ ExecFinds(e)
                      \/ ExecAsks(e) \/ ExecGoes(e) \/ ExecRaises(e)
           Goal == exec' \in [Execs -> ExecStates] /\ \A e \in Execs : Ways(e)
<1>0. exec \in [Execs -> ExecStates]
  BY DEF GateInv, GateTypeOK, ExecStates
<1>1. ASSUME NEW e \in Execs, NEW r \in ExecStates, exec' = [exec EXCEPT ![e] = r], Ways(e)
      PROVE  Goal
  <2>1. \A f \in Execs : f # e => ExecStays(f)
    BY <1>0, <1>1 DEF ExecStays
  <2> QED
    BY <1>0, <1>1, <2>1
<1>2. ASSUME exec' = exec PROVE Goal
  BY <1>0, <1>2 DEF ExecStays
<1> HIDE DEF Ways
<1>3. ASSUME NEW e \in Execs, exec' = [exec EXCEPT ![e] = ExecIdle] PROVE Goal
  <2>1. Ways(e)
    BY <1>0, <1>3 DEF Ways, ExecEnds
  <2> QED
    BY <1>1, <1>3, <2>1, IdleTypes
<1>4. ASSUME NEW e \in Execs, NEW q \in Questions, NEW a \in Agents \cup {NoAgent},
             FindGrant(e, q, a)
      PROVE  Goal
  <2>1. PICK i \in Ids :
             /\ IsFirst(i, LiveGrants(q, a))
             /\ exec' = [exec EXCEPT ![e] =
                   [ExecIdle EXCEPT !.pc = "granted", !.question = q,
                                    !.grant = i, !.late = i \in over]]
             /\ UNCHANGED <<qvars, ran, spentFor, over>>
    BY <1>4 DEF FindGrant
  <2> DEFINE r == [ExecIdle EXCEPT !.pc = "granted", !.question = q,
                                   !.grant = i, !.late = i \in over]
  <2>2. i \in 0..MaxRequests /\ InForce(i) /\ queue[i].question = q
    BY <2>1, IdsBounded DEF GateInv, IsFirst, LiveGrants
  <2>3. /\ r \in ExecStates /\ r.pc = "granted" /\ r.grant = i
        /\ r.question = q /\ r.late = (i \in over)
    <3>1. (i \in over) \in BOOLEAN
      OBVIOUS
    <3> QED
      BY <2>2, <3>1, IdleTypes DEF ExecStates
  <2> HIDE DEF r
  <2>4. exec' = [exec EXCEPT ![e] = r] /\ exec'[e] = r
    BY <1>0, <2>1 DEF r
  <2>5. Ways(e)
    BY <2>1, <2>2, <2>3, <2>4 DEF Ways, ExecFinds
  <2> QED
    BY <1>1, <2>3, <2>4, <2>5
<1>5. ASSUME NEW e \in Execs, NEW q \in Questions, NEW a \in Agents \cup {NoAgent},
             NEW force \in BOOLEAN, FindNoGrant(e, q, a, force)
      PROVE  Goal
  <2> DEFINE r == [ExecIdle EXCEPT !.pc = "asking", !.question = q, !.agent = a,
                                   !.force = force, !.walled = Wall(q)]
  <2>1. exec' = [exec EXCEPT ![e] = r] /\ UNCHANGED <<qvars, ran, spentFor, over>>
    BY <1>5 DEF FindNoGrant
  <2>2. Wall(q) \in Nat
    BY WallIs DEF GateInv
  <2>3. /\ r \in ExecStates /\ r.pc = "asking" /\ ~r.late
        /\ r.question = q /\ r.walled = Wall(q)
    BY <2>2, IdleTypes DEF ExecStates
  <2> HIDE DEF r
  <2>4. Ways(e)
    BY <1>0, <2>1, <2>3 DEF Ways, ExecAsks
  <2> QED
    BY <1>1, <2>1, <2>3, <2>4
<1>6. ASSUME NEW e \in Execs, NEW pc \in {"authorized", "opened"},
             exec[e].pc = "granted", Goto(e, pc)
      PROVE  Goal
  <2>1. [exec[e] EXCEPT !.pc = pc] \in ExecStates
    BY <1>0 DEF ExecStates
  <2>2. exec' = [exec EXCEPT ![e] = [exec[e] EXCEPT !.pc = pc]]
    BY <1>6 DEF Goto
  <2>3. Ways(e)
    BY <1>0, <1>6, <2>2 DEF Ways, ExecGoes
  <2> QED
    BY <1>1, <2>1, <2>2, <2>3
<1>7. ASSUME NEW e \in Execs, MeetWall(e) PROVE Goal
  <2>1. CASE ExecReturns(e)
    BY <1>3, <2>1 DEF ExecReturns
  <2>2. CASE Goto(e, "raising") /\ (~Refused(exec[e].question) \/ exec[e].force)
    <3>1. [exec[e] EXCEPT !.pc = "raising"] \in ExecStates
      BY <1>0 DEF ExecStates
    <3>2. exec' = [exec EXCEPT ![e] = [exec[e] EXCEPT !.pc = "raising"]]
      BY <2>2 DEF Goto
    <3>3. Ways(e)
      BY <1>0, <1>7, <2>2, <3>2 DEF Ways, ExecRaises, MeetWall
    <3> QED
      BY <1>1, <3>1, <3>2, <3>3
  <2> QED
    BY <1>7, <2>1, <2>2 DEF MeetWall
<1>8. ASSUME NEW e \in Execs,
             ActionSpend(e) \/ ActionDeliver(e) \/ AdhocOpen(e) \/ AdhocDeliver(e)
      PROVE  Goal
  BY <1>3, <1>6, <1>8 DEF ActionSpend, ActionDeliver, AdhocOpen, AdhocDeliver, ExecReturns
<1>9. ASSUME NEW e \in Execs, NEW o \in AskOnceChoices, Raise(e, o) PROVE Goal
  BY <1>3, <1>9 DEF Raise, ExecReturns
<1>10. ASSUME Restart PROVE Goal
  BY <1>10, IdleTypes DEF Restart, Ways, ExecEnds
<1>11. Goal
  BY <1>2, <1>4, <1>5, <1>7, <1>8, <1>9, <1>10
  DEF GNext, vars, gvars, TakeBack, OpenCard, SealGrant, Decide, OtherStep
<1> QED
  BY <1>11 DEF Ways

\* A grant that a run spends, or the owner revokes, has ended after the step.
LEMMA EndsGrant ==
    ASSUME TypeOK, NEW i \in Ids, Spend(i) \/ Revoke(i)
    PROVE  queue'[i].status \in {"used", "revoked"}
<1>1. PICK st \in {"used", "revoked"} : queue' = [queue EXCEPT ![i] = EndedGrant(queue[i], st)]
  BY DEF Spend, Revoke
<1> QED
  BY <1>1, EndShape DEF Statuses

\* A run is counted on the grant its exec holds, and the history of ended
\* grants gains a card only as its grant ends.
LEMMA HistorySteps ==
    ASSUME GateInv, [GNext]_vars
    PROVE  /\ ran' \in [Cards -> 0..2]
           /\ spentFor' \in [Cards -> 0..MaxRequests]
           /\ over' \subseteq Cards
           /\ \A i \in Cards : \/ ran'[i] = ran[i]
                               \/ \E e \in Execs : /\ exec[e].pc \in {"authorized", "opened"}
                                                   /\ exec[e].grant = i
           /\ \A i \in over' : i \in over \/ (i \in Ids /\ queue'[i].status \in {"used", "revoked"})
<1> DEFINE RanGoal == /\ ran' \in [Cards -> 0..2]
                      /\ \A i \in Cards : \/ ran'[i] = ran[i]
                                          \/ \E e \in Execs : /\ exec[e].pc \in {"authorized", "opened"}
                                                              /\ exec[e].grant = i
           EndGoal == /\ spentFor' \in [Cards -> 0..MaxRequests]
                      /\ over' \subseteq Cards
                      /\ \A i \in over' : \/ i \in over
                                          \/ i \in Ids /\ queue'[i].status \in {"used", "revoked"}
<1>0. /\ TypeOK /\ ran \in [Cards -> 0..2]
      /\ spentFor \in [Cards -> 0..MaxRequests] /\ over \subseteq Cards
      /\ \A e \in Execs : exec[e].grant \in 0..MaxRequests
      /\ \A i \in Ids : i \in Cards
  BY IdsBounded DEF GateInv, GateTypeOK
<1>1. ASSUME UNCHANGED ran PROVE RanGoal
  BY <1>0, <1>1
<1>2. ASSUME UNCHANGED <<spentFor, over>> PROVE EndGoal
  BY <1>0, <1>2
<1>3. ASSUME NEW e \in Execs, exec[e].pc \in {"authorized", "opened"}, Ran(e) PROVE RanGoal
  <2>1. exec[e].grant \in Cards
    BY <1>0, <1>3 DEF GateInv, GrantHeld
  <2>2. ran' = [ran EXCEPT ![exec[e].grant] =
                  IF ran[exec[e].grant] = 2 THEN 2 ELSE ran[exec[e].grant] + 1]
    BY <1>3 DEF Ran
  <2> QED
    BY <1>0, <1>3, <2>1, <2>2
<1>4. ASSUME NEW i \in Ids, queue'[i].status \in {"used", "revoked"}, over' = over \cup {i},
             spentFor' \in [Cards -> 0..MaxRequests]
      PROVE  EndGoal
  BY <1>0, <1>4
<1> HIDE DEF RanGoal, EndGoal
<1>5. ASSUME NEW e \in Execs, ConsumeOnceGrant(e) PROVE EndGoal
  <2>1. CASE UNCHANGED <<spentFor, over>>
    BY <1>2, <2>1
  <2>2. ASSUME NEW i \in Ids, Spend(i), over' = over \cup {i},
               spentFor' = [spentFor EXCEPT ![i] = exec[e].grant]
        PROVE  EndGoal
    BY <1>0, <1>4, <2>2, EndsGrant
  <2> QED
    BY <1>5, <2>1, <2>2 DEF ConsumeOnceGrant
<1>6. ASSUME NEW e \in Execs, ActionSpend(e) \/ ActionDeliver(e) \/ AdhocDeliver(e)
      PROVE  RanGoal /\ EndGoal
  BY <1>1, <1>2, <1>3, <1>5, <1>6 DEF ActionSpend, ActionDeliver, AdhocDeliver
<1>7. ASSUME NEW h \in Approvers, NEW i \in Ids, TakeBack(h, i) PROVE RanGoal /\ EndGoal
  BY <1>0, <1>1, <1>4, <1>7, EndsGrant DEF TakeBack
<1>8. ASSUME UNCHANGED <<ran, spentFor, over>> PROVE RanGoal /\ EndGoal
  BY <1>1, <1>2, <1>8
<1>9. RanGoal /\ EndGoal
  BY <1>6, <1>7, <1>8
  DEF GNext, vars, gvars, FindGrant, FindNoGrant, AdhocOpen, MeetWall, Raise, OpenCard,
      SealGrant, Decide, OtherStep, Restart
<1> QED
  BY <1>9 DEF RanGoal, EndGoal

\* A decide handler opens a card, moves on with it, or returns.
LEMMA DeciderSteps ==
    ASSUME GateInv, [GNext]_vars
    PROVE  /\ decider' \in [Approvers -> DeciderStates]
           /\ \A h \in Approvers :
                \/ decider'[h] = decider[h]
                \/ decider'[h].pc = "idle"
                \/ /\ decider'[h].card \in Ids
                   /\ decider'[h].pc = "sealing" => KindOf[queue[decider'[h].card].question] = "adhoc"
<1> DEFINE Ways(h) == \/ decider'[h] = decider[h]
                      \/ decider'[h].pc = "idle"
                      \/ /\ decider'[h].card \in Ids
                         /\ decider'[h].pc = "sealing"
                              => KindOf[queue[decider'[h].card].question] = "adhoc"
           Goal == decider' \in [Approvers -> DeciderStates] /\ \A h \in Approvers : Ways(h)
<1>0. decider \in [Approvers -> DeciderStates]
  BY DEF GateInv, GateTypeOK, DeciderStates
<1>1. ASSUME NEW h \in Approvers, NEW r \in DeciderStates, decider' = [decider EXCEPT ![h] = r],
             \/ r.pc = "idle"
             \/ /\ r.card \in Ids
                /\ r.pc = "sealing" => KindOf[queue[r.card].question] = "adhoc"
      PROVE  Goal
  BY <1>0, <1>1
<1>2. ASSUME decider' = decider PROVE Goal
  BY <1>0, <1>2
<1> HIDE DEF Goal
<1>3. ASSUME NEW h \in Approvers, decider' = [decider EXCEPT ![h] = DeciderIdle] PROVE Goal
  BY <1>1, <1>3, IdleTypes
<1>4. ASSUME NEW h \in Approvers, NEW i \in Ids, NEW approve \in BOOLEAN, OpenCard(h, i, approve)
      PROVE  Goal
  <2> DEFINE r == [pc |-> IF approve /\ KindOf[queue[i].question] = "adhoc"
                            THEN "sealing" ELSE "deciding",
                   card |-> i, approve |-> approve]
  <2>1. decider' = [decider EXCEPT ![h] = r]
    BY <1>4 DEF OpenCard
  <2>2. r \in DeciderStates
    BY IdsBounded DEF DeciderStates, GateInv
  <2>3. r.card \in Ids /\ (r.pc = "sealing" => KindOf[queue[r.card].question] = "adhoc")
    OBVIOUS
  <2> HIDE DEF r
  <2> QED
    BY <1>1, <2>1, <2>2, <2>3
<1>5. ASSUME NEW h \in Approvers, decider[h].pc = "sealing",
             decider' = [decider EXCEPT ![h].pc = "deciding"]
      PROVE  Goal
  <2>1. /\ [decider[h] EXCEPT !.pc = "deciding"] \in DeciderStates
        /\ [decider[h] EXCEPT !.pc = "deciding"].card \in Ids
        /\ [decider[h] EXCEPT !.pc = "deciding"].pc = "deciding"
    BY <1>0, <1>5 DEF DeciderStates, GateInv, CardHeld
  <2> QED
    BY <1>1, <1>5, <2>1
<1>6. ASSUME NEW h \in Approvers, SealGrant(h) \/ Decide(h) PROVE Goal
  BY <1>3, <1>5, <1>6 DEF SealGrant, Decide
<1>7. ASSUME Restart PROVE Goal
  BY <1>7, IdleTypes DEF Restart, Goal
<1>8. Goal
  BY <1>2, <1>4, <1>6, <1>7
  DEF GNext, vars, gvars, FindGrant, FindNoGrant, ActionSpend, ActionDeliver, AdhocOpen,
      AdhocDeliver, MeetWall, Raise, TakeBack, OtherStep
<1> QED
  BY <1>8 DEF Goal

\* What the handlers hold stays true of the queue under every other call.
LEMMA GateInvStep ==
    ASSUME GateInv, [GNext]_vars
    PROVE  GateInv'
<1>1. TypeOK' /\ Stamped'
  BY GateStepIsQueueStep, NextType, StampedStep DEF GateInv
<1>2. GateTypeOK'
  BY ExecSteps, DeciderSteps, HistorySteps DEF GateTypeOK, ExecStates, DeciderStates
<1>3. GrantHeld'
  <2> SUFFICES ASSUME NEW e \in Execs, exec'[e].pc \in {"granted", "authorized", "opened"}
               PROVE  /\ exec'[e].grant \in Ids'
                      /\ queue'[exec'[e].grant].status \in {"approved", "used", "revoked"}
                      /\ queue'[exec'[e].grant].question = exec'[e].question
    BY DEF GrantHeld
  <2>0. exec[e] \in ExecStates
    BY DEF GateInv, GateTypeOK, ExecStates
  <2>1. CASE ExecStays(e)
    BY <2>1, AnswersLast DEF ExecStays, GateInv, GrantHeld
  <2>2. CASE ExecFinds(e)
    BY <2>2 DEF ExecFinds, InForce, qvars, Ids
  <2>3. CASE ExecGoes(e)
    <3>1. exec'[e].grant = exec[e].grant /\ exec'[e].question = exec[e].question
      BY <2>0, <2>3 DEF ExecGoes, ExecStates
    <3> QED
      BY <2>3, <3>1, AnswersLast DEF ExecGoes, GateInv, GrantHeld
  <2>4. CASE ExecEnds(e) \/ ExecAsks(e) \/ ExecRaises(e)
    BY <2>0, <2>4, IdleTypes DEF ExecEnds, ExecAsks, ExecRaises, ExecStates
  <2> QED
    BY <2>1, <2>2, <2>3, <2>4, ExecSteps
<1>4. CardHeld'
  BY AnswersLast, DeciderSteps DEF CardHeld, GateInv
<1> QED
  BY <1>1, <1>2, <1>3, <1>4 DEF GateInv

\* A daemon starts with idle handlers and an empty queue.
LEMMA GateInvInit == ASSUME GInit PROVE GateInv
<1>1. TypeOK /\ Stamped
  BY InitType DEF GInit, QInit, Stamped, Ids
<1>2. GateTypeOK
  BY IdleTypes, QueueAssumption DEF GInit, GateTypeOK, ExecStates, DeciderStates, Cards
<1>3. GrantHeld /\ CardHeld
  BY IdleTypes DEF GInit, GrantHeld, CardHeld
<1> QED
  BY <1>1, <1>2, <1>3 DEF GateInv

\* The handlers and the queue stay well formed, and every handler that holds a
\* card holds one that exists and answers its question.
THEOREM GateInvariant == GSpec => []GateInv
<1>1. GInit => GateInv
  BY GateInvInit
<1>2. GateInv /\ [GNext]_vars => GateInv'
  BY GateInvStep
<1> QED
  BY <1>1, <1>2, PTL DEF GSpec

\* The gates and the decide handler use the queue as its specification allows:
\* whatever their critical sections interleave to, the queue file lives a life
\* of QSpec, so every theorem about the queue holds under the daemon's calls.
THEOREM GateUsesTheQueue == GSpec => QSpec
<1>1. GInit => QInit
  BY DEF GInit
<1>2. GateInv /\ [GNext]_vars => [QNext]_qvars
  BY GateStepIsQueueStep
<1> QED
  BY <1>1, <1>2, GateInvariant, PTL DEF GSpec, QSpec

\* So a command gets no authority back, and no second open card, from the way
\* its gates race (NoRevival, OneCardPerQuestion and the others carry over).
COROLLARY GateKeepsTheQueueSafe ==
    GSpec => /\ []OneCardPerQuestion /\ []PendingBounded /\ []HeldQuestionIsQuiet
             /\ NoRevival /\ ImplementsContract
BY GateUsesTheQueue, OneCardHolds, PendingBoundedHolds, HeldQuestionIsQuietHolds,
   NoRevivalHolds, QueueImplementsContract, PTL

-----------------------------------------------------------------------------
(* Runs and the owner's answers.                                           *)

\* Delivering a run counts it on a card its exec found approved, and an
\* answered card never goes back to waiting, refused, lapsed or withdrawn.
LEMMA RunsAnsweredStep ==
    ASSUME GateInv, RunsAnswered, [GNext]_vars
    PROVE  RunsAnswered'
<1> SUFFICES ASSUME NEW i \in Cards, ran'[i] > 0
             PROVE  i \in Ids' /\ queue'[i].status \in {"approved", "used", "revoked"}
  BY DEF RunsAnswered, Cards
<1>1. CASE ran'[i] = ran[i]
  BY <1>1, AnswersLast DEF RunsAnswered
<1>2. ASSUME NEW e \in Execs, exec[e].pc \in {"authorized", "opened"}, exec[e].grant = i
      PROVE  i \in Ids' /\ queue'[i].status \in {"approved", "used", "revoked"}
  BY <1>2, AnswersLast DEF GateInv, GrantHeld
<1> QED
  BY <1>1, <1>2, HistorySteps

\* A command runs only on a yes, for any number of handlers racing over any
\* number of cards (execfetch.go, adhoc.go authorizeAdhoc).
THEOREM RunsAnswerTheOwnerHolds == GSpec => []RunsAnswerTheOwner
<1>1. GInit => RunsAnswered
  BY DEF GInit, RunsAnswered
<1>2. GateInv /\ RunsAnswered /\ [GNext]_vars => RunsAnswered'
  BY RunsAnsweredStep
<1>3. GateInv /\ RunsAnswered => RunsAnswerTheOwner
  BY IdsBounded DEF GateInv, RunsAnswered, RunsAnswerTheOwner
<1> QED
  BY <1>1, <1>2, <1>3, GateInvariant, PTL DEF GSpec

\* The search for a grant skips a card whose grant has ended, so no exec ever
\* starts on one.
NeverLate == \A e \in Execs : ~exec[e].late

\* Ended grants stay ended, and a live grant is none of them.
LEMMA NeverLateStep ==
    ASSUME GateInv, OverEnded, NeverLate, [GNext]_vars
    PROVE  OverEnded' /\ NeverLate'
<1>1. OverEnded'
  BY HistorySteps, AnswersLast DEF OverEnded
<1>2. ASSUME NEW e \in Execs PROVE ~exec'[e].late
  <2>0. exec[e] \in ExecStates /\ ~exec[e].late
    BY DEF GateInv, GateTypeOK, ExecStates, NeverLate
  <2>1. CASE ExecFinds(e)
    BY <2>1 DEF ExecFinds, InForce, OverEnded
  <2>2. CASE ExecGoes(e) \/ ExecRaises(e)
    BY <2>0, <2>2 DEF ExecGoes, ExecRaises, ExecStates
  <2>3. CASE ExecStays(e) \/ ExecEnds(e) \/ ExecAsks(e)
    BY <2>0, <2>3, IdleTypes DEF ExecStays, ExecEnds, ExecAsks
  <2> QED
    BY <2>1, <2>2, <2>3, ExecSteps
<1> QED
  BY <1>1, <1>2 DEF NeverLate

\* Once a revocation has returned, or a single-use grant has been spent, no
\* exec that starts afterwards is authorized by that card (Revoke, ConsumeOnce).
THEOREM EndedGrantHolds == GSpec => []EndedGrantAuthorizesNoNewRun
<1>1. GInit => OverEnded /\ NeverLate
  BY IdleTypes DEF GInit, OverEnded, NeverLate
<1>2. GateInv /\ OverEnded /\ NeverLate /\ [GNext]_vars => OverEnded' /\ NeverLate'
  BY NeverLateStep
<1>3. NeverLate => EndedGrantAuthorizesNoNewRun
  BY DEF NeverLate, EndedGrantAuthorizesNoNewRun
<1> QED
  BY <1>1, <1>2, <1>3, GateInvariant, PTL DEF GSpec

-----------------------------------------------------------------------------
(* The wall in front of a refused question.                                *)

\* While an exec that met a refusal at its start is still on its way to ask,
\* the refusal it met stands; once it is past the wall, a later answer exists.
WallStands ==
    /\ \A e \in Execs :
         exec[e].pc = "asking" /\ exec[e].walled # 0 =>
           \E j \in AnswersTo(exec[e].question) :
              queue[j].status = "denied" /\ queue[j].decided = exec[e].walled
    /\ RefusalIsAWall

\* Answers are never lost, and their stamps never go back; a refusal keeps its own.
LEMMA AnswersStay ==
    ASSUME GateInv, [GNext]_vars, NEW q, NEW j \in AnswersTo(q)
    PROVE  /\ j \in Ids' /\ Answered(queue'[j]) /\ queue'[j].question = q
           /\ queue[j].decided \in Nat /\ queue'[j].decided \in Nat
           /\ queue'[j].decided >= queue[j].decided
           /\ queue[j].status = "denied" => /\ queue'[j].status = "denied"
                                            /\ queue'[j].decided = queue[j].decided
<1>1. TypeOK /\ [QNext]_qvars /\ j \in Ids /\ Answered(queue[j]) /\ queue[j].question = q
  BY GateStepIsQueueStep DEF GateInv, AnswersTo
<1>2. j \in Ids' /\ Advances(j) /\ decisions \in Nat
  BY <1>1, CardsAdvance DEF TypeOK
<1>3. queue[j].decided \in Nat /\ queue[j].decided <= decisions
  BY <1>1, ExpireType DEF Request, GateInv, Stamped
<1> QED
  BY <1>1, <1>2, <1>3 DEF Advances, Answered, AnswersTo

\* Not refused any more means that the latest answer came after the refusal.
LEMMA SupersededBy ==
    ASSUME TypeOK, Stamped, NEW q, NEW j \in AnswersTo(q),
           queue[j].status = "denied", ~Refused(q)
    PROVE  \E k \in AnswersTo(q) : queue[k].decided > queue[j].decided
<1>1. AnswersTo(q) \subseteq Ids /\ AnswersTo(q) # {}
  BY DEF AnswersTo
<1>2. /\ Latest(AnswersTo(q)) \in AnswersTo(q)
      /\ queue[j].decided <= queue[Latest(AnswersTo(q))].decided
  BY <1>1, LatestExists
<1>3. queue[Latest(AnswersTo(q))].status # "denied"
  BY <1>1 DEF Refused
<1>4. queue[Latest(AnswersTo(q))].decided # queue[j].decided
  BY <1>1, <1>2, <1>3 DEF Stamped, AnswersTo
<1>5. queue[j].decided \in Nat /\ queue[Latest(AnswersTo(q))].decided \in Nat
  BY <1>1, <1>2, ExpireType DEF Request
<1> QED
  BY <1>2, <1>4, <1>5

\* The wall is checked in one critical section and the card raised in another;
\* what the check saw can only be superseded by later answers.
LEMMA WallStep ==
    ASSUME GateInv, WallStands, [GNext]_vars
    PROVE  WallStands'
<1> USE DEF RefusalIsAWall
<1>1. ASSUME NEW e \in Execs, exec'[e].pc = "asking", exec'[e].walled # 0
      PROVE  \E j \in AnswersTo(exec[e].question)' :
                queue'[j].status = "denied" /\ queue'[j].decided = exec'[e].walled
  <2>0. exec[e] \in ExecStates /\ exec'[e].question \in Questions
    BY ExecSteps DEF GateInv, GateTypeOK, ExecStates
  <2>1. CASE ExecStays(e)
    BY <1>1, <2>1, AnswersStay DEF ExecStays, WallStands, AnswersTo
  <2>2. CASE ExecAsks(e)
    <3>1. PICK j \in AnswersTo(exec'[e].question) :
               queue[j].status = "denied" /\ queue[j].decided = exec'[e].walled
      BY <1>1, <2>0, <2>2, WallIs DEF ExecAsks, GateInv
    <3> QED
      BY <3>1, AnswersStay DEF AnswersTo
  <2>3. CASE ExecEnds(e) \/ ExecFinds(e) \/ ExecGoes(e) \/ ExecRaises(e)
    BY <1>1, <2>0, <2>3, IdleTypes DEF ExecEnds, ExecFinds, ExecGoes, ExecRaises, ExecStates
  <2> QED
    BY <2>1, <2>2, <2>3, ExecSteps
<1>2. ASSUME NEW e \in Execs, exec'[e].pc = "raising", ~exec'[e].force, exec'[e].walled # 0
      PROVE  \E j \in AnswersTo(exec[e].question)' : queue'[j].decided > exec'[e].walled
  <2>0. exec[e] \in ExecStates /\ exec[e].walled \in Nat
    BY DEF GateInv, GateTypeOK, ExecStates
  <2>1. CASE ExecStays(e)
    <3>1. PICK j \in AnswersTo(exec[e].question) : queue[j].decided > exec[e].walled
      BY <1>2, <2>1 DEF ExecStays, WallStands
    <3> QED
      BY <2>0, <2>1, <3>1, AnswersStay DEF ExecStays, AnswersTo
  <2>2. CASE ExecRaises(e)
    <3>1. /\ exec'[e].question = exec[e].question /\ exec'[e].walled = exec[e].walled
          /\ exec[e].pc = "asking" /\ ~Refused(exec[e].question)
      BY <1>2, <2>0, <2>2 DEF ExecRaises, ExecStates
    <3>2. PICK j \in AnswersTo(exec[e].question) :
               queue[j].status = "denied" /\ queue[j].decided = exec[e].walled
      BY <1>2, <3>1 DEF WallStands
    <3>3. PICK k \in AnswersTo(exec[e].question) : queue[k].decided > exec[e].walled
      BY <3>1, <3>2, SupersededBy DEF GateInv
    <3> QED
      BY <2>0, <3>1, <3>3, AnswersStay DEF AnswersTo
  <2>3. CASE ExecEnds(e) \/ ExecFinds(e) \/ ExecAsks(e) \/ ExecGoes(e)
    BY <1>2, <2>0, <2>3, IdleTypes DEF ExecEnds, ExecFinds, ExecGoes, ExecAsks, ExecStates
  <2> QED
    BY <2>1, <2>2, <2>3, ExecSteps
<1> QED
  BY <1>1, <1>2 DEF WallStands

\* A refused command hits a wall: no exec raises a card past a refusal it met,
\* unless it was told to or a later answer came (LastDenial).
THEOREM RefusalIsAWallHolds == GSpec => []RefusalIsAWall
<1>1. GInit => WallStands
  BY IdleTypes DEF GInit, WallStands, RefusalIsAWall
<1>2. GateInv /\ WallStands /\ [GNext]_vars => WallStands'
  BY WallStep
<1>3. WallStands => RefusalIsAWall
  BY DEF WallStands
<1> QED
  BY <1>1, <1>2, <1>3, GateInvariant, PTL DEF GSpec

-----------------------------------------------------------------------------
(* Single-use grants.                                                      *)

\* A single-use grant that could still authorize a run.
Unspent(i) == queue[i].once /\ InForce(i)

PaidFor(i) == \E j \in Ids : spentFor[j] = i

\* What a run on a single-use grant leaves: payment is recorded from the moment
\* the values are authorized, and only spent cards carry a payment.
Paid ==
    /\ \A i \in Ids : ran[i] > 0 /\ Unspent(i) => PaidFor(i)
    /\ \A e \in Execs : exec[e].pc = "authorized" /\ Unspent(exec[e].grant) => PaidFor(exec[e].grant)
    /\ \A j \in Cards : spentFor[j] # 0 => j \in over

\* An answered card does not become a single-use grant in force again.
LEMMA UnspentBefore ==
    ASSUME GateInv, [GNext]_vars, NEW i \in Ids,
           queue[i].status \in {"approved", "used", "revoked"}, Unspent(i)'
    PROVE  Unspent(i)
<1>1. TypeOK /\ [QNext]_qvars
  BY GateStepIsQueueStep DEF GateInv
<1>2. InForce(i)
  BY <1>1, NoRevivalStep DEF Unspent, Waiting
<1> QED
  BY <1>1, <1>2, CardsAdvance DEF Advances, Unspent

\* A payment once recorded stays recorded: its card is spent, so no later run
\* can spend it.
LEMMA PaymentsStay ==
    ASSUME GateInv, OverEnded, Paid, [GNext]_vars, NEW i \in Ids, PaidFor(i)
    PROVE  PaidFor(i)'
<1>0. /\ spentFor \in [Cards -> 0..MaxRequests] /\ i # 0
      /\ \A j \in Ids : j \in Cards /\ j \in Ids'
  BY IdsBounded, AnswersLast DEF GateInv, GateTypeOK, Ids
<1>1. PICK j \in Ids : spentFor[j] = i
  BY DEF PaidFor
<1>2. queue[j].status # "approved"
  BY <1>0, <1>1 DEF Paid, OverEnded
<1>3. ASSUME NEW e \in Execs, ConsumeOnceGrant(e) PROVE spentFor'[j] = i
  <2>1. ASSUME NEW k \in Ids, k \in Spendable(exec[e].question),
               spentFor' = [spentFor EXCEPT ![k] = exec[e].grant]
        PROVE  spentFor'[j] = i
    BY <1>0, <1>1, <1>2, <2>1 DEF Spendable
  <2> QED
    BY <1>1, <1>3, <2>1 DEF ConsumeOnceGrant, IsFirst
<1>4. spentFor'[j] = i
  BY <1>1, <1>3
  DEF GNext, vars, gvars, FindGrant, FindNoGrant, ActionSpend, ActionDeliver, AdhocOpen,
      AdhocDeliver, MeetWall, Raise, TakeBack, OpenCard, SealGrant, Decide, OtherStep, Restart
<1> QED
  BY <1>0, <1>1, <1>4 DEF PaidFor

\* Where the write cannot fail, the critical section that spends leaves the
\* grant of the exec paid for, unless it was not a single-use grant in force.
LEMMA ConsumePays ==
    ASSUME GateInv, StoreMayFail = FALSE, NEW e \in Execs,
           exec[e].pc \in {"granted", "opened"}, ConsumeOnceGrant(e), Unspent(exec[e].grant)
    PROVE  \E j \in Ids : spentFor'[j] = exec[e].grant
<1>1. exec[e].grant \in Spendable(exec[e].question)
  BY DEF GateInv, GrantHeld, Unspent, InForce, Spendable
<1>2. PICK j \in Ids : spentFor' = [spentFor EXCEPT ![j] = exec[e].grant]
  BY <1>1 DEF ConsumeOnceGrant
<1> QED
  BY <1>2, IdsBounded DEF GateInv, GateTypeOK

\* Every run on a single-use grant goes through that critical section before it
\* is delivered, in the action gate and in the ad hoc gate alike.
LEMMA PaidStep ==
    ASSUME GateInv, StoreMayFail = FALSE, OverEnded, RunsAnswered, Paid, [GNext]_vars
    PROVE  Paid'
<1> DEFINE Settled(i) == \E j \in Ids' : spentFor'[j] = i
<1>0. /\ \A j \in Ids : j \in Ids' /\ j \in Cards
      /\ ran \in [Cards -> 0..2] /\ spentFor \in [Cards -> 0..MaxRequests]
  BY IdsBounded, AnswersLast DEF GateInv, GateTypeOK
<1>1. ASSUME NEW i \in Ids, queue[i].status \in {"approved", "used", "revoked"}, Unspent(i)'
      PROVE  Unspent(i)
  BY <1>1, UnspentBefore
<1>2. ASSUME NEW i \in Ids, PaidFor(i) PROVE Settled(i)
  BY <1>2, PaymentsStay DEF PaidFor
<1>3. ASSUME NEW e \in Execs, exec[e].pc \in {"granted", "opened"}, ConsumeOnceGrant(e),
             Unspent(exec[e].grant)
      PROVE  Settled(exec[e].grant)
  BY <1>0, <1>3, ConsumePays
<1>4. ASSUME NEW e \in Execs, exec[e].pc \in {"authorized", "opened"},
             exec[e].pc = "opened" => ConsumeOnceGrant(e), Unspent(exec[e].grant)
      PROVE  Settled(exec[e].grant)
  <2>1. CASE exec[e].pc = "opened"
    BY <1>3, <1>4, <2>1
  <2>2. CASE exec[e].pc = "authorized"
    BY <1>2, <1>4, <2>2 DEF Paid, GateInv, GrantHeld
  <2> QED
    BY <1>4, <2>1, <2>2
<1> HIDE DEF Settled
\* The runs delivered.
<1>5. ASSUME NEW i \in Cards, ran'[i] # ran[i]
      PROVE  \E e \in Execs : /\ exec[e].pc \in {"authorized", "opened"} /\ exec[e].grant = i
                              /\ exec[e].pc = "opened" => ConsumeOnceGrant(e)
  <2>1. ASSUME NEW e \in Execs, Ran(e) PROVE exec[e].grant = i
    BY <1>0, <1>5, <2>1 DEF Ran
  <2> QED
    BY <1>5, <2>1
    DEF GNext, vars, gvars, FindGrant, FindNoGrant, ActionSpend, ActionDeliver, AdhocOpen,
        AdhocDeliver, MeetWall, Raise, TakeBack, OpenCard, SealGrant, Decide, OtherStep, Restart
<1>6. ASSUME NEW i \in Ids', ran'[i] > 0, Unspent(i)' PROVE Settled(i)
  <2>0. i \in Cards
    BY AnswersLast, QueueAssumption DEF Ids, Cards, TypeOK
  <2>1. CASE ran'[i] = ran[i]
    BY <1>1, <1>2, <1>6, <2>0, <2>1 DEF RunsAnswered, Paid
  <2>2. CASE ran'[i] # ran[i]
    <3>1. PICK e \in Execs : /\ exec[e].pc \in {"authorized", "opened"} /\ exec[e].grant = i
                             /\ exec[e].pc = "opened" => ConsumeOnceGrant(e)
      BY <1>5, <2>0, <2>2
    <3>2. Unspent(i)
      BY <1>1, <1>6, <3>1 DEF GateInv, GrantHeld
    <3> QED
      BY <1>4, <3>1, <3>2
  <2> QED
    BY <2>1, <2>2
\* The runs authorized and not yet delivered.
<1>7. ASSUME NEW e \in Execs, exec[e].pc # "authorized", exec'[e].pc = "authorized"
      PROVE  /\ exec[e].pc = "granted" /\ ConsumeOnceGrant(e)
             /\ exec'[e].grant = exec[e].grant
  <2>0. exec \in [Execs -> ExecStates]
    BY DEF GateInv, GateTypeOK, ExecStates
  <2>1. exec[e].pc = "granted"
    BY <1>7, <2>0, ExecSteps, IdleTypes
    DEF ExecStays, ExecEnds, ExecFinds, ExecAsks, ExecGoes, ExecRaises, ExecStates
  <2>2. ASSUME NEW f \in Execs, ActionSpend(f)
        PROVE  /\ exec[e].pc = "granted" /\ ConsumeOnceGrant(e)
               /\ exec'[e].grant = exec[e].grant
    BY <1>7, <2>0, <2>2 DEF ActionSpend, Goto, ExecStates
  <2>3. ASSUME NEW f \in Execs, NEW pc \in {"opened", "raising"}, Goto(f, pc)
        PROVE  FALSE
    BY <1>7, <2>0, <2>3 DEF Goto, ExecStates
  <2>4. ASSUME NEW f \in Execs, ExecReturns(f) PROVE FALSE
    BY <1>7, <2>0, <2>4, IdleTypes DEF ExecReturns
  <2>5. ASSUME NEW f \in Execs, NEW q \in Questions, NEW a \in Agents \cup {NoAgent},
               FindGrant(f, q, a) \/ \E force \in BOOLEAN : FindNoGrant(f, q, a, force)
        PROVE  FALSE
    <3>1. exec[f].pc = "idle" /\ f # e
      BY <2>5, <2>1 DEF FindGrant, FindNoGrant
    <3> QED
      BY <1>7, <2>0, <2>5, <3>1 DEF FindGrant, FindNoGrant
  <2>6. ~Restart
    BY <1>7, IdleTypes DEF Restart
  <2>7. exec' # exec
    BY <1>7
  <2> QED
    BY <2>2, <2>3, <2>4, <2>5, <2>6, <2>7
    DEF GNext, vars, gvars, ActionDeliver, AdhocOpen, AdhocDeliver, MeetWall, Raise,
        TakeBack, OpenCard, SealGrant, Decide, OtherStep
<1>8. ASSUME NEW e \in Execs, exec'[e].pc = "authorized", Unspent(exec[e].grant)'
      PROVE  Settled(exec'[e].grant)
  <2>0. exec[e] \in ExecStates
    BY DEF GateInv, GateTypeOK, ExecStates
  <2>1. PICK i : i = exec[e].grant
    OBVIOUS
  <2>2. CASE exec[e].pc = "authorized"
    <3>1. exec'[e].grant = i
      BY <1>8, <2>0, <2>1, <2>2, ExecSteps, IdleTypes
      DEF ExecStays, ExecEnds, ExecFinds, ExecAsks, ExecGoes, ExecRaises
    <3>2. i \in Ids /\ Unspent(i)
      BY <1>1, <1>8, <2>1, <2>2, <3>1 DEF GateInv, GrantHeld, Unspent, InForce
    <3> QED
      BY <1>4, <2>1, <2>2, <3>1, <3>2
  <2>3. CASE exec[e].pc # "authorized"
    <3>1. exec[e].pc = "granted" /\ ConsumeOnceGrant(e) /\ exec'[e].grant = i
      BY <1>7, <1>8, <2>1, <2>3
    <3>2. i \in Ids /\ Unspent(i)
      BY <1>1, <1>8, <2>1, <3>1 DEF GateInv, GrantHeld, Unspent, InForce
    <3> QED
      BY <1>3, <2>1, <3>1, <3>2
  <2> QED
    BY <2>2, <2>3
\* The payments recorded.
<1>9. ASSUME NEW j \in Cards, spentFor'[j] # 0 PROVE j \in over'
  <2>1. ASSUME NEW e \in Execs, ConsumeOnceGrant(e) PROVE j \in over'
    BY <1>0, <1>9, <2>1 DEF ConsumeOnceGrant, Paid
  <2>2. ASSUME spentFor' = spentFor, over \subseteq over' PROVE j \in over'
    BY <1>9, <2>2 DEF Paid
  <2> QED
    BY <2>1, <2>2
    DEF GNext, vars, gvars, FindGrant, FindNoGrant, ActionSpend, ActionDeliver, AdhocOpen,
        AdhocDeliver, MeetWall, Raise, TakeBack, OpenCard, SealGrant, Decide, OtherStep, Restart
<1> QED
  BY <1>6, <1>8, <1>9 DEF Paid, PaidFor, Settled, Cards

\* A run on a single-use grant is paid for by a single-use grant of the
\* question, when the write of a spent grant does not fail (consumeOnceGrant).
THEOREM OnceRunIsPaidForHolds ==
    ASSUME StoreMayFail = FALSE
    PROVE  GSpec => []OnceRunIsPaidFor
<1>1. GInit => OverEnded /\ NeverLate /\ RunsAnswered /\ Paid
  BY IdleTypes DEF GInit, QInit, OverEnded, NeverLate, RunsAnswered, Paid, Ids
<1>2. GateInv /\ OverEnded /\ NeverLate /\ [GNext]_vars => OverEnded' /\ NeverLate'
  BY NeverLateStep
<1>3. GateInv /\ RunsAnswered /\ [GNext]_vars => RunsAnswered'
  BY RunsAnsweredStep
<1>4. GateInv /\ OverEnded /\ RunsAnswered /\ Paid /\ [GNext]_vars => Paid'
  BY PaidStep
<1>5. Paid => OnceRunIsPaidFor
  BY DEF Paid, OnceRunIsPaidFor, Unspent, PaidFor
<1> QED
  BY <1>1, <1>2, <1>3, <1>4, <1>5, GateInvariant, PTL DEF GSpec
=============================================================================
