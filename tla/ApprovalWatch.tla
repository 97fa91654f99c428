--------------------------- MODULE ApprovalWatch ---------------------------
(***************************************************************************)
(* Waiting for an answer: handleApprovalWatch, the decisionBroadcaster it  *)
(* subscribes to, and the handlers that change the queue and then publish. *)
(*                                                                         *)
(* A watch is several steps, each a separate critical section: look the    *)
(* card up, subscribe, look again, then wait for the first of the channel, *)
(* the poll tick, the deadline and the caller's departure.  A deciding     *)
(* handler changes the store in one step and publishes in a later one.     *)
(***************************************************************************)
EXTENDS ApprovalQueue

CONSTANTS
    Watchers,   \* connections running approval.watch
    Deciders    \* connections running approval.decide or approval.cancel

VARIABLES
    wpc,        \* where each watch handler is
    wcard,      \* the card it asks about (0: none)
    chan,       \* its channel: none, open (registered in waiters) or closed
    resp,       \* its last response
    publishing  \* the card each decider has decided and not yet published (0: none)

wvars == <<wpc, wcard, chan, resp, publishing>>
watchVars == <<qvars, wvars>>

NoResponse == [status |-> "none", timedOut |-> FALSE]

\* ByWatchTicket: the card as expire shows it to a reader that saves nothing.
ByWatchTicket(i) == ExpireOne(queue[i])

Ended(r) == Answered(r) \/ r.status = "expired"

-----------------------------------------------------------------------------
(* The watch handler.                                                      *)

\* Returning answers the caller and runs the deferred unsubscribe.
Return(w, status, timedOut) ==
    /\ wpc' = [wpc EXCEPT ![w] = "idle"]
    /\ wcard' = [wcard EXCEPT ![w] = 0]
    /\ chan' = [chan EXCEPT ![w] = "none"]
    /\ resp' = [resp EXCEPT ![w] = [status |-> status, timedOut |-> timedOut]]
    /\ UNCHANGED <<qvars, publishing>>

LookUp(w, i) ==
    /\ wpc[w] = "idle"
    /\ \/ /\ Ended(ByWatchTicket(i))
          /\ Return(w, ByWatchTicket(i).status, FALSE)
       \/ /\ ~Ended(ByWatchTicket(i))
          /\ wpc' = [wpc EXCEPT ![w] = "looked"]
          /\ wcard' = [wcard EXCEPT ![w] = i]
          /\ resp' = [resp EXCEPT ![w] = NoResponse]
          /\ UNCHANGED <<qvars, chan, publishing>>

Subscribe(w) ==
    /\ wpc[w] = "looked"
    /\ wpc' = [wpc EXCEPT ![w] = "subscribed"]
    /\ chan' = [chan EXCEPT ![w] = "open"]
    /\ UNCHANGED <<qvars, wcard, resp, publishing>>

\* Mutation: no second look after subscribing.
RereadSkipped(w) ==
    /\ wpc[w] = "subscribed"
    /\ wpc' = [wpc EXCEPT ![w] = "waiting"]
    /\ UNCHANGED <<qvars, wcard, chan, resp, publishing>>

Reread(w) ==
    /\ wpc[w] = "subscribed"
    /\ LET r == ByWatchTicket(wcard[w]) IN
       \/ Ended(r) /\ Return(w, r.status, FALSE)
       \/ /\ ~Ended(r)
          /\ wpc' = [wpc EXCEPT ![w] = "waiting"]
          /\ UNCHANGED <<qvars, wcard, chan, resp, publishing>>

Wake(w) ==
    /\ wpc[w] = "waiting" /\ chan[w] = "closed"
    /\ Return(w, ByWatchTicket(wcard[w]).status, FALSE)

\* Mutation: the poll looks for an answer and forgets expiry.
PollTickAnswersOnly(w) ==
    /\ wpc[w] = "waiting" /\ Answered(ByWatchTicket(wcard[w]))
    /\ Return(w, ByWatchTicket(wcard[w]).status, FALSE)

\* The poll tick returns only if the card has ended; otherwise the loop goes on.
PollTick(w) ==
    /\ wpc[w] = "waiting" /\ Ended(ByWatchTicket(wcard[w]))
    /\ Return(w, ByWatchTicket(wcard[w]).status, FALSE)

\* The deadline can pass at any time: its length is the caller's.
Deadline(w) ==
    /\ wpc[w] = "waiting"
    /\ Return(w, ByWatchTicket(wcard[w]).status, TRUE)

\* Mutation: the departing caller is answered with an empty status.
CallerGoneBlank(w) == wpc[w] = "waiting" /\ Return(w, "", TRUE)

\* ctx.Done: the card as it was looked up, still pending, is reported to nobody.
CallerGone(w) == wpc[w] = "waiting" /\ Return(w, "pending", TRUE)

-----------------------------------------------------------------------------
(* The handlers that answer: the store first, the broadcast after it.      *)

Decides(i) ==
    \/ \E win \in GrantWindows, m \in {"plain", "once", "anyone"} :
          DecideApprove(i, win, m = "once", m = "anyone")
    \/ DecideDeny(i)
    \/ DecideMoot(i)

HandleDecide(d, i) ==
    /\ publishing[d] = 0
    /\ Decides(i)
    /\ publishing' = [publishing EXCEPT ![d] = i]
    /\ UNCHANGED <<wpc, wcard, chan, resp>>

\* Mutation: a revocation that fails publishes all the same.
HandleRevokePublishesError(d, i) ==
    /\ publishing[d] = 0
    /\ Revoke(i) \/ (queue[i].status # "approved" /\ UNCHANGED qvars)
    /\ publishing' = [publishing EXCEPT ![d] = i]
    /\ UNCHANGED <<wpc, wcard, chan, resp>>

\* Revoking what is not approved returns an error before it publishes.
HandleRevoke(d, i) ==
    /\ publishing[d] = 0
    /\ Revoke(i)
    /\ publishing' = [publishing EXCEPT ![d] = i]
    /\ UNCHANGED <<wpc, wcard, chan, resp>>

\* Cancel of a card that no longer waits returns it as it is.
HandleCancel(d, i) ==
    /\ publishing[d] = 0
    /\ Cancel(i) \/ (~Waiting(i) /\ UNCHANGED qvars)
    /\ publishing' = [publishing EXCEPT ![d] = i]
    /\ UNCHANGED <<wpc, wcard, chan, resp>>

\* publish closes and forgets every channel registered for the card.
Publish(d) ==
    /\ publishing[d] # 0
    /\ chan' = [w \in Watchers |->
                  IF chan[w] = "open" /\ wcard[w] = publishing[d]
                    THEN "closed" ELSE chan[w]]
    /\ publishing' = [publishing EXCEPT ![d] = 0]
    /\ UNCHANGED <<qvars, wpc, wcard, resp>>

-----------------------------------------------------------------------------
(* The rest of the daemon: exec handlers ask and spend, anyone lists.      *)

StoreStep ==
    /\ \/ \E q \in Questions, o \in AskOnceChoices : EnqueueNew(q, NoAgent, o)
       \/ \E q \in Questions, i \in Ids : IsFirst(i, Spendable(q)) /\ Spend(i)
       \/ List
       \/ Tick
    /\ UNCHANGED wvars

\* A daemon that stops takes its handlers and channels with it; the queue is a file.
RestartWatch ==
    /\ wpc' = [w \in Watchers |-> "idle"]
    /\ wcard' = [w \in Watchers |-> 0]
    /\ chan' = [w \in Watchers |-> "none"]
    /\ resp' = [w \in Watchers |-> NoResponse]
    /\ publishing' = [d \in Deciders |-> 0]
    /\ UNCHANGED qvars

WInit ==
    /\ QInit
    /\ wpc = [w \in Watchers |-> "idle"]
    /\ wcard = [w \in Watchers |-> 0]
    /\ chan = [w \in Watchers |-> "none"]
    /\ resp = [w \in Watchers |-> NoResponse]
    /\ publishing = [d \in Deciders |-> 0]

WNext ==
    \/ \E w \in Watchers, i \in Ids : LookUp(w, i)
    \/ \E w \in Watchers : Subscribe(w) \/ Reread(w) \/ Wake(w) \/ PollTick(w)
                           \/ Deadline(w) \/ CallerGone(w)
    \/ \E d \in Deciders, i \in Ids :
          HandleDecide(d, i) \/ HandleRevoke(d, i) \/ HandleCancel(d, i)
    \/ \E d \in Deciders : Publish(d)
    \/ StoreStep
    \/ RestartWatch

\* A handler goroutine that can run is scheduled, and its ticker keeps firing.
\* Nothing is assumed of the deadline, of the owner or of the clock.
WatchFairness ==
    \A w \in Watchers : WF_watchVars(Subscribe(w) \/ Reread(w) \/ Wake(w) \/ PollTick(w))

WSpec == WInit /\ [][WNext]_watchVars /\ WatchFairness

-----------------------------------------------------------------------------
(* Properties.                                                             *)

\* Type correctness of the handlers' state.
WatchTypeOK ==
    /\ wpc \in [Watchers -> {"idle", "looked", "subscribed", "waiting"}]
    /\ wcard \in [Watchers -> 0..Len(queue)]
    /\ chan \in [Watchers -> {"none", "open", "closed"}]
    /\ resp \in [Watchers -> [status : Statuses \cup {"none"}, timedOut : BOOLEAN]]
    /\ publishing \in [Deciders -> 0..Len(queue)]

\* No wakeup is lost: whenever a handler waits on an open channel for a card
\* that has been answered, some decider is about to publish it.  This is what
\* subscribing before looking again buys (handleApprovalWatch).
NoLostWakeup ==
    \A w \in Watchers :
        /\ wpc[w] = "waiting" /\ chan[w] = "open"
        /\ Answered(queue[wcard[w]])
        => \E d \in Deciders : publishing[d] = wcard[w]

\* A response that is not a timeout reports an end: no publish, however late
\* or repeated, wakes a watcher into answering "pending" as a decision.
DecisionIsAnEnd ==
    \A w \in Watchers : ~resp[w].timedOut => resp[w].status # "pending"

\* A watcher hears of every end, the lapse that nothing announces included:
\* the poll tick, not the deadline, is what guarantees it.
EndIsReported ==
    \A w \in Watchers :
        (wpc[w] # "idle" /\ Ended(ByWatchTicket(wcard[w]))) ~> wpc[w] = "idle"

\* The deadline branch's comment: "Still pending, and the caller stopped
\* waiting.  Reported as a timeout rather than a decision", and
\* docs/cli-reference.md: a timeout reports `pending`.  So a response that says
\* timed_out carries no decision.
TimeoutMeansPending ==
    \A w \in Watchers : resp[w].timedOut => resp[w].status = "pending"
=============================================================================
