------------------------ MODULE ApprovalQueueProofs ------------------------
(***************************************************************************)
(* Proofs about the approval queue, for every set of agents and questions, *)
(* every window and every bound.                                           *)
(***************************************************************************)
EXTENDS ApprovalQueue, SequenceTheorems, FiniteSetTheorems, WellFoundedInduction, TLAPS

-----------------------------------------------------------------------------
(* What expire returns, card by card.                                      *)

\* expire keeps a card's identity and terms: it may only turn a lapsed card
\* from pending to expired and drop the keys of a lapsed grant.
LEMMA ExpireOneType ==
    ASSUME NEW r \in Request
    PROVE  /\ ExpireOne(r) \in Request
           /\ ExpireOne(r).question = r.question
           /\ ExpireOne(r).until = r.until
           /\ ExpireOne(r).expires = r.expires
           /\ ExpireOne(r).once = r.once
           /\ ExpireOne(r).decided = r.decided
           /\ ExpireOne(r).status = IF Lapsed(r) THEN "expired" ELSE r.status
BY DEF ExpireOne, Request, Statuses

\* expire maps the queue card by card and loses none.
LEMMA ExpireType ==
    ASSUME TypeOK
    PROVE  /\ Expire \in Seq(Request)
           /\ Len(Expire) = Len(queue)
           /\ \A i \in Ids : queue[i] \in Request /\ Expire[i] = ExpireOne(queue[i])
<1>1. Len(queue) \in Nat /\ \A i \in Ids : queue[i] \in Request
  BY DEF TypeOK, Ids
<1>2. Expire \in [1..Len(queue) -> Request]
  BY <1>1, ExpireOneType DEF Expire, Ids
<1>3. Expire \in Seq(Request)
  BY <1>1, <1>2, SeqDef
<1>4. Len(Expire) = Len(queue)
  BY <1>1, <1>2, <1>3, LenProperties
<1> QED
  BY <1>1, <1>3, <1>4 DEF Expire, Ids

\* The card Enqueue creates is well formed.
LEMMA NewCardType ==
    ASSUME TypeOK, NEW q \in Questions,
           NEW a \in Agents \cup {NoAgent}, NEW o \in AskOnceChoices
    PROVE  /\ NewCard(q, a, o) \in Request
           /\ NewCard(q, a, o).question = q
           /\ NewCard(q, a, o).status = "pending"
           /\ NewCard(q, a, o).decided = 0
           /\ ~(now > NewCard(q, a, o).expires)
BY QueueAssumption DEF TypeOK, NewCard, Request, Statuses

\* Every window an approval can carry is a time.
LEMMA WindowType ==
    ASSUME TypeOK, NEW q \in Questions, NEW w \in GrantWindows
    PROVE  GrantedUntil(KindOf[q], w) \in Nat
<1>1. w \in Nat /\ KindOf[q] \in Kinds /\ now \in Nat
  BY QueueAssumption DEF TypeOK
<1>2. Window(KindOf[q]) \in Nat
  BY <1>1, QueueAssumption DEF Window, Kinds
<1> QED
  BY <1>1, <1>2 DEF GrantedUntil, GrantWindow

\* What decide writes for a yes is a well-formed card for the same question.
LEMMA ApprovedCardType ==
    ASSUME TypeOK, NEW r \in Request, NEW u \in Nat,
           NEW once \in BOOLEAN, NEW anyone \in BOOLEAN
    PROVE  /\ ApprovedCard(r, u, once, anyone) \in Request
           /\ ApprovedCard(r, u, once, anyone).question = r.question
           /\ ApprovedCard(r, u, once, anyone).status = "approved"
           /\ ApprovedCard(r, u, once, anyone).decided = decisions + 1
<1>1. decisions + 1 \in Nat
  BY DEF TypeOK
<1> QED
  BY <1>1, Zenon DEF ApprovedCard, Request, Statuses

\* So is what decide writes for a no, and Cancel for a withdrawal.
LEMMA ClosedCardType ==
    ASSUME TypeOK, NEW r \in Request, NEW st \in Statuses
    PROVE  /\ ClosedCard(r, st) \in Request
           /\ ClosedCard(r, st).question = r.question
           /\ ClosedCard(r, st).status = st
           /\ ClosedCard(r, st).decided = decisions + 1
<1>1. decisions + 1 \in Nat
  BY DEF TypeOK
<1> QED
  BY <1>1, Zenon DEF ClosedCard, Request

\* So is what Revoke and ConsumeOnce leave of a grant.
LEMMA EndedGrantType ==
    ASSUME TypeOK, NEW r \in Request, NEW st \in Statuses
    PROVE  /\ EndedGrant(r, st) \in Request
           /\ EndedGrant(r, st).question = r.question
           /\ EndedGrant(r, st).status = st
           /\ EndedGrant(r, st).once = r.once
           /\ EndedGrant(r, st).decided = decisions + 1
<1>1. decisions + 1 \in Nat
  BY DEF TypeOK
<1> QED
  BY <1>1, Zenon DEF EndedGrant, Request

\* AttachCapability changes nothing but the sealed keys.
LEMMA SealedCardType ==
    ASSUME NEW r \in Request
    PROVE  /\ SealedCard(r) \in Request
           /\ SealedCard(r).question = r.question
           /\ SealedCard(r).status = r.status
           /\ SealedCard(r).until = r.until
           /\ SealedCard(r).expires = r.expires
           /\ SealedCard(r).once = r.once
           /\ SealedCard(r).decided = r.decided
BY DEF SealedCard, Request

-----------------------------------------------------------------------------
(* What each operation does to the cards.                                  *)

\* The two shapes of a change to one card: on top of expire, or on the file
\* as it was read.
LEMMA UpdateShape ==
    ASSUME TypeOK, NEW s, s = queue \/ s = Expire, NEW i \in Ids, NEW r \in Request
    PROVE  /\ [s EXCEPT ![i] = r] \in Seq(Request)
           /\ Len([s EXCEPT ![i] = r]) = Len(queue)
           /\ [s EXCEPT ![i] = r][i] = r
           /\ \A j \in Ids : j # i => [s EXCEPT ![i] = r][j] = s[j]
<1>1. s \in Seq(Request) /\ Len(s) = Len(queue) /\ i \in 1..Len(s)
  BY ExpireType DEF TypeOK, Ids
<1> QED
  BY <1>1, ExceptSeq DEF Ids

\* EnqueueNew adds one pending card and expires the others.
LEMMA NewShape ==
    ASSUME TypeOK, NEW q \in Questions,
           NEW a \in Agents \cup {NoAgent}, NEW o \in AskOnceChoices,
           EnqueueNew(q, a, o)
    PROVE  /\ queue' \in Seq(Request)
           /\ Len(queue') = Len(queue) + 1
           /\ queue'[Len(queue) + 1].question = q
           /\ queue'[Len(queue) + 1].status = "pending"
           /\ queue'[Len(queue) + 1].decided = 0
           /\ ~(now > queue'[Len(queue) + 1].expires)
           /\ \A j \in Ids : queue'[j] = ExpireOne(queue[j])
<1>1. /\ Expire \in Seq(Request) /\ Len(Expire) = Len(queue)
      /\ \A j \in Ids : Expire[j] = ExpireOne(queue[j])
      /\ NewCard(q, a, o) \in Request
  BY ExpireType, NewCardType
<1>2. queue' = Append(Expire, NewCard(q, a, o))
  BY DEF EnqueueNew
<1>3. /\ queue' \in Seq(Request)
      /\ Len(queue') = Len(queue) + 1
      /\ queue'[Len(queue) + 1] = NewCard(q, a, o)
      /\ \A j \in Ids : queue'[j] = ExpireOne(queue[j])
  BY <1>1, <1>2 DEF Ids, TypeOK
<1>4. /\ NewCard(q, a, o).question = q
      /\ NewCard(q, a, o).status = "pending"
      /\ NewCard(q, a, o).decided = 0
      /\ ~(now > NewCard(q, a, o).expires)
  BY NewCardType
<1> QED
  BY <1>3, <1>4

\* EnqueueRepeat and List only expire.
LEMMA ExpireShape ==
    ASSUME TypeOK, queue' = Expire
    PROVE  /\ queue' \in Seq(Request) /\ Len(queue') = Len(queue)
           /\ \A j \in Ids : queue'[j] = ExpireOne(queue[j])
BY ExpireType

\* A yes changes the answered card and expires the others.
LEMMA ApproveShape ==
    ASSUME TypeOK, NEW i \in Ids, NEW w \in GrantWindows,
           NEW once \in BOOLEAN, NEW anyone \in BOOLEAN,
           DecideApprove(i, w, once, anyone)
    PROVE  /\ queue' \in Seq(Request) /\ Len(queue') = Len(queue)
           /\ queue'[i].question = queue[i].question
           /\ queue'[i].status = "approved"
           /\ queue'[i].decided = decisions + 1
           /\ \A j \in Ids : j # i => queue'[j] = ExpireOne(queue[j])
<1> DEFINE u == GrantedUntil(KindOf[queue[i].question], w)
<1>1. /\ queue[i] \in Request /\ Expire[i] \in Request
      /\ Expire[i].question = queue[i].question
      /\ \A j \in Ids : Expire[j] = ExpireOne(queue[j])
  BY ExpireType, ExpireOneType
<1>2. u \in Nat
  BY <1>1, WindowType DEF Request
<1> HIDE DEF u
<1>3. /\ ApprovedCard(Expire[i], u, once, anyone) \in Request
      /\ ApprovedCard(Expire[i], u, once, anyone).question = queue[i].question
      /\ ApprovedCard(Expire[i], u, once, anyone).status = "approved"
      /\ ApprovedCard(Expire[i], u, once, anyone).decided = decisions + 1
  BY <1>1, <1>2, ApprovedCardType
<1>4. queue' = [Expire EXCEPT ![i] = ApprovedCard(Expire[i], u, once, anyone)]
  BY DEF DecideApprove, u
<1> QED
  BY <1>1, <1>3, <1>4, UpdateShape

\* A no or a withdrawal changes the closed card and expires the others.
LEMMA CloseShape ==
    ASSUME TypeOK, NEW i \in Ids, NEW st \in Statuses,
           queue' = [Expire EXCEPT ![i] = ClosedCard(Expire[i], st)]
    PROVE  /\ queue' \in Seq(Request) /\ Len(queue') = Len(queue)
           /\ queue'[i].question = queue[i].question
           /\ queue'[i].status = st
           /\ queue'[i].decided = decisions + 1
           /\ \A j \in Ids : j # i => queue'[j] = ExpireOne(queue[j])
<1>1. /\ queue[i] \in Request /\ Expire[i] \in Request
      /\ Expire[i].question = queue[i].question
      /\ \A j \in Ids : Expire[j] = ExpireOne(queue[j])
  BY ExpireType, ExpireOneType
<1>2. /\ ClosedCard(Expire[i], st) \in Request
      /\ ClosedCard(Expire[i], st).question = queue[i].question
      /\ ClosedCard(Expire[i], st).status = st
      /\ ClosedCard(Expire[i], st).decided = decisions + 1
  BY <1>1, ClosedCardType
<1> QED
  BY <1>1, <1>2, UpdateShape

\* Ending a grant touches no other card: Revoke and ConsumeOnce do not expire.
LEMMA EndShape ==
    ASSUME TypeOK, NEW i \in Ids, NEW st \in Statuses,
           queue' = [queue EXCEPT ![i] = EndedGrant(queue[i], st)]
    PROVE  /\ queue' \in Seq(Request) /\ Len(queue') = Len(queue)
           /\ queue'[i].question = queue[i].question
           /\ queue'[i].status = st
           /\ queue'[i].once = queue[i].once
           /\ queue'[i].decided = decisions + 1
           /\ \A j \in Ids : j # i => queue'[j] = queue[j]
<1>1. queue[i] \in Request
  BY ExpireType
<1>2. /\ EndedGrant(queue[i], st) \in Request
      /\ EndedGrant(queue[i], st).question = queue[i].question
      /\ EndedGrant(queue[i], st).status = st
      /\ EndedGrant(queue[i], st).once = queue[i].once
      /\ EndedGrant(queue[i], st).decided = decisions + 1
  BY <1>1, EndedGrantType
<1> QED
  BY <1>2, UpdateShape

\* Sealing keys into a card touches no other card.
LEMMA AttachShape ==
    ASSUME TypeOK, NEW i \in Ids, AttachCapability(i)
    PROVE  /\ queue' \in Seq(Request) /\ Len(queue') = Len(queue)
           /\ queue'[i] = SealedCard(queue[i])
           /\ \A j \in Ids : j # i => queue'[j] = queue[j]
<1>1. queue[i] \in Request /\ SealedCard(queue[i]) \in Request
  BY ExpireType, SealedCardType
<1> QED
  BY <1>1, UpdateShape DEF AttachCapability

-----------------------------------------------------------------------------
(* Type correctness.                                                       *)

\* An absent queue file loads as the empty queue.
LEMMA InitType == ASSUME QInit PROVE TypeOK
BY EmptySeq, QueueAssumption DEF QInit, TypeOK

\* Each method of the store keeps the queue well formed.
LEMMA NextType ==
    ASSUME TypeOK, [QNext]_qvars
    PROVE  TypeOK'
<1>1. ASSUME NEW q \in Questions, NEW a \in Agents \cup {NoAgent},
             NEW o \in AskOnceChoices, EnqueueNew(q, a, o)
      PROVE  TypeOK'
  <2>1. queue' \in Seq(Request) /\ Len(queue') = Len(queue) + 1
    BY <1>1, NewShape
  <2>2. Len(queue') <= MaxRequests
    BY <1>1, <2>1, QueueAssumption DEF EnqueueNew, TypeOK
  <2> QED
    BY <1>1, <2>1, <2>2 DEF EnqueueNew, ClearServedHold, TypeOK
<1>2. ASSUME NEW q \in Questions, EnqueueRepeat(q) PROVE TypeOK'
  BY <1>2, ExpireShape DEF EnqueueRepeat, ClearServedHold, TypeOK
<1>3. ASSUME NEW i \in Ids, NEW w \in GrantWindows, NEW once \in BOOLEAN,
             NEW anyone \in BOOLEAN, DecideApprove(i, w, once, anyone)
      PROVE  TypeOK'
  <2>1. queue' \in Seq(Request) /\ Len(queue') = Len(queue)
    BY <1>3, ApproveShape
  <2>2. queue[i].question \in Questions
    BY ExpireType DEF Request
  <2> QED
    BY <1>3, <2>1, <2>2 DEF DecideApprove, TypeOK
<1>4. ASSUME NEW i \in Ids, DecideDeny(i) PROVE TypeOK'
  <2>1. queue' \in Seq(Request) /\ Len(queue') = Len(queue)
    BY <1>4, CloseShape DEF DecideDeny, Statuses
  <2>2. queue[i].question \in Questions
    BY ExpireType DEF Request
  <2> QED
    BY <1>4, <2>1, <2>2, QueueAssumption DEF DecideDeny, TypeOK
<1>5. ASSUME NEW i \in Ids, AttachCapability(i) PROVE TypeOK'
  BY <1>5, AttachShape DEF AttachCapability, TypeOK
<1>6. ASSUME NEW i \in Ids, Revoke(i) PROVE TypeOK'
  <2>1. queue' \in Seq(Request) /\ Len(queue') = Len(queue)
    BY <1>6, EndShape DEF Revoke, Statuses
  <2> QED
    BY <1>6, <2>1 DEF Revoke, TypeOK
<1>7. ASSUME NEW i \in Ids, Spend(i) PROVE TypeOK'
  <2>1. queue' \in Seq(Request) /\ Len(queue') = Len(queue)
    BY <1>7, EndShape DEF Spend, Statuses
  <2> QED
    BY <1>7, <2>1 DEF Spend, TypeOK
<1>8. ASSUME NEW i \in Ids, Cancel(i) PROVE TypeOK'
  <2>1. queue' \in Seq(Request) /\ Len(queue') = Len(queue)
    BY <1>8, CloseShape DEF Cancel, Statuses
  <2> QED
    BY <1>8, <2>1 DEF Cancel, TypeOK
<1>9. CASE List
  BY <1>9, ExpireShape DEF List, TypeOK
<1>10. CASE Tick
  BY <1>10 DEF Tick, TypeOK
<1>11. CASE UNCHANGED qvars
  BY <1>11 DEF qvars, TypeOK
<1> QED
  BY <1>1, <1>2, <1>3, <1>4, <1>5, <1>6, <1>7, <1>8, <1>9, <1>10, <1>11 DEF QNext

\* The queue file is always a well-formed queue: every method of the store
\* leaves a file the next load() can use.
THEOREM TypeCorrect == QSpec => []TypeOK
<1>1. QInit => TypeOK
  BY InitType
<1>2. TypeOK /\ [QNext]_qvars => TypeOK'
  BY NextType
<1> QED
  BY <1>1, <1>2, PTL DEF QSpec

-----------------------------------------------------------------------------
(* The four shapes of a step, as every safety argument below sees them.    *)

\* A card whose place in the protocol a step leaves alone.
Kept(j) ==
    /\ queue'[j].question = queue[j].question
    /\ queue'[j].status = "pending" => queue[j].status = "pending"
    /\ Waiting(j)' <=> Waiting(j)
    /\ InForce(j)' <=> InForce(j)

\* A card that a step answers or ends: only a waiting card can come to grant.
Moved(i) ==
    /\ queue'[i].question = queue[i].question
    /\ queue'[i].status # "pending"
    /\ Waiting(i) \/ ~InForce(i)'

\* Marking lapses and sealing keys do not move a card.
LEMMA KeepState ==
    ASSUME TypeOK, now' = now, NEW j \in Ids,
           queue'[j] \in {queue[j], ExpireOne(queue[j]), SealedCard(queue[j])}
    PROVE  Kept(j)
<1>1. queue[j] \in Request
  BY ExpireType
<1>2. CASE queue'[j] = queue[j]
  BY <1>2 DEF Kept, Waiting, Lapsed, InForce
<1>3. CASE queue'[j] = ExpireOne(queue[j])
  BY <1>1, <1>3, ExpireOneType DEF Kept, Waiting, Lapsed, InForce
<1>4. CASE queue'[j] = SealedCard(queue[j])
  BY <1>1, <1>4, SealedCardType DEF Kept, Waiting, Lapsed, InForce
<1> QED
  BY <1>2, <1>3, <1>4

\* A step that neither creates a card nor moves the clock.
KeepsAll == now' = now /\ Len(queue') = Len(queue) /\ \A j \in Ids : Kept(j)

MovesOne(i) == /\ now' = now /\ Len(queue') = Len(queue)
               /\ Moved(i)
               /\ \A j \in Ids : j # i => Kept(j)

\* A no or a withdrawal moves the one card it closes.
LEMMA CloseMoves ==
    ASSUME TypeOK, NEW i \in Ids, NEW st \in {"denied", "cancelled"}, now' = now,
           queue' = [Expire EXCEPT ![i] = ClosedCard(Expire[i], st)]
    PROVE  MovesOne(i)
<1>1. st \in Statuses
  BY DEF Statuses
<1>2. /\ Len(queue') = Len(queue)
      /\ queue'[i].question = queue[i].question
      /\ queue'[i].status = st
      /\ \A j \in Ids : j # i => queue'[j] = ExpireOne(queue[j])
  BY <1>1, CloseShape
<1>3. \A j \in Ids : j # i => Kept(j)
  BY <1>2, KeepState
<1>4. Moved(i)
  BY <1>2 DEF Moved, InForce
<1> QED
  BY <1>2, <1>3, <1>4 DEF MovesOne

\* Ending a grant moves that grant only.
LEMMA EndMoves ==
    ASSUME TypeOK, NEW i \in Ids, NEW st \in {"revoked", "used"}, now' = now,
           queue' = [queue EXCEPT ![i] = EndedGrant(queue[i], st)]
    PROVE  MovesOne(i)
<1>1. st \in Statuses
  BY DEF Statuses
<1>2. /\ Len(queue') = Len(queue)
      /\ queue'[i].question = queue[i].question
      /\ queue'[i].status = st
      /\ \A j \in Ids : j # i => queue'[j] = queue[j]
  BY <1>1, EndShape
<1>3. \A j \in Ids : j # i => Kept(j)
  BY <1>2, KeepState
<1>4. Moved(i)
  BY <1>2 DEF Moved, InForce
<1> QED
  BY <1>2, <1>3, <1>4 DEF MovesOne

\* A yes moves the waiting card it answers.
LEMMA ApproveMoves ==
    ASSUME TypeOK, NEW i \in Ids, NEW w \in GrantWindows,
           NEW once \in BOOLEAN, NEW anyone \in BOOLEAN,
           DecideApprove(i, w, once, anyone)
    PROVE  MovesOne(i)
<1>1. /\ Len(queue') = Len(queue)
      /\ queue'[i].question = queue[i].question
      /\ queue'[i].status = "approved"
      /\ \A j \in Ids : j # i => queue'[j] = ExpireOne(queue[j])
  BY ApproveShape
<1>2. now' = now /\ Waiting(i)
  BY DEF DecideApprove
<1>3. \A j \in Ids : j # i => Kept(j)
  BY <1>1, <1>2, KeepState
<1> QED
  BY <1>1, <1>2, <1>3 DEF MovesOne, Moved

\* Every step creates a card, keeps all, moves one, or ticks the clock.
LEMMA StepShape ==
    ASSUME TypeOK, [QNext]_qvars
    PROVE  \/ \E q \in Questions, a \in Agents \cup {NoAgent}, o \in AskOnceChoices :
                EnqueueNew(q, a, o)
           \/ KeepsAll
           \/ \E i \in Ids : MovesOne(i)
           \/ Tick
<1>1. ASSUME queue' = Expire, now' = now PROVE KeepsAll
  <2>1. Len(queue') = Len(queue) /\ \A j \in Ids : queue'[j] = ExpireOne(queue[j])
    BY <1>1, ExpireShape
  <2> QED
    BY <1>1, <2>1, KeepState DEF KeepsAll
<1>2. ASSUME NEW i \in Ids, AttachCapability(i) PROVE KeepsAll
  <2>1. /\ Len(queue') = Len(queue) /\ now' = now
        /\ queue'[i] = SealedCard(queue[i])
        /\ \A j \in Ids : j # i => queue'[j] = queue[j]
    BY <1>2, AttachShape DEF AttachCapability
  <2>2. \A j \in Ids : Kept(j)
    BY <2>1, KeepState
  <2> QED
    BY <2>1, <2>2 DEF KeepsAll
<1>3. ASSUME UNCHANGED qvars PROVE KeepsAll
  <2>1. queue' = queue /\ now' = now
    BY <1>3 DEF qvars
  <2> QED
    BY <2>1, KeepState DEF KeepsAll
<1>4. ASSUME NEW i \in Ids, DecideDeny(i) PROVE MovesOne(i)
  BY <1>4, CloseMoves DEF DecideDeny
<1>5. ASSUME NEW i \in Ids, Cancel(i) PROVE MovesOne(i)
  BY <1>5, CloseMoves DEF Cancel
<1>6. ASSUME NEW i \in Ids, Revoke(i) PROVE MovesOne(i)
  BY <1>6, EndMoves DEF Revoke
<1>7. ASSUME NEW i \in Ids, Spend(i) PROVE MovesOne(i)
  BY <1>7, EndMoves DEF Spend
<1>8. ASSUME NEW i \in Ids, NEW w \in GrantWindows, NEW once \in BOOLEAN,
             NEW anyone \in BOOLEAN, DecideApprove(i, w, once, anyone)
      PROVE  MovesOne(i)
  BY <1>8, ApproveMoves
<1>9. ASSUME NEW q \in Questions, EnqueueRepeat(q) PROVE KeepsAll
  BY <1>1, <1>9 DEF EnqueueRepeat
<1>10. List => KeepsAll
  BY <1>1 DEF List
<1> QED
  BY <1>2, <1>3, <1>4, <1>5, <1>6, <1>7, <1>8, <1>9, <1>10 DEF QNext

-----------------------------------------------------------------------------
(* The life of one card, as the callers of the store rely on it.           *)

\* What a step may do to a card that exists: nothing but bookkeeping, mark its
\* lapse, answer it, or end the grant it became.  Answers and ends are stamped
\* with the next decision.
Advances(j) ==
    /\ queue'[j].question = queue[j].question
    /\ \/ /\ queue'[j].status = queue[j].status
          /\ queue'[j].once = queue[j].once
          /\ queue'[j].decided = queue[j].decided
       \/ /\ queue[j].status = "pending" /\ queue'[j].status = "expired"
          /\ queue'[j].decided = queue[j].decided
       \/ /\ queue[j].status = "pending"
          /\ queue'[j].status \in {"approved", "denied", "cancelled"}
          /\ queue'[j].decided = decisions + 1 /\ decisions' = decisions + 1
       \/ /\ queue[j].status = "approved"
          /\ queue'[j].status \in {"used", "revoked"}
          /\ queue'[j].once = queue[j].once
          /\ queue'[j].decided = decisions + 1 /\ decisions' = decisions + 1

\* Only one card of the queue is stamped by a step.
StampsOne ==
    \A i, j \in Ids :
        /\ queue'[i].decided # queue[i].decided
        /\ queue'[j].decided # queue[j].decided
        => i = j

\* Marking lapses and sealing keys are bookkeeping.
LEMMA BookkeepingAdvances ==
    ASSUME TypeOK, NEW j \in Ids,
           queue'[j] \in {queue[j], ExpireOne(queue[j]), SealedCard(queue[j])}
    PROVE  Advances(j) /\ queue'[j].decided = queue[j].decided
<1>1. queue[j] \in Request
  BY ExpireType
<1>2. CASE queue'[j] = queue[j]
  BY <1>2 DEF Advances
<1>3. CASE queue'[j] = ExpireOne(queue[j])
  BY <1>1, <1>3, ExpireOneType DEF Advances, Lapsed
<1>4. CASE queue'[j] = SealedCard(queue[j])
  BY <1>1, <1>4, SealedCardType DEF Advances
<1> QED
  BY <1>2, <1>3, <1>4

\* Every method of the store advances each card along its life, stamps at most
\* one, and adds at most one card, which is pending and undecided.
LEMMA CardsAdvance ==
    ASSUME TypeOK, [QNext]_qvars
    PROVE  /\ \A j \in Ids : j \in Ids' /\ Advances(j)
           /\ StampsOne
           /\ \A j \in Ids' \ Ids : queue'[j].status = "pending" /\ queue'[j].decided = 0
           /\ decisions' \in {decisions, decisions + 1}
<1> DEFINE Goal == /\ \A j \in Ids : j \in Ids' /\ Advances(j)
                   /\ StampsOne
                   /\ \A j \in Ids' \ Ids : queue'[j].status = "pending" /\ queue'[j].decided = 0
                   /\ decisions' \in {decisions, decisions + 1}
<1>0. Len(queue) \in Nat
  BY DEF TypeOK
<1>1. ASSUME NEW q \in Questions, NEW a \in Agents \cup {NoAgent},
             NEW o \in AskOnceChoices, EnqueueNew(q, a, o)
      PROVE  Goal
  <2>1. /\ Len(queue') = Len(queue) + 1
        /\ queue'[Len(queue) + 1].status = "pending"
        /\ queue'[Len(queue) + 1].decided = 0
        /\ \A j \in Ids : queue'[j] = ExpireOne(queue[j])
        /\ decisions' = decisions
    BY <1>1, NewShape DEF EnqueueNew
  <2>2. \A j \in Ids : Advances(j) /\ queue'[j].decided = queue[j].decided
    BY <2>1, BookkeepingAdvances
  <2>3. Ids \subseteq Ids' /\ \A j \in Ids' \ Ids : j = Len(queue) + 1
    BY <1>0, <2>1 DEF Ids
  <2> QED
    BY <2>1, <2>2, <2>3 DEF StampsOne
<1>2. ASSUME Len(queue') = Len(queue), decisions' = decisions,
             \A j \in Ids : queue'[j] \in {queue[j], ExpireOne(queue[j]), SealedCard(queue[j])}
      PROVE  Goal
  <2>1. \A j \in Ids : Advances(j) /\ queue'[j].decided = queue[j].decided
    BY <1>2, BookkeepingAdvances
  <2>2. Ids' = Ids
    BY <1>2 DEF Ids
  <2> QED
    BY <1>2, <2>1, <2>2 DEF StampsOne
<1>3. ASSUME NEW i \in Ids, Len(queue') = Len(queue), decisions' = decisions + 1,
             Advances(i),
             \A j \in Ids : j # i => queue'[j] \in {queue[j], ExpireOne(queue[j])}
      PROVE  Goal
  <2>1. \A j \in Ids : j # i => Advances(j) /\ queue'[j].decided = queue[j].decided
    BY <1>3, BookkeepingAdvances
  <2>2. Ids' = Ids
    BY <1>3 DEF Ids
  <2> QED
    BY <1>3, <2>1, <2>2 DEF StampsOne
<1> HIDE DEF Goal
<1>4. ASSUME NEW i \in Ids, NEW w \in GrantWindows, NEW once \in BOOLEAN,
             NEW anyone \in BOOLEAN, DecideApprove(i, w, once, anyone)
      PROVE  Goal
  <2>1. /\ Len(queue') = Len(queue) /\ decisions' = decisions + 1
        /\ queue[i].status = "pending"
        /\ queue'[i].question = queue[i].question
        /\ queue'[i].status = "approved" /\ queue'[i].decided = decisions + 1
        /\ \A j \in Ids : j # i => queue'[j] = ExpireOne(queue[j])
    BY <1>4, ApproveShape DEF DecideApprove, Waiting
  <2> QED
    BY <1>3, <2>1 DEF Advances
<1>5. ASSUME NEW i \in Ids, DecideDeny(i) \/ Cancel(i) PROVE Goal
  <2>1. PICK st \in {"denied", "cancelled"} :
             queue' = [Expire EXCEPT ![i] = ClosedCard(Expire[i], st)]
    BY <1>5 DEF DecideDeny, Cancel
  <2>2. decisions' = decisions + 1 /\ queue[i].status = "pending"
    BY <1>5 DEF DecideDeny, Cancel, Waiting
  <2>3. /\ Len(queue') = Len(queue)
        /\ queue'[i].question = queue[i].question
        /\ queue'[i].status = st /\ queue'[i].decided = decisions + 1
        /\ \A j \in Ids : j # i => queue'[j] = ExpireOne(queue[j])
    BY <2>1, CloseShape DEF Statuses
  <2> QED
    BY <1>3, <2>2, <2>3 DEF Advances
<1>6. ASSUME NEW i \in Ids, NEW st \in {"revoked", "used"},
             queue[i].status = "approved", decisions' = decisions + 1,
             queue' = [queue EXCEPT ![i] = EndedGrant(queue[i], st)]
      PROVE  Goal
  <2>1. /\ Len(queue') = Len(queue)
        /\ queue'[i].question = queue[i].question
        /\ queue'[i].once = queue[i].once
        /\ queue'[i].status = st /\ queue'[i].decided = decisions + 1
        /\ \A j \in Ids : j # i => queue'[j] = queue[j]
    BY <1>6, EndShape DEF Statuses
  <2> QED
    BY <1>3, <1>6, <2>1 DEF Advances
<1>7. ASSUME NEW i \in Ids, Revoke(i) PROVE Goal
  BY <1>6, <1>7 DEF Revoke
<1>8. ASSUME NEW q \in Questions, NEW i \in Ids, IsFirst(i, Spendable(q)), Spend(i)
      PROVE  Goal
  BY <1>6, <1>8 DEF Spend, IsFirst, Spendable
<1>9. ASSUME NEW i \in Ids, AttachCapability(i) PROVE Goal
  <2>1. /\ Len(queue') = Len(queue)
        /\ queue'[i] = SealedCard(queue[i])
        /\ \A j \in Ids : j # i => queue'[j] = queue[j]
    BY <1>9, AttachShape
  <2> QED
    BY <1>2, <1>9, <2>1 DEF AttachCapability
<1>10. ASSUME queue' = Expire, decisions' = decisions PROVE Goal
  BY <1>2, <1>10, ExpireShape
<1>11. ASSUME queue' = queue, decisions' = decisions PROVE Goal
  BY <1>2, <1>11
<1>12. ASSUME NEW q \in Questions, EnqueueRepeat(q) PROVE Goal
  BY <1>10, <1>12 DEF EnqueueRepeat
<1>13. ASSUME List PROVE Goal
  BY <1>10, <1>13 DEF List
<1>14. ASSUME Tick \/ UNCHANGED qvars PROVE Goal
  BY <1>11, <1>14 DEF Tick, qvars
<1>15. Goal
  BY <1>1, <1>4, <1>5, <1>7, <1>8, <1>9, <1>12, <1>13, <1>14 DEF QNext
<1> QED
  BY <1>15 DEF Goal

-----------------------------------------------------------------------------
(* The order of the answers, which LastDenial reads.                       *)

\* Every answer carries a stamp, no stamp is ahead of the count, and no two
\* cards share one.
Stamped ==
    /\ \A i \in Ids : /\ queue[i].decided <= decisions
                      /\ Answered(queue[i]) => queue[i].decided # 0
    /\ \A i, j \in Ids : queue[i].decided = queue[j].decided /\ queue[i].decided # 0 => i = j

\* Each answer or end takes the next stamp, and takes it for one card.
LEMMA StampedStep ==
    ASSUME TypeOK, Stamped, [QNext]_qvars
    PROVE  Stamped'
<1>1. /\ \A j \in Ids : j \in Ids' /\ Advances(j)
      /\ StampsOne
      /\ \A j \in Ids' \ Ids : queue'[j].status = "pending" /\ queue'[j].decided = 0
      /\ decisions' \in {decisions, decisions + 1}
  BY CardsAdvance
<1>2. /\ decisions \in Nat
      /\ \A j \in Ids : queue[j].decided \in Nat /\ queue[j].decided <= decisions
  BY ExpireType DEF TypeOK, Request, Stamped
<1>3. \A j \in Ids : \/ queue'[j].decided = queue[j].decided
                     \/ queue'[j].decided = decisions + 1 /\ decisions' = decisions + 1
  BY <1>1 DEF Advances
<1>4. ASSUME NEW j \in Ids' PROVE queue'[j].decided <= decisions'
  BY <1>1, <1>2, <1>3
<1>5. ASSUME NEW j \in Ids', Answered(queue'[j]) PROVE queue'[j].decided # 0
  <2>1. j \in Ids
    BY <1>1, <1>5 DEF Answered
  <2> QED
    BY <1>1, <1>2, <1>5, <2>1 DEF Advances, Answered, Stamped
<1>6. ASSUME NEW i \in Ids', NEW j \in Ids',
             queue'[i].decided = queue'[j].decided, queue'[i].decided # 0
      PROVE  i = j
  <2>1. i \in Ids /\ j \in Ids
    BY <1>1, <1>6
  <2> QED
    BY <1>1, <1>2, <1>3, <1>6, <2>1 DEF StampsOne, Stamped
<1> QED
  BY <1>4, <1>5, <1>6 DEF Stamped

\* A nonempty set of cards has a latest one: the stamps are bounded.
LEMMA LatestExists ==
    ASSUME TypeOK, Stamped, NEW S, S \subseteq Ids, S # {}
    PROVE  Latest(S) \in S /\ \A j \in S : queue[j].decided <= queue[Latest(S)].decided
<1> DEFINE T == {decisions - queue[j].decided : j \in S}
<1>1. /\ decisions \in Nat
      /\ \A j \in S : queue[j].decided \in Nat /\ queue[j].decided <= decisions
  BY ExpireType DEF TypeOK, Request, Stamped
<1>2. T \subseteq Nat /\ T # {}
  BY <1>1
<1>3. PICK R : IsWellFoundedOn(R, Nat) /\ R = {p \in Nat \X Nat : p[1] < p[2]}
  BY NatLessThanWellFounded, Zenon DEF OpToRel
<1>4. PICK x \in T : \A y \in T : ~(y < x)
  <2> HIDE DEF T
  <2>1. PICK x \in T : \A y \in T : ~(<<y, x>> \in R)
    BY <1>2, <1>3, WFMin
  <2>2. \A y \in T : ~(y < x)
    BY <1>2, <1>3, <2>1
  <2> QED
    BY <2>2
<1>5. PICK i \in S : x = decisions - queue[i].decided
  BY <1>4
<1>6. ASSUME NEW j \in S PROVE queue[j].decided <= queue[i].decided
  <2>1. ~(decisions - queue[j].decided < decisions - queue[i].decided)
    BY <1>4, <1>5
  <2> QED
    BY <1>1, <2>1
<1> QED
  BY <1>6 DEF Latest

\* LastDenial is well defined: the answers to a question are totally ordered
\* by their stamps, so "the latest answer" is one card, whatever calls race.
THEOREM AnswersAreOrdered == QSpec => []Stamped
<1>1. QInit => Stamped
  BY DEF QInit, Stamped, Ids
<1>2. TypeOK /\ Stamped /\ [QNext]_qvars => Stamped'
  BY StampedStep
<1> QED
  BY <1>1, <1>2, TypeCorrect, PTL DEF QSpec

-----------------------------------------------------------------------------
(* One open card per question.                                             *)

\* The step: Enqueue looks for the waiting card after it has marked the
\* lapsed ones, so what it appends next to is only closed cards.
LEMMA OneCardStep ==
    ASSUME TypeOK, OneCardPerQuestion, [QNext]_qvars
    PROVE  OneCardPerQuestion'
<1>1. ASSUME NEW q \in Questions, NEW a \in Agents \cup {NoAgent},
             NEW o \in AskOnceChoices, EnqueueNew(q, a, o)
      PROVE  OneCardPerQuestion'
  <2>0. Len(queue) \in Nat
    BY DEF TypeOK
  <2>1. /\ Len(queue') = Len(queue) + 1
        /\ queue'[Len(queue) + 1].question = q
        /\ \A j \in Ids : queue'[j] = ExpireOne(queue[j])
    BY <1>1, NewShape
  <2>2. \A j \in Ids : /\ queue'[j].question = queue[j].question
                       /\ queue'[j].status = "pending" => Waiting(j)
    BY <2>1, ExpireType, ExpireOneType DEF Waiting
  <2>3. \A j \in Ids : Waiting(j) => queue[j].question # q
    BY <1>1 DEF EnqueueNew, EnqueueCreates, CardsOf
  <2>4. \A j \in Ids' : j \in Ids \/ j = Len(queue) + 1
    BY <2>0, <2>1 DEF Ids
  <2> QED
    BY <2>1, <2>2, <2>3, <2>4 DEF OneCardPerQuestion, Waiting
<1>2. ASSUME Len(queue') = Len(queue),
             \A j \in Ids : /\ queue'[j].question = queue[j].question
                            /\ queue'[j].status = "pending" => queue[j].status = "pending"
      PROVE  OneCardPerQuestion'
  BY <1>2 DEF OneCardPerQuestion, Ids
<1>3. CASE KeepsAll
  BY <1>2, <1>3 DEF KeepsAll, Kept
<1>4. ASSUME NEW i \in Ids, MovesOne(i) PROVE OneCardPerQuestion'
  BY <1>2, <1>4 DEF MovesOne, Moved, Kept
<1>5. CASE Tick
  BY <1>2, <1>5 DEF Tick
<1> QED
  BY <1>1, <1>3, <1>4, <1>5, StepShape

\* Asking the same question twice never leaves two open cards (Enqueue).
THEOREM OneCardHolds == QSpec => []OneCardPerQuestion
<1>1. QInit => OneCardPerQuestion
  BY DEF QInit, OneCardPerQuestion, Ids
<1>2. TypeOK /\ OneCardPerQuestion /\ [QNext]_qvars => OneCardPerQuestion'
  BY OneCardStep
<1> QED
  BY <1>1, <1>2, TypeCorrect, PTL DEF QSpec

-----------------------------------------------------------------------------
(* The denial cooldown.                                                    *)

\* The cooldown and the count that starts it go together, question by question.
CooldownMatches ==
    \A q \in Questions : holds[q] # 0 <=> denials[q] >= MaxDenialsBeforeHold

\* A question in cooldown has no open card.
HeldIsClosed ==
    \A q \in Questions : holds[q] # 0 =>
        \A i \in Ids : queue[i].status = "pending" => queue[i].question # q

\* Every operation that writes the count or the hold writes both.
LEMMA CooldownStep ==
    ASSUME TypeOK, CooldownMatches, [QNext]_qvars
    PROVE  CooldownMatches'
<1> USE DEF CooldownMatches
<1>1. ASSUME NEW q \in Questions, ClearServedHold(q) PROVE CooldownMatches'
  BY <1>1, QueueAssumption DEF ClearServedHold, TypeOK
<1>2. ASSUME NEW i \in Ids, NEW w \in GrantWindows, NEW once \in BOOLEAN,
             NEW anyone \in BOOLEAN, DecideApprove(i, w, once, anyone)
      PROVE  CooldownMatches'
  BY <1>2, QueueAssumption DEF DecideApprove, TypeOK
<1>3. ASSUME NEW i \in Ids, DecideDeny(i) PROVE CooldownMatches'
  <2> DEFINE c == queue[i].question
  <2>1. c \in Questions
    BY ExpireType DEF Request
  <2>2. /\ denials' = [denials EXCEPT ![c] = denials[c] + 1]
        /\ holds' = [holds EXCEPT ![c] =
                       IF denials[c] + 1 >= MaxDenialsBeforeHold
                         THEN now + DenialHoldFor ELSE holds[c]]
    BY <1>3 DEF DecideDeny
  <2> HIDE DEF c
  <2> QED
    BY <2>1, <2>2, QueueAssumption DEF TypeOK
<1>4. ASSUME UNCHANGED <<denials, holds>> PROVE CooldownMatches'
  BY <1>4
<1> QED
  BY <1>1, <1>2, <1>3, <1>4
  DEF QNext, qvars, EnqueueNew, EnqueueRepeat, AttachCapability, Revoke, Spend,
      Cancel, List, Tick

\* A hold starts with the denial of the one card its question had, and while
\* it lasts only Enqueue could open another, which clears the hold first.
LEMMA HeldStep ==
    ASSUME TypeOK, OneCardPerQuestion, HeldIsClosed, [QNext]_qvars
    PROVE  HeldIsClosed'
<1>1. ASSUME NEW q \in Questions, NEW a \in Agents \cup {NoAgent},
             NEW o \in AskOnceChoices, EnqueueNew(q, a, o)
      PROVE  HeldIsClosed'
  <2>0. Len(queue) \in Nat
    BY DEF TypeOK
  <2>1. /\ Len(queue') = Len(queue) + 1
        /\ queue'[Len(queue) + 1].question = q
        /\ \A j \in Ids : queue'[j] = ExpireOne(queue[j])
    BY <1>1, NewShape
  <2>2. \A j \in Ids : /\ queue'[j].question = queue[j].question
                       /\ queue'[j].status = "pending" => queue[j].status = "pending"
    BY <2>1, ExpireType, ExpireOneType
  <2>3. \A j \in Ids' : j \in Ids \/ j = Len(queue) + 1
    BY <2>0, <2>1 DEF Ids
  <2>4. holds'[q] = 0 /\ \A p \in Questions : p # q => holds'[p] = holds[p]
    BY <1>1 DEF EnqueueNew, ClearServedHold, TypeOK
  <2> QED
    BY <2>1, <2>2, <2>3, <2>4 DEF HeldIsClosed
<1>2. ASSUME Len(queue') = Len(queue),
             \A j \in Ids : /\ queue'[j].question = queue[j].question
                            /\ queue'[j].status = "pending" => queue[j].status = "pending",
             \A q \in Questions : holds'[q] # 0 => holds[q] # 0
      PROVE  HeldIsClosed'
  BY <1>2 DEF HeldIsClosed, Ids
<1>3. ASSUME NEW i \in Ids, DecideDeny(i) PROVE HeldIsClosed'
  <2> DEFINE c == queue[i].question
  <2>1. /\ Len(queue') = Len(queue)
        /\ queue'[i].question = c
        /\ queue'[i].status = "denied"
        /\ \A j \in Ids : j # i => queue'[j] = ExpireOne(queue[j])
    BY <1>3, CloseShape DEF DecideDeny, Statuses
  <2>2. \A j \in Ids : j # i =>
             /\ queue'[j].question = queue[j].question
             /\ queue'[j].status = "pending" => queue[j].status = "pending"
    BY <2>1, ExpireType, ExpireOneType
  <2>3. c \in Questions /\ queue[i].status = "pending"
    BY <1>3, ExpireType DEF Request, DecideDeny, Waiting
  <2>4. \A p \in Questions : p # c => holds'[p] = holds[p]
    BY <1>3, <2>3 DEF DecideDeny, TypeOK
  <2>5. \A j \in Ids : queue'[j].status = "pending" => queue[j].question # c
    BY <2>1, <2>2, <2>3 DEF OneCardPerQuestion
  <2> HIDE DEF c
  <2> QED
    BY <2>1, <2>2, <2>4, <2>5 DEF HeldIsClosed, Ids
<1>4. ASSUME NEW i \in Ids, NEW w \in GrantWindows, NEW once \in BOOLEAN,
             NEW anyone \in BOOLEAN, DecideApprove(i, w, once, anyone)
      PROVE  HeldIsClosed'
  <2>1. queue[i].question \in Questions
    BY ExpireType DEF Request
  <2>2. \A q \in Questions : holds'[q] # 0 => holds[q] # 0
    BY <1>4, <2>1 DEF DecideApprove, TypeOK
  <2> QED
    BY <1>2, <1>4, <2>2, ApproveMoves DEF MovesOne, Moved, Kept
<1>5. ASSUME NEW q \in Questions, EnqueueRepeat(q) PROVE HeldIsClosed'
  <2>1. \A p \in Questions : holds'[p] # 0 => holds[p] # 0
    BY <1>5 DEF EnqueueRepeat, ClearServedHold, TypeOK
  <2>2. Len(queue') = Len(queue) /\ \A j \in Ids : queue'[j] = ExpireOne(queue[j])
    BY <1>5, ExpireShape DEF EnqueueRepeat
  <2> QED
    BY <1>2, <2>1, <2>2, ExpireType, ExpireOneType
<1>6. ASSUME holds' = holds, KeepsAll \/ \E i \in Ids : MovesOne(i) PROVE HeldIsClosed'
  BY <1>2, <1>6 DEF KeepsAll, MovesOne, Moved, Kept
<1>7. ASSUME holds' = holds, queue' = queue PROVE HeldIsClosed'
  BY <1>7 DEF HeldIsClosed, Ids
<1>8. ASSUME NEW i \in Ids, AttachCapability(i) \/ Revoke(i) \/ Spend(i) \/ Cancel(i)
      PROVE  HeldIsClosed'
  <2>1. holds' = holds
    BY <1>8 DEF AttachCapability, Revoke, Spend, Cancel
  <2>2. CASE AttachCapability(i)
    <3>1. /\ Len(queue') = Len(queue)
          /\ queue'[i] = SealedCard(queue[i])
          /\ \A j \in Ids : j # i => queue'[j] = queue[j]
      BY <2>2, AttachShape
    <3> QED
      BY <1>2, <2>1, <3>1, ExpireType, SealedCardType
  <2>3. CASE Revoke(i)
    BY <1>6, <2>1, <2>3, EndMoves DEF Revoke
  <2>4. CASE Spend(i)
    BY <1>6, <2>1, <2>4, EndMoves DEF Spend
  <2>5. CASE Cancel(i)
    BY <1>6, <2>1, <2>5, CloseMoves DEF Cancel
  <2> QED
    BY <1>8, <2>2, <2>3, <2>4, <2>5
<1>9. CASE List
  <2>1. Len(queue') = Len(queue) /\ \A j \in Ids : queue'[j] = ExpireOne(queue[j])
    BY <1>9, ExpireShape DEF List
  <2> QED
    BY <1>2, <1>9, <2>1, ExpireType, ExpireOneType DEF List
<1>10. CASE Tick \/ UNCHANGED qvars
  BY <1>7, <1>10 DEF Tick, qvars
<1> QED
  BY <1>1, <1>3, <1>4, <1>5, <1>8, <1>9, <1>10 DEF QNext

\* A refusal repeated often enough buys the owner silence for the cooldown:
\* the count and the hold agree and no card of a held question is open.
THEOREM HeldQuestionIsQuietHolds == QSpec => []HeldQuestionIsQuiet
<1>1. QInit => CooldownMatches /\ HeldIsClosed
  BY QueueAssumption DEF QInit, CooldownMatches, HeldIsClosed
<1>2. TypeOK /\ CooldownMatches /\ [QNext]_qvars => CooldownMatches'
  BY CooldownStep
<1>3. TypeOK /\ OneCardPerQuestion /\ HeldIsClosed /\ [QNext]_qvars => HeldIsClosed'
  BY HeldStep
<1>4. CooldownMatches /\ HeldIsClosed => HeldQuestionIsQuiet
  BY DEF CooldownMatches, HeldIsClosed, HeldQuestionIsQuiet
<1> QED
  BY <1>1, <1>2, <1>3, <1>4, TypeCorrect, OneCardHolds, PTL DEF QSpec

-----------------------------------------------------------------------------
(* Authority.                                                              *)

\* No step makes a grant of a card that was not waiting for its answer.
LEMMA NoRevivalStep ==
    ASSUME TypeOK, [QNext]_qvars, NEW j \in Ids, InForce(j)'
    PROVE  InForce(j) \/ Waiting(j)
<1>1. ASSUME NEW q \in Questions, NEW a \in Agents \cup {NoAgent},
             NEW o \in AskOnceChoices, EnqueueNew(q, a, o)
      PROVE  InForce(j)
  <2>1. queue'[j] = ExpireOne(queue[j]) /\ now' = now
    BY <1>1, NewShape DEF EnqueueNew
  <2> QED
    BY <2>1, KeepState DEF Kept
<1>2. CASE KeepsAll
  BY <1>2 DEF KeepsAll, Kept
<1>3. ASSUME NEW i \in Ids, MovesOne(i) PROVE InForce(j) \/ Waiting(j)
  BY <1>3 DEF MovesOne, Moved, Kept
<1>4. CASE Tick
  BY <1>4, ExpireType DEF Tick, InForce, TypeOK, Request
<1> QED
  BY <1>1, <1>2, <1>3, <1>4, StepShape

\* Authority is never revived by any sequence of calls on the store.
THEOREM NoRevivalHolds == QSpec => NoRevival
<1>1. TypeOK /\ [QNext]_qvars => \A i \in Ids : InForce(i)' => InForce(i) \/ Waiting(i)
  BY NoRevivalStep
<1> QED
  BY <1>1, TypeCorrect, PTL DEF QSpec, NoRevival

-----------------------------------------------------------------------------
(* The bound on open cards per subject.                                    *)

\* The waiting cards of a subject are a finite set.
LEMMA PendingFinite ==
    ASSUME TypeOK, NEW s
    PROVE  IsFiniteSet(PendingOn(s)) /\ Cardinality(PendingOn(s)) \in Nat
<1>1. Len(queue) \in Nat
  BY DEF TypeOK
<1>2. IsFiniteSet(Ids)
  BY <1>1, FS_Interval DEF Ids
<1>3. PendingOn(s) \subseteq Ids
  BY DEF PendingOn
<1> QED
  BY <1>2, <1>3, FS_Subset, FS_CardinalityType

\* Enqueue counts the waiting cards of the subject before it adds one, and
\* no other step makes a card wait.
LEMMA PendingStep ==
    ASSUME TypeOK, PendingBounded, [QNext]_qvars
    PROVE  PendingBounded'
<1> SUFFICES ASSUME NEW s \in Subjects
             PROVE  Cardinality(PendingOn(s)') <= MaxPendingPerProject
  BY DEF PendingBounded
<1>0. /\ IsFiniteSet(PendingOn(s)) /\ Cardinality(PendingOn(s)) \in Nat
      /\ Cardinality(PendingOn(s)) <= MaxPendingPerProject
      /\ MaxPendingPerProject \in Nat
  BY PendingFinite, QueueAssumption DEF PendingBounded
<1>1. ASSUME PendingOn(s)' \subseteq PendingOn(s)
      PROVE  Cardinality(PendingOn(s)') <= MaxPendingPerProject
  <2>1. /\ Cardinality(PendingOn(s)') <= Cardinality(PendingOn(s))
        /\ Cardinality(PendingOn(s)') \in Nat
    BY <1>0, <1>1, FS_Subset, FS_CardinalityType
  <2> QED
    BY <1>0, <2>1
<1>2. ASSUME NEW q \in Questions, NEW a \in Agents \cup {NoAgent},
             NEW o \in AskOnceChoices, EnqueueNew(q, a, o)
      PROVE  Cardinality(PendingOn(s)') <= MaxPendingPerProject
  <2> DEFINE n == Len(queue) + 1
  <2>0. Len(queue) \in Nat
    BY DEF TypeOK
  <2>1. /\ Len(queue') = n
        /\ queue'[n].question = q /\ now' = now
        /\ \A j \in Ids : queue'[j] = ExpireOne(queue[j])
    BY <1>2, NewShape DEF EnqueueNew
  <2>2. \A j \in Ids : Kept(j)
    BY <2>1, KeepState
  <2>3. \A j \in Ids' : j \in Ids \/ j = n
    BY <2>0, <2>1 DEF Ids
  <2>4. PendingOn(s)' \subseteq PendingOn(s) \cup {n}
    BY <2>2, <2>3 DEF PendingOn, Kept
  <2>5. CASE SubjectOf[q] = s
    <3>1. Cardinality(PendingOn(s)) < MaxPendingPerProject
      BY <1>2, <2>5 DEF EnqueueNew, EnqueueCreates
    <3> HIDE DEF n
    <3>2. /\ IsFiniteSet(PendingOn(s) \cup {n})
          /\ Cardinality(PendingOn(s) \cup {n}) <= Cardinality(PendingOn(s)) + 1
      <4>1. /\ IsFiniteSet(PendingOn(s) \cup {n})
            /\ \/ Cardinality(PendingOn(s) \cup {n}) = Cardinality(PendingOn(s))
               \/ Cardinality(PendingOn(s) \cup {n}) = Cardinality(PendingOn(s)) + 1
        BY <1>0, FS_AddElement
      <4> QED
        BY <1>0, <4>1
    <3>3. /\ Cardinality(PendingOn(s)') <= Cardinality(PendingOn(s) \cup {n})
          /\ Cardinality(PendingOn(s)') \in Nat
          /\ Cardinality(PendingOn(s) \cup {n}) \in Nat
      BY <2>4, <3>2, FS_Subset, FS_CardinalityType
    <3> QED
      BY <1>0, <3>1, <3>2, <3>3
  <2>6. CASE SubjectOf[q] # s
    <3>1. PendingOn(s)' \subseteq PendingOn(s)
      BY <2>1, <2>4, <2>6 DEF PendingOn
    <3> QED
      BY <1>1, <3>1
  <2> QED
    BY <2>5, <2>6
<1>3. CASE KeepsAll
  <2>1. PendingOn(s)' \subseteq PendingOn(s)
    BY <1>3 DEF KeepsAll, Kept, PendingOn, Ids
  <2> QED
    BY <1>1, <2>1
<1>4. ASSUME NEW i \in Ids, MovesOne(i)
      PROVE  Cardinality(PendingOn(s)') <= MaxPendingPerProject
  <2>1. PendingOn(s)' \subseteq PendingOn(s)
    BY <1>4 DEF MovesOne, Moved, Kept, PendingOn, Ids, Waiting
  <2> QED
    BY <1>1, <2>1
<1>5. CASE Tick
  <2>1. \A j \in Ids : queue[j].expires \in Nat
    BY ExpireType DEF Request
  <2>2. PendingOn(s)' \subseteq PendingOn(s)
    BY <1>5, <2>1 DEF Tick, TypeOK, PendingOn, Ids, Waiting, Lapsed
  <2> QED
    BY <1>1, <2>2
<1> QED
  BY <1>2, <1>3, <1>4, <1>5, StepShape

\* One subject cannot flood the owner with cards (Enqueue, ErrRateLimited).
THEOREM PendingBoundedHolds == QSpec => []PendingBounded
<1>1. QInit => PendingBounded
  <2> SUFFICES ASSUME QInit, NEW s \in Subjects
               PROVE  Cardinality(PendingOn(s)) <= MaxPendingPerProject
    BY DEF PendingBounded
  <2>1. PendingOn(s) = {}
    BY DEF QInit, PendingOn, Ids
  <2> QED
    BY <2>1, FS_EmptySet, QueueAssumption
<1>2. TypeOK /\ PendingBounded /\ [QNext]_qvars => PendingBounded'
  BY PendingStep
<1> QED
  BY <1>1, <1>2, TypeCorrect, PTL DEF QSpec

-----------------------------------------------------------------------------
(* The queue implements the contract of a card.                            *)

\* A card a step keeps is in the same state of its life.
LEMMA KeptState ==
    ASSUME NEW j \in Ids, j \in Ids', Kept(j)
    PROVE  CardState(j)' = CardState(j)
BY DEF Kept, CardState

\* Every step of the store is a step of the contract or changes no card's state.
LEMMA ContractStep ==
    ASSUME TypeOK, [QNext]_qvars
    PROVE  [Contract!CNext]_([i \in 1..MaxRequests |-> CardState(i)])
<1> DEFINE Cs == 1..MaxRequests
           m == [c \in Cs |-> CardState(c)]
           n == [c \in Cs |-> CardState(c)']
<1>0. /\ Len(queue) \in Nat /\ Len(queue) <= MaxRequests /\ MaxRequests \in Nat
      /\ Ids \subseteq Cs
  BY QueueAssumption DEF TypeOK, Ids
<1>1. ASSUME NEW q \in Questions, NEW a \in Agents \cup {NoAgent},
             NEW o \in AskOnceChoices, EnqueueNew(q, a, o)
      PROVE  \E c \in Cs : m[c] = "none" /\ n = [m EXCEPT ![c] = "open"]
  <2>0. PICK k \in Nat : k = Len(queue) + 1
    BY <1>0
  <2>1. /\ Len(queue') = k /\ now' = now
        /\ queue'[k].status = "pending" /\ ~(now > queue'[k].expires)
        /\ \A j \in Ids : queue'[j] = ExpireOne(queue[j])
    BY <1>1, <2>0, NewShape DEF EnqueueNew
  <2>2. k \in Cs /\ k \notin Ids /\ k \in Ids' /\ Ids \subseteq Ids'
    BY <1>0, <1>1, <2>0, <2>1 DEF EnqueueNew, Ids
  <2>3. \A j \in Ids : CardState(j)' = CardState(j)
    BY <2>1, <2>2, KeepState, KeptState
  <2>4. \A j \in Cs : j \notin Ids /\ j # k => CardState(j) = "none" /\ CardState(j)' = "none"
    BY <1>0, <2>0, <2>1 DEF Ids, CardState
  <2>5. CardState(k) = "none" /\ CardState(k)' = "open"
    BY <2>1, <2>2 DEF CardState, Waiting, Lapsed
  <2>6. n = [m EXCEPT ![k] = "open"]
    BY <2>2, <2>3, <2>4, <2>5
  <2> QED
    BY <2>2, <2>5, <2>6
<1>2. CASE KeepsAll
  <2>1. Ids' = Ids /\ \A j \in Ids : CardState(j)' = CardState(j)
    BY <1>2, KeptState DEF KeepsAll, Ids
  <2>2. \A j \in Cs : CardState(j)' = CardState(j)
    BY <2>1 DEF CardState
  <2> QED
    BY <2>2
<1>3. ASSUME NEW i \in Ids, MovesOne(i)
      PROVE  n = m \/ \E c \in Cs : \/ m[c] = "open" /\ n = [m EXCEPT ![c] = "granted"]
                                    \/ /\ m[c] \in {"open", "granted"}
                                       /\ n = [m EXCEPT ![c] = "closed"]
  <2>1. Ids' = Ids /\ i \in Cs
    BY <1>0, <1>3 DEF MovesOne, Ids
  <2>2. \A j \in Cs : j # i => CardState(j)' = CardState(j)
    <3>1. \A j \in Ids : j # i => CardState(j)' = CardState(j)
      BY <1>3, <2>1, KeptState DEF MovesOne
    <3> QED
      BY <2>1, <3>1 DEF CardState
  <2>3. \/ CardState(i) = "open" /\ CardState(i)' \in {"granted", "closed"}
        \/ CardState(i) \in {"granted", "closed"} /\ CardState(i)' = "closed"
    BY <1>3, <2>1 DEF MovesOne, Moved, CardState, Waiting
  <2> QED
    BY <2>1, <2>2, <2>3
<1>4. CASE Tick
  <2>1. Ids' = Ids /\ \A j \in Ids : queue'[j] = queue[j] /\ queue[j] \in Request
    BY <1>4, ExpireType DEF Tick, Ids
  <2>2. \A j \in Cs : \/ CardState(j)' = CardState(j)
                      \/ CardState(j) \in {"open", "granted"} /\ CardState(j)' = "closed"
    <3>1. now \in Nat /\ now' = now + 1 /\ queue' = queue
      BY <1>4 DEF Tick, TypeOK
    <3>2. ASSUME NEW j \in Ids
          PROVE  (Waiting(j)' => Waiting(j)) /\ (InForce(j)' => InForce(j))
                 /\ ~(Waiting(j) /\ InForce(j))
      <4>1. queue[j].expires \in Nat /\ queue[j].until \in Nat
        BY <2>1, <3>2 DEF Request
      <4> QED
        BY <3>1, <4>1 DEF Waiting, Lapsed, InForce
    <3> QED
      BY <2>1, <3>2 DEF CardState
  <2> DEFINE S == {c \in Cs : CardState(c)' # CardState(c)}
  <2>3. S \in SUBSET {c \in Cs : m[c] \in {"open", "granted"}}
    <3>1. \A c \in S : c \in Cs /\ m[c] \in {"open", "granted"}
      BY <2>2
    <3> QED
      BY <3>1, Zenon
  <2>4. n = [c \in Cs |-> IF c \in S THEN "closed" ELSE m[c]]
    <3>1. \A c \in Cs : CardState(c)' = IF c \in S THEN "closed" ELSE m[c]
      BY <2>2
    <3> QED
      BY <3>1, Zenon
  <2> QED
    BY <2>3, <2>4, Zenon DEF Contract!CNext, Contract!Lapse
<1> HIDE DEF m, n
<1> QED
  BY <1>1, <1>2, <1>3, <1>4, StepShape
  DEF m, n, Contract!CNext, Contract!Ask, Contract!Grant, Contract!Close

\* The queue file implements the card's contract: asked once, answered at
\* most once, authority only from a yes, closed for ever.
THEOREM QueueImplementsContract == QSpec => ImplementsContract
<1>1. QInit => Contract!CInit
  BY DEF QInit, Contract!CInit, CardState, Ids
<1>2. TypeOK /\ [QNext]_qvars => [Contract!CNext]_([i \in 1..MaxRequests |-> CardState(i)])
  BY ContractStep
<1> QED
  BY <1>1, <1>2, TypeCorrect, PTL DEF QSpec, ImplementsContract, Contract!CSpec
=============================================================================
