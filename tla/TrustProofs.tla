----------------------------- MODULE TrustProofs -----------------------------
(***************************************************************************)
(* Proofs about trusted .byn files, for every set of files, policies,      *)
(* names, commands, agents and connections: no interleaving of the four    *)
(* writers of the store makes up a grant, and no run gets more than one.   *)
(***************************************************************************)
EXTENDS Trust, TLAPS

-----------------------------------------------------------------------------
(* The shape of the state.                                                 *)

Recs == [pol : Policies, mtime : Nat, at : Nat, names : SUBSET Names, wild : BOOLEAN]

Stores == [Paths -> Recs \cup {NoRec}]

\* One widening: what kind and of what.
Wide == {"scope", "env", "action", "writable", "alias", "auth"}
        \X (Scopes \cup Names \cup {Star} \cup Acts \cup Dirs \cup Aliases \cup Ops)

HandlerStates ==
    [op : {"idle", "grant", "decide", "remove", "refresh"},
     stage : {"idle", "build", "load", "tmp", "rename", "record", "revoke", "refresh", "next"},
     path : Paths \cup {NoRec}, pol : Policies \cup {NoRec}, asks : SUBSET Wide,
     rec : Recs \cup {NoRec}, copy : Stores \cup {NoRec}, seen : Stores \cup {NoRec},
     todo : SUBSET Paths]

AskStates == {AskIdle} \cup [path : Paths, body : Policies, mtime : Nat]

TrustCards == [path : Paths, asks : SUBSET Wide, status : {"pending", "approved", "denied"}]

\* A record against the policies ev the owner granted its file, and a store of them.
FitsIn(p, rec, ev) ==
    rec # NoRec => rec.pol \in ev[p] /\ (rec.wild => Star \in rec.pol.env)

Fits(s, ev) == s \in Stores /\ \A p \in Paths : FitsIn(p, s[p], ev)

\* What a handler holds at each stage: the text it read, the record it will
\* put, the store it will write, and the records a refresh has yet to do.
HandlerFits(k, ev) ==
    /\ k.stage = "build" => k.path \in Paths /\ k.pol \in Policies
    /\ k.stage = "load" => k.path \in Paths /\ k.rec \in Recs
    /\ k.rec # NoRec => k.path \in Paths /\ FitsIn(k.path, k.rec, ev)
    /\ k.stage = "tmp" => Fits(k.copy, ev)
    /\ k.copy # NoRec => Fits(k.copy, ev)
    /\ k.seen # NoRec => Fits(k.seen, ev)
    /\ k.stage \in {"refresh", "next"} => k.op = "refresh"
    /\ k.op = "refresh" /\ k.stage # "refresh" =>
          Fits(k.seen, ev) /\ \A p \in k.todo : k.seen[p] \in Recs \ {NoRec}

\* Type correctness of what the store and its writers hold.
TrustTypeOK ==
    /\ file \in [Paths -> [pol : Policies, mtime : Nat]]
    /\ entry \in [Names -> [kind : {"absent", "created", "owner", "agent"},
                            by : Agents \cup {Home}, at : Nat]]
    /\ now \in Nat
    /\ ever \in [Paths -> SUBSET Policies]
    /\ store \in Stores
    /\ tmp \in Stores \cup {NoRec}
    /\ cards \subseteq TrustCards
    /\ conn \in [Conns -> HandlerStates]
    /\ ask \in [Agents -> AskStates]

\* Every record in sight is one the owner granted.
RecordsFit ==
    /\ Fits(store, ever)
    /\ tmp # NoRec => Fits(tmp, ever)
    /\ \A c \in Conns : HandlerFits(conn[c], ever)

TrustInv == TrustTypeOK /\ RecordsFit

-----------------------------------------------------------------------------
(* Lemmas about records and policies.                                      *)

\* A grant of the owner's is never taken out of the history, so what fits
\* goes on fitting.
LEMMA FitsGrows ==
    ASSUME NEW ev, NEW ew, \A p \in Paths : ev[p] \subseteq ew[p]
    PROVE  /\ \A s : Fits(s, ev) => Fits(s, ew)
           /\ \A k \in HandlerStates : HandlerFits(k, ev) => HandlerFits(k, ew)
<1>1. \A s : Fits(s, ev) => Fits(s, ew)
  BY DEF Fits, FitsIn
<1>2. ASSUME NEW k \in HandlerStates, HandlerFits(k, ev) PROVE HandlerFits(k, ew)
  <2>1. k.path \in Paths => (FitsIn(k.path, k.rec, ev) => FitsIn(k.path, k.rec, ew))
    BY DEF FitsIn
  <2> QED
    BY <1>1, <1>2, <2>1 DEF HandlerFits
<1> QED
  BY <1>1, <1>2

\* sealExecCapability and a re-seal write well-formed records.
LEMMA RecordIs ==
    ASSUME TrustTypeOK, NEW p \in Paths, NEW pol \in Policies
    PROVE  /\ Record(p, pol) \in Recs
           /\ Record(p, pol).pol = pol
           /\ Record(p, pol).wild => Star \in pol.env
<1>1. file[p].mtime \in Nat /\ now \in Nat
  BY DEF TrustTypeOK
<1>2. Captured(pol.env) \in SUBSET Names
  BY DEF Captured, OwnersNames
<1>3. (IF pol.scope = Home THEN Captured(pol.env) ELSE {}) \in SUBSET Names
  BY <1>2
<1>4. (pol.scope = Home /\ Star \in pol.env) \in BOOLEAN
  OBVIOUS
<1> QED
  BY <1>1, <1>3, <1>4, Zenon DEF Record, Recs

\* A re-sealed capability keeps its record's policy and scope key.
LEMMA ResealedIs ==
    ASSUME NEW r \in Recs
    PROVE  Resealed(r) \in Recs /\ Resealed(r).pol = r.pol /\ Resealed(r).wild = r.wild
<1>1. Captured(r.pol.env \cup Registered) \in SUBSET Names
  BY DEF Captured, OwnersNames
<1> QED
  BY <1>1 DEF Resealed, Recs

\* ComparePolicies reports widenings of the six kinds only.
LEMMA WideningsAre ==
    ASSUME NEW g \in Policies, NEW r \in Policies
    PROVE  Widenings(g, r) \in SUBSET Wide
<1>1. \A kind \in {"env", "action"} : \A x, y :
         x \subseteq Names \cup {Star} \cup Acts => Added(kind, y, x) \subseteq Wide
  BY DEF Added, Wide
<1>2. r.env \subseteq Names \cup {Star} /\ r.acts \subseteq Acts \cup {Star}
      /\ r.scope \in Scopes /\ r.writable \subseteq Dirs
  BY DEF Policies
<1>3. Added("env", g.env, r.env) \subseteq Wide /\ Added("action", g.acts, r.acts) \subseteq Wide
  BY <1>1, <1>2
<1>4. /\ {<<"scope", s>> : s \in {r.scope} \ {g.scope}} \subseteq Wide
      /\ {<<"writable", d>> : d \in r.writable \ g.writable} \subseteq Wide
      /\ {<<"alias", a>> : a \in {b \in Aliases : r.aliases[b] \notin {NoAct, g.aliases[b]}}} \subseteq Wide
      /\ {<<"auth", o>> : o \in Relaxed(g, r)} \subseteq Wide
  BY <1>2 DEF Wide, Relaxed
<1> QED
  BY <1>3, <1>4 DEF Widenings

-----------------------------------------------------------------------------
(* The writers of the store.                                               *)

\* An idle handler, and one that has just read a file's text.
LEMMA IdleFits ==
    ASSUME NEW ev
    PROVE  /\ Idle \in HandlerStates /\ HandlerFits(Idle, ev)
           /\ \A op \in {"grant", "decide"}, p \in Paths, pol \in Policies, asks \in SUBSET Wide :
                /\ Reads(op, p, pol, asks) \in HandlerStates
                /\ HandlerFits(Reads(op, p, pol, asks), ev)
<1>1. Idle \in HandlerStates
  BY DEF Idle, HandlerStates
<1>2. HandlerFits(Idle, ev)
  BY DEF Idle, HandlerFits
<1>3. ASSUME NEW op \in {"grant", "decide"}, NEW p \in Paths, NEW pol \in Policies,
             NEW asks \in SUBSET Wide
      PROVE  /\ Reads(op, p, pol, asks) \in HandlerStates
             /\ HandlerFits(Reads(op, p, pol, asks), ev)
  <2>1. Reads(op, p, pol, asks) \in HandlerStates
    BY <1>1 DEF Reads, HandlerStates
  <2>2. HandlerFits(Reads(op, p, pol, asks), ev)
    BY DEF Reads, Idle, HandlerFits
  <2> QED
    BY <2>1, <2>2
<1> QED
  BY <1>1, <1>2, <1>3

\* One handler of a step, its record and its stores fit; the others are as they were.
LEMMA OneHandler ==
    ASSUME TrustInv, NEW c \in Conns, NEW k \in HandlerStates,
           conn' = [conn EXCEPT ![c] = k], HandlerFits(k, ever'),
           \A p \in Paths : ever[p] \subseteq ever'[p]
    PROVE  conn' \in [Conns -> HandlerStates] /\ \A d \in Conns : HandlerFits(conn'[d], ever')
<1>1. conn \in [Conns -> HandlerStates] /\ \A d \in Conns : HandlerFits(conn[d], ever)
  BY DEF TrustInv, TrustTypeOK, RecordsFit
<1>2. \A d \in Conns : HandlerFits(conn[d], ever')
  <2>1. \A h \in HandlerStates : HandlerFits(h, ever) => HandlerFits(h, ever')
    BY FitsGrows
  <2> QED
    BY <1>1, <2>1
<1> QED
  BY <1>1, <1>2

\* putTrustRecord builds the record from the text it read, then trust.Put sets
\* it in the store it loads, and Save writes that copy.
LEMMA PutBuildFits ==
    ASSUME TrustInv, NEW c \in Conns, PutBuild(c)
    PROVE  TrustInv'
<1> DEFINE k == conn[c]
           r == Record(k.path, k.pol)
           m == [k EXCEPT !.stage = "load", !.pol = NoRec, !.rec = r]
<1>1. /\ k \in HandlerStates /\ HandlerFits(k, ever) /\ k.stage = "build"
      /\ k.path \in Paths /\ k.pol \in Policies
  BY DEF TrustInv, TrustTypeOK, RecordsFit, PutBuild, At, HandlerFits
<1>2. r \in Recs /\ r.pol = k.pol /\ (r.wild => Star \in k.pol.env)
  BY <1>1, RecordIs DEF TrustInv
<1>3. /\ conn' = [conn EXCEPT ![c] = m]
      /\ ever' = [ever EXCEPT ![k.path] = @ \cup {k.pol}]
      /\ UNCHANGED <<file, acl, store, tmp, entry, now, cards, ask, used>>
  BY DEF PutBuild
<1>4. /\ ever' \in [Paths -> SUBSET Policies] /\ k.pol \in ever'[k.path]
      /\ \A p \in Paths : ever[p] \subseteq ever'[p]
  BY <1>1, <1>3 DEF TrustInv, TrustTypeOK
<1>5. HandlerFits(k, ever')
  BY <1>1, <1>4, FitsGrows
<1> HIDE DEF r, k
<1>6. m \in HandlerStates
  BY <1>1, <1>2 DEF HandlerStates
<1>7. HandlerFits(m, ever')
  <2>1. /\ m.stage = "load" /\ m.rec = r /\ m.path = k.path /\ m.copy = k.copy
        /\ m.seen = k.seen /\ m.op = k.op /\ m.todo = k.todo
    BY <1>1 DEF HandlerStates
  <2>2. FitsIn(k.path, r, ever')
    BY <1>2, <1>4 DEF FitsIn
  <2> HIDE DEF m
  <2> QED
    BY <1>1, <1>2, <1>5, <2>1, <2>2 DEF HandlerFits
<1> HIDE DEF m
<1>8. conn' \in [Conns -> HandlerStates] /\ \A d \in Conns : HandlerFits(conn'[d], ever')
  BY <1>3, <1>4, <1>6, <1>7, OneHandler
<1>9. Fits(store', ever') /\ (tmp' # NoRec => Fits(tmp', ever'))
  BY <1>3, <1>4, FitsGrows DEF TrustInv, RecordsFit
<1> QED
  BY <1>3, <1>4, <1>8, <1>9 DEF TrustInv, TrustTypeOK, RecordsFit

\* A step that gives one handler its next state and leaves the rest alone.
LEMMA HandlerMoves ==
    ASSUME TrustInv, NEW c \in Conns, NEW k \in HandlerStates, HandlerFits(k, ever),
           conn' = [conn EXCEPT ![c] = k],
           UNCHANGED <<file, entry, now, ever, store, tmp, ask>>, cards' \subseteq TrustCards
    PROVE  TrustInv'
<1>1. conn' \in [Conns -> HandlerStates] /\ \A d \in Conns : HandlerFits(conn'[d], ever')
  BY OneHandler
<1> QED
  BY <1>1 DEF TrustInv, TrustTypeOK, RecordsFit

\* trust.Put: the store is read and the record set in that copy.
LEMMA PutLoadFits ==
    ASSUME TrustInv, NEW c \in Conns, PutLoad(c)
    PROVE  TrustInv'
<1> DEFINE k == conn[c]
           s == [store EXCEPT ![k.path] = k.rec]
           m == [k EXCEPT !.stage = "tmp", !.rec = NoRec, !.copy = s]
<1>1. /\ k \in HandlerStates /\ HandlerFits(k, ever) /\ k.stage = "load"
      /\ k.path \in Paths /\ k.rec \in Recs /\ Fits(store, ever)
  BY DEF TrustInv, TrustTypeOK, RecordsFit, PutLoad, At, HandlerFits
<1>2. Fits(s, ever)
  BY <1>1 DEF Fits, FitsIn, Stores, HandlerFits
<1> HIDE DEF s, k
<1>3. m \in HandlerStates
  BY <1>1, <1>2 DEF HandlerStates, Fits
<1>4. HandlerFits(m, ever)
  <2>1. /\ m.stage = "tmp" /\ m.rec = NoRec /\ m.path = k.path /\ m.copy = s
        /\ m.seen = k.seen /\ m.op = k.op /\ m.todo = k.todo
    BY <1>1 DEF HandlerStates
  <2> HIDE DEF m
  <2> QED
    BY <1>1, <1>2, <2>1 DEF HandlerFits
<1>5. conn' = [conn EXCEPT ![c] = m] /\ UNCHANGED <<file, entry, now, ever, store, tmp, ask, cards>>
  BY DEF PutLoad, k, s
<1> HIDE DEF m
<1>6. cards' \subseteq TrustCards
  BY <1>5 DEF TrustInv, TrustTypeOK
<1> QED
  BY <1>3, <1>4, <1>5, <1>6, HandlerMoves

\* handleTrustRemove takes a record out of the copy it loads.
LEMMA RemoveLoadFits ==
    ASSUME TrustInv, NEW c \in Conns, NEW p \in Paths, RemoveLoad(c, p)
    PROVE  TrustInv'
<1> DEFINE s == [store EXCEPT ![p] = NoRec]
           m == [Idle EXCEPT !.op = "remove", !.stage = "tmp", !.path = p, !.copy = s]
<1>1. Fits(store, ever) /\ Idle \in HandlerStates /\ HandlerFits(Idle, ever)
  BY IdleFits DEF TrustInv, RecordsFit
<1>2. Fits(s, ever)
  BY <1>1 DEF Fits, FitsIn, Stores
<1> HIDE DEF s
<1>3. m \in HandlerStates
  BY <1>1, <1>2 DEF HandlerStates, Fits
<1>4. HandlerFits(m, ever)
  <2>1. m.stage = "tmp" /\ m.rec = NoRec /\ m.copy = s /\ m.seen = NoRec /\ m.op = "remove"
    BY DEF Idle
  <2> HIDE DEF m
  <2> QED
    BY <1>2, <2>1 DEF HandlerFits
<1>5. conn' = [conn EXCEPT ![c] = m] /\ UNCHANGED <<file, entry, now, ever, store, tmp, ask, cards>>
  BY DEF RemoveLoad, Starts, s
<1> HIDE DEF m
<1>6. cards' \subseteq TrustCards
  BY <1>5 DEF TrustInv, TrustTypeOK
<1> QED
  BY <1>3, <1>4, <1>5, <1>6, HandlerMoves

\* Save writes the copy a handler holds to the one temporary file.
LEMMA SaveTmpFits ==
    ASSUME TrustInv, NEW c \in Conns, SaveTmp(c)
    PROVE  TrustInv'
<1> DEFINE k == conn[c]
           m == [k EXCEPT !.stage = "rename", !.copy = NoRec]
<1>1. k \in HandlerStates /\ HandlerFits(k, ever) /\ k.stage = "tmp" /\ Fits(k.copy, ever)
  BY DEF TrustInv, TrustTypeOK, RecordsFit, SaveTmp, At, HandlerFits
<1>2. conn' = [conn EXCEPT ![c] = m]
  BY DEF SaveTmp
<1> HIDE DEF k
<1>3. m \in HandlerStates
  BY <1>1 DEF HandlerStates
<1>4. HandlerFits(m, ever)
  <2>1. /\ m.stage = "rename" /\ m.rec = k.rec /\ m.path = k.path /\ m.copy = NoRec
        /\ m.seen = k.seen /\ m.op = k.op /\ m.todo = k.todo
    BY <1>1 DEF HandlerStates
  <2> HIDE DEF m
  <2> QED
    BY <1>1, <2>1 DEF HandlerFits
<1> HIDE DEF m
<1>5. /\ tmp' = k.copy /\ UNCHANGED <<file, entry, now, ever, store, ask, cards>>
  BY DEF SaveTmp, k
<1>6. conn' \in [Conns -> HandlerStates] /\ \A d \in Conns : HandlerFits(conn'[d], ever')
  BY <1>2, <1>3, <1>4, <1>5, OneHandler
<1> QED
  BY <1>1, <1>5, <1>6 DEF TrustInv, TrustTypeOK, RecordsFit, Fits

\* A handler whose Save returned or failed goes on without its record.
LEMMA SavedFits ==
    ASSUME TrustInv, NEW c \in Conns, NEW ok \in BOOLEAN, At(c, "rename"), Saved(c, ok)
    PROVE  \E k \in HandlerStates : conn' = [conn EXCEPT ![c] = k] /\ HandlerFits(k, ever)
<1> DEFINE h == conn[c]
<1>1. h \in HandlerStates /\ HandlerFits(h, ever) /\ h.stage = "rename"
  BY DEF TrustInv, TrustTypeOK, RecordsFit, At
<1>2. ASSUME NEW st \in {"next", "record", "revoke"}, st = "next" => h.op = "refresh",
             conn' = [conn EXCEPT ![c].stage = st]
      PROVE  \E k \in HandlerStates : conn' = [conn EXCEPT ![c] = k] /\ HandlerFits(k, ever)
  <2> DEFINE m == [h EXCEPT !.stage = st]
  <2>1. conn' = [conn EXCEPT ![c] = m]
    BY <1>2
  <2> HIDE DEF h
  <2>2. m \in HandlerStates
    BY <1>1 DEF HandlerStates
  <2>3. HandlerFits(m, ever)
    <3>1. /\ m.stage = st /\ m.rec = h.rec /\ m.path = h.path /\ m.copy = h.copy
          /\ m.seen = h.seen /\ m.op = h.op /\ m.todo = h.todo
      BY <1>1 DEF HandlerStates
    <3> HIDE DEF m
    <3> QED
      BY <1>1, <1>2, <3>1 DEF HandlerFits
  <2> HIDE DEF m
  <2> QED
    BY <2>1, <2>2, <2>3
<1>3. CASE Ends(c)
  BY <1>3, IdleFits DEF Ends
<1> QED
  BY <1>2, <1>3 DEF Saved

\* The rename installs a store some handler wrote, its own or another's.
LEMMA SaveRenameFits ==
    ASSUME TrustInv, NEW c \in Conns, SaveRename(c)
    PROVE  TrustInv'
<1>1. PICK k \in HandlerStates : conn' = [conn EXCEPT ![c] = k] /\ HandlerFits(k, ever)
  <2>1. At(c, "rename") /\ Saved(c, tmp # NoRec)
    BY DEF SaveRename
  <2>2. (tmp # NoRec) \in BOOLEAN
    OBVIOUS
  <2> QED
    BY <2>1, <2>2, SavedFits
<1>2. ever' = ever /\ UNCHANGED <<file, entry, now, ask, cards>>
  BY DEF SaveRename
<1>3. conn' \in [Conns -> HandlerStates] /\ \A d \in Conns : HandlerFits(conn'[d], ever')
  BY <1>1, <1>2, OneHandler
<1>4. Fits(store', ever') /\ tmp' = NoRec
  BY <1>2 DEF SaveRename, TrustInv, RecordsFit
<1> QED
  BY <1>2, <1>3, <1>4 DEF TrustInv, TrustTypeOK, RecordsFit, Fits


\* A refresh reads the store as it is.
LEMMA RefreshLoadFits ==
    ASSUME TrustInv, NEW c \in Conns, RefreshLoad(c)
    PROVE  TrustInv'
<1> DEFINE h == conn[c]
           t == {p \in Paths : store[p] # NoRec /\ store[p].pol.scope = Home /\ ~store[p].wild}
           m == [h EXCEPT !.stage = "next", !.seen = store, !.todo = t]
<1>1. /\ h \in HandlerStates /\ HandlerFits(h, ever) /\ h.stage = "refresh"
      /\ Fits(store, ever) /\ cards \subseteq TrustCards
  BY DEF TrustInv, TrustTypeOK, RecordsFit, RefreshLoad, At
<1>2. t \in SUBSET Paths /\ \A p \in t : store[p] \in Recs \ {NoRec}
  BY <1>1 DEF Fits, Stores
<1>3. /\ conn' = [conn EXCEPT ![c] = m]
      /\ UNCHANGED <<file, entry, now, ever, store, tmp, ask, cards>>
  BY DEF RefreshLoad
<1> HIDE DEF h, t
<1>4. m \in HandlerStates
  BY <1>1, <1>2 DEF HandlerStates, Fits
<1>5. HandlerFits(m, ever)
  <2>1. /\ m.stage = "next" /\ m.rec = h.rec /\ m.path = h.path /\ m.copy = h.copy
        /\ m.seen = store /\ m.op = h.op /\ m.todo = t
    BY <1>1 DEF HandlerStates
  <2> HIDE DEF m
  <2> QED
    BY <1>1, <1>2, <2>1 DEF HandlerFits
<1> HIDE DEF m
<1> QED
  BY <1>1, <1>3, <1>4, <1>5, HandlerMoves

\* It re-seals the records it read, one by one, each under its own policy.
LEMMA RefreshNextFits ==
    ASSUME TrustInv, NEW c \in Conns, RefreshNext(c)
    PROVE  TrustInv'
<1> DEFINE h == conn[c]
<1>1. /\ h \in HandlerStates /\ HandlerFits(h, ever) /\ h.stage = "next"
      /\ cards \subseteq TrustCards
  BY DEF TrustInv, TrustTypeOK, RecordsFit, RefreshNext, At
<1>2. UNCHANGED <<file, entry, now, ever, store, tmp, ask, cards>>
  BY DEF RefreshNext
<1>3. CASE Ends(c)
  BY <1>1, <1>2, <1>3, IdleFits, HandlerMoves DEF Ends
<1>4. ASSUME NEW p \in h.todo,
             conn' = [conn EXCEPT ![c] =
                 [h EXCEPT !.stage = "load", !.todo = h.todo \ {p}, !.path = p,
                           !.rec = Resealed(h.seen[p])]]
      PROVE  TrustInv'
  <2> DEFINE r == Resealed(h.seen[p])
             m == [h EXCEPT !.stage = "load", !.todo = h.todo \ {p}, !.path = p, !.rec = r]
  <2>1. /\ p \in Paths /\ h.seen[p] \in Recs \ {NoRec} /\ Fits(h.seen, ever)
    BY <1>1, <1>4 DEF HandlerFits, HandlerStates
  <2>2. r \in Recs /\ r.pol = h.seen[p].pol /\ r.wild = h.seen[p].wild
    BY <2>1, ResealedIs
  <2>3. FitsIn(p, r, ever)
    BY <2>1, <2>2 DEF Fits, FitsIn
  <2>4. conn' = [conn EXCEPT ![c] = m]
    BY <1>4
  <2> HIDE DEF h, r
  <2>5. m \in HandlerStates
    BY <1>1, <2>1, <2>2 DEF HandlerStates
  <2>6. HandlerFits(m, ever)
    <3>1. /\ m.stage = "load" /\ m.rec = r /\ m.path = p /\ m.copy = h.copy
          /\ m.seen = h.seen /\ m.op = h.op /\ m.todo = h.todo \ {p}
      BY <1>1 DEF HandlerStates
    <3> HIDE DEF m
    <3> QED
      BY <1>1, <2>1, <2>2, <2>3, <3>1 DEF HandlerFits
  <2> HIDE DEF m
  <2> QED
    BY <1>1, <1>2, <2>4, <2>5, <2>6, HandlerMoves
<1> QED
  BY <1>3, <1>4 DEF RefreshNext

\* A grant, a write with trust and an approval start from the text they read.
LEMMA ReadersFit ==
    ASSUME TrustInv, NEW c \in Conns,
           \/ \E p \in Paths : GrantRead(c, p)
           \/ \E p \in Worked, f \in Files : BynWrite(c, p, f)
           \/ \E k \in cards : DecideStart(c, k)
    PROVE  TrustInv'
<1>0. /\ file \in [Paths -> [pol : Policies, mtime : Nat]] /\ cards \subseteq TrustCards
      /\ Files \subseteq Policies /\ Worked \subseteq Paths
  BY TrustAssumption DEF TrustInv, TrustTypeOK
<1>1. ASSUME NEW p \in Paths, GrantRead(c, p) PROVE TrustInv'
  <2>1. /\ conn' = [conn EXCEPT ![c] = Reads("grant", p, file[p].pol, {})]
        /\ UNCHANGED <<file, entry, now, ever, store, tmp, ask, cards>>
    BY <1>1 DEF GrantRead, Starts
  <2>2. /\ Reads("grant", p, file[p].pol, {}) \in HandlerStates
        /\ HandlerFits(Reads("grant", p, file[p].pol, {}), ever)
    BY <1>0, IdleFits
  <2> QED
    BY <1>0, <2>1, <2>2, HandlerMoves
<1>2. ASSUME NEW p \in Worked, NEW f \in Files, BynWrite(c, p, f) PROVE TrustInv'
  <2>1. /\ conn' = [conn EXCEPT ![c] = Reads("grant", p, f, {})]
        /\ UNCHANGED <<entry, now, ever, store, tmp, ask, cards>>
    BY <1>2 DEF BynWrite, Starts
  <2>2. /\ Reads("grant", p, f, {}) \in HandlerStates
        /\ HandlerFits(Reads("grant", p, f, {}), ever)
    BY <1>0, IdleFits
  <2>3. conn' \in [Conns -> HandlerStates] /\ \A d \in Conns : HandlerFits(conn'[d], ever')
    BY <2>1, <2>2, OneHandler
  <2>4. file' \in [Paths -> [pol : Policies, mtime : Nat]]
    BY <1>0, <1>2 DEF BynWrite
  <2> QED
    BY <2>1, <2>3, <2>4 DEF TrustInv, TrustTypeOK, RecordsFit
<1>3. ASSUME NEW k \in cards, DecideStart(c, k) PROVE TrustInv'
  <2>1. /\ conn' = [conn EXCEPT ![c] = Reads("decide", k.path, file[k.path].pol, k.asks)]
        /\ UNCHANGED <<file, entry, now, ever, store, tmp, ask, cards>>
    BY <1>3 DEF DecideStart, Starts
  <2>2. k.path \in Paths /\ k.asks \in SUBSET Wide /\ file[k.path].pol \in Policies
    BY <1>0 DEF TrustCards
  <2>3. /\ Reads("decide", k.path, file[k.path].pol, k.asks) \in HandlerStates
        /\ HandlerFits(Reads("decide", k.path, file[k.path].pol, k.asks), ever)
    BY <2>2, IdleFits
  <2> QED
    BY <1>0, <2>1, <2>3, HandlerMoves
<1> QED
  BY <1>1, <1>2, <1>3

\* The steps that end a handler, and the owner's write of a value, which
\* starts a refresh.
LEMMA OtherWritersFit ==
    ASSUME TrustInv, NEW c \in Conns,
           DecideRecord(c) \/ RevokeACL(c) \/ \E n \in Names : OwnerPut(c, n)
    PROVE  TrustInv'
<1>0. cards \subseteq TrustCards
  BY DEF TrustInv, TrustTypeOK
<1>1. CASE DecideRecord(c)
  <2>1. cards' \subseteq TrustCards
    <3>1. \A k \in cards : k \in TrustCards /\ [k EXCEPT !.status = "approved"] \in TrustCards
      BY <1>0 DEF TrustCards
    <3> QED
      BY <1>1, <3>1 DEF DecideRecord
  <2>2. conn' = [conn EXCEPT ![c] = Idle] /\ UNCHANGED <<file, entry, now, ever, store, tmp, ask>>
    BY <1>1 DEF DecideRecord, Ends
  <2> QED
    BY <2>1, <2>2, IdleFits, HandlerMoves
<1>2. CASE RevokeACL(c)
  <2>1. /\ conn' = [conn EXCEPT ![c] = Idle]
        /\ UNCHANGED <<file, entry, now, ever, store, tmp, ask, cards>>
    BY <1>2 DEF RevokeACL, Ends
  <2> QED
    BY <1>0, <2>1, IdleFits, HandlerMoves
<1>3. ASSUME NEW n \in Names, OwnerPut(c, n) PROVE TrustInv'
  <2> DEFINE m == [Idle EXCEPT !.op = "refresh", !.stage = "refresh"]
  <2>1. conn' = [conn EXCEPT ![c] = m] /\ UNCHANGED <<file, now, ever, store, tmp, ask, cards>>
    BY <1>3 DEF OwnerPut, Starts
  <2>2. m \in HandlerStates
    BY IdleFits DEF HandlerStates
  <2>3. HandlerFits(m, ever)
    BY DEF Idle, HandlerFits
  <2> HIDE DEF m
  <2>4. conn' \in [Conns -> HandlerStates] /\ \A d \in Conns : HandlerFits(conn'[d], ever')
    BY <2>1, <2>2, <2>3, OneHandler
  <2>5. entry' \in [Names -> [kind : {"absent", "created", "owner", "agent"},
                              by : Agents \cup {Home}, at : Nat]]
    BY <1>3 DEF OwnerPut, Absent, TrustInv, TrustTypeOK
  <2> QED
    BY <2>1, <2>4, <2>5 DEF TrustInv, TrustTypeOK, RecordsFit
<1> QED
  BY <1>1, <1>2, <1>3

\* The steps of everyone else leave the store and its writers alone.
LEMMA OthersFit ==
    ASSUME TrustInv,
           \/ \E p \in Worked : GrantRefused(p) \/ \E f \in Files : EditFile(p, f)
           \/ \E k \in cards : Deny(k)
           \/ \E a \in Agents : \/ \E n \in Names : AgentPut(a, n)
                                \/ \E p \in Worked : ExecRead(a, p)
                                \/ ExecVerify(a) \/ ExecClash(a)
           \/ Restart
           \/ UNCHANGED tvars
    PROVE  TrustInv'
<1>0. /\ Files \subseteq Policies /\ Worked \subseteq Paths
      /\ file \in [Paths -> [pol : Policies, mtime : Nat]]
      /\ entry \in [Names -> [kind : {"absent", "created", "owner", "agent"},
                              by : Agents \cup {Home}, at : Nat]]
      /\ now \in Nat /\ cards \subseteq TrustCards /\ ask \in [Agents -> AskStates]
  BY TrustAssumption DEF TrustInv, TrustTypeOK
<1>1. ASSUME NEW p \in Worked, NEW f \in Files, EditFile(p, f) PROVE TrustInv'
  <2>1. file' \in [Paths -> [pol : Policies, mtime : Nat]]
    BY <1>0, <1>1 DEF EditFile
  <2> QED
    BY <1>1, <2>1 DEF EditFile, TrustInv, TrustTypeOK, RecordsFit
<1>2. ASSUME NEW p \in Worked, GrantRefused(p) PROVE TrustInv'
  BY <1>2 DEF GrantRefused, TrustInv, TrustTypeOK, RecordsFit
<1>3. ASSUME NEW k \in cards, Deny(k) PROVE TrustInv'
  <2>1. [k EXCEPT !.status = "denied"] \in TrustCards
    BY <1>0 DEF TrustCards
  <2>2. cards' \subseteq TrustCards
    BY <1>0, <1>3, <2>1 DEF Deny
  <2> QED
    BY <1>3, <2>2 DEF Deny, TrustInv, TrustTypeOK, RecordsFit
<1>4. ASSUME NEW a \in Agents, NEW n \in Names, AgentPut(a, n) PROVE TrustInv'
  <2>1. /\ now' \in Nat
        /\ entry' \in [Names -> [kind : {"absent", "created", "owner", "agent"},
                                 by : Agents \cup {Home}, at : Nat]]
    BY <1>0, <1>4 DEF AgentPut
  <2> QED
    BY <1>4, <2>1 DEF AgentPut, TrustInv, TrustTypeOK, RecordsFit
<1>5. ASSUME NEW a \in Agents, NEW p \in Worked, ExecRead(a, p) PROVE TrustInv'
  <2>1. ask' \in [Agents -> AskStates]
    BY <1>0, <1>5 DEF ExecRead, AskStates
  <2> QED
    BY <1>5, <2>1 DEF ExecRead, TrustInv, TrustTypeOK, RecordsFit
<1>6. ASSUME NEW a \in Agents, ExecVerify(a) PROVE TrustInv'
  <2>1. ask' \in [Agents -> AskStates]
    BY <1>0, <1>6 DEF ExecVerify, AskStates
  <2>2. /\ ask[a].path \in Paths /\ ask[a].body \in Policies
    BY <1>0, <1>6 DEF ExecVerify, AskStates
  <2>3. cards' \subseteq TrustCards
    <3>1. CASE cards' = cards
      BY <1>0, <3>1
    <3>2. CASE /\ store[ask[a].path] # NoRec
               /\ RaiseTrustApproval(ask[a].path, Widenings(store[ask[a].path].pol, ask[a].body))
      <4>1. store[ask[a].path].pol \in Policies
        BY <2>2, <3>2 DEF TrustInv, TrustTypeOK, Stores, Recs
      <4>2. Widenings(store[ask[a].path].pol, ask[a].body) \in SUBSET Wide
        BY <2>2, <4>1, WideningsAre
      <4> QED
        BY <1>0, <2>2, <3>2, <4>2 DEF RaiseTrustApproval, TrustCards
    <3> QED
      BY <1>6, <3>1, <3>2 DEF ExecVerify, ExecStops, ExecRuns, Asks
  <2> QED
    BY <1>6, <2>1, <2>3 DEF ExecVerify, TrustInv, TrustTypeOK, RecordsFit
<1>7. CASE Restart
  BY <1>7, IdleFits DEF Restart, AskStates, TrustInv, TrustTypeOK, RecordsFit
<1>8. CASE UNCHANGED tvars
  BY <1>8 DEF tvars, TrustInv, TrustTypeOK, RecordsFit
<1>9. ASSUME NEW a \in Agents, ExecClash(a) PROVE TrustInv'
  <2>1. ask' \in [Agents -> AskStates]
    BY <1>0, <1>9 DEF ExecClash, AskStates
  <2> QED
    BY <1>9, <2>1 DEF ExecClash, TrustInv, TrustTypeOK, RecordsFit
<1> QED
  BY <1>1, <1>2, <1>3, <1>4, <1>5, <1>6, <1>7, <1>8, <1>9

-----------------------------------------------------------------------------
(* Every record is the owner's.                                            *)

\* The owner has trusted the files as they stand.
LEMMA TrustInvInit == ASSUME TInit PROVE TrustInv
<1>1. PICK f \in Granted : file = [p \in Paths |-> [pol |-> f, mtime |-> 0]]
  BY DEF TInit
<1>2. f \in Policies
  BY <1>1, TrustAssumption
<1>3. /\ file \in [Paths -> [pol : Policies, mtime : Nat]]
      /\ entry \in [Names -> [kind : {"absent", "created", "owner", "agent"},
                              by : Agents \cup {Home}, at : Nat]]
      /\ now \in Nat /\ ever \in [Paths -> SUBSET Policies]
      /\ tmp = NoRec /\ cards = {} /\ ask \in [Agents -> AskStates]
      /\ ever = [p \in Paths |-> {f}]
  BY <1>1, <1>2 DEF TInit, Absent, AskStates
<1>4. ASSUME NEW p \in Paths
      PROVE  /\ Record(p, f) \in Recs /\ Record(p, f).pol = f
             /\ Record(p, f).wild => Star \in f.env
  <2>1. file[p].mtime \in Nat /\ now \in Nat
    BY <1>3
  <2>2. (IF f.scope = Home THEN Captured(f.env) ELSE {}) \in SUBSET Names
    BY DEF Captured, OwnersNames
  <2>3. (f.scope = Home /\ Star \in f.env) \in BOOLEAN
    OBVIOUS
  <2> QED
    BY <1>2, <2>1, <2>2, <2>3, Zenon DEF Record, Recs
<1>5. store = [p \in Paths |-> Record(p, f)]
  BY <1>1 DEF TInit
<1>6. Fits(store, ever)
  BY <1>3, <1>4, <1>5 DEF Fits, FitsIn, Stores
<1>7. conn \in [Conns -> HandlerStates] /\ \A c \in Conns : HandlerFits(conn[c], ever)
  BY IdleFits DEF TInit
<1> QED
  BY <1>3, <1>6, <1>7 DEF TrustInv, TrustTypeOK, RecordsFit, Fits

\* No step of any of the four writers, in any order, makes up a record.
LEMMA TrustInvStep ==
    ASSUME TrustInv, [TNext]_tvars
    PROVE  TrustInv'
<1>1. ASSUME NEW c \in Conns, Step(c) PROVE TrustInv'
  BY <1>1, PutBuildFits, PutLoadFits, SaveTmpFits, SaveRenameFits, RefreshLoadFits,
     RefreshNextFits, OtherWritersFit DEF Step
<1>2. ASSUME NEW c \in Conns, Owner(c) PROVE TrustInv'
  BY <1>2, ReadersFit, RemoveLoadFits, OtherWritersFit DEF Owner
<1> QED
  BY <1>1, <1>2, OthersFit DEF TNext

\* The store, the temporary file and the handlers are always well formed.
THEOREM TrustInvariant == TSpec => []TrustInv
<1>1. TInit => TrustInv
  BY TrustInvInit
<1>2. TrustInv /\ [TNext]_tvars => TrustInv'
  BY TrustInvStep
<1> QED
  BY <1>1, <1>2, PTL DEF TSpec

\* Every record on disk or in a handler's hands is a policy the owner granted
\* that file, for any number of handlers interleaving Load, change, write and
\* rename (trust.Put, Save).
THEOREM GrantsAreTheOwnersHolds == TSpec => []GrantsAreTheOwners
<1>1. TrustInv => GrantsAreTheOwners
  BY DEF TrustInv, TrustTypeOK, RecordsFit, HandlerFits, Fits, FitsIn,
         GrantsAreTheOwners, RecordFits
<1> QED
  BY <1>1, TrustInvariant, PTL

-----------------------------------------------------------------------------
(* What a run is given.                                                    *)

\* A file in force that asks for nothing but values the caller owns allows no
\* command that its record does not, and waives no password the record wants.
LEMMA ForgivenWidensNoCommand ==
    ASSUME NEW a \in Agents, NEW rec \in Recs, NEW body \in Policies, NEW act,
           Forgiven(a, rec, Widenings(rec.pol, body)), RunsFree(body, act)
    PROVE  act \in Allows(rec.pol.acts, Acts) \/ rec.pol.auth["exec"] = "none"
<1>1. /\ rec.pol.auth["exec"] \in Levels /\ body.auth["exec"] \in Levels /\ "exec" \in Ops
  BY TrustAssumption DEF Recs, Policies
<1>2. \A x \in Added("action", rec.pol.acts, body.acts) : FALSE
  <2>1. \A x \in Added("action", rec.pol.acts, body.acts) : x[1] = "action"
    BY DEF Added
  <2>2. \A x \in Added("action", rec.pol.acts, body.acts) : x[1] = "env"
    BY DEF Forgiven, Widenings
  <2> QED
    BY <2>1, <2>2
<1>3. "exec" \notin Relaxed(rec.pol, body)
  <2>1. \A o \in Relaxed(rec.pol, body) : <<"auth", o>> \in Widenings(rec.pol, body)
    BY DEF Widenings
  <2> QED
    BY <2>1 DEF Forgiven
<1>4. CASE body.auth["exec"] = "none"
  <2>1. ~(Rank[body.auth["exec"]] < Rank[rec.pol.auth["exec"]])
    BY <1>1, <1>3, <1>4 DEF Relaxed
  <2> QED
    BY <1>1, <1>4, <2>1 DEF Rank, Levels
<1>5. CASE act \in Allows(body.acts, Acts)
  <2>1. CASE Star \in rec.pol.acts
    BY <1>5, <2>1 DEF Allows
  <2>2. CASE Star \notin rec.pol.acts
    <3>1. Star \notin body.acts
      BY <1>2, <2>2 DEF Added
    <3>2. body.acts \ rec.pol.acts = {}
      BY <1>2, <2>2, <3>1 DEF Added
    <3> QED
      BY <1>5, <2>2, <3>1, <3>2 DEF Allows
  <2> QED
    BY <2>1, <2>2
<1> QED
  BY <1>4, <1>5 DEF RunsFree

\* It delivers no value that the record does not list, but the caller's own.
LEMMA ForgivenDelivers ==
    ASSUME NEW a \in Agents, NEW rec \in Recs, NEW body \in Policies,
           rec.wild => Star \in rec.pol.env,
           Forgiven(a, rec, Widenings(rec.pol, body))
    PROVE  Delivered(rec, body) \subseteq Allows(rec.pol.env, Names) \cup {n \in Names : Authored(a, n)}
<1>0. Star \notin Names /\ Delivered(rec, body) \subseteq Names
  BY TrustAssumption DEF Delivered, OwnersNames, AgentsNames
<1>1. CASE Star \in rec.pol.env
  BY <1>0, <1>1 DEF Allows
<1>2. CASE Star \notin rec.pol.env
  <2>1. \A x \in Added("env", rec.pol.env, body.env) : x[2] \in Names /\ Authored(a, x[2])
    BY DEF Forgiven, Widenings
  <2>2. Star \notin body.env
    BY <1>0, <1>2, <2>1 DEF Added
  <2>3. \A n \in body.env \ rec.pol.env : Authored(a, n)
    <3> SUFFICES ASSUME NEW n \in body.env \ rec.pol.env PROVE Authored(a, n)
      OBVIOUS
    <3>1. <<"env", n>> \in Added("env", rec.pol.env, body.env)
      BY <1>2, <2>2 DEF Added
    <3>2. <<"env", n>>[2] = n
      OBVIOUS
    <3> QED
      BY <2>1, <3>1, <3>2
  <2>4. Delivered(rec, body) \subseteq body.env \cap Names
    BY <1>2, <2>2 DEF Delivered, Allows, AgentsNames, OwnersNames
  <2> QED
    BY <1>2, <2>3, <2>4 DEF Allows
<1> QED
  BY <1>1, <1>2

\* It pins the scope of its record.
LEMMA ForgivenKeepsScope ==
    ASSUME NEW a \in Agents, NEW rec, NEW body, Forgiven(a, rec, Widenings(rec.pol, body))
    PROVE  body.scope = rec.pol.scope
<1>1. ASSUME body.scope # rec.pol.scope PROVE FALSE
  <2>1. <<"scope", body.scope>> \in Widenings(rec.pol, body)
    BY <1>1 DEF Widenings
  <2>2. <<"scope", body.scope>>[1] = "env"
    BY <2>1 DEF Forgiven
  <2> QED
    BY <2>2
<1> QED
  BY <1>1

\* What verification lets through is within the record it was compared with:
\* an unchanged file is the record, a changed one is forgiven its widenings.
LEMMA VerifiedWithin ==
    ASSUME NEW a \in Agents, NEW rec \in Recs, NEW body \in Policies, NEW act,
           rec.wild => Star \in rec.pol.env,
           rec.pol = body \/ Forgiven(a, rec, Widenings(rec.pol, body))
    PROVE  /\ body.scope = rec.pol.scope
           /\ Delivered(rec, body) \subseteq
                 Allows(rec.pol.env, Names) \cup {n \in Names : Authored(a, n)}
           /\ RunsFree(body, act) =>
                 act \in Allows(rec.pol.acts, Acts) \/ rec.pol.auth["exec"] = "none"
<1>1. CASE rec.pol = body
  BY <1>1 DEF Delivered, Allows, AgentsNames, OwnersNames, RunsFree
<1>2. CASE Forgiven(a, rec, Widenings(rec.pol, body))
  BY <1>2, ForgivenDelivers, ForgivenWidensNoCommand, ForgivenKeepsScope
<1> QED
  BY <1>1, <1>2

\* The run of a step, with its file.
RunFits == run # NoRun => run.path \in Paths

\* A run is compared with the record of the moment, which is the owner's.
LEMMA RunStep ==
    ASSUME TrustInv, RunFits, RunWithinGrant, [TNext]_tvars
    PROVE  RunFits' /\ RunWithinGrant'
<1>1. \A p \in Paths : ever[p] \subseteq ever'[p]
  <2>1. ASSUME NEW c \in Conns, PutBuild(c) PROVE \A p \in Paths : ever[p] \subseteq ever'[p]
    BY <2>1 DEF PutBuild, TrustInv, TrustTypeOK
  <2> QED
    BY <2>1
    DEF TNext, Owner, Step, tvars, GrantRefused, EditFile, GrantRead, RemoveLoad, BynWrite,
        DecideStart, OwnerPut, PutLoad, SaveTmp, SaveRename, DecideRecord, RevokeACL,
        RefreshLoad, RefreshNext, Deny, AgentPut, ExecRead, ExecVerify, ExecClash, Restart
<1>2. CASE Quiet
  BY <1>2 DEF Quiet, RunFits, RunWithinGrant
<1>3. CASE UNCHANGED run
  <2>1. CASE run = NoRun
    BY <1>3, <2>1 DEF RunFits, RunWithinGrant
  <2>2. CASE run # NoRun
    BY <1>1, <1>3, <2>2 DEF RunFits, RunWithinGrant
  <2> QED
    BY <2>1, <2>2
<1>4. ASSUME NEW a \in Agents, NEW req, ask[a] # AskIdle, ExecRuns(a, req), UNCHANGED ever
      PROVE  RunFits' /\ RunWithinGrant'
  <2> DEFINE x == ask[a]
             rec == store[x.path]
             act == Resolve(x.body, req)
  <2>1. /\ x.path \in Paths /\ x.body \in Policies
    BY <1>4 DEF TrustInv, TrustTypeOK, AskStates
  <2>2. /\ rec # NoRec /\ rec \in Recs
        /\ rec.pol \in ever[x.path] /\ (rec.wild => Star \in rec.pol.env)
    BY <1>4, <2>1 DEF ExecRuns, TrustInv, RecordsFit, Fits, FitsIn, Stores
  <2>3. rec.pol = x.body \/ Forgiven(a, rec, Widenings(rec.pol, x.body))
    BY <1>4, <2>2 DEF ExecRuns, Asks, Changed
  <2>4. PICK password \in BOOLEAN :
             /\ password \/ RunsFree(x.body, act)
             /\ run' = [path |-> x.path, act |-> act, free |-> ~password, body |-> x.body,
                        got |-> Delivered(rec, x.body), own |-> {n \in Names : Authored(a, n)},
                        wild |-> rec.wild]
    BY <1>4 DEF ExecRuns
  <2> HIDE DEF x, rec, act
  <2>5. /\ x.body.scope = rec.pol.scope
        /\ Delivered(rec, x.body) \subseteq
              Allows(rec.pol.env, Names) \cup {n \in Names : Authored(a, n)}
        /\ RunsFree(x.body, act) =>
              act \in Allows(rec.pol.acts, Acts) \/ rec.pol.auth["exec"] = "none"
    BY <2>1, <2>2, <2>3, VerifiedWithin
  <2>6. /\ run'.path = x.path /\ run'.act = act /\ run'.free = ~password
        /\ run'.body = x.body
        /\ run'.got = Delivered(rec, x.body) /\ run'.own = {n \in Names : Authored(a, n)}
    BY <2>4, Zenon
  <2>7. RunFits'
    BY <2>1, <2>6 DEF RunFits
  <2>8. /\ run'.body.scope = rec.pol.scope
        /\ run'.got \subseteq Allows(rec.pol.env, Names) \cup run'.own
        /\ run'.free => \/ run'.act \in Allows(rec.pol.acts, Acts)
                        \/ rec.pol.auth["exec"] = "none"
    BY <2>4, <2>5, <2>6
  <2>9. rec.pol \in ever'[run'.path]
    BY <1>4, <2>2, <2>6
  <2> QED
    BY <2>7, <2>8, <2>9 DEF RunWithinGrant, Allows
<1>5. ASSUME NEW a \in Agents, ExecVerify(a) PROVE RunFits' /\ RunWithinGrant'
  <2>1. ask[a] # AskIdle /\ UNCHANGED ever
    BY <1>5 DEF ExecVerify
  <2>2. PICK req \in Acts \cup Aliases : ExecStops(a, req) \/ ExecRuns(a, req)
    BY <1>5 DEF ExecVerify
  <2>3. CASE ExecStops(a, req)
    BY <1>2, <2>3 DEF ExecStops
  <2> QED
    BY <1>4, <2>1, <2>2, <2>3
<1>6. ASSUME NEW c \in Conns, Owner(c) \/ Step(c) PROVE Quiet
  BY <1>6 DEF Owner, Step, GrantRead, RemoveLoad, BynWrite, DecideStart, OwnerPut, PutBuild,
              PutLoad, SaveTmp, SaveRename, DecideRecord, RevokeACL, RefreshLoad, RefreshNext
<1> QED
  BY <1>2, <1>3, <1>5, <1>6
  DEF TNext, tvars, GrantRefused, EditFile, Deny, AgentPut, ExecRead, ExecClash, Restart

\* The scope a run works in, what it is given, and a command that ran without the
\* password, the owner granted that file, the caller's own values excepted
\* (authorizeExec).
THEOREM RunWithinGrantHolds == TSpec => []RunWithinGrant
<1>1. TInit => RunFits /\ RunWithinGrant
  BY DEF TInit, RunFits, RunWithinGrant
<1>2. TrustInv /\ RunFits /\ RunWithinGrant /\ [TNext]_tvars => RunFits' /\ RunWithinGrant'
  BY RunStep
<1> QED
  BY <1>1, <1>2, TrustInvariant, PTL DEF TSpec
=============================================================================
