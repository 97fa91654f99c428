---------------------------- MODULE HistoryProofs ----------------------------
(***************************************************************************)
(* Proofs about what a vault remembers, for every number of connections,   *)
(* environments, names and notes.                                          *)
(*                                                                         *)
(* The invariant is in three parts: rows have ids of their own, below the  *)
(* sequence they come from (EntriesSound); an annotation is about the row  *)
(* that has the id it names, and its trail is well formed                  *)
(* (AnnotationsSound); a request under way carries an object of which the  *)
(* same is true (RequestsSound).  The last is what the order resolve,      *)
(* count, seal, insert needs: a row that goes takes its id with it.  One   *)
(* lemma per statement, each for the invariant and for what it adds to the *)
(* history.                                                                *)
(***************************************************************************)
EXTENDS History, SequenceTheorems, FiniteSetTheorems, TLAPS

-----------------------------------------------------------------------------
(* The invariant.                                                          *)

\* Who writes.
Authors == {"owner", "agent"}

\* The versions there can be.
Wordings == [op : {"create", "edit", "delete"}, text : Nat, by : Authors]

\* Ids are below their sequences, and no two rows share one.
EntriesSound ==
    /\ seq = [entry |-> seq.entry, env |-> seq.env, ann |-> seq.ann, snap |-> seq.snap, run |-> seq.run]
    /\ seq.entry \in Nat /\ seq.ann \in Nat /\ clock \in Nat
    /\ DOMAIN rows = Slots
    /\ \A s \in Slots : rows[s] = NoRow \/ rows[s].id \in 1..seq.entry
    /\ \A s, t \in Slots : rows[s].id = rows[t].id /\ rows[s].id # 0 => s = t

\* What is said of an object is said of the row that has its id, if any has.
About(obj, gen) ==
    /\ obj = <<obj[1], obj[2]>> /\ obj[1] \in {"entry", "env"}
    /\ obj[1] = "entry" =>
          obj[2] \in 1..seq.entry /\ \A s \in Slots : rows[s].id = obj[2] => rows[s].gen = gen

\* The last version that is not a removal is the one at k.
IsWording(vs, k) ==
    k \in DOMAIN vs /\ vs[k].op # "delete" /\ \A j \in DOMAIN vs : j > k => vs[j].op = "delete"

\* A trail that says something.
HasWording(vs) == \E k \in DOMAIN vs : IsWording(vs, k)

\* The trail of an annotation is well formed and ends in what is shown.
Told(a) ==
    /\ a.versions \in Seq(Wordings) /\ a.versions # <<>>
    /\ a.versions[1].op = "create" /\ HasWording(a.versions)
    /\ a.text = LastWording(a.versions).text
    /\ a.kind = "description" =>
          /\ a.by = LastWording(a.versions).by
          /\ a.live <=> Last(a.versions).op # "delete"
          /\ \A k \in 1..Len(a.versions) - 1 : a.versions[k].op # "delete"

\* The fields of an annotation row.
IsAnnotation(a) ==
    a = [obj |-> a.obj, kind |-> a.kind, domain |-> a.domain, text |-> a.text, by |-> a.by,
         live |-> a.live, gen |-> a.gen, versions |-> a.versions]

\* An annotation that is about its row and tells its story.
AnnotationSound(a) == IsAnnotation(a) /\ About(a.obj, a.gen) /\ Told(a)

\* Ids are below their sequence, and every annotation is sound.
AnnotationsSound ==
    /\ DOMAIN ann \subseteq 1..seq.ann
    /\ \A i \in DOMAIN ann : AnnotationSound(ann[i])

\* Where an annotation request can be.
NotePcs == {"set", "getdescription", "count", "insert", "editread", "update", "remove"}

\* An annotation request in the middle of its statements.
IsNoteRequest(q) ==
    /\ q.pc \in NotePcs
    /\ q = [pc |-> q.pc, kind |-> q.kind, by |-> q.by, text |-> q.text, obj |-> q.obj,
            gen |-> q.gen, id |-> q.id]
    /\ q.by \in Authors /\ q.text \in Nat

\* A put that has something to say of its name.
IsPutRequest(q) ==
    /\ q.pc = "resolve"
    /\ q = [pc |-> q.pc, by |-> q.by, text |-> q.text, env |-> q.env, name |-> q.name,
            carries |-> q.carries]
    /\ q.by \in Authors /\ q.text \in Nat /\ q.env \in Envs /\ q.name \in Names

\* A run that is being recorded.
IsRunRequest(q) ==
    \/ /\ q.pc = "runscope"
       /\ q = [pc |-> q.pc, env |-> q.env, names |-> q.names, held |-> q.held, opened |-> q.opened]
    \/ /\ q.pc = "runrefs"
       /\ q = [pc |-> q.pc, envId |-> q.envId, todo |-> q.todo, refs |-> q.refs, held |-> q.held,
               opened |-> q.opened]

\* A request that is going to write carries the object it resolved and the row it
\* meant by it, and an edit the id of a note.
RequestSound(q) ==
    /\ q = Idle \/ IsNoteRequest(q) \/ IsPutRequest(q) \/ IsRunRequest(q)
    /\ q.pc \in {"set", "count", "insert"} => About(q.obj, q.gen)
    /\ q.pc = "update" => q.id \in 1..seq.ann /\ (q.id \in DOMAIN ann => ann[q.id].kind = "note")

\* Every connection is idle or in the middle of a sound request.
RequestsSound == DOMAIN conn = Conns /\ \A c \in Conns : RequestSound(conn[c])

\* The inductive invariant.
HistoryInv == EntriesSound /\ AnnotationsSound /\ RequestsSound

-----------------------------------------------------------------------------
(* Trails.                                                                 *)

\* The last wording is the one the trail has at that place.
LEMMA WordingIs ==
    ASSUME NEW s, DOMAIN s \subseteq Nat, NEW l, IsWording(s, l)
    PROVE  HasWording(s) /\ LastWording(s) = s[l]
  <1>. DEFINE m == CHOOSE i \in DOMAIN s : s[i].op # "delete" /\ \A j \in DOMAIN s : j > i => s[j].op = "delete"
  <1>1. m \in DOMAIN s /\ s[m].op # "delete" /\ \A j \in DOMAIN s : j > m => s[j].op = "delete"
    BY DEF IsWording
  <1>2. LastWording(s) = s[m]
    BY DEF LastWording
  <1>. HIDE DEF m
  <1>3. m = l
    BY <1>1 DEF IsWording
  <1>. QED
    BY <1>2, <1>3 DEF HasWording, IsWording

\* A trail that a version is added to.
LEMMA Appended ==
    ASSUME NEW vs \in Seq(Wordings), vs # <<>>, HasWording(vs), NEW v \in Wordings
    PROVE  LET new == Append(vs, v)
           IN /\ new \in Seq(Wordings) /\ new # <<>> /\ Len(new) = Len(vs) + 1
              /\ \A k \in 1..Len(vs) : new[k] = vs[k]
              /\ Len(vs) \in Nat /\ 1 \in 1..Len(vs)
              /\ Last(new) = v /\ new[Len(vs) + 1] = v /\ Last(vs) = vs[Len(vs)]
              /\ HasWording(new)
              /\ LastWording(new) = IF v.op = "delete" THEN LastWording(vs) ELSE v
              /\ IsPrefix(vs, new)
  <1>. DEFINE new == Append(vs, v)
  <1>1. /\ new \in Seq(Wordings) /\ Len(new) = Len(vs) + 1 /\ new # <<>>
        /\ \A k \in 1..Len(vs) : new[k] = vs[k]
        /\ new[Len(vs) + 1] = v /\ Len(vs) \in Nat /\ Len(vs) > 0
        /\ DOMAIN vs = 1..Len(vs) /\ DOMAIN new = 1..(Len(vs) + 1)
    OBVIOUS
  <1>. PICK k \in DOMAIN vs : IsWording(vs, k)
    BY DEF HasWording
  <1>4. LastWording(vs) = vs[k]
    BY <1>1, WordingIs
  <1>5. ASSUME v.op = "delete" PROVE HasWording(new) /\ LastWording(new) = LastWording(vs)
    <2>1. IsWording(new, k)
      BY <1>1, <1>5 DEF IsWording
    <2>2. new[k] = vs[k] /\ DOMAIN new \subseteq Nat
      BY <1>1
    <2>. HIDE DEF new
    <2>3. HasWording(new) /\ LastWording(new) = new[k]
      BY WordingIs, <2>1, <2>2
    <2>. QED
      BY <1>4, <1>5, <2>2, <2>3
  <1>6. ASSUME v.op # "delete" PROVE HasWording(new) /\ LastWording(new) = v
    <2>1. IsWording(new, Len(vs) + 1) /\ DOMAIN new \subseteq Nat
      BY <1>1, <1>6 DEF IsWording
    <2>. HIDE DEF new
    <2>2. HasWording(new) /\ LastWording(new) = new[Len(vs) + 1]
      BY WordingIs, <2>1
    <2>. QED
      BY <1>1, <1>6, <2>2
  <1>7. IsPrefix(vs, new)
    <2>1. \A j \in 1..Len(vs) : new[j] = vs[j]
      BY <1>1
    <2>2. SubSeq(vs, 1, Len(vs)) = [j \in 1..Len(vs) |-> vs[j]]
      BY <1>1
    <2>3. SubSeq(new, 1, Len(vs)) = [j \in 1..Len(vs) |-> new[j]]
      BY <1>1
    <2>. HIDE DEF new
    <2>4. SubSeq(vs, 1, Len(vs)) = SubSeq(new, 1, Len(vs))
      BY <2>1, <2>2, <2>3
    <2>. QED
      BY <1>1, <2>4 DEF IsPrefix
  <1>8. Last(new) = v /\ Last(vs) = vs[Len(vs)]
    BY <1>1 DEF Last
  <1>. HIDE DEF new
  <1>9. /\ HasWording(new)
        /\ LastWording(new) = IF v.op = "delete" THEN LastWording(vs) ELSE v
    BY <1>5, <1>6
  <1>10. 1 \in 1..Len(vs)
    BY <1>1
  <1>. QED
    BY <1>1, <1>7, <1>8, <1>9, <1>10 DEF new

\* A trail that is not added to.
LEMMA SamePrefix ==
    ASSUME NEW vs \in Seq(Wordings)
    PROVE  IsPrefix(vs, vs)
  BY DEF IsPrefix

\* The trail of a new annotation.
LEMMA Created ==
    ASSUME NEW v \in Wordings, v.op = "create"
    PROVE  /\ <<v>> \in Seq(Wordings) /\ <<v>> # <<>> /\ <<v>>[1] = v /\ Last(<<v>>) = v
           /\ HasWording(<<v>>) /\ LastWording(<<v>>) = v /\ Len(<<v>>) = 1
  <1>. DEFINE s == <<v>>
  <1>1. s \in Seq(Wordings) /\ s # <<>> /\ s[1] = v /\ Len(s) = 1 /\ DOMAIN s = {1}
    OBVIOUS
  <1>. HIDE DEF s
  <1>2. Last(s) = v
    BY <1>1 DEF Last
  <1>3. IsWording(s, 1) /\ DOMAIN s \subseteq Nat
    BY <1>1 DEF IsWording
  <1>4. HasWording(s) /\ LastWording(s) = v
    BY <1>1, <1>3, WordingIs
  <1>. QED
    BY <1>1, <1>2, <1>3, <1>4 DEF s

-----------------------------------------------------------------------------
(* What a step may do to rows, annotations and requests.                   *)

\* A name resolves to the row its value comes from.
LEMMA EntryResolves ==
    ASSUME EntriesSound, NEW e \in Envs, NEW n \in Names, EntryObjectRef(e, n) # NoObject
    PROVE  /\ About(EntryObjectRef(e, n), GenOf(EntryObjectRef(e, n)))
           /\ EntryObjectRef(e, n)[1] = "entry"
           /\ \E s \in Slots : rows[s].id = EntryObjectRef(e, n)[2] /\ GenOf(EntryObjectRef(e, n)) = rows[s].gen
  <1>. DEFINE v == CHOOSE x \in Visible(e, n) : TRUE
              s == <<v, n>>
              k == rows[s].id
              obj == EntryObjectRef(e, n)
              S == {x \in Slots : obj = <<"entry", rows[x].id>>}
              x0 == CHOOSE x \in S : TRUE
  <1>1. Visible(e, n) # {} /\ obj = <<"entry", k>>
    BY DEF EntryObjectRef
  <1>2. v \in Visible(e, n)
    BY <1>1
  <1>3. s \in Slots /\ rows[s] # NoRow
    <2>. HIDE DEF v
    <2>1. v \in Envs /\ rows[<<v, n>>] # NoRow
      BY <1>2, HistoryConstants DEF Visible
    <2>. QED
      BY <2>1 DEF Slots
  <1>. HIDE DEF v, obj
  <1>4. k \in 1..seq.entry
    BY <1>3 DEF EntriesSound
  <1>. HIDE DEF s
  <1>5. s \in S
    BY <1>1, <1>3
  <1>6. GenOf(obj) = rows[x0].gen /\ x0 \in S
    BY <1>5 DEF GenOf
  <1>. HIDE DEF x0
  <1>7. x0 \in Slots /\ rows[x0].id = k
    BY <1>1, <1>6
  <1>. HIDE DEF k
  <1>8. \A t \in Slots : rows[t].id = k => t = x0
    BY <1>4, <1>7 DEF EntriesSound
  <1>9. About(obj, GenOf(obj))
    BY <1>1, <1>4, <1>6, <1>8 DEF About
  <1>. QED
    BY <1>1, <1>6, <1>7, <1>9 DEF obj

\* So does the target of an annotation request.
LEMMA TargetResolves ==
    ASSUME EntriesSound, NEW t \in Targets, ResolveTarget(t) # NoObject
    PROVE  About(ResolveTarget(t), GenOf(ResolveTarget(t)))
  <1>1. CASE t.type = "entry"
    BY <1>1, EntryResolves, HistoryConstants DEF ResolveTarget
  <1>2. CASE t.type # "entry"
    <2>1. ResolveTarget(t) = <<"env", envs[t.env]>>
      BY <1>2 DEF ResolveTarget, EnvObjectRef
    <2>. QED
      BY <2>1 DEF About
  <1>. QED
    BY <1>1, <1>2

\* Rows go, or come under a new id; none takes the id of another.
RowsMoveOn ==
    /\ seq.entry <= seq'.entry /\ seq'.entry \in Nat
    /\ \A s \in Slots : rows'[s].id \in 1..seq.entry => rows'[s].id = rows[s].id /\ rows'[s].gen = rows[s].gen

\* What an object is about stays so while rows move on.
LEMMA AboutStays ==
    ASSUME EntriesSound, RowsMoveOn, NEW obj, NEW gen, About(obj, gen)
    PROVE  About(obj, gen)'
  <1>1. /\ obj = <<obj[1], obj[2]>> /\ obj[1] \in {"entry", "env"}
        /\ obj[1] = "entry" => obj[2] \in 1..seq.entry
    BY DEF About
  <1>2. obj[1] = "entry" => obj[2] \in 1..seq'.entry
    BY <1>1 DEF EntriesSound, RowsMoveOn
  <1>3. obj[1] = "entry" => \A s \in Slots : rows'[s].id = obj[2] => rows'[s].gen = gen
    BY <1>1 DEF RowsMoveOn, About
  <1>. QED
    BY <1>1, <1>2, <1>3 DEF About

\* An annotation that is as it was.
LEMMA AnnotationStays ==
    ASSUME EntriesSound, RowsMoveOn, NEW a, AnnotationSound(a)
    PROVE  AnnotationSound(a)'
  <1>1. About(a.obj, a.gen)'
    BY AboutStays DEF AnnotationSound
  <1>2. IsAnnotation(a)' /\ Told(a)'
    BY DEF AnnotationSound, IsAnnotation, Told
  <1>. QED
    BY <1>1, <1>2 DEF AnnotationSound

\* Annotations that are only swept.
LEMMA AnnotationsStay ==
    ASSUME EntriesSound, AnnotationsSound, RowsMoveOn, seq'.ann = seq.ann, DOMAIN ann' \subseteq DOMAIN ann,
           \A i \in DOMAIN ann' : ann'[i] = ann[i]
    PROVE  AnnotationsSound'
  <1>1. \A i \in DOMAIN ann' : AnnotationSound(ann[i])'
    <2>. TAKE i \in DOMAIN ann'
    <2>. PICK a : a = ann[i]
      OBVIOUS
    <2>1. AnnotationSound(a)'
      BY AnnotationStays DEF AnnotationsSound
    <2>. QED
      BY <2>1
  <1>. QED
    BY <1>1 DEF AnnotationsSound

\* Annotations keep their kind, and new ones their ids to themselves.
KindsStay ==
    /\ seq.ann <= seq'.ann /\ seq'.ann \in Nat
    /\ \A i \in DOMAIN ann' : i \in 1..seq.ann => i \in DOMAIN ann /\ ann'[i].kind = ann[i].kind

\* A request under way stays sound: what it resolved cannot become another row.
LEMMA RequestStays ==
    ASSUME EntriesSound, RowsMoveOn, KindsStay, NEW q, RequestSound(q)
    PROVE  RequestSound(q)'
  <1>1. q.pc \in {"set", "count", "insert"} => About(q.obj, q.gen)'
    BY AboutStays DEF RequestSound
  <1>2. q = Idle \/ IsNoteRequest(q)' \/ IsPutRequest(q)' \/ IsRunRequest(q)'
    BY DEF RequestSound, IsNoteRequest, IsPutRequest, IsRunRequest
  <1>3. q.pc = "update" => q.id \in 1..seq'.ann /\ (q.id \in DOMAIN ann' => ann'[q.id].kind = "note")
    BY DEF RequestSound, KindsStay, EntriesSound
  <1>. QED
    BY <1>1, <1>2, <1>3 DEF RequestSound

\* Only the connection c moves, to the request q.
Moves(c, q) == DOMAIN conn' = Conns /\ conn'[c] = q /\ \A d \in Conns : d # c => conn'[d] = conn[d]

\* A request replaced by another.
LEMMA MovesBy ==
    ASSUME RequestsSound, NEW c \in Conns, NEW q, conn' = [conn EXCEPT ![c] = q]
    PROVE  Moves(c, q)
  BY DEF RequestsSound, Moves

\* One request moves and the others stay sound.
LEMMA RequestsStay ==
    ASSUME EntriesSound, RequestsSound, RowsMoveOn, KindsStay, NEW c \in Conns, NEW q,
           Moves(c, q), RequestSound(q)'
    PROVE  RequestsSound'
  <1>1. DOMAIN conn' = Conns /\ conn'[c] = q /\ \A d \in Conns : d # c => conn'[d] = conn[d]
    BY DEF Moves
  <1>2. ASSUME NEW d \in Conns, d # c PROVE RequestSound(conn[d])'
    <2>. PICK r : r = conn[d]
      OBVIOUS
    <2>1. RequestSound(r)'
      BY RequestStays DEF RequestsSound
    <2>. QED
      BY <1>1, <1>2, <2>1
  <1>3. RequestSound(conn[c])'
    BY <1>1
  <1>. QED
    BY <1>1, <1>2, <1>3 DEF RequestsSound

\* A connection that waits for a request.
LEMMA IdleIsSound == RequestSound(Idle)
  <1>1. Idle.pc = "idle"
    BY DEF Idle
  <1>. QED
    BY <1>1 DEF RequestSound

-----------------------------------------------------------------------------
(* Statements that only read.                                              *)

\* What a step leaves of the history: versions are only added, and an annotation
\* goes only with its object.
Grows ==
    \A i \in DOMAIN ann :
        IF i \in DOMAIN ann' THEN IsPrefix(ann[i].versions, ann'[i].versions)
        ELSE ~ObjectExists(ann[i].obj, rows', envs')

\* A step of a request that only reads.
LEMMA Reads ==
    ASSUME HistoryInv, rows' = rows, ann' = ann, clock' \in Nat,
           seq' = [entry |-> seq'.entry, env |-> seq'.env, ann |-> seq'.ann, snap |-> seq'.snap, run |-> seq'.run],
           seq'.entry = seq.entry, seq'.ann = seq.ann
    PROVE  EntriesSound' /\ AnnotationsSound' /\ RowsMoveOn /\ KindsStay /\ Grows
  <1>1. EntriesSound'
    BY DEF HistoryInv, EntriesSound
  <1>2. RowsMoveOn /\ KindsStay
    BY DEF RowsMoveOn, KindsStay, HistoryInv, EntriesSound
  <1>3. AnnotationsSound'
    BY <1>2, AnnotationsStay DEF HistoryInv
  <1>4. Grows
    <2>1. \A i \in DOMAIN ann : ann[i].versions \in Seq(Wordings)
      BY DEF HistoryInv, AnnotationsSound, AnnotationSound, Told
    <2>. QED
      BY <2>1, SamePrefix DEF Grows
  <1>. QED
    BY <1>1, <1>2, <1>3, <1>4

\* A step that reads, and goes on.
LEMMA ReadsAndMoves ==
    ASSUME HistoryInv, NEW c \in Conns, NEW q, Moves(c, q), RequestSound(q),
           rows' = rows, ann' = ann, seq' = seq, clock' \in Nat
    PROVE  HistoryInv' /\ Grows
  <1>1. EntriesSound' /\ AnnotationsSound' /\ RowsMoveOn /\ KindsStay /\ Grows
    <2>1. seq' = [entry |-> seq'.entry, env |-> seq'.env, ann |-> seq'.ann, snap |-> seq'.snap, run |-> seq'.run]
      BY DEF HistoryInv, EntriesSound
    <2>. QED
      BY <2>1, Reads
  <1>2. RequestSound(q)'
    BY <1>1, RequestStays DEF HistoryInv
  <1>3. RequestsSound'
    BY <1>1, <1>2, RequestsStay DEF HistoryInv
  <1>. QED
    BY <1>1, <1>3 DEF HistoryInv

\* What a connection is in the middle of, with its place replaced.
LEMMA NextPlace ==
    ASSUME NEW q, IsNoteRequest(q), NEW pc \in NotePcs
    PROVE  LET u == [q EXCEPT !.pc = pc]
           IN IsNoteRequest(u) /\ u.pc = pc /\ u.obj = q.obj /\ u.gen = q.gen /\ u.id = q.id
  BY DEF IsNoteRequest

\* The same with the id replaced.
LEMMA NextId ==
    ASSUME NEW q, IsNoteRequest(q), NEW i
    PROVE  LET u == [q EXCEPT !.id = i]
           IN IsNoteRequest(u) /\ u.pc = q.pc /\ u.obj = q.obj /\ u.gen = q.gen /\ u.id = i
  BY DEF IsNoteRequest

\* A request that goes on to its next statement.
LEMMA MovesTo ==
    ASSUME HistoryInv, NEW c \in Conns, IsNoteRequest(conn[c]), NEW pc \in NotePcs, Goto(c, pc)
    PROVE  \E u : /\ Moves(c, u) /\ IsNoteRequest(u) /\ u.pc = pc
                  /\ u.obj = conn[c].obj /\ u.gen = conn[c].gen /\ u.id = conn[c].id
  <1>. DEFINE q == conn[c]
              u == [q EXCEPT !.pc = pc]
  <1>1. Moves(c, u)
    BY DEF Goto, Moves, HistoryInv, RequestsSound
  <1>2. IsNoteRequest(u) /\ u.pc = pc /\ u.obj = q.obj /\ u.gen = q.gen /\ u.id = q.id
    BY NextPlace
  <1>. HIDE DEF u
  <1>. QED
    BY <1>1, <1>2

\* The place of a request tells which kind of request it is.
LEMMA NoteRequestAt ==
    ASSUME HistoryInv, NEW c \in Conns, conn[c].pc \in NotePcs
    PROVE  IsNoteRequest(conn[c]) /\ RequestSound(conn[c])
  BY DEF HistoryInv, RequestsSound, RequestSound, IsNoteRequest, IsPutRequest, IsRunRequest, NotePcs, Idle

\* addNote: the count of the notes.
LEMMA NoteCountKeeps ==
    ASSUME HistoryInv, NEW c \in Conns, NoteCount(c)
    PROVE  HistoryInv' /\ Grows
  <1>0. conn[c].pc \in NotePcs /\ "insert" \in NotePcs /\ clock' \in Nat
        /\ rows' = rows /\ ann' = ann /\ seq' = seq
    BY DEF NoteCount, NotePcs, tables, HistoryInv, EntriesSound
  <1>1. IsNoteRequest(conn[c]) /\ RequestSound(conn[c])
    BY <1>0, NoteRequestAt
  <1>2. \E u : Moves(c, u) /\ RequestSound(u)
    <2>1. CASE Done(c)
      BY <2>1, IdleIsSound, MovesBy DEF Done, HistoryInv
    <2>2. CASE Goto(c, "insert")
      <3>. PICK u : /\ Moves(c, u) /\ IsNoteRequest(u) /\ u.pc = "insert"
                    /\ u.obj = conn[c].obj /\ u.gen = conn[c].gen
        BY <1>0, <1>1, <2>2, MovesTo
      <3>1. About(conn[c].obj, conn[c].gen)
        BY <1>1 DEF RequestSound, NoteCount
      <3>. QED
        BY <3>1 DEF RequestSound
    <2>. QED
      BY <2>1, <2>2 DEF NoteCount
  <1>. QED
    BY <1>0, <1>2, ReadsAndMoves

\* EditNote: the read of the live row.
LEMMA EditNoteReadKeeps ==
    ASSUME HistoryInv, NEW c \in Conns, EditNoteRead(c)
    PROVE  HistoryInv' /\ Grows
  <1>0. conn[c].pc \in NotePcs /\ "update" \in NotePcs /\ clock' \in Nat
        /\ rows' = rows /\ ann' = ann /\ seq' = seq
    BY DEF EditNoteRead, NotePcs, tables, HistoryInv, EntriesSound
  <1>1. IsNoteRequest(conn[c])
    BY <1>0, NoteRequestAt
  <1>2. \E u : Moves(c, u) /\ RequestSound(u)
    <2>1. CASE Done(c)
      BY <2>1, IdleIsSound, MovesBy DEF Done, HistoryInv
    <2>2. CASE Goto(c, "update") /\ conn[c].id \in LiveNotes(conn[c].obj)
      <3>. PICK u : /\ Moves(c, u) /\ IsNoteRequest(u) /\ u.pc = "update"
                    /\ u.id = conn[c].id
        BY <1>0, <1>1, <2>2, MovesTo
      <3>1. u.id \in 1..seq.ann /\ ann[u.id].kind = "note"
        BY <2>2 DEF LiveNotes, IsLive, HistoryInv, AnnotationsSound
      <3>. QED
        BY <3>1 DEF RequestSound
    <2>. QED
      BY <2>1, <2>2 DEF EditNoteRead
  <1>. QED
    BY <1>0, <1>2, ReadsAndMoves

\* Clearing a description reads its id.
LEMMA GetDescriptionKeeps ==
    ASSUME HistoryInv, NEW c \in Conns, GetDescription(c)
    PROVE  HistoryInv' /\ Grows
  <1>0. conn[c].pc \in NotePcs /\ "remove" \in NotePcs /\ clock' \in Nat
        /\ rows' = rows /\ ann' = ann /\ seq' = seq
    BY DEF GetDescription, NotePcs, tables, HistoryInv, EntriesSound
  <1>1. IsNoteRequest(conn[c])
    BY <1>0, NoteRequestAt
  <1>2. \E u : Moves(c, u) /\ RequestSound(u)
    <2>1. CASE Done(c)
      BY <2>1, IdleIsSound, MovesBy DEF Done, HistoryInv
    <2>2. ASSUME NEW i, conn' = [conn EXCEPT ![c].pc = "remove", ![c].id = i]
          PROVE  \E u : Moves(c, u) /\ RequestSound(u)
      <3>. DEFINE q == conn[c]
                  u == [q EXCEPT !.pc = "remove"]
                  w == [u EXCEPT !.id = i]
      <3>1. /\ conn'[c] = [q EXCEPT !.pc = "remove", !.id = i]
            /\ DOMAIN conn' = Conns /\ \A d \in Conns : d # c => conn'[d] = conn[d]
        BY <2>2 DEF HistoryInv, RequestsSound
      <3>2. conn'[c] = w
        <4>. HIDE DEF q
        <4>. QED
          BY <3>1
      <3>3. IsNoteRequest(u) /\ u.pc = "remove"
        BY <1>0, <1>1, NextPlace
      <3>. HIDE DEF u
      <3>4. IsNoteRequest(w) /\ w.pc = "remove"
        BY <3>3, NextId
      <3>. HIDE DEF w
      <3>5. RequestSound(w) /\ Moves(c, w)
        BY <3>1, <3>2, <3>4 DEF RequestSound, Moves
      <3>. QED
        BY <3>5
    <2>. QED
      BY <2>1, <2>2 DEF GetDescription
  <1>. QED
    BY <1>0, <1>2, ReadsAndMoves

-----------------------------------------------------------------------------
(* Statements that write an annotation.                                    *)

\* An annotation that is written.
LEMMA WrittenIsSound ==
    ASSUME NEW obj, NEW gen, About(obj, gen), NEW kind, NEW domain, NEW text \in Nat, NEW by \in Authors
    PROVE  AnnotationSound(Annotated(obj, kind, domain, text, by, gen))
           /\ Annotated(obj, kind, domain, text, by, gen).kind = kind
  <1>. DEFINE v == Version("create", text, by)
              a == Annotated(obj, kind, domain, text, by, gen)
  <1>1. v \in Wordings /\ v.op = "create" /\ v.text = text /\ v.by = by
    BY DEF Version, Wordings
  <1>2. /\ IsAnnotation(a) /\ a.obj = obj /\ a.gen = gen /\ a.text = text /\ a.by = by
        /\ a.live = TRUE /\ a.versions = <<v>> /\ a.kind = kind
    BY DEF Annotated, IsAnnotation
  <1>. HIDE DEF v, a
  <1>3. /\ <<v>> \in Seq(Wordings) /\ <<v>> # <<>> /\ <<v>>[1] = v /\ Last(<<v>>) = v
        /\ HasWording(<<v>>) /\ LastWording(<<v>>) = v /\ Len(<<v>>) = 1
    BY <1>1, Created
  <1>4. Told(a)
    BY <1>1, <1>2, <1>3 DEF Told
  <1>. QED
    BY <1>2, <1>4 DEF AnnotationSound, a

\* insertAnnotation: a row under an id of its own.
LEMMA Inserts ==
    ASSUME HistoryInv, NEW row, AnnotationSound(row), InsertAnnotation(row), rows' = rows, clock' = clock
    PROVE  EntriesSound' /\ AnnotationsSound' /\ RowsMoveOn /\ KindsStay /\ Grows
  <1>. DEFINE i == seq.ann + 1
  <1>1. ann' = [j \in DOMAIN ann \cup {i} |-> IF j = i THEN row ELSE ann[j]] /\ seq' = [seq EXCEPT !.ann = i]
    BY DEF InsertAnnotation, NewId
  <1>2. seq.ann \in Nat /\ i \notin DOMAIN ann /\ DOMAIN ann \subseteq 1..seq.ann
    BY DEF HistoryInv, EntriesSound, AnnotationsSound
  <1>3. /\ seq' = [entry |-> seq'.entry, env |-> seq'.env, ann |-> seq'.ann, snap |-> seq'.snap, run |-> seq'.run]
        /\ seq'.entry = seq.entry /\ seq'.ann = i
    BY <1>1 DEF HistoryInv, EntriesSound
  <1>4. EntriesSound'
    BY <1>2, <1>3 DEF HistoryInv, EntriesSound
  <1>5. RowsMoveOn /\ KindsStay
    BY <1>1, <1>2, <1>3 DEF RowsMoveOn, KindsStay, HistoryInv, EntriesSound
  <1>6. \A j \in DOMAIN ann' : AnnotationSound(ann[j])'
    <2>. TAKE j \in DOMAIN ann'
    <2>. PICK a : a = ann'[j]
      OBVIOUS
    <2>1. AnnotationSound(a)
      BY <1>1 DEF HistoryInv, AnnotationsSound
    <2>2. AnnotationSound(a)'
      BY <1>5, <2>1, AnnotationStays DEF HistoryInv
    <2>. QED
      BY <2>2
  <1>7. AnnotationsSound'
    BY <1>1, <1>2, <1>3, <1>6 DEF AnnotationsSound
  <1>8. Grows
    <2>1. \A j \in DOMAIN ann : ann[j].versions \in Seq(Wordings)
      BY DEF HistoryInv, AnnotationsSound, AnnotationSound, Told
    <2>. QED
      BY <1>1, <1>2, <2>1, SamePrefix DEF Grows
  <1>. QED
    BY <1>4, <1>5, <1>7, <1>8

\* One annotation of its kind in the place of another.
LEMMA Rewrites ==
    ASSUME HistoryInv, NEW i \in DOMAIN ann, NEW a, AnnotationSound(a), a.kind = ann[i].kind,
           IsPrefix(ann[i].versions, a.versions),
           DOMAIN ann' = DOMAIN ann, ann'[i] = a, \A j \in DOMAIN ann : j # i => ann'[j] = ann[j],
           rows' = rows, seq' = seq, clock' = clock
    PROVE  EntriesSound' /\ AnnotationsSound' /\ RowsMoveOn /\ KindsStay /\ Grows
  <1>1. EntriesSound'
    BY DEF HistoryInv, EntriesSound
  <1>2. RowsMoveOn /\ KindsStay
    BY DEF RowsMoveOn, KindsStay, HistoryInv, EntriesSound
  <1>3. \A j \in DOMAIN ann' : AnnotationSound(ann[j])'
    <2>. TAKE j \in DOMAIN ann'
    <2>. PICK b : b = ann'[j]
      OBVIOUS
    <2>1. AnnotationSound(b)
      BY DEF HistoryInv, AnnotationsSound
    <2>2. AnnotationSound(b)'
      BY <1>2, <2>1, AnnotationStays DEF HistoryInv
    <2>. QED
      BY <2>2
  <1>4. AnnotationsSound'
    BY <1>3 DEF AnnotationsSound, HistoryInv
  <1>5. Grows
    <2>1. \A j \in DOMAIN ann : ann[j].versions \in Seq(Wordings)
      BY DEF HistoryInv, AnnotationsSound, AnnotationSound, Told
    <2>. QED
      BY <2>1, SamePrefix DEF Grows
  <1>. QED
    BY <1>1, <1>2, <1>4, <1>5

\* An annotation with its text replaced.
Reworded(a, t) == [a EXCEPT !.text = t]

\* Its author replaced.
Reauthored(a, b) == [a EXCEPT !.by = b]

\* Whether it is shown replaced.
Shown(a, l) == [a EXCEPT !.live = l]

\* A field of an annotation that is replaced leaves the others: its text,
LEMMA RewordedFields ==
    ASSUME NEW a, IsAnnotation(a), NEW t
    PROVE  /\ IsAnnotation(Reworded(a, t)) /\ Reworded(a, t).text = t /\ Reworded(a, t).by = a.by
           /\ Reworded(a, t).live = a.live /\ Reworded(a, t).obj = a.obj /\ Reworded(a, t).gen = a.gen
           /\ Reworded(a, t).kind = a.kind /\ Reworded(a, t).versions = a.versions
  BY DEF IsAnnotation, Reworded

\* its author,
LEMMA ReauthoredFields ==
    ASSUME NEW a, IsAnnotation(a), NEW b
    PROVE  /\ IsAnnotation(Reauthored(a, b)) /\ Reauthored(a, b).text = a.text /\ Reauthored(a, b).by = b
           /\ Reauthored(a, b).live = a.live /\ Reauthored(a, b).obj = a.obj /\ Reauthored(a, b).gen = a.gen
           /\ Reauthored(a, b).kind = a.kind /\ Reauthored(a, b).versions = a.versions
  BY DEF IsAnnotation, Reauthored

\* whether it is shown,
LEMMA ShownFields ==
    ASSUME NEW a, IsAnnotation(a), NEW l
    PROVE  /\ IsAnnotation(Shown(a, l)) /\ Shown(a, l).text = a.text /\ Shown(a, l).by = a.by
           /\ Shown(a, l).live = l /\ Shown(a, l).obj = a.obj /\ Shown(a, l).gen = a.gen
           /\ Shown(a, l).kind = a.kind /\ Shown(a, l).versions = a.versions
  BY DEF IsAnnotation, Shown

\* its versions.
LEMMA AppendedFields ==
    ASSUME NEW a, IsAnnotation(a), NEW v
    PROVE  /\ IsAnnotation(AppendVersion(a, v)) /\ AppendVersion(a, v).text = a.text /\ AppendVersion(a, v).by = a.by
           /\ AppendVersion(a, v).live = a.live /\ AppendVersion(a, v).obj = a.obj /\ AppendVersion(a, v).gen = a.gen
           /\ AppendVersion(a, v).kind = a.kind /\ AppendVersion(a, v).versions = Append(a.versions, v)
  BY DEF IsAnnotation, AppendVersion

\* Wording an annotation again, and removing one that is shown.
LEMMA VersionAdded ==
    ASSUME NEW a, AnnotationSound(a), NEW u, IsAnnotation(u), NEW v \in Wordings,
           u.obj = a.obj, u.gen = a.gen, u.kind = a.kind, u.versions = Append(a.versions, v),
           IF v.op = "delete" THEN u.text = a.text ELSE u.text = v.text,
           a.kind = "description" => /\ a.live /\ (u.live <=> v.op # "delete")
                                     /\ IF v.op = "delete" THEN u.by = a.by ELSE u.by = v.by
    PROVE  AnnotationSound(u) /\ IsPrefix(a.versions, u.versions)
  <1>. DEFINE vs == a.versions
              new == Append(vs, v)
  <1>1. Told(a)
    BY DEF AnnotationSound
  <1>2. vs \in Seq(Wordings) /\ vs # <<>> /\ HasWording(vs) /\ vs[1].op = "create" /\ a.text = LastWording(vs).text
        /\ (a.kind = "description" =>
              /\ a.by = LastWording(vs).by /\ (a.live <=> Last(vs).op # "delete")
              /\ \A k \in 1..Len(vs) - 1 : vs[k].op # "delete")
    BY <1>1 DEF Told
  <1>. HIDE DEF vs
  <1>3. /\ new \in Seq(Wordings) /\ new # <<>> /\ Len(new) = Len(vs) + 1
        /\ \A k \in 1..Len(vs) : new[k] = vs[k]
        /\ Len(vs) \in Nat /\ 1 \in 1..Len(vs)
        /\ Last(new) = v /\ new[Len(vs) + 1] = v /\ Last(vs) = vs[Len(vs)]
        /\ HasWording(new)
        /\ LastWording(new) = (IF v.op = "delete" THEN LastWording(vs) ELSE v)
        /\ IsPrefix(vs, new)
    BY <1>2, Appended
  <1>4. u.versions = new
    BY DEF vs
  <1>. HIDE DEF new
  <1>5. u.text = LastWording(new).text
    BY <1>2, <1>3
  <1>6. u.kind = "description" =>
          /\ u.by = LastWording(new).by /\ (u.live <=> Last(new).op # "delete")
          /\ \A k \in 1..Len(new) - 1 : new[k].op # "delete"
    <2>. HAVE u.kind = "description"
    <2>1. u.by = LastWording(new).by
      BY <1>2, <1>3
    <2>2. u.live <=> Last(new).op # "delete"
      BY <1>3
    <2>3. \A k \in 1..Len(new) - 1 : new[k].op # "delete"
      BY <1>2, <1>3
    <2>. QED
      BY <2>1, <2>2, <2>3
  <1>7. new[1].op = "create"
    BY <1>2, <1>3
  <1>8. Told(u)
    BY <1>3, <1>4, <1>5, <1>6, <1>7 DEF Told
  <1>9. About(u.obj, u.gen)
    BY DEF AnnotationSound
  <1>. QED
    BY <1>3, <1>4, <1>8, <1>9 DEF AnnotationSound, vs

\* A request that wrote ends, or goes on to the note of the same put.
LEMMA WroteAndEnds ==
    ASSUME HistoryInv, NEW c \in Conns, Done(c),
           EntriesSound' /\ AnnotationsSound' /\ RowsMoveOn /\ KindsStay /\ Grows
    PROVE  HistoryInv' /\ Grows
  <1>1. Moves(c, Idle)
    BY MovesBy DEF Done, HistoryInv
  <1>2. RequestSound(Idle)'
    BY IdleIsSound, RequestStays DEF HistoryInv
  <1>3. RequestsSound'
    BY <1>1, <1>2, RequestsStay DEF HistoryInv
  <1>. QED
    BY <1>3 DEF HistoryInv

\* SetDescription: the live one reworded, or a new one.
LEMMA SetDescriptionKeeps ==
    ASSUME HistoryInv, NEW c \in Conns, SetDescription(c)
    PROVE  HistoryInv' /\ Grows
  <1>. DEFINE q == conn[c]
              v == Version("edit", q.text, q.by)
  <1>0. conn[c].pc = "set" /\ "set" \in NotePcs /\ "count" \in NotePcs /\ rows' = rows /\ clock' = clock
    BY DEF SetDescription, NotePcs
  <1>1. IsNoteRequest(q) /\ RequestSound(q) /\ About(q.obj, q.gen) /\ q.text \in Nat /\ q.by \in Authors
    <2>1. IsNoteRequest(q) /\ RequestSound(q)
      BY <1>0, NoteRequestAt
    <2>. QED
      BY <1>0, <2>1 DEF IsNoteRequest, RequestSound
  <1>2. v \in Wordings /\ v.op = "edit" /\ v.text = q.text /\ v.by = q.by
    BY <1>1 DEF Version, Wordings
  <1>3. \/ InsertAnnotation(Annotated(q.obj, "description", "none", q.text, q.by, q.gen))
        \/ \E i \in LiveDescription(q.obj) :
             /\ ann' = [ann EXCEPT ![i] = AppendVersion([ann[i] EXCEPT !.text = q.text, !.by = q.by], v)]
             /\ seq' = seq
    BY DEF SetDescription
  <1>4. Goto(c, "count") \/ Done(c)
    BY DEF SetDescription
  <1>. HIDE DEF q, v
  <1>5. EntriesSound' /\ AnnotationsSound' /\ RowsMoveOn /\ KindsStay /\ Grows
    <2>1. CASE InsertAnnotation(Annotated(q.obj, "description", "none", q.text, q.by, q.gen))
      <3>1. AnnotationSound(Annotated(q.obj, "description", "none", q.text, q.by, q.gen))
        BY <1>1, WrittenIsSound
      <3>. QED
        BY <1>0, <2>1, <3>1, Inserts
    <2>2. ASSUME NEW i \in LiveDescription(q.obj),
                 ann' = [ann EXCEPT ![i] = AppendVersion([ann[i] EXCEPT !.text = q.text, !.by = q.by], v)],
                 seq' = seq
          PROVE  EntriesSound' /\ AnnotationsSound' /\ RowsMoveOn /\ KindsStay /\ Grows
      <3>. DEFINE a == ann[i]
                  a1 == Reworded(a, q.text)
                  a2 == Reauthored(a1, q.by)
                  a3 == AppendVersion(a2, v)
      <3>1. i \in DOMAIN ann /\ a.kind = "description" /\ a.live
        BY DEF LiveDescription, IsLive
      <3>2. AnnotationSound(a) /\ IsAnnotation(a)
        BY <3>1 DEF HistoryInv, AnnotationsSound, AnnotationSound
      <3>. HIDE DEF a
      <3>3. /\ IsAnnotation(a1) /\ a1.text = q.text /\ a1.by = a.by /\ a1.live = a.live
            /\ a1.obj = a.obj /\ a1.gen = a.gen /\ a1.kind = a.kind /\ a1.versions = a.versions
        BY <3>2, RewordedFields, ReauthoredFields, ShownFields, AppendedFields
      <3>4. [a EXCEPT !.text = q.text, !.by = q.by] = a2
        BY DEF Reworded, Reauthored
      <3>. HIDE DEF a1
      <3>5. /\ IsAnnotation(a2) /\ a2.text = q.text /\ a2.by = q.by /\ a2.live = a.live
            /\ a2.obj = a.obj /\ a2.gen = a.gen /\ a2.kind = a.kind /\ a2.versions = a.versions
        BY <3>3, RewordedFields, ReauthoredFields, ShownFields, AppendedFields
      <3>. HIDE DEF a2
      <3>6. /\ IsAnnotation(a3) /\ a3.text = q.text /\ a3.by = q.by /\ a3.live = a.live
            /\ a3.obj = a.obj /\ a3.gen = a.gen /\ a3.kind = a.kind /\ a3.versions = Append(a.versions, v)
        BY <3>5, RewordedFields, ReauthoredFields, ShownFields, AppendedFields
      <3>. HIDE DEF a3
      <3>7. AnnotationSound(a3) /\ IsPrefix(a.versions, a3.versions)
        BY <1>2, <3>1, <3>2, <3>6, VersionAdded
      <3>8. ann'[i] = a3 /\ DOMAIN ann' = DOMAIN ann /\ \A j \in DOMAIN ann : j # i => ann'[j] = ann[j]
        BY <2>2, <3>1, <3>4 DEF a, a3
      <3>9. a3.kind = ann[i].kind /\ IsPrefix(ann[i].versions, a3.versions)
        BY <3>6, <3>7 DEF a
      <3>. QED
        BY <1>0, <2>2, <3>1, <3>7, <3>8, <3>9, Rewrites
    <2>. QED
      BY <1>3, <2>1, <2>2
  <1>6. CASE Done(c)
    BY <1>5, <1>6, WroteAndEnds
  <1>7. CASE Goto(c, "count")
    <2>. PICK u : Moves(c, u) /\ IsNoteRequest(u) /\ u.pc = "count" /\ u.obj = q.obj /\ u.gen = q.gen
      BY <1>0, <1>1, <1>7, MovesTo DEF q
    <2>1. RequestSound(u)
      BY <1>1 DEF RequestSound
    <2>2. RequestSound(u)'
      BY <1>5, <2>1, RequestStays DEF HistoryInv
    <2>3. RequestsSound'
      BY <1>5, <2>2, RequestsStay DEF HistoryInv
    <2>. QED
      BY <1>5, <2>3 DEF HistoryInv
  <1>. QED
    BY <1>4, <1>6, <1>7

\* addNote: the insert, about the row the request resolved when it began.
LEMMA AddNoteKeeps ==
    ASSUME HistoryInv, NEW c \in Conns, AddNote(c)
    PROVE  HistoryInv' /\ Grows
  <1>. DEFINE q == conn[c]
  <1>0. conn[c].pc = "insert" /\ "insert" \in NotePcs /\ rows' = rows /\ clock' = clock /\ Done(c)
    BY DEF AddNote, NotePcs
  <1>1. PICK d : InsertAnnotation(Annotated(q.obj, "note", d, q.text, q.by, q.gen))
    BY DEF AddNote
  <1>2. About(q.obj, q.gen) /\ q.text \in Nat /\ q.by \in Authors
    <2>1. IsNoteRequest(q) /\ RequestSound(q)
      BY <1>0, NoteRequestAt
    <2>. QED
      BY <1>0, <2>1 DEF IsNoteRequest, RequestSound
  <1>. HIDE DEF q
  <1>3. AnnotationSound(Annotated(q.obj, "note", d, q.text, q.by, q.gen))
    BY <1>2, WrittenIsSound
  <1>4. EntriesSound' /\ AnnotationsSound' /\ RowsMoveOn /\ KindsStay /\ Grows
    BY <1>0, <1>1, <1>3, Inserts
  <1>. QED
    BY <1>0, <1>4, WroteAndEnds

\* A step that leaves every annotation as it is, wherever it meant to write.
LEMMA WritesNothing ==
    ASSUME HistoryInv, DOMAIN ann' = DOMAIN ann, \A j \in DOMAIN ann : ann'[j] = ann[j],
           rows' = rows, seq' = seq, clock' = clock
    PROVE  EntriesSound' /\ AnnotationsSound' /\ RowsMoveOn /\ KindsStay /\ Grows
  <1>1. EntriesSound'
    BY DEF HistoryInv, EntriesSound
  <1>2. RowsMoveOn /\ KindsStay
    BY DEF RowsMoveOn, KindsStay, HistoryInv, EntriesSound
  <1>3. AnnotationsSound'
    BY <1>2, AnnotationsStay DEF HistoryInv
  <1>4. Grows
    <2>1. \A i \in DOMAIN ann : ann[i].versions \in Seq(Wordings)
      BY DEF HistoryInv, AnnotationsSound, AnnotationSound, Told
    <2>. QED
      BY <2>1, SamePrefix DEF Grows
  <1>. QED
    BY <1>1, <1>2, <1>3, <1>4

\* EditNote: the update by id alone, which meets a note or nothing.
LEMMA EditNoteKeeps ==
    ASSUME HistoryInv, NEW c \in Conns, EditNote(c)
    PROVE  HistoryInv' /\ Grows
  <1>. DEFINE q == conn[c]
              v == Version("edit", q.text, q.by)
              i == q.id
  <1>0. /\ conn[c].pc = "update" /\ "update" \in NotePcs /\ rows' = rows /\ clock' = clock /\ Done(c) /\ seq' = seq
        /\ ann' = [j \in DOMAIN ann |-> IF j = i THEN AppendVersion([ann[j] EXCEPT !.text = q.text], v) ELSE ann[j]]
    BY DEF EditNote, NotePcs
  <1>1. q.text \in Nat /\ q.by \in Authors /\ (i \in DOMAIN ann => ann[i].kind = "note")
    <2>1. IsNoteRequest(q) /\ RequestSound(q)
      BY <1>0, NoteRequestAt
    <2>. QED
      BY <1>0, <2>1 DEF IsNoteRequest, RequestSound
  <1>2. v \in Wordings /\ v.op = "edit" /\ v.text = q.text
    BY <1>1 DEF Version, Wordings
  <1>. HIDE DEF q, v, i
  <1>3. CASE i \notin DOMAIN ann
    BY <1>0, <1>3, WritesNothing, WroteAndEnds
  <1>4. CASE i \in DOMAIN ann
    <2>. DEFINE a == ann[i]
                a1 == Reworded(a, q.text)
                a2 == AppendVersion(a1, v)
    <2>1. AnnotationSound(a) /\ IsAnnotation(a) /\ a.kind = "note"
      BY <1>1, <1>4 DEF HistoryInv, AnnotationsSound, AnnotationSound
    <2>2. ann'[i] = a2 /\ DOMAIN ann' = DOMAIN ann /\ \A j \in DOMAIN ann : j # i => ann'[j] = ann[j]
      BY <1>0, <1>4 DEF Reworded
    <2>. HIDE DEF a
    <2>3. /\ IsAnnotation(a1) /\ a1.text = q.text
          /\ a1.obj = a.obj /\ a1.gen = a.gen /\ a1.kind = a.kind /\ a1.versions = a.versions
      BY <2>1, RewordedFields, ReauthoredFields, ShownFields, AppendedFields
    <2>. HIDE DEF a1
    <2>4. /\ IsAnnotation(a2) /\ a2.text = q.text
          /\ a2.obj = a.obj /\ a2.gen = a.gen /\ a2.kind = a.kind /\ a2.versions = Append(a.versions, v)
      BY <2>3, RewordedFields, ReauthoredFields, ShownFields, AppendedFields
    <2>. HIDE DEF a2
    <2>5. AnnotationSound(a2) /\ IsPrefix(a.versions, a2.versions)
      BY <1>2, <2>1, <2>4, VersionAdded
    <2>6. a2.kind = ann[i].kind /\ IsPrefix(ann[i].versions, a2.versions)
      BY <2>4, <2>5 DEF a
    <2>7. EntriesSound' /\ AnnotationsSound' /\ RowsMoveOn /\ KindsStay /\ Grows
      BY <1>0, <1>4, <2>2, <2>5, <2>6, Rewrites
    <2>. QED
      BY <1>0, <2>7, WroteAndEnds
  <1>. QED
    BY <1>3, <1>4

\* removeAnnotation: the tombstone.
LEMMA RemoveKeeps ==
    ASSUME HistoryInv, NEW c \in Conns, RemoveAnnotation(c)
    PROVE  HistoryInv' /\ Grows
  <1>. DEFINE q == conn[c]
              v == Version("delete", 0, q.by)
              i == q.id
              Hit(j) == j = i /\ ann[j].obj = q.obj /\ ann[j].live
  <1>0. /\ conn[c].pc = "remove" /\ "remove" \in NotePcs /\ rows' = rows /\ clock' = clock /\ Done(c) /\ seq' = seq
        /\ ann' = [j \in DOMAIN ann |-> IF Hit(j) THEN Tombstone(ann[j], q.by) ELSE ann[j]]
    BY DEF RemoveAnnotation, NotePcs
  <1>1. q.by \in Authors
    BY <1>0, NoteRequestAt DEF IsNoteRequest
  <1>2. v \in Wordings /\ v.op = "delete"
    BY <1>1 DEF Version, Wordings
  <1>3. CASE ~(i \in DOMAIN ann /\ Hit(i))
    BY <1>0, <1>3, WritesNothing, WroteAndEnds
  <1>4. CASE i \in DOMAIN ann /\ Hit(i)
    <2>. DEFINE a == ann[i]
                a1 == Shown(a, FALSE)
                a2 == AppendVersion(a1, v)
    <2>1. AnnotationSound(a) /\ IsAnnotation(a) /\ a.live
      BY <1>4 DEF HistoryInv, AnnotationsSound, AnnotationSound
    <2>2. ann'[i] = a2 /\ DOMAIN ann' = DOMAIN ann /\ \A j \in DOMAIN ann : j # i => ann'[j] = ann[j]
      BY <1>0, <1>4 DEF Tombstone, Shown
    <2>. HIDE DEF a, v, i, q
    <2>3. /\ IsAnnotation(a1) /\ a1.text = a.text /\ a1.by = a.by /\ a1.live = FALSE
          /\ a1.obj = a.obj /\ a1.gen = a.gen /\ a1.kind = a.kind /\ a1.versions = a.versions
      BY <2>1, ShownFields, Zenon
    <2>. HIDE DEF a1
    <2>4. /\ IsAnnotation(a2) /\ a2.text = a.text /\ a2.by = a.by /\ a2.live = FALSE
          /\ a2.obj = a.obj /\ a2.gen = a.gen /\ a2.kind = a.kind /\ a2.versions = Append(a.versions, v)
      BY <2>3, RewordedFields, ReauthoredFields, ShownFields, AppendedFields
    <2>. HIDE DEF a2
    <2>5. AnnotationSound(a2) /\ IsPrefix(a.versions, a2.versions)
      BY <1>2, <2>1, <2>4, VersionAdded
    <2>6. a2.kind = ann[i].kind /\ IsPrefix(ann[i].versions, a2.versions)
      BY <2>4, <2>5 DEF a
    <2>7. EntriesSound' /\ AnnotationsSound' /\ RowsMoveOn /\ KindsStay /\ Grows
      BY <1>0, <1>4, <2>2, <2>5, <2>6, Rewrites
    <2>. QED
      BY <1>0, <2>7, WroteAndEnds
  <1>. QED
    BY <1>3, <1>4

-----------------------------------------------------------------------------
(* Requests that begin, and the records of runs.                           *)

\* A request that begins.
LEMMA BeginKeeps ==
    ASSUME HistoryInv, NEW c \in Conns, NEW q, RequestSound(q), Begin(c, q)
    PROVE  HistoryInv' /\ Grows
  <1>1. rows' = rows /\ ann' = ann /\ seq' = seq /\ clock' \in Nat /\ conn' = [conn EXCEPT ![c] = q]
    BY DEF Begin, tables, HistoryInv, EntriesSound
  <1>2. Moves(c, q)
    BY <1>1, MovesBy DEF HistoryInv
  <1>. QED
    BY <1>1, <1>2, ReadsAndMoves

\* A request that names its object when it begins.
LEMMA AnnotationRequestSound ==
    ASSUME HistoryInv, NEW pc \in NotePcs, NEW t \in Targets, NEW by \in Authors, NEW id,
           pc \in {"set", "count", "insert"} => ResolveTarget(t) # NoObject, pc # "update"
    PROVE  RequestSound(AnnotationRequest(pc, t, by, id))
  <1>. DEFINE q == AnnotationRequest(pc, t, by, id)
              obj == ResolveTarget(t)
  <1>1. obj # NoObject => About(obj, GenOf(obj))
    BY TargetResolves DEF HistoryInv
  <1>. HIDE DEF obj
  <1>2. clock + 1 \in Nat
    BY DEF HistoryInv, EntriesSound
  <1>3. q = [pc |-> pc, kind |-> "annotation", by |-> by, text |-> clock + 1,
                obj |-> obj, gen |-> GenOf(obj), id |-> id]
    BY DEF AnnotationRequest, obj
  <1>. HIDE DEF q
  <1>4. /\ q.pc = pc /\ q.obj = obj /\ q.gen = GenOf(obj)
        /\ q.by = by /\ q.text = clock + 1 /\ q.kind = "annotation" /\ q.id = id
    BY <1>3
  <1>5. IsNoteRequest(q)
    BY <1>2, <1>3, <1>4 DEF IsNoteRequest
  <1>6. q.pc \in {"set", "count", "insert"} => About(q.obj, q.gen)
    BY <1>1, <1>4 DEF obj
  <1>. QED
    BY <1>4, <1>5, <1>6 DEF RequestSound, q

\* The annotation requests resolve their target and begin.
LEMMA AsksKeep ==
    ASSUME HistoryInv, NEW c \in Conns, Describe(c) \/ Note(c)
    PROVE  HistoryInv' /\ Grows
  <1>0. AuthorFor \subseteq Authors
    BY DEF AuthorFor, Authors
  <1>s. {"getdescription", "set", "count", "editread", "remove"} \subseteq NotePcs
    BY DEF NotePcs
  <1>1. ASSUME NEW t \in Targets, NEW by \in AuthorFor, NEW clear, HandleAnnotationSet(c, t, by, clear)
        PROVE  HistoryInv' /\ Grows
    <2>. PICK pc : pc = (IF clear THEN "getdescription" ELSE "set")
      OBVIOUS
    <2>1. Begin(c, AnnotationRequest(pc, t, by, 0)) /\ ResolveTarget(t) # NoObject
      BY <1>1 DEF HandleAnnotationSet
    <2>2. RequestSound(AnnotationRequest(pc, t, by, 0))
      <3>1. pc \in NotePcs /\ pc # "update"
        BY <1>s
      <3>. QED
        BY <1>0, <2>1, <3>1, AnnotationRequestSound
    <2>. QED
      BY <2>1, <2>2, BeginKeeps
  <1>2. ASSUME NEW t \in Targets, NEW by \in AuthorFor, HandleAnnotationAdd(c, t, by)
        PROVE  HistoryInv' /\ Grows
    <2>1. Begin(c, AnnotationRequest("count", t, by, 0)) /\ ResolveTarget(t) # NoObject
      BY <1>2 DEF HandleAnnotationAdd
    <2>2. RequestSound(AnnotationRequest("count", t, by, 0))
      BY <1>0, <1>s, <2>1, AnnotationRequestSound
    <2>. QED
      BY <2>1, <2>2, BeginKeeps
  <1>3. ASSUME NEW t \in Targets, NEW by \in AuthorFor, NEW i, HandleAnnotationEdit(c, t, by, i)
        PROVE  HistoryInv' /\ Grows
    <2>1. Begin(c, AnnotationRequest("editread", t, by, i))
      BY <1>3 DEF HandleAnnotationEdit
    <2>2. RequestSound(AnnotationRequest("editread", t, by, i))
      BY <1>0, <1>s, AnnotationRequestSound
    <2>. QED
      BY <2>1, <2>2, BeginKeeps
  <1>4. ASSUME NEW t \in Targets, NEW by \in AuthorFor, NEW i, HandleAnnotationRemove(c, t, by, i)
        PROVE  HistoryInv' /\ Grows
    <2>1. Begin(c, AnnotationRequest("remove", t, by, i))
      BY <1>4 DEF HandleAnnotationRemove
    <2>2. RequestSound(AnnotationRequest("remove", t, by, i))
      BY <1>0, <1>s, AnnotationRequestSound
    <2>. QED
      BY <2>1, <2>2, BeginKeeps
  <1>. QED
    BY <1>1, <1>2, <1>3, <1>4 DEF Describe, Note

\* The commentary of a put resolves its name again.
LEMMA ApplyPutKeeps ==
    ASSUME HistoryInv, NEW c \in Conns, ApplyPutAnnotations(c)
    PROVE  HistoryInv' /\ Grows
  <1>. DEFINE q == conn[c]
              obj == EntryObjectRef(q.env, q.name)
  <1>0. q.pc = "resolve" /\ rows' = rows /\ ann' = ann /\ seq' = seq /\ clock' \in Nat
    BY DEF ApplyPutAnnotations, tables, HistoryInv, EntriesSound
  <1>1. IsPutRequest(q)
    BY <1>0 DEF HistoryInv, RequestsSound, RequestSound, IsNoteRequest, IsRunRequest, NotePcs, Idle
  <1>2. q.env \in Envs /\ q.name \in Names /\ q.by \in Authors /\ q.text \in Nat
    BY <1>1 DEF IsPutRequest
  <1>3. obj # NoObject => About(obj, GenOf(obj))
    BY <1>2, EntryResolves DEF HistoryInv
  <1>4. \/ Done(c)
        \/ /\ obj # NoObject
           /\ \E pc \in {"set", "count"}, kind \in {"putnote", "put"} :
                conn' = [conn EXCEPT ![c] = [pc |-> pc, kind |-> kind, by |-> q.by, text |-> q.text, obj |-> obj,
                                             gen |-> GenOf(obj), id |-> 0]]
    BY DEF ApplyPutAnnotations
  <1>. HIDE DEF q, obj
  <1>5. CASE Done(c)
    BY <1>0, <1>5, IdleIsSound, MovesBy, ReadsAndMoves DEF Done, HistoryInv
  <1>6. ASSUME obj # NoObject, NEW pc \in {"set", "count"}, NEW kind,
               conn' = [conn EXCEPT ![c] = [pc |-> pc, kind |-> kind, by |-> q.by, text |-> q.text, obj |-> obj,
                                            gen |-> GenOf(obj), id |-> 0]]
        PROVE  HistoryInv' /\ Grows
    <2>. DEFINE u == [pc |-> pc, kind |-> kind, by |-> q.by, text |-> q.text, obj |-> obj, gen |-> GenOf(obj), id |-> 0]
    <2>1. /\ u.pc = pc /\ u.obj = obj /\ u.gen = GenOf(obj) /\ u.by = q.by /\ u.text = q.text
          /\ u = [pc |-> u.pc, kind |-> u.kind, by |-> u.by, text |-> u.text, obj |-> u.obj, gen |-> u.gen, id |-> u.id]
      OBVIOUS
    <2>2. Moves(c, u)
      BY <1>6, MovesBy DEF HistoryInv
    <2>. HIDE DEF u
    <2>3. RequestSound(u)
      BY <1>2, <1>3, <1>6, <2>1 DEF RequestSound, IsNoteRequest, NotePcs
    <2>. QED
      BY <1>0, <2>2, <2>3, ReadsAndMoves
  <1>. QED
    BY <1>4, <1>5, <1>6

\* An exec opens its values.
LEMMA ExecKeeps ==
    ASSUME HistoryInv, NEW c \in Conns, Exec(c)
    PROVE  HistoryInv' /\ Grows
  <1>. PICK e \in Envs, names \in SUBSET Names : ExecOpen(c, e, names)
    BY DEF Exec
  <1>. DEFINE h == [n \in names |-> rows[<<CHOOSE v \in Visible(e, n) : TRUE, n>>].blob]
              q == [pc |-> "runscope", env |-> e, names |-> names, held |-> h, opened |-> clock + 1]
  <1>1. Begin(c, q)
    BY DEF ExecOpen
  <1>. HIDE DEF h
  <1>2. q.pc = "runscope" /\ IsRunRequest(q)
    BY DEF IsRunRequest
  <1>. HIDE DEF q
  <1>3. RequestSound(q)
    BY <1>2 DEF RequestSound
  <1>. QED
    BY <1>1, <1>3, BeginKeeps

\* recordExecRun: the id of the scope.
LEMMA RecordScopeKeeps ==
    ASSUME HistoryInv, NEW c \in Conns, RecordScope(c)
    PROVE  HistoryInv' /\ Grows
  <1>. DEFINE q == conn[c]
              u == [pc |-> "runrefs", envId |-> envs[q.env], todo |-> q.names, refs |-> <<>>, held |-> q.held,
                    opened |-> q.opened]
  <1>0. rows' = rows /\ ann' = ann /\ seq' = seq /\ clock' \in Nat
    BY DEF RecordScope, tables, HistoryInv, EntriesSound
  <1>1. Done(c) \/ conn' = [conn EXCEPT ![c] = u]
    BY DEF RecordScope
  <1>2. u.pc = "runrefs" /\ u = [pc |-> u.pc, envId |-> u.envId, todo |-> u.todo, refs |-> u.refs, held |-> u.held,
                                 opened |-> u.opened]
    OBVIOUS
  <1>. HIDE DEF u
  <1>3. RequestSound(u)
    BY <1>2 DEF RequestSound, IsRunRequest
  <1>. QED
    BY <1>0, <1>1, <1>3, IdleIsSound, MovesBy, ReadsAndMoves DEF Done, HistoryInv

\* A reference read leaves the request what it was.
LEMMA NextRef ==
    ASSUME NEW q, IsRunRequest(q), q.pc = "runrefs"
    PROVE  /\ \A t : IsRunRequest([q EXCEPT !.todo = t]) /\ [q EXCEPT !.todo = t].pc = "runrefs"
           /\ \A r : IsRunRequest([q EXCEPT !.refs = r]) /\ [q EXCEPT !.refs = r].pc = "runrefs"
  BY DEF IsRunRequest

\* recordExecRun: one reference.
LEMMA EntryRefsKeeps ==
    ASSUME HistoryInv, NEW c \in Conns, NEW n \in Names, EntryRefs(c, n)
    PROVE  HistoryInv' /\ Grows
  <1>. DEFINE q == conn[c]
  <1>0. rows' = rows /\ ann' = ann /\ seq' = seq /\ clock' \in Nat /\ q.pc = "runrefs"
    BY DEF EntryRefs, tables, HistoryInv, EntriesSound
  <1>1. IsRunRequest(q)
    BY <1>0 DEF HistoryInv, RequestsSound, RequestSound, IsNoteRequest, IsPutRequest, NotePcs, Idle
  <1>2. \E t, r : conn' = [conn EXCEPT ![c] = [@ EXCEPT !.todo = t, !.refs = r]]
    BY DEF EntryRefs
  <1>3. PICK t, r : conn' = [conn EXCEPT ![c] = [q EXCEPT !.todo = t, !.refs = r]]
    BY <1>2
  <1>. DEFINE u == [q EXCEPT !.todo = t]
              w == [u EXCEPT !.refs = r]
  <1>4. Moves(c, [q EXCEPT !.todo = t, !.refs = r])
    BY <1>3 DEF Moves, HistoryInv, RequestsSound
  <1>. HIDE DEF q
  <1>5. [q EXCEPT !.todo = t, !.refs = r] = w
    OBVIOUS
  <1>6. IsRunRequest(u) /\ u.pc = "runrefs"
    BY <1>0, <1>1, NextRef
  <1>. HIDE DEF u
  <1>7. IsRunRequest(w) /\ w.pc = "runrefs"
    BY <1>6, NextRef
  <1>. HIDE DEF w
  <1>8. RequestSound(w)
    BY <1>7 DEF RequestSound
  <1>. QED
    BY <1>0, <1>4, <1>5, <1>8, ReadsAndMoves

\* The sequences of the tables.
Numbered(s) == s = [entry |-> s.entry, env |-> s.env, ann |-> s.ann, snap |-> s.snap, run |-> s.run]

\* One sequence that moves leaves the others.
LEMMA NumberedFields ==
    ASSUME NEW s, Numbered(s), NEW n
    PROVE  /\ Numbered([s EXCEPT !.run = n]) /\ [s EXCEPT !.run = n].entry = s.entry /\ [s EXCEPT !.run = n].ann = s.ann
           /\ Numbered([s EXCEPT !.snap = n])
           /\ [s EXCEPT !.snap = n].entry = s.entry /\ [s EXCEPT !.snap = n].ann = s.ann
           /\ Numbered([s EXCEPT !.env = n]) /\ [s EXCEPT !.env = n].entry = s.entry /\ [s EXCEPT !.env = n].ann = s.ann
           /\ Numbered([s EXCEPT !.entry = n]) /\ [s EXCEPT !.entry = n].entry = n /\ [s EXCEPT !.entry = n].ann = s.ann
  BY DEF Numbered

\* recordExecRun: the snapshot and the run.
LEMMA RecordExecRunKeeps ==
    ASSUME HistoryInv, NEW c \in Conns, RecordExecRun(c)
    PROVE  HistoryInv' /\ Grows
  <1>0. rows' = rows /\ ann' = ann /\ clock' = clock /\ clock \in Nat /\ Done(c) /\ Numbered(seq)
    BY DEF RecordExecRun, HistoryInv, EntriesSound, Numbered
  <1>1. seq' = seq \/ \E r, s : seq' = [seq EXCEPT !.run = r, !.snap = s]
    BY DEF RecordExecRun
  <1>2. Numbered(seq') /\ seq'.entry = seq.entry /\ seq'.ann = seq.ann
    <2>1. CASE seq' = seq
      BY <1>0, <2>1 DEF Numbered
    <2>2. ASSUME NEW r, NEW s, seq' = [seq EXCEPT !.run = r, !.snap = s]
          PROVE  Numbered(seq') /\ seq'.entry = seq.entry /\ seq'.ann = seq.ann
      <3>. DEFINE u == [seq EXCEPT !.run = r]
                  w == [u EXCEPT !.snap = s]
      <3>1. seq' = w
        BY <1>0, <2>2 DEF Numbered
      <3>2. Numbered(u) /\ u.entry = seq.entry /\ u.ann = seq.ann
        BY <1>0, NumberedFields
      <3>. HIDE DEF u
      <3>3. Numbered(w) /\ w.entry = u.entry /\ w.ann = u.ann
        BY <3>2, NumberedFields
      <3>. HIDE DEF w
      <3>4. PICK z : z = seq'
        OBVIOUS
      <3>. QED
        BY <3>1, <3>2, <3>3 DEF Numbered
    <2>. QED
      BY <1>1, <2>1, <2>2
  <1>3. EntriesSound' /\ AnnotationsSound' /\ RowsMoveOn /\ KindsStay /\ Grows
    BY <1>0, <1>2, Reads DEF Numbered
  <1>. QED
    BY <1>0, <1>3, WroteAndEnds

\* No request moves.
LEMMA RequestsWait ==
    ASSUME EntriesSound, RequestsSound, RowsMoveOn, KindsStay, conn' = conn
    PROVE  RequestsSound'
  <1>1. \A d \in Conns : RequestSound(conn[d])'
    <2>. TAKE d \in Conns
    <2>. PICK r : r = conn[d]
      OBVIOUS
    <2>1. RequestSound(r)'
      BY RequestStays DEF RequestsSound
    <2>. QED
      BY <2>1
  <1>. QED
    BY <1>1 DEF RequestsSound

\* A put writes one row: a new one under an id above every other, or the one that was there.
LEMMA RowWritten ==
    ASSUME HistoryInv, NEW t \in Slots, NEW row,
           seq'.entry \in Nat, Numbered(seq'), seq'.ann = seq.ann, clock' \in Nat, ann' = ann,
           rows' = [rows EXCEPT ![t] = row],
           \/ row.id = seq.entry + 1 /\ seq'.entry = seq.entry + 1
           \/ rows[t] # NoRow /\ row.id = rows[t].id /\ row.gen = rows[t].gen /\ seq'.entry = seq.entry
    PROVE  EntriesSound' /\ AnnotationsSound' /\ RowsMoveOn /\ KindsStay /\ Grows
  <1>1. seq.entry \in Nat /\ seq.ann \in Nat /\ DOMAIN rows = Slots
        /\ (\A s \in Slots : rows[s] = NoRow \/ rows[s].id \in 1..seq.entry)
        /\ (\A s, u \in Slots : rows[s].id = rows[u].id /\ rows[s].id # 0 => s = u)
    BY DEF HistoryInv, EntriesSound
  <1>2. NoRow.id = 0
    BY DEF NoRow
  <1>3. \A s \in Slots : rows[s].id \in 0..seq.entry
    BY <1>1, <1>2
  <1>4. DOMAIN rows' = Slots /\ rows'[t] = row /\ \A s \in Slots : s # t => rows'[s] = rows[s]
    BY <1>1
  <1>5. seq.entry <= seq'.entry /\ row.id \in 1..seq'.entry /\ \A s \in Slots : s # t => rows[s].id # row.id
    <2>1. CASE row.id = seq.entry + 1 /\ seq'.entry = seq.entry + 1
      BY <1>1, <1>3, <2>1
    <2>2. CASE rows[t] # NoRow /\ row.id = rows[t].id /\ seq'.entry = seq.entry
      <3>1. rows[t].id \in 1..seq.entry
        BY <1>1, <2>2
      <3>. QED
        BY <1>1, <2>2, <3>1
    <2>. QED
      BY <2>1, <2>2
  <1>6. EntriesSound'
    <2>1. \A s \in Slots : rows'[s] = NoRow \/ rows'[s].id \in 1..seq'.entry
      <3>1. \A i : i \in 1..seq.entry => i \in 1..seq'.entry
        BY <1>1, <1>5
      <3>. QED
        BY <1>1, <1>4, <1>5, <3>1
    <2>2. \A s, u \in Slots : rows'[s].id = rows'[u].id /\ rows'[s].id # 0 => s = u
      BY <1>1, <1>4, <1>5
    <2>3. seq'.ann \in Nat
      BY <1>1
    <2>. QED
      BY <1>4, <2>1, <2>2, <2>3 DEF EntriesSound, Numbered
  <1>7. RowsMoveOn
    <2>1. rows'[t].id \in 1..seq.entry => rows'[t].id = rows[t].id /\ rows'[t].gen = rows[t].gen
      BY <1>1, <1>4
    <2>. QED
      BY <1>1, <1>4, <1>5, <2>1 DEF RowsMoveOn
  <1>8. KindsStay /\ AnnotationsSound'
    <2>1. KindsStay
      BY <1>1 DEF KindsStay
    <2>. QED
      BY <1>7, <2>1, AnnotationsStay DEF HistoryInv
  <1>9. Grows
    <2>1. \A i \in DOMAIN ann : ann[i].versions \in Seq(Wordings)
      BY DEF HistoryInv, AnnotationsSound, AnnotationSound, Told
    <2>. QED
      BY <2>1, SamePrefix DEF Grows
  <1>. QED
    BY <1>6, <1>7, <1>8, <1>9

-----------------------------------------------------------------------------
(* Puts and deletes.                                                       *)

\* Put: the row, under the id it had or a new one.
LEMMA PutKeeps ==
    ASSUME HistoryInv, NEW c \in Conns, Put(c)
    PROVE  HistoryInv' /\ Grows
  <1>. PICK e \in Envs, n \in Names, by \in {"owner", "agent"}, carries \in PutCarries : HandlePut(c, e, n, by, carries)
    BY DEF Put
  <1>. DEFINE t == <<e, n>>
              old == rows[t]
              created == old = NoRow
              id == IF created THEN NewId(LiveEntryIds, seq.entry) ELSE old.id
              row == [id |-> id, blob |-> clock', by |-> by, gen |-> IF created THEN clock' ELSE old.gen]
              q == [pc |-> "resolve", by |-> by, text |-> clock', env |-> e, name |-> n, carries |-> carries]
  <1>1. /\ clock' = clock + 1 /\ ann' = ann
        /\ rows' = [rows EXCEPT ![t] = row]
        /\ seq' = [seq EXCEPT !.entry = IF created THEN id ELSE @]
        /\ conn' = [conn EXCEPT ![c] = q] \/ conn' = conn
    BY DEF HandlePut
  <1>2. t \in Slots /\ clock' \in Nat /\ Numbered(seq) /\ seq.entry \in Nat
    BY <1>1 DEF Slots, HistoryInv, EntriesSound, Numbered
  <1>3. /\ seq' = [seq EXCEPT !.entry = IF created THEN id ELSE seq.entry]
    BY <1>1
  <1>4. Numbered(seq') /\ seq'.entry = (IF created THEN id ELSE seq.entry) /\ seq'.ann = seq.ann
    <2>. DEFINE m == IF created THEN id ELSE seq.entry
                w == [seq EXCEPT !.entry = m]
    <2>. HIDE DEF m
    <2>1. Numbered(w) /\ w.entry = m /\ w.ann = seq.ann
      BY <1>2, NumberedFields
    <2>2. seq' = w
      BY <1>3 DEF m
    <2>. HIDE DEF w
    <2>. QED
      BY <2>1, <2>2 DEF m, Numbered
  <1>5. id = IF created THEN seq.entry + 1 ELSE old.id
    BY DEF NewId
  <1>6. row.id = id /\ (~created => row.gen = old.gen)
    OBVIOUS
  <1>. HIDE DEF id, row
  <1>7. EntriesSound' /\ AnnotationsSound' /\ RowsMoveOn /\ KindsStay /\ Grows
    <2>. DEFINE h == row
    <2>1. PICK z : z = row
      OBVIOUS
    <2>2. rows' = [rows EXCEPT ![t] = z]
      BY <1>1, <2>1
    <2>3. \/ z.id = seq.entry + 1 /\ seq'.entry = seq.entry + 1
          \/ rows[t] # NoRow /\ z.id = rows[t].id /\ z.gen = rows[t].gen /\ seq'.entry = seq.entry
      BY <1>4, <1>5, <1>6, <2>1
    <2>4. seq'.entry \in Nat
      BY <1>2, <2>3
    <2>. HIDE DEF t
    <2>. QED
      BY <1>1, <1>2, <1>4, <2>2, <2>3, <2>4, RowWritten
  <1>8. RequestsSound'
    <2>1. CASE conn' = conn
      BY <1>7, <2>1, RequestsWait DEF HistoryInv
    <2>2. CASE conn' = [conn EXCEPT ![c] = q]
      <3>1. PICK z : z = q
        OBVIOUS
      <3>2. by \in Authors
        BY DEF Authors
      <3>3. IsPutRequest(z) /\ z.pc = "resolve"
        BY <1>2, <3>1, <3>2 DEF IsPutRequest
      <3>4. RequestSound(z)
        BY <3>3 DEF RequestSound
      <3>5. RequestSound(z)'
        BY <1>7, <3>4, RequestStays DEF HistoryInv
      <3>6. Moves(c, z)
        BY <2>2, <3>1, MovesBy DEF HistoryInv
      <3>. QED
        BY <1>7, <3>5, <3>6, RequestsStay DEF HistoryInv
    <2>. QED
      BY <1>1, <2>1, <2>2
  <1>. QED
    BY <1>7, <1>8 DEF HistoryInv

\* Rows go, and with them what was said of them; nothing else is touched.
LEMMA Sweeps ==
    ASSUME HistoryInv, conn' = conn, clock' \in Nat, Numbered(seq'),
           seq'.entry = seq.entry, seq'.ann = seq.ann,
           DOMAIN rows' = Slots, \A s \in Slots : rows'[s] = rows[s] \/ rows'[s] = NoRow,
           SweepOrphanAnnotations(rows', envs')
    PROVE  HistoryInv' /\ Grows
  <1>1. seq.entry \in Nat /\ seq.ann \in Nat
        /\ (\A s \in Slots : rows[s] = NoRow \/ rows[s].id \in 1..seq.entry)
        /\ (\A s, u \in Slots : rows[s].id = rows[u].id /\ rows[s].id # 0 => s = u)
    BY DEF HistoryInv, EntriesSound
  <1>2. NoRow.id = 0
    BY DEF NoRow
  <1>3. EntriesSound'
    <2>1. \A s \in Slots : rows'[s] = NoRow \/ rows'[s].id \in 1..seq'.entry
      BY <1>1
    <2>2. \A s, u \in Slots : rows'[s].id = rows'[u].id /\ rows'[s].id # 0 => s = u
      BY <1>1, <1>2
    <2>. QED
      BY <1>1, <2>1, <2>2 DEF EntriesSound, Numbered
  <1>4. RowsMoveOn
    <2>1. \A s \in Slots : rows'[s].id \in 1..seq.entry => rows'[s].id = rows[s].id /\ rows'[s].gen = rows[s].gen
      <3>. TAKE s \in Slots
      <3>. CASE rows'[s] = NoRow
        BY <1>1, <1>2
      <3>. CASE rows'[s] = rows[s]
        OBVIOUS
      <3>. QED
        OBVIOUS
    <2>. QED
      BY <1>1, <2>1 DEF RowsMoveOn
  <1>5. /\ DOMAIN ann' = {j \in DOMAIN ann : ObjectExists(ann[j].obj, rows', envs')}
        /\ \A i \in DOMAIN ann' : ann'[i] = ann[i]
    BY DEF SweepOrphanAnnotations
  <1>6. AnnotationsSound' /\ KindsStay
    <2>1. KindsStay
      BY <1>1, <1>5 DEF KindsStay
    <2>2. DOMAIN ann' \subseteq DOMAIN ann
      BY <1>5
    <2>. QED
      BY <1>4, <1>5, <2>1, <2>2, AnnotationsStay DEF HistoryInv
  <1>7. Grows
    <2>1. \A i \in DOMAIN ann : ann[i].versions \in Seq(Wordings)
      BY DEF HistoryInv, AnnotationsSound, AnnotationSound, Told
    <2>. QED
      BY <1>5, <2>1, SamePrefix DEF Grows
  <1>8. RequestsSound'
    BY <1>4, <1>6, RequestsWait DEF HistoryInv
  <1>. QED
    BY <1>3, <1>6, <1>7, <1>8 DEF HistoryInv

\* The deletes sweep what they orphan; an env that is created takes nothing.
LEMMA ScopeKeeps ==
    ASSUME HistoryInv, ScopeRequest
    PROVE  HistoryInv' /\ Grows
  <1>0. conn' = conn /\ clock' \in Nat /\ Numbered(seq) /\ NoRow.id = 0
    BY DEF ScopeRequest, HistoryInv, EntriesSound, Numbered, NoRow
  <1>1. ASSUME NEW slots, DeleteRows(slots)
        PROVE  HistoryInv' /\ Grows
    <2>1. /\ seq' = seq /\ envs' = envs /\ SweepOrphanAnnotations(rows', envs)
          /\ rows' = [s \in Slots |-> IF s \in slots THEN NoRow ELSE rows[s]]
      BY <1>1 DEF DeleteRows
    <2>2. SweepOrphanAnnotations(rows', envs')
      BY <2>1
    <2>3. DOMAIN rows' = Slots /\ \A s \in Slots : rows'[s] = rows[s] \/ rows'[s] = NoRow
      BY <2>1
    <2>4. Numbered(seq') /\ seq'.entry = seq.entry /\ seq'.ann = seq.ann
      BY <1>0, <2>1 DEF Numbered
    <2>. QED
      BY <1>0, <2>2, <2>3, <2>4, Sweeps
  <1>2. ASSUME NEW e \in Envs, DeleteEnv(e)
        PROVE  HistoryInv' /\ Grows
    <2>1. /\ seq' = seq /\ SweepOrphanAnnotations(rows', envs')
          /\ rows' = [s \in Slots |-> IF s[1] = e THEN NoRow ELSE rows[s]]
      BY <1>2 DEF DeleteEnv
    <2>3. DOMAIN rows' = Slots /\ \A s \in Slots : rows'[s] = rows[s] \/ rows'[s] = NoRow
      BY <2>1
    <2>4. Numbered(seq') /\ seq'.entry = seq.entry /\ seq'.ann = seq.ann
      BY <1>0, <2>1 DEF Numbered
    <2>. QED
      BY <1>0, <2>1, <2>3, <2>4, Sweeps
  <1>3. ASSUME NEW e \in Envs, CreateEnv(e)
        PROVE  HistoryInv' /\ Grows
    <2>1. rows' = rows /\ ann' = ann
      BY <1>3 DEF CreateEnv
    <2>2. \E m : seq' = [seq EXCEPT !.env = m]
      BY <1>3 DEF CreateEnv
    <2>3. Numbered(seq') /\ seq'.entry = seq.entry /\ seq'.ann = seq.ann
      <3>. PICK m : seq' = [seq EXCEPT !.env = m]
        BY <2>2
      <3>. DEFINE w == [seq EXCEPT !.env = m]
      <3>1. Numbered(w) /\ w.entry = seq.entry /\ w.ann = seq.ann
        BY <1>0, NumberedFields
      <3>2. seq' = w
        OBVIOUS
      <3>. HIDE DEF w
      <3>. QED
        BY <3>1, <3>2 DEF Numbered
    <2>4. EntriesSound' /\ AnnotationsSound' /\ RowsMoveOn /\ KindsStay /\ Grows
      BY <1>0, <2>1, <2>3, Reads DEF Numbered
    <2>5. RequestsSound'
      BY <1>0, <2>4, RequestsWait DEF HistoryInv
    <2>. QED
      BY <2>4, <2>5 DEF HistoryInv
  <1>. QED
    BY <1>1, <1>2, <1>3 DEF ScopeRequest, DeleteEnvVar, ClearEnvVars

-----------------------------------------------------------------------------
(* The theorems.                                                           *)

\* Every statement of a request under way.
LEMMA StatementsKeep ==
    ASSUME HistoryInv, NEW c \in Conns, Statements(c)
    PROVE  HistoryInv' /\ Grows
  BY ApplyPutKeeps, SetDescriptionKeeps, GetDescriptionKeeps, NoteCountKeeps, AddNoteKeeps, EditNoteReadKeeps,
     EditNoteKeeps, RemoveKeeps, RecordScopeKeeps, RecordExecRunKeeps, EntryRefsKeeps DEF Statements

\* Every step keeps the invariant, and the history only grows by it.
LEMMA StepKeeps ==
    ASSUME HistoryInv, [HNext]_hvars
    PROVE  HistoryInv' /\ [Grows]_hvars
  <1>1. ASSUME NEW c \in Conns, Put(c) \/ Describe(c) \/ Note(c) \/ Exec(c) \/ Statements(c)
        PROVE  HistoryInv' /\ Grows
    BY <1>1, PutKeeps, AsksKeep, ExecKeeps, StatementsKeep
  <1>2. CASE HNext
    BY <1>1, <1>2, ScopeKeeps DEF HNext
  <1>3. CASE UNCHANGED hvars
    <2>1. rows' = rows /\ ann' = ann /\ seq' = seq /\ conn' = conn /\ clock' = clock
      BY <1>3 DEF hvars
    <2>2. clock' \in Nat /\ Numbered(seq') /\ seq'.entry = seq.entry /\ seq'.ann = seq.ann
      BY <2>1 DEF HistoryInv, EntriesSound, Numbered
    <2>3. EntriesSound' /\ AnnotationsSound' /\ RowsMoveOn /\ KindsStay /\ Grows
      BY <2>1, <2>2, Reads DEF Numbered
    <2>4. RequestsSound'
      BY <2>1, <2>3, RequestsWait DEF HistoryInv
    <2>. QED
      BY <2>3, <2>4, <1>3 DEF HistoryInv
  <1>. QED
    BY <1>2, <1>3

\* A vault without annotations.
LEMMA StartsSound == HInit => HistoryInv
  <1>. SUFFICES ASSUME HInit PROVE HistoryInv
    OBVIOUS
  <1>1. seq = [entry |-> 0, env |-> Cardinality(Envs), ann |-> 0, snap |-> 0, run |-> 0]
        /\ rows = [s \in Slots |-> NoRow] /\ ann = <<>> /\ clock = 0 /\ conn = [c \in Conns |-> Idle]
    BY DEF HInit
  <1>2. EntriesSound
    <2>1. NoRow.id = 0
      BY DEF NoRow
    <2>2. seq.entry = 0 /\ seq.ann = 0
          /\ seq = [entry |-> seq.entry, env |-> seq.env, ann |-> seq.ann, snap |-> seq.snap, run |-> seq.run]
      BY <1>1
    <2>. QED
      BY <1>1, <2>1, <2>2 DEF EntriesSound
  <1>3. AnnotationsSound
    BY <1>1 DEF AnnotationsSound
  <1>4. RequestsSound
    BY <1>1, IdleIsSound DEF RequestsSound
  <1>. QED
    BY <1>2, <1>3, <1>4 DEF HistoryInv

\* HistoryInv holds in every behaviour.
THEOREM HistorySound == HSpec => []HistoryInv
  <1>1. HistoryInv /\ [HNext]_hvars => HistoryInv'
    BY StepKeeps
  <1>. QED
    BY <1>1, StartsSound, PTL DEF HSpec

\* Whatever describe, clear, note, put and delete requests run in between the
\* statements of each other, the trail of an annotation begins with its creation,
\* its last wording is what is shown, and a description's ends in a removal exactly
\* when it is no longer shown (annotation.go SetDescription, EditNote,
\* removeAnnotation, AnnotationHistory).
THEOREM TrailHolds == HSpec => []TrailTells
  <1>1. HistoryInv => TrailTells
    BY DEF HistoryInv, AnnotationsSound, AnnotationSound, Told, TrailTells, AnnotationHistory
  <1>. QED
    BY <1>1, HistorySound, PTL

\* A listing of a scope shows with a name only what was said of the very row its
\* value comes from, though requests resolve their object first and write later
\* (annotation.go sweepOrphanAnnotations; schema.go, the AUTOINCREMENT of entries).
THEOREM OfItsObjectHolds == HSpec => []OfItsObject
  <1>1. HistoryInv => OfItsObject
    <2>. SUFFICES ASSUME HistoryInv, NEW e \in Envs, NEW n \in Names, NEW i \in EntryAnnotations(e, n)
                  PROVE  ann[i].gen = GenOf(EntryObjectRef(e, n))
      BY DEF OfItsObject
    <2>. DEFINE obj == EntryObjectRef(e, n)
    <2>1. i \in DOMAIN ann /\ ann[i].obj = obj
      BY DEF EntryAnnotations
    <2>2. About(ann[i].obj, ann[i].gen)
      BY <2>1 DEF HistoryInv, AnnotationsSound, AnnotationSound
    <2>3. obj # NoObject
      BY <2>1, <2>2 DEF About, NoObject
    <2>4. obj[1] = "entry" /\ \E s \in Slots : rows[s].id = obj[2] /\ GenOf(obj) = rows[s].gen
      BY <2>3, EntryResolves DEF HistoryInv
    <2>. HIDE DEF obj
    <2>5. ann[i].gen = GenOf(obj)
      BY <2>1, <2>2, <2>4 DEF About
    <2>. QED
      BY <2>5 DEF obj
  <1>. QED
    BY <1>1, HistorySound, PTL

\* A version once written stays, and an annotation goes only when its object goes
\* (annotation.go: there is no purge).
THEOREM HistoryGrows == HSpec => HistoryOnlyGrows
  <1>1. HistoryInv /\ [HNext]_hvars => [Grows]_hvars
    BY StepKeeps
  <1>2. Grows <=> \A i \in DOMAIN ann : IF i \in DOMAIN ann' THEN IsPrefix(ann[i].versions, ann'[i].versions)
                                         ELSE ~ObjectExists(ann[i].obj, rows', envs')
    BY DEF Grows
  <1>. QED
    BY <1>1, HistorySound, PTL DEF HSpec, HistoryOnlyGrows, Grows

-----------------------------------------------------------------------------
(* The number of notes.                                                    *)

\* The requests that have counted the notes of an object and not yet written theirs.
NoteWriters(obj) == {c \in Conns : conn[c].pc = "insert" /\ conn[c].obj = obj}

\* The notes there are, and those on their way, pass the limit by no more than the other connections.
Room(obj) == Cardinality(LiveNotes(obj)) + Cardinality(NoteWriters(obj)) <= MaxNotes + Cardinality(Conns) - 1

\* For every object.
NotesFit == \A obj : Room(obj)

\* A step that adds no note.
FewerNotes ==
    \A i \in DOMAIN ann' : ann'[i].kind = "note" /\ ann'[i].live =>
        i \in DOMAIN ann /\ ann[i].kind = "note" /\ ann[i].live /\ ann[i].obj = ann'[i].obj

\* One that sends no request on to its insert.
FewerWriters ==
    \A c \in Conns : conn'[c].pc = "insert" => conn[c].pc = "insert" /\ conn[c].obj = conn'[c].obj

\* The sets that are counted are finite.
LEMMA CountsAreFinite ==
    ASSUME HistoryInv, IsFiniteSet(Conns), NEW obj
    PROVE  /\ IsFiniteSet(LiveNotes(obj)) /\ IsFiniteSet(NoteWriters(obj))
           /\ Cardinality(LiveNotes(obj)) \in Nat /\ Cardinality(NoteWriters(obj)) \in Nat /\ Cardinality(Conns) \in Nat
           /\ Cardinality(NoteWriters(obj)) <= Cardinality(Conns)
  <1>1. IsFiniteSet(1..seq.ann)
    <2>1. seq.ann \in Int /\ 1 \in Int
      BY DEF HistoryInv, EntriesSound
    <2>. QED
      BY <2>1, FS_Interval
  <1>2. LiveNotes(obj) \subseteq 1..seq.ann
    BY DEF LiveNotes, HistoryInv, AnnotationsSound
  <1>3. NoteWriters(obj) \subseteq Conns
    BY DEF NoteWriters
  <1>4. /\ IsFiniteSet(LiveNotes(obj)) /\ IsFiniteSet(NoteWriters(obj))
        /\ Cardinality(NoteWriters(obj)) <= Cardinality(Conns)
    BY <1>1, <1>2, <1>3, FS_Subset
  <1>. QED
    BY <1>4, FS_CardinalityType

\* Where nothing is added and nobody goes on to an insert, there is room as before.
LEMMA FewerFit ==
    ASSUME HistoryInv, HistoryInv', IsFiniteSet(Conns), NotesFit, FewerNotes, FewerWriters
    PROVE  NotesFit'
  <1>1. ASSUME NEW obj PROVE Room(obj)'
    <2>1. LiveNotes(obj)' \subseteq LiveNotes(obj)
      BY DEF LiveNotes, IsLive, FewerNotes
    <2>2. NoteWriters(obj)' \subseteq NoteWriters(obj)
      BY DEF NoteWriters, FewerWriters
    <2>3. Cardinality(LiveNotes(obj)') <= Cardinality(LiveNotes(obj))
          /\ Cardinality(NoteWriters(obj)') <= Cardinality(NoteWriters(obj))
      BY <2>1, <2>2, CountsAreFinite, FS_Subset
    <2>4. Cardinality(LiveNotes(obj)') \in Nat /\ Cardinality(NoteWriters(obj)') \in Nat
      BY <2>1, <2>2, CountsAreFinite, FS_Subset, FS_CardinalityType
    <2>5. Cardinality(LiveNotes(obj)) \in Nat /\ Cardinality(NoteWriters(obj)) \in Nat /\ Cardinality(Conns) \in Nat
      BY CountsAreFinite
    <2>6. Cardinality(LiveNotes(obj)) + Cardinality(NoteWriters(obj)) <= MaxNotes + Cardinality(Conns) - 1
      BY DEF NotesFit, Room
    <2>7. Cardinality(LiveNotes(obj)') + Cardinality(NoteWriters(obj)') <= MaxNotes + Cardinality(Conns) - 1
      BY <2>3, <2>4, <2>5, <2>6, HistoryConstants
    <2>. QED
      BY <2>7 DEF Room
  <1>. QED
    BY <1>1 DEF NotesFit

\* A request that goes on to anything but the insert of a note.
LEMMA MovesElsewhere ==
    ASSUME NEW c \in Conns, NEW q, Moves(c, q), q.pc # "insert"
    PROVE  FewerWriters
  BY DEF Moves, FewerWriters

\* So does a request that ends.
LEMMA DoneElsewhere ==
    ASSUME HistoryInv, NEW c \in Conns, Done(c)
    PROVE  FewerWriters
  <1>1. Moves(c, Idle) /\ Idle.pc # "insert"
    BY MovesBy DEF Done, HistoryInv, Idle
  <1>. QED
    BY <1>1, MovesElsewhere

\* A step that leaves the annotations as they are.
LEMMA SameNotes ==
    ASSUME ann' = ann
    PROVE  FewerNotes
  BY DEF FewerNotes

\* No request begins with an insert.
LEMMA BeginElsewhere ==
    ASSUME HistoryInv, NEW c \in Conns, NEW q, Begin(c, q), q.pc # "insert"
    PROVE  FewerNotes /\ FewerWriters
  <1>1. ann' = ann /\ Moves(c, q)
    BY MovesBy DEF Begin, tables, HistoryInv
  <1>. QED
    BY <1>1, SameNotes, MovesElsewhere

\* A statement that leads to any other than the insert.
LEMMA GotoElsewhere ==
    ASSUME HistoryInv, NEW c \in Conns, conn[c].pc \in NotePcs, NEW pc \in NotePcs \ {"insert"}, Goto(c, pc)
    PROVE  FewerWriters
  <1>1. IsNoteRequest(conn[c])
    BY NoteRequestAt
  <1>2. PICK u : Moves(c, u) /\ u.pc = pc
    BY <1>1, MovesTo
  <1>. QED
    BY <1>2, MovesElsewhere

\* Requests that begin.
LEMMA AsksFewer ==
    ASSUME HistoryInv, NEW c \in Conns, Describe(c) \/ Note(c) \/ Exec(c)
    PROVE  FewerNotes /\ FewerWriters
  <1>1. \A pc, t, by, id : AnnotationRequest(pc, t, by, id).pc = pc
    BY DEF AnnotationRequest
  <1>2. ASSUME NEW q, Begin(c, q), q.pc # "insert" PROVE FewerNotes /\ FewerWriters
    BY <1>2, BeginElsewhere
  <1>3. ASSUME Describe(c) PROVE FewerNotes /\ FewerWriters
    <2>. PICK t \in Targets, by \in AuthorFor, clear \in BOOLEAN : HandleAnnotationSet(c, t, by, clear)
      BY <1>3 DEF Describe
    <2>. PICK pc : pc = (IF clear THEN "getdescription" ELSE "set")
      OBVIOUS
    <2>1. Begin(c, AnnotationRequest(pc, t, by, 0)) /\ pc # "insert"
      BY DEF HandleAnnotationSet
    <2>. QED
      BY <1>1, <1>2, <2>1
  <1>4. ASSUME Note(c) PROVE FewerNotes /\ FewerWriters
    <2>. PICK t, by : \/ HandleAnnotationAdd(c, t, by)
                      \/ \E i \in DOMAIN ann : HandleAnnotationEdit(c, t, by, i) \/ HandleAnnotationRemove(c, t, by, i)
      BY <1>4 DEF Note
    <2>1. \E pc, i : Begin(c, AnnotationRequest(pc, t, by, i)) /\ pc # "insert"
      BY DEF HandleAnnotationAdd, HandleAnnotationEdit, HandleAnnotationRemove
    <2>. QED
      BY <1>1, <1>2, <2>1
  <1>5. ASSUME Exec(c) PROVE FewerNotes /\ FewerWriters
    <2>. PICK e, names : ExecOpen(c, e, names)
      BY <1>5 DEF Exec
    <2>. DEFINE h == [n \in names |-> rows[<<CHOOSE v \in Visible(e, n) : TRUE, n>>].blob]
                q == [pc |-> "runscope", env |-> e, names |-> names, held |-> h, opened |-> clock + 1]
    <2>1. Begin(c, q)
      BY DEF ExecOpen
    <2>. HIDE DEF h
    <2>2. q.pc # "insert"
      OBVIOUS
    <2>. HIDE DEF q
    <2>. QED
      BY <1>2, <2>1, <2>2
  <1>. QED
    BY <1>3, <1>4, <1>5

\* A put writes no annotation itself.
LEMMA PutFewer ==
    ASSUME HistoryInv, NEW c \in Conns, Put(c)
    PROVE  FewerNotes /\ FewerWriters
  <1>. PICK e, n, by, carries : HandlePut(c, e, n, by, carries)
    BY DEF Put
  <1>. DEFINE q == [pc |-> "resolve", by |-> by, text |-> clock', env |-> e, name |-> n, carries |-> carries]
  <1>1. ann' = ann /\ (conn' = [conn EXCEPT ![c] = q] \/ conn' = conn)
    BY DEF HandlePut
  <1>2. CASE conn' = conn
    BY <1>1, <1>2, SameNotes DEF FewerWriters
  <1>3. CASE conn' = [conn EXCEPT ![c] = q]
    <2>. PICK z : z = q
      OBVIOUS
    <2>1. Moves(c, z) /\ z.pc # "insert"
      BY <1>3, MovesBy DEF HistoryInv
    <2>. QED
      BY <1>1, <2>1, SameNotes, MovesElsewhere
  <1>. QED
    BY <1>1, <1>2, <1>3

\* Neither does a put that resolves its name, or the recording of a run.
LEMMA RunFewer ==
    ASSUME HistoryInv, NEW c \in Conns,
           ApplyPutAnnotations(c) \/ RecordScope(c) \/ RecordExecRun(c) \/ \E n \in Names : EntryRefs(c, n)
    PROVE  FewerNotes /\ FewerWriters
  <1>1. ann' = ann
    BY DEF ApplyPutAnnotations, RecordScope, RecordExecRun, EntryRefs, tables
  <1>2. ASSUME ApplyPutAnnotations(c) PROVE FewerWriters
    <2>1. \/ Done(c)
          \/ \E pc \in {"set", "count"} : \E kind, by, text, obj, gen :
               conn' = [conn EXCEPT ![c] = [pc |-> pc, kind |-> kind, by |-> by, text |-> text, obj |-> obj,
                                            gen |-> gen, id |-> 0]]
      BY <1>2 DEF ApplyPutAnnotations
    <2>2. ASSUME NEW pc \in {"set", "count"}, NEW kind, NEW by, NEW text, NEW obj, NEW gen,
                 conn' = [conn EXCEPT ![c] = [pc |-> pc, kind |-> kind, by |-> by, text |-> text, obj |-> obj,
                                              gen |-> gen, id |-> 0]]
          PROVE  FewerWriters
      <3>. DEFINE u == [pc |-> pc, kind |-> kind, by |-> by, text |-> text, obj |-> obj, gen |-> gen, id |-> 0]
      <3>1. Moves(c, u) /\ u.pc # "insert"
        BY <2>2, MovesBy DEF HistoryInv
      <3>. QED
        BY <3>1, MovesElsewhere
    <2>. QED
      BY <2>1, <2>2, DoneElsewhere
  <1>3. ASSUME RecordScope(c) PROVE FewerWriters
    <2>. DEFINE q == conn[c]
                u == [pc |-> "runrefs", envId |-> envs[q.env], todo |-> q.names, refs |-> <<>>, held |-> q.held,
                      opened |-> q.opened]
    <2>1. Done(c) \/ conn' = [conn EXCEPT ![c] = u]
      BY <1>3 DEF RecordScope
    <2>2. u.pc # "insert"
      OBVIOUS
    <2>. HIDE DEF u
    <2>. QED
      BY <2>1, <2>2, DoneElsewhere, MovesBy, MovesElsewhere DEF HistoryInv
  <1>4. ASSUME RecordExecRun(c) PROVE FewerWriters
    BY <1>4, DoneElsewhere DEF RecordExecRun
  <1>5. ASSUME NEW n \in Names, EntryRefs(c, n) PROVE FewerWriters
    <2>1. conn[c].pc = "runrefs" /\ \E t, r : conn' = [conn EXCEPT ![c] = [@ EXCEPT !.todo = t, !.refs = r]]
      BY <1>5 DEF EntryRefs
    <2>2. IsRunRequest(conn[c])
      BY <2>1 DEF HistoryInv, RequestsSound, RequestSound, IsNoteRequest, IsPutRequest, NotePcs, Idle
    <2>. PICK q : q = conn[c]
      OBVIOUS
    <2>3. PICK t, r : conn' = [conn EXCEPT ![c] = [q EXCEPT !.todo = t, !.refs = r]]
      BY <2>1
    <2>. DEFINE u == [q EXCEPT !.todo = t]
                w == [u EXCEPT !.refs = r]
    <2>4. Moves(c, [q EXCEPT !.todo = t, !.refs = r])
      BY <2>3, MovesBy DEF HistoryInv
    <2>5. [q EXCEPT !.todo = t, !.refs = r] = w
      OBVIOUS
    <2>6. IsRunRequest(u) /\ u.pc = "runrefs"
      BY <2>1, <2>2, NextRef
    <2>. HIDE DEF u
    <2>7. w.pc = "runrefs"
      BY <2>6, NextRef
    <2>. HIDE DEF w
    <2>. QED
      BY <2>4, <2>5, <2>7, MovesElsewhere
  <1>. QED
    BY <1>1, <1>2, <1>3, <1>4, <1>5, SameNotes

\* A description that is set, new or reworded.
LEMMA SetDescriptionFewer ==
    ASSUME HistoryInv, NEW c \in Conns, SetDescription(c)
    PROVE  FewerNotes /\ FewerWriters
  <1>. DEFINE q == conn[c]
              v == Version("edit", q.text, q.by)
  <1>0. conn[c].pc = "set" /\ "set" \in NotePcs /\ "count" \in NotePcs \ {"insert"}
    BY DEF SetDescription, NotePcs
  <1>1. FewerWriters
    BY <1>0, DoneElsewhere, GotoElsewhere DEF SetDescription
  <1>2. \/ InsertAnnotation(Annotated(q.obj, "description", "none", q.text, q.by, q.gen))
        \/ \E i \in LiveDescription(q.obj) :
             ann' = [ann EXCEPT ![i] = AppendVersion([ann[i] EXCEPT !.text = q.text, !.by = q.by], v)]
    BY DEF SetDescription
  <1>. HIDE DEF q, v
  <1>3. CASE InsertAnnotation(Annotated(q.obj, "description", "none", q.text, q.by, q.gen))
    <2>. DEFINE row == Annotated(q.obj, "description", "none", q.text, q.by, q.gen)
    <2>1. row.kind = "description"
      BY DEF Annotated
    <2>. HIDE DEF row
    <2>2. \A j \in DOMAIN ann' : ann'[j] = row \/ (j \in DOMAIN ann /\ ann'[j] = ann[j])
      BY <1>3 DEF InsertAnnotation, row
    <2>3. FewerNotes
      BY <2>1, <2>2 DEF FewerNotes
    <2>. QED
      BY <1>1, <2>3
  <1>4. ASSUME NEW i \in LiveDescription(q.obj),
               ann' = [ann EXCEPT ![i] = AppendVersion([ann[i] EXCEPT !.text = q.text, !.by = q.by], v)]
        PROVE  FewerNotes
    <2>. DEFINE a == ann[i]
                a1 == Reworded(a, q.text)
                a2 == Reauthored(a1, q.by)
                a3 == AppendVersion(a2, v)
    <2>1. i \in DOMAIN ann /\ a.kind = "description"
      BY DEF LiveDescription, IsLive
    <2>2. IsAnnotation(a)
      BY <2>1 DEF HistoryInv, AnnotationsSound, AnnotationSound
    <2>3. ann'[i] = a3 /\ DOMAIN ann' = DOMAIN ann /\ \A j \in DOMAIN ann : j # i => ann'[j] = ann[j]
      <3>. HIDE DEF a
      <3>1. [a EXCEPT !.text = q.text, !.by = q.by] = a2
        BY DEF Reworded, Reauthored
      <3>. QED
        BY <1>4, <2>1, <3>1 DEF a, a3
    <2>. HIDE DEF a
    <2>4. IsAnnotation(a1) /\ a1.kind = a.kind
      BY <2>2, RewordedFields
    <2>. HIDE DEF a1
    <2>5. IsAnnotation(a2) /\ a2.kind = a1.kind
      BY <2>4, ReauthoredFields
    <2>. HIDE DEF a2
    <2>6. a3.kind = a2.kind
      BY <2>5, AppendedFields
    <2>. HIDE DEF a3
    <2>7. ann'[i].kind = "description"
      BY <2>1, <2>3, <2>4, <2>5, <2>6
    <2>. QED
      BY <2>3, <2>7 DEF FewerNotes
  <1>. QED
    BY <1>1, <1>2, <1>3, <1>4

\* A note that is reworded stays where it is.
LEMMA EditNoteFewer ==
    ASSUME HistoryInv, NEW c \in Conns, EditNote(c)
    PROVE  FewerNotes /\ FewerWriters
  <1>. DEFINE q == conn[c]
              v == Version("edit", q.text, q.by)
              i == q.id
  <1>0. /\ Done(c)
        /\ ann' = [j \in DOMAIN ann |-> IF j = i THEN AppendVersion([ann[j] EXCEPT !.text = q.text], v) ELSE ann[j]]
    BY DEF EditNote
  <1>. HIDE DEF q, v, i
  <1>1. ASSUME NEW j \in DOMAIN ann
        PROVE  ann'[j].kind = ann[j].kind /\ ann'[j].obj = ann[j].obj /\ (ann'[j].live <=> ann[j].live)
    <2>. DEFINE a == ann[j]
                a1 == Reworded(a, q.text)
                a2 == AppendVersion(a1, v)
    <2>1. IsAnnotation(a)
      BY DEF HistoryInv, AnnotationsSound, AnnotationSound
    <2>2. ann'[j] = a2 \/ ann'[j] = a
      BY <1>0 DEF Reworded
    <2>. HIDE DEF a
    <2>3. IsAnnotation(a1) /\ a1.kind = a.kind /\ a1.obj = a.obj /\ a1.live = a.live
      BY <2>1, RewordedFields
    <2>. HIDE DEF a1
    <2>4. a2.kind = a.kind /\ a2.obj = a.obj /\ a2.live = a.live
      BY <2>3, AppendedFields
    <2>. HIDE DEF a2
    <2>. QED
      BY <2>2, <2>4 DEF a
  <1>2. FewerNotes
    BY <1>0, <1>1 DEF FewerNotes
  <1>. QED
    BY <1>0, <1>2, DoneElsewhere

\* A removal.
LEMMA RemoveFewer ==
    ASSUME HistoryInv, NEW c \in Conns, RemoveAnnotation(c)
    PROVE  FewerNotes /\ FewerWriters
  <1>. DEFINE q == conn[c]
              v == Version("delete", 0, q.by)
              Hit(j) == j = q.id /\ ann[j].obj = q.obj /\ ann[j].live
  <1>0. /\ Done(c)
        /\ ann' = [j \in DOMAIN ann |-> IF Hit(j) THEN Tombstone(ann[j], q.by) ELSE ann[j]]
    BY DEF RemoveAnnotation
  <1>1. ASSUME NEW j \in DOMAIN ann PROVE ann'[j] = ann[j] \/ ann'[j].live = FALSE
    <2>. DEFINE a == ann[j]
                a1 == Shown(a, FALSE)
                a2 == AppendVersion(a1, v)
    <2>1. IsAnnotation(a)
      BY DEF HistoryInv, AnnotationsSound, AnnotationSound
    <2>2. ann'[j] = a2 \/ ann'[j] = a
      BY <1>0 DEF Shown, Tombstone
    <2>. HIDE DEF a, v
    <2>3. IsAnnotation(a1) /\ a1.live = FALSE
      BY <2>1, ShownFields, Zenon
    <2>. HIDE DEF a1
    <2>4. a2.live = FALSE
      BY <2>3, AppendedFields
    <2>. HIDE DEF a2
    <2>. QED
      BY <2>2, <2>4 DEF a
  <1>2. FewerNotes
    BY <1>0, <1>1 DEF FewerNotes
  <1>. QED
    BY <1>0, <1>2, DoneElsewhere

\* The read before a description is cleared.
LEMMA GetDescriptionFewer ==
    ASSUME HistoryInv, NEW c \in Conns, GetDescription(c)
    PROVE  FewerNotes /\ FewerWriters
  <1>0. conn[c].pc \in NotePcs /\ "remove" \in NotePcs /\ ann' = ann
    BY DEF GetDescription, NotePcs, tables
  <1>1. IsNoteRequest(conn[c])
    BY <1>0, NoteRequestAt
  <1>2. ASSUME NEW i, conn' = [conn EXCEPT ![c].pc = "remove", ![c].id = i] PROVE FewerWriters
    <2>. PICK q : q = conn[c]
      OBVIOUS
    <2>. DEFINE u == [q EXCEPT !.pc = "remove"]
                w == [u EXCEPT !.id = i]
    <2>1. /\ conn'[c] = [q EXCEPT !.pc = "remove", !.id = i]
          /\ DOMAIN conn' = Conns /\ \A d \in Conns : d # c => conn'[d] = conn[d]
      BY <1>2 DEF HistoryInv, RequestsSound
    <2>2. conn'[c] = w
      BY <2>1
    <2>3. IsNoteRequest(u) /\ u.pc = "remove"
      BY <1>0, <1>1, NextPlace
    <2>. HIDE DEF u
    <2>4. w.pc = "remove"
      BY <2>3, NextId
    <2>. HIDE DEF w
    <2>5. Moves(c, w)
      BY <2>1, <2>2 DEF Moves
    <2>. QED
      BY <2>4, <2>5, MovesElsewhere
  <1>3. FewerWriters
    BY <1>2, DoneElsewhere DEF GetDescription
  <1>. QED
    BY <1>0, <1>3, SameNotes

\* The read before a note is reworded.
LEMMA EditNoteReadFewer ==
    ASSUME HistoryInv, NEW c \in Conns, EditNoteRead(c)
    PROVE  FewerNotes /\ FewerWriters
  <1>0. conn[c].pc \in NotePcs /\ "update" \in NotePcs \ {"insert"} /\ ann' = ann
    BY DEF EditNoteRead, NotePcs, tables
  <1>. QED
    BY <1>0, SameNotes, DoneElsewhere, GotoElsewhere DEF EditNoteRead

\* The sweep of a delete.
LEMMA ScopeFewer ==
    ASSUME HistoryInv, ScopeRequest
    PROVE  FewerNotes /\ FewerWriters
  <1>1. conn' = conn
    BY DEF ScopeRequest
  <1>2. ann' = ann \/ \E r, e : SweepOrphanAnnotations(r, e)
    BY DEF ScopeRequest, DeleteEnvVar, ClearEnvVars, DeleteRows, DeleteEnv, CreateEnv
  <1>3. FewerNotes
    BY <1>2 DEF SweepOrphanAnnotations, FewerNotes
  <1>. QED
    BY <1>1, <1>3 DEF FewerWriters

\* The count lets a request pass when there is room but for the other connections.
LEMMA NoteCountFits ==
    ASSUME HistoryInv, IsFiniteSet(Conns), NotesFit, NEW c \in Conns, NoteCount(c)
    PROVE  NotesFit'
  <1>0. conn[c].pc = "count" /\ "count" \in NotePcs /\ "insert" \in NotePcs /\ ann' = ann
    BY DEF NoteCount, NotePcs, tables
  <1>h. HistoryInv'
    BY NoteCountKeeps
  <1>1. CASE Done(c)
    BY <1>0, <1>1, <1>h, SameNotes, DoneElsewhere, FewerFit
  <1>2. CASE Goto(c, "insert") /\ ~(Cardinality(LiveNotes(conn[c].obj)) >= MaxNotes)
    <2>1. IsNoteRequest(conn[c])
      BY <1>0, NoteRequestAt
    <2>2. PICK u : Moves(c, u) /\ u.pc = "insert" /\ u.obj = conn[c].obj
      BY <1>0, <1>2, <2>1, MovesTo
    <2>3. ASSUME NEW obj PROVE Room(obj)'
      <3>1. LiveNotes(obj)' = LiveNotes(obj)
        BY <1>0 DEF LiveNotes, IsLive
      <3>. DEFINE L == Cardinality(LiveNotes(obj))
                  W == Cardinality(NoteWriters(obj)')
                  N == Cardinality(Conns)
      <3>2. L \in Nat /\ N \in Nat /\ IsFiniteSet(NoteWriters(obj))
        BY CountsAreFinite
      <3>w. NoteWriters(obj)' \subseteq Conns
        BY DEF NoteWriters
      <3>3. W \in Nat /\ W <= N
        BY <3>w, FS_Subset, FS_CardinalityType
      <3>4. CASE obj = conn[c].obj
        <4>1. L < MaxNotes
          BY <1>2, <3>2, <3>4, HistoryConstants
        <4>. HIDE DEF L, W, N
        <4>2. L + W <= MaxNotes + N - 1
          BY <3>2, <3>3, <4>1, HistoryConstants
        <4>. QED
          BY <3>1, <4>2 DEF Room, L, W, N
      <3>5. CASE obj # conn[c].obj
        <4>1. NoteWriters(obj)' = NoteWriters(obj)
          BY <1>0, <2>2, <3>5 DEF NoteWriters, Moves
        <4>. QED
          BY <3>1, <4>1 DEF NotesFit, Room
      <3>. QED
        BY <3>4, <3>5
    <2>. QED
      BY <2>3 DEF NotesFit
  <1>. QED
    BY <1>1, <1>2 DEF NoteCount

\* The insert takes the room its request had.
LEMMA AddNoteFits ==
    ASSUME HistoryInv, IsFiniteSet(Conns), NotesFit, NEW c \in Conns, AddNote(c)
    PROVE  NotesFit'
  <1>. DEFINE q == conn[c]
              i == seq.ann + 1
              domain == KeyDomain(q.obj, IF q.kind = "putnote" THEN q.by ELSE "owner")
              row == Annotated(q.obj, "note", domain, q.text, q.by, q.gen)
  <1>0. q.pc = "insert" /\ Done(c)
    BY DEF AddNote
  <1>1. ann' = [j \in DOMAIN ann \cup {i} |-> IF j = i THEN row ELSE ann[j]]
    BY DEF AddNote, InsertAnnotation, NewId
  <1>2. row.kind = "note" /\ row.obj = q.obj /\ row.live = TRUE
    BY DEF Annotated
  <1>3. i \notin DOMAIN ann
    BY DEF HistoryInv, AnnotationsSound, EntriesSound
  <1>4. Moves(c, Idle) /\ Idle.pc = "idle"
    BY <1>0, MovesBy DEF Done, HistoryInv, Idle
  <1>. PICK o : o = q.obj
    OBVIOUS
  <1>5. c \in NoteWriters(o)
    BY <1>0 DEF NoteWriters
  <1>. HIDE DEF row, i, q
  <1>6. ASSUME NEW obj PROVE Room(obj)'
    <2>1. NoteWriters(obj)' = NoteWriters(obj) \ {c}
      BY <1>4 DEF NoteWriters, Moves
    <2>. DEFINE L == Cardinality(LiveNotes(obj))
                M == Cardinality(LiveNotes(obj)')
                W == Cardinality(NoteWriters(obj))
                V == Cardinality(NoteWriters(obj)')
                N == Cardinality(Conns)
    <2>2. L \in Nat /\ W \in Nat /\ N \in Nat /\ IsFiniteSet(NoteWriters(obj)) /\ IsFiniteSet(LiveNotes(obj))
      BY CountsAreFinite
    <2>3. L + W <= MaxNotes + N - 1
      BY DEF NotesFit, Room
    <2>4. CASE obj = o
      <3>1. LiveNotes(obj)' = LiveNotes(obj) \cup {i} /\ i \notin LiveNotes(obj)
        <4>1. i \in LiveNotes(obj)'
          BY <1>1, <1>2, <2>4 DEF LiveNotes, IsLive
        <4>2. \A j : j # i => (j \in LiveNotes(obj)' <=> j \in LiveNotes(obj))
          BY <1>1 DEF LiveNotes, IsLive
        <4>3. i \notin LiveNotes(obj)
          BY <1>3 DEF LiveNotes
        <4>. QED
          BY <4>1, <4>2, <4>3
      <3>2. M = L + 1
        BY <2>2, <3>1, FS_AddElement
      <3>3. V = W - 1
        BY <1>5, <2>1, <2>2, <2>4, FS_RemoveElement
      <3>. HIDE DEF L, M, W, V, N
      <3>4. M + V <= MaxNotes + N - 1
        BY <2>2, <2>3, <3>2, <3>3, HistoryConstants
      <3>. QED
        BY <3>4 DEF Room, L, M, W, V, N
    <2>5. CASE obj # o
      <3>1. LiveNotes(obj)' = LiveNotes(obj)
        <4>1. i \notin LiveNotes(obj)' /\ i \notin LiveNotes(obj)
          BY <1>1, <1>2, <1>3, <2>5 DEF LiveNotes, IsLive
        <4>2. \A j : j # i => (j \in LiveNotes(obj)' <=> j \in LiveNotes(obj))
          BY <1>1 DEF LiveNotes, IsLive
        <4>. QED
          BY <4>1, <4>2
      <3>2. V \in Nat /\ V <= W
        BY <2>1, <2>2, FS_Subset, FS_CardinalityType
      <3>3. M = L
        BY <3>1
      <3>. HIDE DEF L, M, W, V, N
      <3>4. M + V <= MaxNotes + N - 1
        BY <2>2, <2>3, <3>2, <3>3, HistoryConstants
      <3>. QED
        BY <3>4 DEF Room, L, M, W, V, N
    <2>. QED
      BY <2>4, <2>5
  <1>. QED
    BY <1>6 DEF NotesFit

\* Every step keeps the room there is.
LEMMA FitStep ==
    ASSUME HistoryInv, IsFiniteSet(Conns), NotesFit, [HNext]_hvars
    PROVE  NotesFit'
  <1>1. HistoryInv'
    BY StepKeeps
  <1>2. ASSUME NEW c \in Conns, Put(c) \/ Describe(c) \/ Note(c) \/ Exec(c) PROVE NotesFit'
    BY <1>1, <1>2, PutFewer, AsksFewer, FewerFit
  <1>3. ASSUME NEW c \in Conns, Statements(c) PROVE NotesFit'
    <2>1. CASE NoteCount(c) \/ AddNote(c)
      BY <2>1, NoteCountFits, AddNoteFits
    <2>2. CASE ~(NoteCount(c) \/ AddNote(c))
      <3>1. FewerNotes /\ FewerWriters
        BY <1>3, <2>2, SetDescriptionFewer, GetDescriptionFewer, EditNoteReadFewer, EditNoteFewer, RemoveFewer, RunFewer
           DEF Statements
      <3>. QED
        BY <1>1, <3>1, FewerFit
    <2>. QED
      BY <2>1, <2>2
  <1>4. CASE ScopeRequest
    BY <1>1, <1>4, ScopeFewer, FewerFit
  <1>5. CASE UNCHANGED hvars
    <2>1. ann' = ann /\ conn' = conn
      BY <1>5 DEF hvars
    <2>2. FewerNotes /\ FewerWriters
      BY <2>1, SameNotes DEF FewerWriters
    <2>. QED
      BY <1>1, <2>2, FewerFit
  <1>. QED
    BY <1>2, <1>3, <1>4, <1>5 DEF HNext

\* The count and the insert of a note are separate statements, so the notes of an
\* object can pass maxNotesPerObject, but by no more than the connections that can
\* be between the two beside the one that wrote last (annotation.go addNote). Of
\* the connections it needs that there are some, and finitely many.
THEOREM NoteCapIsHeld ==
    ASSUME IsFiniteSet(Conns), Conns # {}
    PROVE  HSpec => []NoteCapHolds
  <1>1. HInit => NotesFit
    <2>. SUFFICES ASSUME HInit, NEW obj PROVE Room(obj)
      BY DEF NotesFit
    <2>1. LiveNotes(obj) = {} /\ NoteWriters(obj) = {}
      <3>1. ann = <<>> /\ conn = [c \in Conns |-> Idle] /\ Idle.pc = "idle"
        BY DEF HInit, Idle
      <3>. QED
        BY <3>1 DEF LiveNotes, NoteWriters
    <2>2. Cardinality({}) = 0 /\ Cardinality(Conns) \in Nat /\ Cardinality(Conns) # 0
      BY FS_EmptySet, FS_CardinalityType
    <2>. QED
      BY <2>1, <2>2, HistoryConstants DEF Room
  <1>2. HistoryInv /\ NotesFit /\ [HNext]_hvars => NotesFit'
    BY FitStep
  <1>3. HistoryInv /\ NotesFit => NoteCapHolds
    <2>. SUFFICES ASSUME HistoryInv, NotesFit, NEW i \in DOMAIN ann
                  PROVE  Cardinality(LiveNotes(ann[i].obj)) <= MaxNotes + Cardinality(Conns) - 1
      BY DEF NoteCapHolds
    <2>. PICK obj : obj = ann[i].obj
      OBVIOUS
    <2>1. Room(obj)
      BY DEF NotesFit
    <2>2. Cardinality(LiveNotes(obj)) \in Nat /\ Cardinality(NoteWriters(obj)) \in Nat /\ Cardinality(Conns) \in Nat
      BY CountsAreFinite
    <2>. QED
      BY <2>1, <2>2, HistoryConstants DEF Room
  <1>. QED
    BY <1>1, <1>2, <1>3, HistorySound, PTL DEF HSpec
=============================================================================
