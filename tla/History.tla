------------------------------ MODULE History ------------------------------
(***************************************************************************)
(* What a vault remembers about the past: the commentary on its objects    *)
(* (internal/vault/annotation.go, internal/daemon/annotation.go) and the   *)
(* record of what each exec run was given (internal/vault/execrun.go,      *)
(* internal/daemon/runlist.go).                                            *)
(*                                                                         *)
(* The store opens one database connection, so a transaction is one step;  *)
(* the statements of a handler that are not in one transaction are         *)
(* separate steps, and requests of other connections run between them.     *)
(*                                                                         *)
(* A text and a stored blob are the number of the request that wrote them: *)
(* a put seals under a fresh nonce, so no two writes store the same blob.  *)
(* Row fields gen and run fields env, refs, held and opened are history         *)
(* variables: the code keeps none of them.                                 *)
(***************************************************************************)
EXTENDS Naturals, Sequences, FiniteSets, SequencesExt, TLC

CONSTANTS Conns,         \* connections to the daemon, one request each
          Envs,          \* env names of the one project modelled
          Names,         \* variable names
          Targets,       \* the objects that requests annotate
          MaxNotes,      \* maxNotesPerObject
          UpdateIsFree,  \* the governing .byn says [auth] update = "none"
          PutCarries,    \* which annotations a put may carry
          Workloads,     \* what clients ask for besides puts and deletes
          MaxRequests    \* bound: requests begun in a behaviour

ASSUME HistoryConstants == /\ "default" \in Envs
                           /\ MaxNotes \in Nat /\ MaxRequests \in Nat
                           /\ UpdateIsFree \in BOOLEAN
                           /\ PutCarries \subseteq SUBSET {"description", "note"}
                           /\ Workloads \subseteq SUBSET {"annotate", "exec"}
                           /\ \A t \in Targets : /\ t.env \in Envs
                                                 /\ t.type = "entry" => t.name \in Names

VARIABLES envs,   \* env name -> row id, 0 when there is no such env
          rows,   \* <<env, name>> -> entry row
          ann,    \* annotation id -> row with its versions
          snaps,  \* snapshot id -> parent, env id and diff
          runs,   \* run id -> snapshot id (0 is NULL)
          seq,    \* the AUTOINCREMENT sequence of each table
          conn,   \* what each connection is in the middle of
          clock,  \* requests begun
          asks    \* the workload of this behaviour, fixed at the start

tables == <<envs, rows, ann, snaps, runs, seq, asks>>
hvars == <<envs, rows, ann, snaps, runs, seq, conn, clock, asks>>

Slots == Envs \X Names
NoRow == [id |-> 0, blob |-> 0, by |-> "nobody", gen |-> 0]
Idle == [pc |-> "idle"]
Removed == [id |-> 0, blob |-> 0]

(* The bug of a table without AUTOINCREMENT: one above the rows that are left. *)
NewIdReused(used, last) ==
    1 + IF used = {} THEN 0 ELSE CHOOSE m \in used : \A i \in used : i <= m

(* AUTOINCREMENT: an id above every id the table ever held. *)
NewId(used, last) == last + 1

LiveEntryIds == {rows[s].id : s \in Slots} \ {0}

(***************************************************************************)
(* Objects and the requests that name them.                                *)
(***************************************************************************)
NoObject == <<"none", 0>>

(* The env whose row a read of name in e comes from: its own, or default's. *)
Visible(e, n) ==
    {v \in {e, "default"} : /\ rows[<<v, n>>] # NoRow
                            /\ v # e => rows[<<e, n>>] = NoRow}

EntryObjectRef(e, n) ==
    IF envs[e] = 0 \/ Visible(e, n) = {} THEN NoObject
    ELSE <<"entry", rows[<<CHOOSE v \in Visible(e, n) : TRUE, n>>].id>>

EnvObjectRef(e) == IF envs[e] = 0 THEN NoObject ELSE <<"env", envs[e]>>

ResolveTarget(t) ==
    IF t.type = "entry" THEN EntryObjectRef(t.env, t.name) ELSE EnvObjectRef(t.env)

(* Which row an object is, as the ghost generation of the entry. *)
GenOf(obj) ==
    LET s == {x \in Slots : obj = <<"entry", rows[x].id>>}
    IN IF s = {} THEN 0 ELSE rows[CHOOSE x \in s : TRUE].gen

(* The key a note is sealed under: the scope's for an entry, the vault's   *)
(* for anything else, the author's own for an unattended write.            *)
KeyDomain(obj, by) ==
    IF obj[1] # "entry" THEN "vault" ELSE IF by = "agent" THEN "authored" ELSE "env"

(* authorizeAction for "update", then authorFor: without a policy that     *)
(* frees it, only an attended caller gets through.                         *)
AuthorFor == IF UpdateIsFree THEN {"owner", "agent"} ELSE {"owner"}

Free(c) == conn[c] = Idle /\ clock < MaxRequests
Done(c) == conn' = [conn EXCEPT ![c] = Idle]
Goto(c, pc) == conn' = [conn EXCEPT ![c].pc = pc]

(***************************************************************************)
(* Annotation rows.                                                        *)
(***************************************************************************)
IsLive(i, obj, kind) == ann[i].obj = obj /\ ann[i].kind = kind /\ ann[i].live

(* What a listing of the scope shows beside a name: the annotations of the *)
(* row its value comes from.                                               *)
EntryAnnotations(e, n) ==
    LET obj == EntryObjectRef(e, n)
    IN {i \in DOMAIN ann : ann[i].obj = obj /\ ann[i].live}

(* The bug of a lookup without the deleted_at condition. *)
LiveDescriptionAny(obj) ==
    {i \in DOMAIN ann : ann[i].obj = obj /\ ann[i].kind = "description"}

LiveDescription(obj) == {i \in DOMAIN ann : IsLive(i, obj, "description")}
LiveNotes(obj) == {i \in DOMAIN ann : IsLive(i, obj, "note")}

Version(op, text, by) == [op |-> op, text |-> text, by |-> by]

AppendVersion(row, v) == [row EXCEPT !.versions = Append(@, v)]

Annotated(obj, kind, domain, text, by, gen) ==
    [obj |-> obj, kind |-> kind, domain |-> domain, text |-> text, by |-> by,
     live |-> TRUE, gen |-> gen, versions |-> <<Version("create", text, by)>>]

InsertAnnotation(row) ==
    LET i == NewId(DOMAIN ann, seq.ann)
    IN /\ ann' = [j \in DOMAIN ann \cup {i} |-> IF j = i THEN row ELSE ann[j]]
       /\ seq' = [seq EXCEPT !.ann = i]

(* Every version of one annotation, oldest first. *)
AnnotationHistory(i) == ann[i].versions

ObjectExists(obj, rws, evs) ==
    CASE obj[1] = "entry" -> obj[2] \in {rws[s].id : s \in Slots}
      [] obj[1] = "env"   -> obj[2] \in {evs[e] : e \in Envs}

(* The bug of a sweep that takes the tombstones too. *)
SweepTombstones(rws, evs) ==
    ann' = [i \in {j \in DOMAIN ann : ann[j].live /\ ObjectExists(ann[j].obj, rws, evs)}
              |-> ann[i]]

(* deleteAndSweep: the delete and the sweep of what it orphaned, one step. *)
SweepOrphanAnnotations(rws, evs) ==
    ann' = [i \in {j \in DOMAIN ann : ObjectExists(ann[j].obj, rws, evs)} |-> ann[i]]

(***************************************************************************)
(* A put, and the description and note it may carry.                       *)
(***************************************************************************)
HandlePut(c, e, n, by, carries) ==
    LET old == rows[<<e, n>>]
        created == old = NoRow
        id == IF created THEN NewId(LiveEntryIds, seq.entry) ELSE old.id
    IN /\ Free(c) /\ envs[e] # 0
       /\ by = "agent" => created \/ old.by = "agent"
       /\ carries # {} => "annotate" \in asks
       /\ clock' = clock + 1
       /\ rows' = [rows EXCEPT ![<<e, n>>] =
                     [id |-> id, blob |-> clock', by |-> by,
                      gen |-> IF created THEN clock' ELSE old.gen]]
       /\ seq' = [seq EXCEPT !.entry = IF created THEN id ELSE @]
       /\ conn' = IF carries # {} /\ (created \/ by = "owner")
                  THEN [conn EXCEPT ![c] =
                          [pc |-> "resolve", by |-> by, text |-> clock', env |-> e,
                           name |-> n, carries |-> carries]]
                  ELSE conn
       /\ UNCHANGED <<envs, ann, snaps, runs, asks>>

(***************************************************************************)
(* The annotation requests, from the command line or the portal. Each is   *)
(* authorized and resolves its target, which is its first read of the      *)
(* tables, and then runs its statements.                                   *)
(***************************************************************************)
Begin(c, request) ==
    /\ Free(c)
    /\ clock' = clock + 1
    /\ conn' = [conn EXCEPT ![c] = request]
    /\ UNCHANGED tables

AnnotationRequest(pc, t, by, id) ==
    LET obj == ResolveTarget(t)
    IN [pc |-> pc, kind |-> "annotation", by |-> by, text |-> clock + 1,
        obj |-> obj, gen |-> GenOf(obj), id |-> id]

HandleAnnotationSet(c, t, by, clear) ==
    /\ ResolveTarget(t) # NoObject
    /\ Begin(c, AnnotationRequest(IF clear THEN "getdescription" ELSE "set", t, by, 0))

HandleAnnotationAdd(c, t, by) ==
    /\ ResolveTarget(t) # NoObject
    /\ Begin(c, AnnotationRequest("count", t, by, 0))

HandleAnnotationEdit(c, t, by, id) ==
    /\ ann[id].obj = ResolveTarget(t)
    /\ Begin(c, AnnotationRequest("editread", t, by, id))

HandleAnnotationRemove(c, t, by, id) ==
    /\ ann[id].obj = ResolveTarget(t)
    /\ Begin(c, AnnotationRequest("remove", t, by, id))

(* applyPutAnnotations resolves the name again, after the put. *)
ApplyPutAnnotations(c) ==
    LET q == conn[c]
        obj == EntryObjectRef(q.env, q.name)
    IN /\ q.pc = "resolve"
       /\ IF obj = NoObject THEN Done(c)
          ELSE conn' = [conn EXCEPT ![c] =
                          [pc |-> IF "description" \in q.carries THEN "set" ELSE "count",
                           kind |-> IF "note" \in q.carries THEN "putnote" ELSE "put",
                           by |-> q.by, text |-> q.text, obj |-> obj, gen |-> GenOf(obj),
                           id |-> 0]]
       /\ UNCHANGED <<tables, clock>>

(* One transaction: edit the live description, or create one. *)
SetDescription(c) ==
    LET q == conn[c]
        cur == LiveDescription(q.obj)
    IN /\ q.pc = "set"
       /\ \/ /\ cur = {}
             /\ InsertAnnotation(Annotated(q.obj, "description", "none", q.text, q.by, q.gen))
          \/ \E i \in cur :
                /\ ann' = [ann EXCEPT ![i] =
                             AppendVersion([@ EXCEPT !.text = q.text, !.by = q.by],
                                           Version("edit", q.text, q.by))]
                /\ UNCHANGED seq
       /\ IF q.kind = "putnote" THEN Goto(c, "count") ELSE Done(c)
       /\ UNCHANGED <<envs, rows, snaps, runs, clock, asks>>

(* Clearing reads the id of the description and then removes it. *)
GetDescription(c) ==
    LET cur == LiveDescription(conn[c].obj)
    IN /\ conn[c].pc = "getdescription"
       /\ \/ cur = {} /\ Done(c)
          \/ \E i \in cur : conn' = [conn EXCEPT ![c].pc = "remove", ![c].id = i]
       /\ UNCHANGED <<tables, clock>>

(* The bug of a limit that is off by one. *)
NoteCountOneMore(c) ==
    /\ conn[c].pc = "count"
    /\ IF Cardinality(LiveNotes(conn[c].obj)) > MaxNotes THEN Done(c) ELSE Goto(c, "insert")
    /\ UNCHANGED <<tables, clock>>

(* addNote counts, seals, and inserts in a transaction of its own. *)
NoteCount(c) ==
    /\ conn[c].pc = "count"
    /\ IF Cardinality(LiveNotes(conn[c].obj)) >= MaxNotes THEN Done(c) ELSE Goto(c, "insert")
    /\ UNCHANGED <<tables, clock>>

AddNote(c) ==
    LET q == conn[c]
    IN /\ q.pc = "insert"
       /\ InsertAnnotation(Annotated(q.obj, "note",
                             KeyDomain(q.obj, IF q.kind = "putnote" THEN q.by ELSE "owner"),
                             q.text, q.by, q.gen))
       /\ Done(c)
       /\ UNCHANGED <<envs, rows, snaps, runs, clock, asks>>

(* EditNote reads the live row and its key domain, seals, and updates the  *)
(* row by id alone; the version's foreign key fails it when the row is     *)
(* gone. An authored note has no key here and is refused.                  *)
EditNoteRead(c) ==
    LET q == conn[c]
    IN /\ q.pc = "editread"
       /\ IF q.id \in LiveNotes(q.obj) /\ ann[q.id].domain # "authored"
          THEN Goto(c, "update") ELSE Done(c)
       /\ UNCHANGED <<tables, clock>>

EditNote(c) ==
    LET q == conn[c]
    IN /\ q.pc = "update"
       /\ ann' = [i \in DOMAIN ann |->
                    IF i = q.id
                    THEN AppendVersion([ann[i] EXCEPT !.text = q.text],
                                       Version("edit", q.text, q.by))
                    ELSE ann[i]]
       /\ Done(c)
       /\ UNCHANGED <<envs, rows, snaps, runs, seq, clock, asks>>

(* The bug of a removal that takes the earlier text with it. *)
TombstonePurged(row, by) ==
    [row EXCEPT !.live = FALSE, !.versions = <<Version("delete", 0, by)>>]

(* The tombstone: the row stops being live and every version stays. *)
Tombstone(row, by) == AppendVersion([row EXCEPT !.live = FALSE], Version("delete", 0, by))

RemoveAnnotation(c) ==
    LET q == conn[c]
    IN /\ q.pc = "remove"
       /\ ann' = [i \in DOMAIN ann |->
                    IF i = q.id /\ ann[i].obj = q.obj /\ ann[i].live
                    THEN Tombstone(ann[i], q.by) ELSE ann[i]]
       /\ Done(c)
       /\ UNCHANGED <<envs, rows, snaps, runs, seq, clock, asks>>

(***************************************************************************)
(* Deleting what is annotated. Each is one transaction, and nothing is     *)
(* swept when the delete removed nothing.                                  *)
(***************************************************************************)
DeleteRows(slots) ==
    /\ \E s \in slots : rows[s] # NoRow
    /\ rows' = [s \in Slots |-> IF s \in slots THEN NoRow ELSE rows[s]]
    /\ SweepOrphanAnnotations(rows', envs)
    /\ UNCHANGED <<envs, snaps, runs, seq, asks>>

DeleteEnvVar(e, n) == DeleteRows({<<e, n>>})
ClearEnvVars(e) == DeleteRows({e} \X Names)

(* The env's entries and snapshots go with it by the foreign keys, and the *)
(* runs that named those snapshots are left with none.                     *)
DeleteEnv(e) ==
    /\ e # "default" /\ envs[e] # 0
    /\ envs' = [envs EXCEPT ![e] = 0]
    /\ rows' = [s \in Slots |-> IF s[1] = e THEN NoRow ELSE rows[s]]
    /\ LET gone == {i \in DOMAIN snaps : snaps[i].env = envs[e]}
       IN /\ snaps' = [i \in DOMAIN snaps \ gone |->
                         [snaps[i] EXCEPT !.parent = IF @ \in gone THEN 0 ELSE @]]
          /\ runs' = [r \in DOMAIN runs |->
                         [runs[r] EXCEPT !.snap = IF @ \in gone THEN 0 ELSE @]]
    /\ SweepOrphanAnnotations(rows', envs')
    /\ UNCHANGED <<seq, asks>>

CreateEnv(e) ==
    /\ envs[e] = 0
    /\ seq' = [seq EXCEPT !.env = NewId({envs[x] : x \in Envs}, @)]
    /\ envs' = [envs EXCEPT ![e] = seq'.env]
    /\ UNCHANGED <<rows, ann, snaps, runs, asks>>

ScopeRequest ==
    /\ clock < MaxRequests
    /\ clock' = clock + 1
    /\ \/ \E e \in Envs, n \in Names : DeleteEnvVar(e, n)
       \/ \E e \in Envs : ClearEnvVars(e) \/ DeleteEnv(e) \/ CreateEnv(e)
    /\ UNCHANGED conn

(***************************************************************************)
(* Run records.                                                            *)
(***************************************************************************)
(* What a snapshot names: the diffs of its chain, oldest first. *)
ApplyDiff(base, diff) ==
    [n \in {m \in DOMAIN base \cup DOMAIN diff : m \in DOMAIN diff => diff[m] # Removed}
       |-> IF n \in DOMAIN diff THEN diff[n] ELSE base[n]]

Resolved[i \in 0..MaxRequests] ==
    IF i \notin DOMAIN snaps THEN <<>>
    ELSE ApplyDiff(IF snaps[i].parent < i THEN Resolved[snaps[i].parent] ELSE <<>>,
                   snaps[i].diff)

ResolveSnapshot(i) == Resolved[i]

(* The bug of a lookup that forgets the scope. *)
LatestSnapshotAnyScope(envId) ==
    LET all == DOMAIN snaps
    IN IF all = {} THEN 0 ELSE CHOOSE m \in all : \A i \in all : i <= m

LatestSnapshot(envId) ==
    LET mine == {i \in DOMAIN snaps : snaps[i].env = envId}
    IN IF mine = {} THEN 0 ELSE CHOOSE m \in mine : \A i \in mine : i <= m

(* writeSnapshotDiff: what differs from the parent, and what it had that   *)
(* this run did not.                                                       *)
SnapshotDiff(parent, current) ==
    [n \in {m \in DOMAIN parent \cup DOMAIN current :
              ~(/\ m \in DOMAIN parent /\ m \in DOMAIN current
                /\ parent[m] = current[m])}
       |-> IF n \in DOMAIN current THEN current[n] ELSE Removed]

(* An authorized exec opens the values its scope can see and hands them to *)
(* the run; recordExecRun comes after.                                     *)
ExecOpen(c, e, names) ==
    /\ envs[e] # 0
    /\ \A n \in names : Visible(e, n) # {}
    /\ Begin(c, [pc |-> "runscope", env |-> e, names |-> names,
                 held |-> [n \in names |->
                             rows[<<CHOOSE v \in Visible(e, n) : TRUE, n>>].blob],
                 opened |-> clock + 1])

RecordScope(c) ==
    LET q == conn[c]
    IN /\ q.pc = "runscope"
       /\ IF envs[q.env] = 0 THEN Done(c)
          ELSE conn' = [conn EXCEPT ![c] =
                          [pc |-> "runrefs", envId |-> envs[q.env], todo |-> q.names,
                           refs |-> <<>>, held |-> q.held, opened |-> q.opened]]
       /\ UNCHANGED <<tables, clock>>

(* entryRefs: one query per name, in the scope's own env. *)
EntryRefs(c, n) ==
    LET q == conn[c]
        own == {s \in Slots : s[2] = n /\ envs[s[1]] = q.envId /\ rows[s] # NoRow}
    IN /\ q.pc = "runrefs" /\ n \in q.todo
       /\ conn' = [conn EXCEPT ![c] =
                     [@ EXCEPT !.todo = @ \ {n},
                               !.refs = IF own = {} THEN @
                                        ELSE LET s == CHOOSE x \in own : TRUE
                                             IN @ @@ (n :> [id |-> rows[s].id,
                                                            blob |-> rows[s].blob])]]
       /\ UNCHANGED <<tables, clock>>

(* The transaction: reuse the scope's latest snapshot or write a diff      *)
(* against it, and insert the run. A scope that is gone fails it on the    *)
(* foreign key, and the error is only audited.                             *)
RecordExecRun(c) ==
    LET q == conn[c]
        parent == LatestSnapshot(q.envId)
        parentRefs == ResolveSnapshot(parent)
        reuse == parent # 0 /\ parentRefs = q.refs
        snap == IF reuse THEN parent ELSE NewId(DOMAIN snaps, seq.snap)
    IN /\ q.pc = "runrefs" /\ q.todo = {}
       /\ IF q.envId \notin {envs[e] : e \in Envs} THEN UNCHANGED <<snaps, runs, seq>>
          ELSE /\ snaps' = IF reuse THEN snaps
                           ELSE snaps @@ (snap :> [parent |-> parent, env |-> q.envId,
                                                   diff |-> SnapshotDiff(parentRefs, q.refs)])
               /\ seq' = [seq EXCEPT !.run = @ + 1, !.snap = IF reuse THEN @ ELSE snap]
               /\ runs' = runs @@ ((seq.run + 1) :>
                            [snap |-> snap, env |-> q.envId, refs |-> q.refs, held |-> q.held,
                             opened |-> q.opened])
       /\ Done(c)
       /\ UNCHANGED <<envs, rows, ann, clock, asks>>

(* What has become of a value a run used, told without opening it. *)
SnapshotStatus(ref) ==
    LET now == {s \in Slots : rows[s].id = ref.id}
    IN IF now = {} THEN "deleted"
       ELSE IF rows[CHOOSE s \in now : TRUE].blob # ref.blob THEN "changed" ELSE "unchanged"

(* The bug of a reveal that shows the row as it is now. *)
OpenSnapshotValueNow(r, n) ==
    LET refs == ResolveSnapshot(runs[r].snap)
        now == {s \in Slots : n \in DOMAIN refs /\ rows[s].id = refs[n].id}
    IN IF runs[r].snap = 0 \/ now = {} THEN 0 ELSE rows[CHOOSE s \in now : TRUE].blob

(* The value a reveal shows for one name of a run: the blob of the row its *)
(* reference names, when the digest still matches. 0 is no value.          *)
OpenSnapshotValue(r, n) ==
    LET refs == ResolveSnapshot(runs[r].snap)
    IN IF runs[r].snap = 0 \/ n \notin DOMAIN refs THEN 0
       ELSE IF SnapshotStatus(refs[n]) = "unchanged" THEN refs[n].blob ELSE 0

(* byn runs show --reveal: a run, and the value of every name it records. *)
RevealRunValues(r) ==
    [n \in {m \in DOMAIN ResolveSnapshot(runs[r].snap) : OpenSnapshotValue(r, m) # 0}
       |-> OpenSnapshotValue(r, n)]

-----------------------------------------------------------------------------
HInit ==
    /\ envs \in Injection(Envs, 1..Cardinality(Envs)) /\ envs["default"] = 1
    /\ rows = [s \in Slots |-> NoRow]
    /\ ann = <<>> /\ snaps = <<>> /\ runs = <<>>
    /\ seq = [entry |-> 0, env |-> Cardinality(Envs), ann |-> 0, snap |-> 0, run |-> 0]
    /\ conn = [c \in Conns |-> Idle]
    /\ clock = 0
    /\ asks \in Workloads

(* byn put, with a description or a note on the way. *)
Put(c) ==
    \E e \in Envs, n \in Names, by \in {"owner", "agent"}, carries \in PutCarries :
        HandlePut(c, e, n, by, carries)

(* byn describe NAME [text | --clear], and the portal's describe route. *)
Describe(c) ==
    \E t \in Targets, by \in AuthorFor, clear \in BOOLEAN :
        "annotate" \in asks /\ HandleAnnotationSet(c, t, by, clear)

(* byn note add | edit | rm, and the portal's note route. *)
Note(c) ==
    \E t \in Targets, by \in AuthorFor :
        /\ "annotate" \in asks
        /\ \/ HandleAnnotationAdd(c, t, by)
           \/ \E i \in DOMAIN ann : \/ HandleAnnotationEdit(c, t, by, i)
                                    \/ HandleAnnotationRemove(c, t, by, i)

(* byn exec, once it is authorized. *)
Exec(c) ==
    \E e \in Envs, names \in SUBSET Names : "exec" \in asks /\ ExecOpen(c, e, names)

Statements(c) ==
    \/ ApplyPutAnnotations(c) \/ SetDescription(c) \/ GetDescription(c)
    \/ NoteCount(c) \/ AddNote(c) \/ EditNoteRead(c) \/ EditNote(c) \/ RemoveAnnotation(c)
    \/ RecordScope(c) \/ RecordExecRun(c)
    \/ \E n \in Names : EntryRefs(c, n)

HNext == \/ \E c \in Conns : Put(c) \/ Describe(c) \/ Note(c) \/ Exec(c) \/ Statements(c)
         \/ ScopeRequest

HSpec == HInit /\ [][HNext]_hvars

-----------------------------------------------------------------------------
(* The last version that is not a removal. *)
LastWording(vs) ==
    vs[CHOOSE k \in DOMAIN vs : /\ vs[k].op # "delete"
                                /\ \A j \in DOMAIN vs : j > k => vs[j].op = "delete"]

(* A description's history is the whole story of it: it begins with a      *)
(* creation, its last version is the removal exactly when it is no longer  *)
(* shown, and the text and author shown are those of its last wording -    *)
(* whatever describe, clear and put requests ran in between. A note's      *)
(* shown text is its last wording too (annotation.go AnnotationHistory).   *)
TrailTells ==
    \A i \in DOMAIN ann :
        LET a == ann[i]
            trail == AnnotationHistory(i)
        IN /\ trail[1].op = "create"
           /\ a.text = LastWording(trail).text
           /\ a.kind = "description" =>
                /\ a.by = LastWording(trail).by
                /\ a.live <=> Last(trail).op # "delete"
                /\ \A k \in 1..Len(trail) - 1 : trail[k].op # "delete"

(* An annotation on a variable was written about that very row: a name     *)
(* deleted and created again carries nothing said about the one before,    *)
(* even by a request that was under way when it happened (schema.go: "must *)
(* never inherit the dead one's notes").                                   *)
OfItsObject ==
    \A e \in Envs, n \in Names :
        \A i \in EntryAnnotations(e, n) : ann[i].gen = GenOf(EntryObjectRef(e, n))

(* The count and the insert of a note are separate, so requests that count *)
(* together can pass the limit together - but by no more than the other    *)
(* connections that can be between the two (annotation.go addNote).        *)
NoteCapHolds ==
    \A i \in DOMAIN ann :
        Cardinality(LiveNotes(ann[i].obj)) <= MaxNotes + Cardinality(Conns) - 1

(* History only grows: a version once written stays, and an annotation     *)
(* goes only when the object it is about goes (annotation.go: "There is no *)
(* purge, on purpose").                                                    *)
HistoryOnlyGrows ==
    [][\A i \in DOMAIN ann :
          IF i \in DOMAIN ann' THEN IsPrefix(ann[i].versions, ann'[i].versions)
          ELSE ~ObjectExists(ann[i].obj, rows', envs')]_hvars

(* Every run whose scope still exists resolves to exactly the references   *)
(* recorded for it, however many diffs, reuses and deletes came since      *)
(* (execrun.go resolveSnapshotTx).                                         *)
RunsResolve ==
    \A r \in DOMAIN runs :
        \/ runs[r].snap = 0 /\ runs[r].env \notin {envs[e] : e \in Envs}
        \/ runs[r].snap # 0 /\ ResolveSnapshot(runs[r].snap) = runs[r].refs

(* A reveal never shows a value newer than the run: what it shows is what  *)
(* the run held, or was written while the run was still being recorded     *)
(* (the references are read after the values were opened).                 *)
RevealIsOfTheRun ==
    \A r \in DOMAIN runs :
        LET shown == RevealRunValues(r)
        IN \A n \in DOMAIN shown : \/ shown[n] = runs[r].held[n]
                                   \/ /\ shown[n] > runs[r].opened
                                      /\ shown[n] = runs[r].refs[n].blob

(* execrun.go OpenSnapshotValue: "The value must be the one the run        *)
(* actually held."                                                         *)
RevealIsWhatTheRunHeld ==
    \A r \in DOMAIN runs :
        \A n \in DOMAIN RevealRunValues(r) : RevealRunValues(r)[n] = runs[r].held[n]

(* annotation.go ListNotesIncludingRemoved: a removed note has "the text   *)
(* it had when it was removed".                                            *)
RemovedKeepsItsText ==
    \A i \in DOMAIN ann : ~ann[i].live => Last(ann[i].versions).op = "delete"

(* annotation.go applyPutAnnotations: an unattended caller describes a     *)
(* variable at the moment it creates it and never rewords anything.        *)
AgentsNeverReword ==
    \A i \in DOMAIN ann :
        \A k \in 1..Len(ann[i].versions) :
            ann[i].versions[k].by = "agent" => k = 1
=============================================================================
