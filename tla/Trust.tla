------------------------------- MODULE Trust -------------------------------
(***************************************************************************)
(* Trusted .byn files: what a record grants, how a file that changed since *)
(* is compared with it, what a run then receives, and who writes the store *)
(* of records.                                                             *)
(*                                                                         *)
(* A file asks for a policy (trust/policy.go).  The owner's grant records  *)
(* that policy, the file's modification time and a sealed capability; exec *)
(* (execfetch.go) re-reads the file, looks the record up, and only a file  *)
(* that asks for more than its record raises a card.  Four handlers write  *)
(* the store: a grant, an approval of a widening, a removal, and a write   *)
(* of a value, which re-seals the capabilities.  Each is Load, change,     *)
(* write the one .tmp file, rename, and no lock is held across them.       *)
(*                                                                         *)
(* The text of a file is its policy: a reformatting that keeps the policy  *)
(* is a Touch, since both leave the file "changed".  Records are written   *)
(* by this daemon on this machine, so their MACs verify.  The keys inside  *)
(* a capability are the module Entries; here a capability is the names it  *)
(* has row keys for and whether it carries the scope key.                  *)
(***************************************************************************)
EXTENDS Naturals

CONSTANTS
    Paths,      \* .byn files
    Worked,     \* the ones someone edits and runs from; the rest only share the store
    Names,      \* variables of the scope Home
    Acts,       \* commands
    Aliases,    \* alias names
    Dirs,       \* directories a child may be allowed to write
    Ops,        \* operations an [auth] table may override, "exec" among them
    Scopes,     \* scopes a file may pin
    Home,       \* the scope whose values are modelled
    Star,       \* "*"
    NoAct,      \* an alias a file does not define
    Files,      \* the policies the author writes
    Granted,    \* the ones among them the owner has trusted so far
    Agents,     \* unattended callers, by process ancestry
    Conns,      \* connections whose handler writes the trust store
    NoRec,      \* no record, no temporary file
    MaxOps      \* bound on edits, grants, removals, writes of values, denials
                \* (below what puts a question on hold) and restarts, together

Levels == {"unset", "always", "trusted", "none"}

Policies == [scope : Scopes, env : SUBSET (Names \cup {Star}), acts : SUBSET (Acts \cup {Star}),
             writable : SUBSET Dirs, aliases : [Aliases -> Acts \cup {NoAct}], auth : [Ops -> Levels]]

ASSUME TrustAssumption ==
    /\ Home \in Scopes /\ "exec" \in Ops
    /\ Star \notin Names \cup Acts /\ NoAct \notin Acts
    /\ Files \subseteq Policies /\ Granted \subseteq Files /\ Worked \subseteq Paths
    /\ MaxOps \in Nat

VARIABLES
    file,     \* each .byn on disk: its policy and modification time
    store,    \* trusted_byn.json: a record or NoRec for each path
    acl,      \* each file: whether the daemon's account may read it
    tmp,      \* trusted_byn.json.tmp
    entry,    \* each name's value: who stored it and when
    now,      \* the daemon's clock: unattended writes so far
    cards,    \* trust cards, one for each file and set of widenings
    conn,     \* each handler that writes the store: where it is, what it holds
    ask,      \* each agent's exec: the file as it read it
    run,      \* history: the run this step delivered
    ever,     \* history: the policies the owner granted each file
    used      \* how much of the bound is spent

tvars == <<file, acl, store, tmp, entry, now, cards, conn, ask, run, ever, used>>

-----------------------------------------------------------------------------
(* Policies.                                                               *)

\* isAuthRelaxation's ranks: no override stands for the vault's default.
Rank == [always |-> 3, unset |-> 2, trusted |-> 1, none |-> 0]

\* One allowlist: a wildcard is wider than any list and covers every name.
Added(kind, granted, wanted) ==
    IF Star \in granted THEN {}
    ELSE IF Star \in wanted THEN {<<kind, Star>>}
    ELSE {<<kind, x>> : x \in wanted \ granted}

\* An override is compared only where the requested file has one.
Relaxed(g, r) == {o \in Ops : r.auth[o] # "unset" /\ Rank[r.auth[o]] < Rank[g.auth[o]]}

\* ComparePolicies: the ways r asks for more than g granted.
Widenings(g, r) ==
    {<<"scope", s>> : s \in {r.scope} \ {g.scope}}
    \cup Added("env", g.env, r.env)
    \cup Added("action", g.acts, r.acts)
    \cup {<<"writable", d>> : d \in r.writable \ g.writable}
    \cup {<<"alias", a>> : a \in {b \in Aliases : r.aliases[b] \notin {NoAct, g.aliases[b]}}}
    \cup {<<"auth", o>> : o \in Relaxed(g, r)}

\* What a list stands for among all.
Allows(list, all) == IF Star \in list THEN all ELSE list \cap all

-----------------------------------------------------------------------------
(* Records and what they open.                                             *)

Absent == [kind |-> "absent", by |-> Home, at |-> 0]

\* A value of the owner's: one the owner created is in the registry of authors
\* until it is written again.  A value stored unattended is an agent's.
OwnersNames == {n \in Names : entry[n].kind \in {"created", "owner"}}
AgentsNames == {n \in Names : entry[n].kind = "agent"}
Registered == {n \in Names : entry[n].kind \in {"created", "agent"}}

RecordOfFile(p, pol) ==
    [pol |-> file[p].pol, mtime |-> file[p].mtime, at |-> now, names |-> {}, wild |-> Star \in file[p].pol.env]

\* sealExecCapability: row keys of the listed values, all of them and the
\* scope key for a wildcard.  Unattended values have no row key of their own.
Captured(list) == Allows(list, Names) \cap OwnersNames
Record(p, pol) ==
    [pol |-> pol, mtime |-> file[p].mtime, at |-> now,
     names |-> IF pol.scope = Home THEN Captured(pol.env) ELSE {},
     wild |-> pol.scope = Home /\ Star \in pol.env]

DeliveredByKeys(rec, body) ==
    IF body.env = {} \/ body.scope # Home THEN {}
    ELSE (IF rec.wild THEN OwnersNames ELSE rec.names \cap OwnersNames) \cup AgentsNames

\* openCapabilityValues: the scope key opens every value of the owner's; the
\* authored key and the row keys open what the file in force declares.
Delivered(rec, body) ==
    LET declared == Allows(body.env, Names)
    IN IF body.env = {} \/ body.scope # Home THEN {}
       ELSE (IF rec.wild THEN OwnersNames ELSE {})
            \cup (AgentsNames \cap declared)
            \cup (rec.names \cap OwnersNames \cap declared)

\* Verify: the hash, then the time.
Changed(p, body, mtime) == store[p].pol # body \/ store[p].mtime # mtime

\* authoredEntryFor: a value this caller stored unattended and still its own.
Authored(a, n) == entry[n].kind = "agent" /\ entry[n].by = a

ForgivenAnyOf(a, rec, w) == \A x \in w : x[1] = "env" /\ x[2] \in Names

\* forgivesSelfAuthored: every widening is one named variable, the caller's
\* own and stored since the grant.
Forgiven(a, rec, w) ==
    \A x \in w : /\ x[1] = "env" /\ x[2] \in Names
                 /\ Authored(a, x[2]) /\ entry[x[2]].at > rec.at /\ rec.pol.scope = Home

\* reconcileChanged: whether this caller's run would stop at a card.
Asks(a, p, body, mtime) ==
    /\ store[p] # NoRec
    /\ Changed(p, body, mtime)
    /\ ~Forgiven(a, store[p], Widenings(store[p].pol, body))

\* The alias or the command a request names.
Resolve(pol, req) == IF req \in Aliases THEN pol.aliases[req] ELSE req

\* The [exec] actions gate for a caller with nothing to prove who it is.
RunsFree(pol, act) ==
    \/ pol.auth["exec"] = "none"
    \/ pol.auth["exec"] # "always" /\ act \in Allows(pol.acts, Acts)

\* handleExecPreflight up to the actions: what it says of a command without
\* running it, from the file and the record.  It compares a changed file as the
\* gate does, but of nobody in particular, and looks at no [auth] table.  What
\* it then says of a command that is not pinned is in ExecGate.
Preflight(p, req) ==
    LET body == file[p].pol
        act == Resolve(body, req)
    IN CASE store[p] = NoRec -> "untrusted"
         [] store[p] # NoRec /\ Changed(p, body, file[p].mtime) /\ Widenings(store[p].pol, body) # {} -> "changed"
         [] OTHER -> IF act = NoAct THEN "unknown_alias"
                     ELSE IF act \in Allows(body.acts, Acts) THEN "pinned" ELSE "no_match"

-----------------------------------------------------------------------------
AskIdle == [path |-> NoRec]
NoRun == [path |-> NoRec]
\* A handler: its operation and stage, the file it is about, the text it read,
\* its card's question, the record to put, the store it will write, and the
\* records a refresh read and has yet to do.
Idle == [op |-> "idle", stage |-> "idle", path |-> NoRec, pol |-> NoRec, asks |-> {},
         rec |-> NoRec, copy |-> NoRec, seen |-> NoRec, todo |-> {}]

\* The owner has trusted the files as they stand; nothing is stored yet.
TInit ==
    /\ \E f \in Granted : file = [p \in Paths |-> [pol |-> f, mtime |-> 0]]
    /\ acl = [p \in Paths |-> TRUE]
    /\ entry = [n \in Names |-> Absent]
    /\ now = 0
    /\ store = [p \in Paths |-> Record(p, file[p].pol)]
    /\ ever = [p \in Paths |-> {file[p].pol}]
    /\ tmp = NoRec
    /\ cards = {}
    /\ conn = [c \in Conns |-> Idle]
    /\ ask = [a \in Agents |-> AskIdle]
    /\ run = NoRun
    /\ used = 0

Spend == used < MaxOps /\ used' = used + 1
Quiet == run' = NoRun
At(c, stage) == conn[c].stage = stage
Starts(c, k) == conn[c] = Idle /\ conn' = [conn EXCEPT ![c] = k]
Ends(c) == conn' = [conn EXCEPT ![c] = Idle]

-----------------------------------------------------------------------------
(* The author edits the file.                                              *)

EditFile(p, f) ==
    /\ Spend /\ Quiet
    /\ file' = [file EXCEPT ![p] = [pol |-> f, mtime |-> @.mtime + 1]]   \* a Touch when f is what it was
    /\ UNCHANGED <<acl, store, tmp, entry, now, cards, conn, ask, ever>>

-----------------------------------------------------------------------------
(* Writers of the store.                                                   *)

\* A handler that has read the text of the file it will grant.
Reads(op, p, pol, asks) ==
    [Idle EXCEPT !.op = op, !.stage = "build", !.path = p, !.pol = pol, !.asks = asks]

\* byn trust: the CLI, as the file's owner, lets the daemon read it and calls;
\* handleTrustGrant (each path of the bulk grant) authenticates, then reads.
GrantRead(c, p) ==
    /\ Spend /\ Quiet
    /\ acl' = [acl EXCEPT ![p] = TRUE]
    /\ Starts(c, Reads("grant", p, file[p].pol, {}))
    /\ UNCHANGED <<file, store, tmp, entry, now, cards, ask, ever>>

\* The same call refused (a wrong password, a file the daemon will not take):
\* the CLI takes back the access it gave (revokeTrustACLs).
GrantRefused(p) ==
    /\ Spend /\ Quiet
    /\ acl' = [acl EXCEPT ![p] = FALSE]
    /\ UNCHANGED <<file, store, tmp, entry, now, cards, conn, ask, ever>>

\* handleBynWrite with trust: the file is written, then granted as written.
BynWrite(c, p, f) ==
    /\ Spend /\ Quiet
    /\ file' = [file EXCEPT ![p] = [pol |-> f, mtime |-> @.mtime + 1]]
    /\ Starts(c, Reads("grant", p, f, {}))
    /\ UNCHANGED <<acl, store, tmp, entry, now, cards, ask, ever>>

\* handleApprovalDecide, approving: applyTrustApproval reads the file as it is
\* now, whatever the card says and whether or not the card is still open.
DecideStart(c, k) ==
    /\ k \in cards /\ acl[k.path] /\ Quiet
    /\ IF k.status = "pending" /\ \A d \in Conns : conn[d].op # "decide"
       THEN UNCHANGED used ELSE Spend
    /\ Starts(c, Reads("decide", k.path, file[k.path].pol, k.asks))
    /\ UNCHANGED <<file, acl, store, tmp, entry, now, cards, ask, ever>>

\* putTrustRecord: the file's time is read now, its text was read before.
PutBuild(c) ==
    /\ At(c, "build") /\ Quiet
    /\ LET k == conn[c]
       IN /\ conn' = [conn EXCEPT ![c] = [k EXCEPT !.stage = "load", !.pol = NoRec,
                                                    !.rec = Record(k.path, k.pol)]]
          /\ ever' = [ever EXCEPT ![k.path] = @ \cup {k.pol}]
    /\ UNCHANGED <<file, acl, store, tmp, entry, now, cards, ask, used>>

\* trust.Put: the store is read and the record set in that copy.
PutLoad(c) ==
    /\ At(c, "load") /\ Quiet
    /\ LET k == conn[c]
       IN conn' = [conn EXCEPT ![c] = [k EXCEPT !.stage = "tmp", !.rec = NoRec,
                                                 !.copy = [store EXCEPT ![k.path] = k.rec]]]
    /\ UNCHANGED <<file, acl, store, tmp, entry, now, cards, ask, ever, used>>

\* handleTrustRemove.
RemoveLoad(c, p) ==
    /\ store[p] # NoRec /\ Spend /\ Quiet
    /\ Starts(c, [Idle EXCEPT !.op = "remove", !.stage = "tmp", !.path = p,
                              !.copy = [store EXCEPT ![p] = NoRec]])
    /\ UNCHANGED <<file, acl, store, tmp, entry, now, cards, ask, ever>>

\* Save: the copy is written to the one temporary file, which is then renamed.
SaveTmp(c) ==
    /\ At(c, "tmp") /\ Quiet
    /\ tmp' = conn[c].copy
    /\ conn' = [conn EXCEPT ![c].stage = "rename", ![c].copy = NoRec]
    /\ UNCHANGED <<file, acl, store, entry, now, cards, ask, ever, used>>

\* What a handler does when its Save returned, or failed.
Saved(c, ok) ==
    CASE conn[c].op = "refresh" -> conn' = [conn EXCEPT ![c].stage = "next"]
      [] conn[c].op = "decide" /\ ok -> conn' = [conn EXCEPT ![c].stage = "record"]
      [] conn[c].op = "remove" /\ ok -> conn' = [conn EXCEPT ![c].stage = "revoke"]
      [] OTHER -> Ends(c)

\* The rename takes whatever the temporary file holds; a second one finds none.
SaveRename(c) ==
    /\ At(c, "rename") /\ Quiet
    /\ IF tmp # NoRec THEN store' = tmp ELSE UNCHANGED store
    /\ tmp' = NoRec
    /\ Saved(c, tmp # NoRec)
    /\ UNCHANGED <<file, acl, entry, now, cards, ask, ever, used>>

\* The decision is recorded after the grant; an answered card refuses it.
DecideRecord(c) ==
    /\ At(c, "record") /\ Quiet
    /\ LET mine(k) == k.path = conn[c].path /\ k.asks = conn[c].asks /\ k.status = "pending"
       IN cards' = {IF mine(k) THEN [k EXCEPT !.status = "approved"] ELSE k : k \in cards}
    /\ Ends(c)
    /\ UNCHANGED <<file, acl, store, tmp, entry, now, ask, ever, used>>

\* byn untrust: once the record is gone the CLI takes the access back.
RevokeACL(c) ==
    /\ At(c, "revoke") /\ Quiet
    /\ acl' = [acl EXCEPT ![conn[c].path] = FALSE]
    /\ Ends(c)
    /\ UNCHANGED <<file, store, tmp, entry, now, cards, ask, ever, used>>

\* Denying needs no password and grants nothing.
Deny(k) ==
    /\ k \in cards /\ k.status = "pending" /\ Spend /\ Quiet
    /\ cards' = (cards \ {k}) \cup {[k EXCEPT !.status = "denied"]}
    /\ UNCHANGED <<file, acl, store, tmp, entry, now, conn, ask, ever>>

-----------------------------------------------------------------------------
(* Values.                                                                 *)

\* handlePut with the vault open: the value is the owner's, and every grant
\* of the scope is re-sealed to carry its key.
OwnerPut(c, n) ==
    /\ Spend /\ Quiet
    /\ entry' = [entry EXCEPT ![n] =
           [Absent EXCEPT !.kind = IF entry[n] = Absent THEN "created" ELSE "owner"]]
    /\ Starts(c, [Idle EXCEPT !.op = "refresh", !.stage = "refresh"])
    /\ UNCHANGED <<file, acl, store, tmp, now, cards, ask, ever>>

\* refreshCapabilitiesWithKey: the records as they are now; a wildcard grant
\* derives its keys itself.
RefreshLoad(c) ==
    /\ At(c, "refresh") /\ Quiet
    /\ LET stale == {p \in Paths : store[p] # NoRec /\ store[p].pol.scope = Home /\ ~store[p].wild}
       IN conn' = [conn EXCEPT ![c].stage = "next", ![c].seen = store, ![c].todo = stale]
    /\ UNCHANGED <<file, acl, store, tmp, entry, now, cards, ask, ever, used>>

\* A re-sealed capability has the keys of every registered name as well.
Resealed(rec) == [rec EXCEPT !.names = Captured(rec.pol.env \cup Registered)]

\* The next of them, as it was read, with its keys captured again.
RefreshNext(c) ==
    /\ At(c, "next") /\ Quiet
    /\ IF conn[c].todo = {} THEN Ends(c)
       ELSE \E p \in conn[c].todo :
              conn' = [conn EXCEPT ![c] =
                  [conn[c] EXCEPT !.stage = "load", !.todo = @ \ {p}, !.path = p,
                                  !.rec = Resealed(conn[c].seen[p])]]
    /\ UNCHANGED <<file, acl, store, tmp, entry, now, cards, ask, ever, used>>

\* handlePut by an agent with the vault locked: a new name, or its own.
AgentPut(a, n) ==
    /\ entry[n].kind = "absent" \/ Authored(a, n)
    /\ \E p \in Paths : store[p] # NoRec /\ store[p].pol.scope = Home
    /\ Spend /\ now' = now + 1 /\ Quiet
    /\ entry' = [entry EXCEPT ![n] = [kind |-> "agent", by |-> a, at |-> now + 1]]
    /\ UNCHANGED <<file, acl, store, tmp, cards, conn, ask, ever>>

-----------------------------------------------------------------------------
(* exec.                                                                   *)

ExecRead(a, p) ==
    /\ ask[a] = AskIdle /\ acl[p] /\ Quiet
    /\ ask' = [ask EXCEPT ![a] = [path |-> p, body |-> file[p].pol, mtime |-> file[p].mtime]]
    /\ UNCHANGED <<file, acl, store, tmp, entry, now, cards, conn, ever, used>>

\* raiseTrustApproval: the same question is the same card, answered or not.
RaiseOnce(p, w) ==
    cards' = cards \cup {[path |-> p, asks |-> w, status |-> "pending"] :
                              x \in {y \in {p} : \A k \in cards : ~(k.path = p /\ k.asks = w)}}
RaiseTrustApproval(p, w) ==
    cards' = {k \in cards : ~(k.path = p /\ k.asks = w)} \cup {[path |-> p, asks |-> w, status |-> "pending"]}

ExecStops(a, req) ==
    LET x == ask[a]
        rec == store[x.path]
        act == Resolve(x.body, req)
    IN /\ Quiet
       /\ IF Asks(a, x.path, x.body, x.mtime)
          THEN RaiseTrustApproval(x.path, Widenings(rec.pol, x.body))
          ELSE /\ rec = NoRec \/ act = NoAct \/ ~RunsFree(x.body, act)
               /\ UNCHANGED cards

\* The record as the file in force narrows it; with the password any command.
ExecRuns(a, req) ==
    LET x == ask[a]
        rec == store[x.path]
        act == Resolve(x.body, req)
    IN /\ rec # NoRec /\ act # NoAct
       /\ ~Asks(a, x.path, x.body, x.mtime)
       /\ \E password \in BOOLEAN :
            /\ password \/ RunsFree(x.body, act)
            /\ run' = [path |-> x.path, act |-> act, free |-> ~password, body |-> x.body,
                       got |-> Delivered(rec, x.body), own |-> {n \in Names : Authored(a, n)},
                       wild |-> rec.wild]
       /\ UNCHANGED cards

\* recordScopeClash: a request for another scope than the file pins is refused
\* before anything is compared or raised on the strength of the record.
ExecClash(a) ==
    /\ ask[a] # AskIdle /\ Quiet
    /\ store[ask[a].path] # NoRec /\ Scopes # {ask[a].body.scope}
    /\ ask' = [ask EXCEPT ![a] = AskIdle]
    /\ UNCHANGED <<file, acl, store, tmp, entry, now, cards, conn, ever, used>>

\* authorizeExec after the file was read, in the scope the file pins: Verify and
\* everything behind it.
ExecVerify(a) ==
    /\ ask[a] # AskIdle
    /\ \E req \in Acts \cup Aliases : ExecStops(a, req) \/ ExecRuns(a, req)
    /\ ask' = [ask EXCEPT ![a] = AskIdle]
    /\ UNCHANGED <<file, acl, store, tmp, entry, now, conn, ever, used>>

\* The daemon stops: what is on disk stays, the temporary file too.
Restart ==
    /\ Spend /\ Quiet
    /\ conn' = [c \in Conns |-> Idle] /\ ask' = [a \in Agents |-> AskIdle]
    /\ UNCHANGED <<file, acl, store, tmp, entry, now, cards, ever>>

-----------------------------------------------------------------------------
Step(c) ==
    \/ PutBuild(c) \/ PutLoad(c) \/ SaveTmp(c) \/ SaveRename(c)
    \/ DecideRecord(c) \/ RevokeACL(c) \/ RefreshLoad(c) \/ RefreshNext(c)

Owner(c) ==
    \/ \E p \in Paths : GrantRead(c, p) \/ RemoveLoad(c, p)
    \/ \E p \in Worked, f \in Files : BynWrite(c, p, f)
    \/ \E k \in cards : DecideStart(c, k)
    \/ \E n \in Names : OwnerPut(c, n)

TNext ==
    \/ \E p \in Worked : GrantRefused(p) \/ \E f \in Files : EditFile(p, f)
    \/ \E c \in Conns : Owner(c) \/ Step(c)
    \/ \E k \in cards : Deny(k)
    \/ \E a \in Agents : \/ \E n \in Names : AgentPut(a, n)
                         \/ \E p \in Worked : ExecRead(a, p)
                         \/ ExecVerify(a) \/ ExecClash(a)
    \/ Restart

\* Handlers finish, the agents keep trying every file in the scope it pins, and
\* the owner comes back to a card that keeps waiting.
ApprovePending(p) ==
    \E c \in Conns : \E k \in {l \in cards : l.path = p /\ l.status = "pending"} : DecideStart(c, k)

TFairness ==
    /\ \A c \in Conns : WF_tvars(Step(c))
    /\ \A a \in Agents : SF_tvars(ExecVerify(a))
    /\ \A a \in Agents, p \in Worked : SF_tvars(ExecRead(a, p))
    /\ \A p \in Worked : SF_tvars(ApprovePending(p))

TSpec == TInit /\ [][TNext]_tvars /\ TFairness

-----------------------------------------------------------------------------
(* Properties.                                                             *)

\* A record the owner granted.
RecordFits(p, rec) ==
    rec # NoRec => /\ rec.pol \in ever[p]
                   /\ rec.wild => Star \in rec.pol.env

\* Every record, on disk or in the copy some handler holds, is a policy the
\* owner granted that file, and it carries the scope key only if that policy
\* lists "*": no interleaving of the four writers makes up a record (trust.Put).
GrantsAreTheOwners ==
    /\ \A p \in Paths : RecordFits(p, store[p]) /\ (tmp # NoRec => RecordFits(p, tmp[p]))
    /\ \A c \in Conns :
         /\ RecordFits(conn[c].path, conn[c].rec)
         /\ \A p \in Paths : /\ conn[c].copy # NoRec => RecordFits(p, conn[c].copy[p])
                             /\ conn[c].seen # NoRec => RecordFits(p, conn[c].seen[p])

\* The scope a run works in, what it is given, and a command that ran without
\* the password, the owner granted that file at some time, the caller's own
\* values excepted, however the file and the store moved between the steps of
\* the run (authorizeExec).
RunWithinGrant ==
    run # NoRun =>
        \E g \in ever[run.path] :
            /\ run.body.scope = g.scope
            /\ run.got \subseteq Allows(g.env, Names) \cup run.own
            /\ run.free => \/ run.act \in Allows(g.acts, Acts)
                           \/ g.auth["exec"] = "none"

\* A variable the file no longer lists is not injected, under a grant that
\* named its variables (applyPolicy, snapshotEnvAllowlist).
NarrowedListApplies ==
    run # NoRun /\ ~run.wild => run.got \subseteq Allows(run.body.env, Names)

\* The same of every grant: "If the file has since dropped a variable, that is
\* a narrowing the author asked for and it applies immediately".
NarrowingApplies == run # NoRun => run.got \subseteq Allows(run.body.env, Names)

\* "A pre-flight that answers differently from the thing it predicts is worse
\* than none": what it calls changed would stop this caller at a card, what it
\* calls unpinned needs the password, what it calls pinned does not.
PreflightIsTheGate ==
    \A p \in Paths, req \in Acts \cup Aliases, a \in Agents :
        LET body == file[p].pol IN
        CASE Preflight(p, req) = "changed" -> Asks(a, p, body, file[p].mtime)
          [] Preflight(p, req) = "pinned" -> RunsFree(body, Resolve(body, req))
          [] Preflight(p, req) = "no_match" -> ~RunsFree(body, Resolve(body, req))
          [] OTHER -> TRUE

\* A file nobody edits any more stops asking: its widening is approved, or the
\* file is no longer trusted or readable.  An approval lost to another writer, or one the
\* daemon died on, is asked and answered again.
WideningsSettle ==
    \A a \in Agents, p \in Worked : <>[] ~(acl[p] /\ Asks(a, p, file[p].pol, file[p].mtime))

\* The access a refused grant takes back was given for that grant: "nothing in
\* this group was trusted, so roll back every ACL we granted for it".
RollbackTouchesNoGrant == [][\A p \in Worked : GrantRefused(p) => store[p] = NoRec]_tvars
=============================================================================
