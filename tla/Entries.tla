------------------------------- MODULE Entries -------------------------------
(***************************************************************************)
(* The entries of one vault and the scopes that hold them: projects, envs  *)
(* and rows (internal/vault/store.go), the keys a row is sealed under, the *)
(* capability a trusted .byn carries (internal/daemon/bynwrite.go), values *)
(* stored with nobody there (vault/authored.go, daemon/authored.go) and    *)
(* the handlers that change them (daemon/dispatch.go, unattended.go).      *)
(*                                                                         *)
(* The database has one connection, so a transaction or a lone statement   *)
(* is one step; a handler is the sequence of its transactions, and calls   *)
(* of different callers interleave between them.  A value is the caller    *)
(* that stored it and its place among the values of its row.  Env ids are  *)
(* unique over all projects, so an env id stands for the (project, env)    *)
(* pair of ids that the code mixes into keys and associated data.          *)
(***************************************************************************)
EXTENDS Integers, FiniteSets

CONSTANTS Callers,      \* origins of calls; one call of each is under way at most
          ProjNames, DefProj,
          EnvNames, DefEnv,
          VarNames,     \* names of variables
          Manifests,    \* what a trusted .byn may say: [proj, env, wild, names, auth, put]
          LegacyRows,   \* rows an older byn may have left behind
          ProdEnv,      \* an env the default project has from the start
          MaxProj, MaxEnv,   \* bounds: ids ever handed out
          CredsOf(_),        \* the credentials a caller may come with
          MaxOps             \* bound: calls started

ASSUME EntriesAssumption ==
    /\ DefProj \in ProjNames /\ {DefEnv, ProdEnv} \subseteq EnvNames /\ DefEnv # ProdEnv
    /\ MaxProj \in Nat /\ MaxEnv \in Nat /\ MaxOps \in Nat
    /\ \A m \in Manifests : m.wild \in BOOLEAN

VARIABLES projects, lastProj,   \* [id, name] rows and the AUTOINCREMENT counter
          envs, lastEnv,        \* [id, proj, name] rows and their counter
          rows,                 \* the entries table
          locked,               \* the vault key is not in memory
          registry,             \* authored.json: who stored a name with nobody there
          grant,                \* the trust record of one .byn, or NoGrant
          ops,                  \* calls started so far
          call,                 \* the call each caller has under way
          loose                 \* history: names whose claim may be another's

evars == <<projects, lastProj, envs, lastEnv, rows, locked, registry, grant, ops, call, loose>>
scopeVars == <<projects, lastProj, envs, lastEnv>>

NoGrant == [proj |-> "none"]
NoCall == [stage |-> "idle"]

Creds == {"none", "session", "password"}
Auths == {"default", "always", "none"}

-----------------------------------------------------------------------------
(* Keys and rows.  A row records its scheme (aad_version), the env and the  *)
(* name of the identity it was sealed for, and the value.                   *)

VaultKeyed == 1
RowKeyed == 2
EnvKeyed == 3
AuthoredKeyed == 4
Schemes == {VaultKeyed, RowKeyed, EnvKeyed, AuthoredKeyed}

Row(e, n, ver, keyEnv, sealName, val) ==
    [env |-> e, name |-> n, ver |-> ver, keyEnv |-> keyEnv, sealName |-> sealName, val |-> val]

\* A row an older byn left opens for the identity it has: its scheme keys it
\* by name, or not at all.
ASSUME LegacyAssumption ==
    \A r \in LegacyRows : r.env # 0 /\ r.ver \in {VaultKeyed, RowKeyed} /\ r.sealName = r.name

\* sealEntry: the current scheme, keyed through the row's own scope.
SealEntry(e, n, val) == Row(e, n, EnvKeyed, e, n, val)

\* PutEnvVarAuthored: the row key comes from whatever authored key the caller
\* was handed; the associated data names the scope the row lands in.
SealAuthored(e, n, keyEnv, val) == Row(e, n, AuthoredKeyed, keyEnv, n, val)

\* openEntry: the vault key yields the key of any scheme for the row's identity.
OpensUnderVaultKey(r) ==
    /\ r.sealName = r.name
    /\ r.ver \in {EnvKeyed, AuthoredKeyed} => r.keyEnv = r.env

\* Keys a capability carries.
Key(kind, ver, e, n) == [kind |-> kind, ver |-> ver, env |-> e, name |-> n]
NoName == "no name"
ScopeKey(e) == Key("scope", EnvKeyed, e, NoName)
AuthoredKey(e) == Key("authored", AuthoredKeyed, e, NoName)
DefaultScopeKey(e) == Key("scope@default", EnvKeyed, e, NoName)
DefaultAuthoredKey(e) == Key("authored@default", AuthoredKeyed, e, NoName)

-----------------------------------------------------------------------------
(* Scopes and lookups                                                       *)

ProjectsNamed(p) == {q \in projects : q.name = p}
EnvsNamed(p, e) == {x \in envs : x.name = e /\ \E q \in ProjectsNamed(p) : x.proj = q.id}

\* scopeIDs: the env a scope's names stand for now; 0 when there is none.
ScopeId(p, e) == IF EnvsNamed(p, e) = {} THEN 0 ELSE (CHOOSE x \in EnvsNamed(p, e) : TRUE).id

\* fetchEntry
Fetch(e, n) == {r \in rows : r.env = e /\ r.name = n}

\* fetchEnvVarInherited: the scope's own row, else the default env's.
Inherited(p, e, n) ==
    IF Fetch(ScopeId(p, e), n) # {} \/ e = DefEnv
      THEN Fetch(ScopeId(p, e), n)
      ELSE Fetch(ScopeId(p, DefEnv), n)

\* ListEnvVars: own rows and the default env's rows they do not shadow.
ListEnvVars(p, e) ==
    {r.name : r \in {x \in rows : ScopeId(p, e) # 0 /\ x.env \in {ScopeId(p, e), ScopeId(p, DefEnv)}}}

-----------------------------------------------------------------------------
(* Authorization                                                            *)

\* recordGoverns: a record covers a scope by its names.
Governs(p, e) == grant # NoGrant /\ grant.proj = p /\ grant.env = e

\* policyFor needs the vault key to check the record, so it is silent while locked.
Policy(p, e) == IF ~locked /\ Governs(p, e) THEN grant.auth ELSE "default"

\* callerIsAttended: a password, or a session that is valid now.
Attended(cred) == cred = "password" \/ (cred = "session" /\ ~locked)

\* authorizeAction
Authorized(cred, p, e) ==
    \/ Policy(p, e) = "none"
    \/ cred = "password"
    \/ Policy(p, e) = "default" /\ Attended(cred)

\* unattendedPutAllowed
UnattendedPutAllowed(p, e) == Governs(p, e) => grant.put

\* authoredKeyFor: the env whose authored key the governing capability holds.
AuthoredKeyFor(p, e) ==
    IF Governs(p, e) THEN {k.env : k \in {j \in grant.keys : j.kind = "authored"}} ELSE {}

Claims(p, e, ns) == {k \in registry : k.proj = p /\ k.env = e /\ k.name \in ns}

\* ownUnattendedValue
Own(c, p, e, n) == \E k \in Claims(p, e, {n}) : k.who = c /\ k.authored

\* authoredStore.Record and Forget
Record(c, p, e, n, authored, unattended) ==
    (registry \ Claims(p, e, {n})) \cup
        {[proj |-> p, env |-> e, name |-> n, who |-> c, authored |-> authored, unattended |-> unattended]}
Forget(p, e, ns) == registry \ Claims(p, e, ns)

-----------------------------------------------------------------------------
(* Capturing the keys of a scope                                            *)

\* captureRowKeys: the key that opens each row now; a legacy row is captured
\* under the current scheme, to which it is moved (Migrate).
CaptureRowKeys(p, e, ns) ==
    UNION {{IF r.ver = RowKeyed THEN Key("row", RowKeyed, 0, n) ELSE Key("row", EnvKeyed, r.env, n)
            : r \in Inherited(p, e, n)} : n \in ns}

\* Mutant: a grant for another env carries default's authored key only.
CaptureDefaultKeysAuthoredOnly(p, e, wild) ==
    IF e = DefEnv THEN {} ELSE {DefaultAuthoredKey(ScopeId(p, DefEnv))}
CaptureDefaultKeys(p, e, wild) ==
    IF e = DefEnv THEN {}
    ELSE {DefaultAuthoredKey(ScopeId(p, DefEnv))}
         \cup (IF wild THEN {DefaultScopeKey(ScopeId(p, DefEnv))} ELSE {})

\* sealExecCapabilityWithKey; nothing to seal when the scope does not exist.
SealCapability(p, e, ns, wild) ==
    IF ScopeId(p, e) = 0 THEN {}
    ELSE CaptureRowKeys(p, e, IF wild THEN ListEnvVars(p, e) ELSE ns)
         \cup (IF wild THEN {ScopeKey(ScopeId(p, e))} ELSE {})
         \cup {AuthoredKey(ScopeId(p, e))}
         \cup CaptureDefaultKeys(p, e, wild)

\* putTrustRecord: the record of a trusted .byn.
Trusted(m) ==
    [proj |-> m.proj, env |-> m.env, wild |-> m.wild, names |-> m.names, auth |-> m.auth, put |-> m.put,
     keys |-> SealCapability(m.proj, m.env, m.names, m.wild)]

\* The legacy rows a capture re-seals, as it read them.
LegacyOf(p, e, ns) == {r \in UNION {Inherited(p, e, n) : n \in ns} : r.ver = VaultKeyed}

-----------------------------------------------------------------------------
(* What a capability opens (openCapabilityValues)                           *)

\* OpenEnvVarInherited: a row of the scope answers to the scope's keys, an
\* inherited row to default's.
KeysFor(g, r) ==
    LET own == r.env = ScopeId(g.proj, g.env)
    IN {k \in g.keys :
          \/ r.ver = EnvKeyed /\ k.kind = (IF own THEN "scope" ELSE "scope@default")
          \/ r.ver = AuthoredKeyed /\ k.kind = (IF own THEN "authored" ELSE "authored@default")}

\* DecryptWithAAD: the key is the one the row was sealed under.
Decrypts(k, r) ==
    /\ r.sealName = r.name
    /\ k.kind = "row" => k.ver = r.ver
    /\ r.ver # RowKeyed => k.env = r.keyEnv

\* What the run may have at all: the snapshot's list, or everything.
Asked(g, n) == g.wild \/ n \in g.names

\* The first two loops, over the names the scope lists.
Seen(g) ==
    {n \in ListEnvVars(g.proj, g.env) :
        Asked(g, n) /\ \E r \in Inherited(g.proj, g.env, n) : \E k \in KeysFor(g, r) : Decrypts(k, r)}

\* The third loop, over the keys captured one by one, and the rows they are tried
\* on (OpenEnvVarWithRowKey).
Captured(g) == {k \in g.keys : k.kind = "row" /\ Asked(g, k.name) /\ k.name \notin Seen(g)}
Tried(g, k) == {r \in Inherited(g.proj, g.env, k.name) : r.ver \in {RowKeyed, EnvKeyed}}

\* One value that does not open takes all of them with it: the scope is gone, a
\* scope key is not the one the row was sealed under, or a captured key is not.
\* An authored key that fits no row is passed over.
Refused(g) ==
    /\ g.keys # {}
    /\ \/ ScopeId(g.proj, g.env) = 0
       \/ \E n \in ListEnvVars(g.proj, g.env) : \E r \in Inherited(g.proj, g.env, n) :
             r.ver = EnvKeyed /\ KeysFor(g, r) # {} /\ \A k \in KeysFor(g, r) : ~Decrypts(k, r)
       \/ \E k \in Captured(g) : \E r \in Tried(g, k) : ~Decrypts(k, r)

\* The names a run under the grant is given with the vault locked.
OpenCapabilityValues(g) ==
    IF Refused(g) THEN {} ELSE Seen(g) \cup {k.name : k \in {j \in Captured(g) : Tried(g, j) # {}}}

-----------------------------------------------------------------------------
EInit ==
    /\ projects = {[id |-> 1, name |-> DefProj]} /\ lastProj = 1
    /\ envs = {[id |-> 1, proj |-> 1, name |-> DefEnv], [id |-> 2, proj |-> 1, name |-> ProdEnv]}
    /\ lastEnv = 2
    /\ rows \in {{}} \cup {{r} : r \in LegacyRows}
    /\ locked = TRUE
    /\ registry = {}
    /\ grant \in {NoGrant} \cup {Trusted(m) : m \in {k \in Manifests : rows = {}}}
    /\ ops = 0
    /\ call = [c \in Callers |-> NoCall]
    /\ loose = {}

Count == ops < MaxOps /\ ops' = ops + 1

\* The name a claim is on, and the claims in scopes whose names come to stand for
\* something else.
ClaimOn(k) == <<k.proj, k.env, k.name>>
InProjects(ps) == {ClaimOn(k) : k \in {j \in registry : j.proj \in ps}}
InEnvs(p, es) == {ClaimOn(k) : k \in {j \in registry : j.proj = p /\ j.env \in es}}

\* The claims on a row that was written since it was read.
Overtaken(mig) ==
    {ClaimOn(k) : k \in {j \in registry :
        \E m \in mig \ rows : m.env = ScopeId(j.proj, j.env) /\ m.name = j.name}}

Lock == ~locked /\ locked' = TRUE /\ UNCHANGED <<scopeVars, rows, registry, grant, ops, call, loose>>
Unlock == locked /\ locked' = FALSE /\ UNCHANGED <<scopeVars, rows, registry, grant, ops, call, loose>>

-----------------------------------------------------------------------------
(* Projects and envs.  Structural calls are one transaction each.           *)

CreateEnvRow(x) == envs' = envs \cup {x} /\ lastEnv' = x.id

HandleProjectCreate(p) ==
    /\ Count
    /\ ~locked
    /\ ProjectsNamed(p) = {}
    /\ lastProj < MaxProj /\ lastEnv < MaxEnv
    /\ projects' = projects \cup {[id |-> lastProj + 1, name |-> p]}
    /\ lastProj' = lastProj + 1
    /\ CreateEnvRow([id |-> lastEnv + 1, proj |-> lastProj + 1, name |-> DefEnv])
    /\ UNCHANGED <<rows, locked, registry, grant, call, loose>>

\* The foreign keys cascade: the project's envs and their entries go with it.
HandleProjectDelete(p, cred) ==
    /\ Count
    /\ p # DefProj
    /\ Authorized(cred, p, DefEnv)
    /\ \E q \in ProjectsNamed(p) :
         LET gone == {x \in envs : x.proj = q.id}
         IN /\ projects' = projects \ {q}
            /\ envs' = envs \ gone
            /\ rows' = {r \in rows : \A x \in gone : r.env # x.id}
    /\ loose' = loose \cup InProjects({p})
    /\ UNCHANGED <<lastProj, lastEnv, locked, registry, grant, call>>

HandleProjectRename(p, to, cred) ==
    /\ Count
    /\ p # DefProj /\ p # to
    /\ Authorized(cred, p, DefEnv)
    /\ ProjectsNamed(to) = {}
    /\ \E q \in ProjectsNamed(p) : projects' = (projects \ {q}) \cup {[q EXCEPT !.name = to]}
    /\ loose' = loose \cup InProjects({p, to})
    /\ UNCHANGED <<lastProj, envs, lastEnv, rows, locked, registry, grant, call>>

HandleEnvCreate(p, e) ==
    /\ Count
    /\ ~locked
    /\ e # DefEnv
    /\ EnvsNamed(p, e) = {}
    /\ lastEnv < MaxEnv
    /\ \E q \in ProjectsNamed(p) : CreateEnvRow([id |-> lastEnv + 1, proj |-> q.id, name |-> e])
    /\ UNCHANGED <<projects, lastProj, rows, locked, registry, grant, call, loose>>

\* Mutant: the entries of a deleted env stay behind.
HandleEnvDeleteNoCascade(p, e, cred) ==
    /\ Count
    /\ e # DefEnv
    /\ Authorized(cred, p, e)
    /\ \E x \in EnvsNamed(p, e) : envs' = envs \ {x}
    /\ loose' = loose \cup InEnvs(p, {e})
    /\ UNCHANGED <<projects, lastProj, lastEnv, rows, locked, registry, grant, call>>

HandleEnvDelete(p, e, cred) ==
    /\ Count
    /\ e # DefEnv
    /\ Authorized(cred, p, e)
    /\ \E x \in EnvsNamed(p, e) :
         /\ envs' = envs \ {x}
         /\ rows' = {r \in rows : r.env # x.id}
    /\ loose' = loose \cup InEnvs(p, {e})
    /\ UNCHANGED <<projects, lastProj, lastEnv, locked, registry, grant, call>>

HandleEnvRename(p, e, to, cred) ==
    /\ Count
    /\ DefEnv \notin {e, to} /\ e # to
    /\ Authorized(cred, p, e)
    /\ EnvsNamed(p, to) = {}
    /\ \E x \in EnvsNamed(p, e) : envs' = (envs \ {x}) \cup {[x EXCEPT !.name = to]}
    /\ loose' = loose \cup InEnvs(p, {e, to})
    /\ UNCHANGED <<projects, lastProj, lastEnv, rows, locked, registry, grant, call>>

\* ClearEnvVars: the rows go, the env and what the registry says of it stay.
HandleEnvClear(p, e, cred) ==
    /\ Count
    /\ Authorized(cred, p, e)
    /\ ScopeId(p, e) # 0
    /\ rows' = {r \in rows : r.env # ScopeId(p, e)}
    /\ loose' = loose \cup InEnvs(p, {e})
    /\ UNCHANGED <<scopeVars, locked, registry, grant, call>>

-----------------------------------------------------------------------------
(* Put (handlePut).  A create is free; an overwrite needs the caller's own  *)
(* claim or an authorization, and is a second transaction after the first   *)
(* found the row.                                                           *)

\* A value is the caller that stored it and its place among the values of its row.
Value(c, e, n) ==
    [n |-> 1 + (IF Fetch(e, n) = {} THEN 0 ELSE (CHOOSE r \in Fetch(e, n) : TRUE).val.n), by |-> c]

Under(c, stage) == call[c] # NoCall /\ call[c].stage = stage
To(c, stage) == [call EXCEPT ![c].stage = stage]
Done(c) == [call EXCEPT ![c] = NoCall]

\* Upsert of a row of the scope's own env.
Upsert(r) == rows' = (rows \ Fetch(r.env, r.name)) \cup {r}

\* The row a put writes: under the authored key the capability holds when the
\* caller is unattended and there is one, under the vault key otherwise.
PutRow(c, e, n, authKey) ==
    IF authKey # 0 THEN SealAuthored(e, n, authKey, Value(c, e, n)) ELSE SealEntry(e, n, Value(c, e, n))

\* PutEnvVar needs the key in memory, PutEnvVarWithPassword brings it.
KeyAtHand(cred, authKey) == authKey # 0 \/ ~locked \/ cred = "password"

HandlePut(c, p, e, n, cred) ==
    LET unattended == ~Attended(cred)
        keys == IF unattended THEN AuthoredKeyFor(p, e) ELSE {}
        authKey == IF keys = {} THEN 0 ELSE CHOOSE k \in keys : TRUE
        exists == Fetch(ScopeId(p, e), n) # {}
    IN /\ Count
       /\ call[c] = NoCall
       /\ ScopeId(p, e) # 0
       /\ unattended => UnattendedPutAllowed(p, e)
       /\ KeyAtHand(cred, authKey)
       /\ IF exists
            THEN UNCHANGED rows
            ELSE Upsert(PutRow(c, ScopeId(p, e), n, authKey))
       /\ call' = [call EXCEPT ![c] =
             [stage |-> IF exists THEN "own" ELSE "record", proj |-> p, env |-> e, names |-> {n},
              cred |-> cred, authKey |-> authKey, unattended |-> unattended, rec |-> NoGrant, mig |-> {}]]
       /\ UNCHANGED <<scopeVars, locked, registry, grant, loose>>

\* The overwrite is the author's own, or authorized, or refused.
PutDecide(c) ==
    /\ Under(c, "own")
    /\ LET k == call[c]
           n == CHOOSE m \in k.names : TRUE
       IN call' = IF Own(c, k.proj, k.env, n) /\ Policy(k.proj, k.env) # "always"
                    THEN To(c, "overOwn")
                  ELSE IF Authorized(k.cred, k.proj, k.env) THEN To(c, "over")
                  ELSE Done(c)
    /\ UNCHANGED <<scopeVars, rows, locked, registry, grant, ops, loose>>

PutOverwrite(c) ==
    /\ Under(c, "over") \/ Under(c, "overOwn")
    /\ LET k == call[c]
           n == CHOOSE m \in k.names : TRUE
       IN IF ScopeId(k.proj, k.env) = 0 \/ ~KeyAtHand(k.cred, k.authKey)
            THEN call' = Done(c) /\ UNCHANGED rows
            ELSE /\ Upsert(PutRow(c, ScopeId(k.proj, k.env), n, k.authKey))
                 /\ call' = To(c, IF k.stage = "overOwn" THEN "record" ELSE "forget")
    /\ UNCHANGED <<scopeVars, locked, registry, grant, ops, loose>>

\* The names of a call, and the calls whose claim is still to be settled.
NamesOf(k) == {<<k.proj, k.env, n>> : n \in k.names}
Settling(c) == Under(c, "record") \/ Under(c, "forget")

\* The row of a name is there and this caller's.
Stands(p, e, n, c) ==
    LET own == Fetch(ScopeId(p, e), n)
    IN own # {} /\ \A r \in own : r.val.by = c

\* recordAuthored, after the put: by then the row may be gone or another's.  A
\* row on the authored scheme needs no key of its own in the capability, so only
\* an ordinary one re-seals it.
RecordAuthored(c) ==
    /\ Under(c, "record")
    /\ LET k == call[c]
           n == CHOOSE m \in k.names : TRUE
       IN /\ registry' = Record(c, k.proj, k.env, n, k.authKey # 0, k.unattended)
          /\ loose' = IF Stands(k.proj, k.env, n, c) THEN loose \ NamesOf(k) ELSE loose \cup NamesOf(k)
          /\ call' = IF k.authKey # 0 THEN Done(c) ELSE To(c, "refresh")
    /\ UNCHANGED <<scopeVars, rows, locked, grant, ops>>

\* Mutant: an overwrite leaves the first author's claim standing.
ForgetAuthoredNothing(c) ==
    /\ Under(c, "forget")
    /\ call' = To(c, "refresh")
    /\ UNCHANGED <<scopeVars, rows, locked, registry, grant, ops, loose>>

ForgetAuthored(c) ==
    /\ Under(c, "forget")
    /\ registry' = Forget(call[c].proj, call[c].env, call[c].names)
    /\ loose' = loose \ NamesOf(call[c])
    /\ call' = To(c, "refresh")
    /\ UNCHANGED <<scopeVars, rows, locked, grant, ops>>

\* The registry cannot be read or saved, or the caller has no ancestry to record:
\* the error is dropped with what would have followed, except that an import, which
\* still holds the row it read, goes on to refresh.
SettleFails(c) ==
    /\ Settling(c)
    /\ loose' = loose \cup NamesOf(call[c])
    /\ call' = IF call[c].mig = {} THEN Done(c) ELSE To(c, "refresh")
    /\ UNCHANGED <<scopeVars, rows, locked, registry, grant, ops>>

\* The daemon stops and starts again: the calls under way end where they are, and
\* the vault key is gone.
DaemonRestarts ==
    /\ call' = [c \in Callers |-> NoCall]
    /\ locked' = TRUE
    /\ loose' = loose \cup UNION {NamesOf(call[c]) : c \in {d \in Callers : Settling(d)}}
    /\ UNCHANGED <<scopeVars, rows, registry, grant, ops>>

-----------------------------------------------------------------------------
(* Re-sealing the capability (refreshCapabilitiesWithKey) and granting      *)

\* refreshScope: a write re-seals the grant of its scope, and in a default env
\* the grants of the envs that inherit from it.
Refreshes(p, e) ==
    /\ grant # NoGrant /\ grant.keys # {} /\ grant.proj = p
    /\ grant.env = e \/ e = DefEnv

\* Only a grant by names has to follow what is stored; the record is read here
\* and written in WriteGrant, with the legacy rows re-sealed in between.
RefreshRead(c) ==
    /\ Under(c, "refresh")
    /\ LET k == call[c]
           ns == grant.names \cup {j.name : j \in Claims(grant.proj, grant.env, VarNames)}
           keys == SealCapability(grant.proj, grant.env, ns, FALSE)
       IN IF (locked /\ k.cred # "import") \/ ~Refreshes(k.proj, k.env) \/ grant.wild \/ keys = {}
            THEN call' = Done(c)
            ELSE call' = [call EXCEPT ![c].stage = "write",
                                      ![c].rec = [grant EXCEPT !.keys = keys],
                                      ![c].mig = LegacyOf(grant.proj, grant.env, ns)]
    /\ UNCHANGED <<scopeVars, rows, locked, registry, grant, ops, loose>>

\* handleTrustGrant: the owner trusts a .byn, which names its scope.
GrantRead(c, m, cred) ==
    /\ Count
    /\ call[c] = NoCall
    /\ cred = "password"
    /\ call' = [call EXCEPT ![c] =
             [stage |-> "write", proj |-> m.proj, env |-> m.env, names |-> {}, cred |-> cred,
              authKey |-> 0, unattended |-> FALSE,
              rec |-> Trusted(m),
              mig |-> LegacyOf(m.proj, m.env, IF m.wild THEN ListEnvVars(m.proj, m.env) ELSE m.names)]]
    /\ UNCHANGED <<scopeVars, rows, locked, registry, grant, loose>>

\* The migrated rows go back by env and name, whatever stands there now, and
\* the record replaces the one of the same path.
Migrated(mig) ==
    {IF \E m \in mig : m.env = r.env /\ m.name = r.name
       THEN SealEntry(r.env, r.name, (CHOOSE m \in mig : m.env = r.env /\ m.name = r.name).val)
       ELSE r : r \in rows}
WriteGrant(c) ==
    /\ Under(c, "write")
    /\ rows' = Migrated(call[c].mig)
    /\ grant' = call[c].rec
    /\ loose' = loose \cup Overtaken(call[c].mig)
    /\ call' = Done(c)
    /\ UNCHANGED <<scopeVars, locked, registry, ops>>

HandleTrustRemove ==
    /\ grant # NoGrant
    /\ grant' = NoGrant
    /\ UNCHANGED <<scopeVars, rows, locked, registry, ops, call, loose>>

-----------------------------------------------------------------------------
(* Delete, rename, and bringing an unattended value under the password      *)

StartCall(c, stage, p, e, ns, cred) ==
    call' = [call EXCEPT ![c] =
        [stage |-> stage, proj |-> p, env |-> e, names |-> ns, cred |-> cred,
         authKey |-> 0, unattended |-> FALSE, rec |-> NoGrant, mig |-> {}]]

HandleDelete(c, p, e, n, cred) ==
    /\ Count
    /\ call[c] = NoCall
    /\ Fetch(ScopeId(p, e), n) # {}
    /\ Authorized(cred, p, e) \/ (Own(c, p, e, n) /\ Policy(p, e) # "always")
    /\ StartCall(c, "delete", p, e, {n}, cred)
    /\ UNCHANGED <<scopeVars, rows, locked, registry, grant, loose>>

DeleteEnvVar(c) ==
    /\ Under(c, "delete")
    /\ LET k == call[c]
           gone == {r \in rows : r.env = ScopeId(k.proj, k.env) /\ r.name \in k.names}
       IN /\ rows' = rows \ gone
          /\ call' = IF gone = {} THEN Done(c) ELSE To(c, "forget")
    /\ UNCHANGED <<scopeVars, locked, registry, grant, ops, loose>>

\* Mutant: a rename moves the ciphertext as it is.
RenamedInPlace(r, to) == [r EXCEPT !.name = to]

\* RenameEnvVar opens the value under the old name and seals it for the new.
Renamed(r, to) == SealEntry(r.env, to, r.val)
HandleRename(c, p, e, n, to, cred) ==
    /\ Count
    /\ call[c] = NoCall
    /\ n # to
    /\ Authorized(cred, p, e)
    /\ ~locked
    /\ ScopeId(p, e) # 0 /\ Fetch(ScopeId(p, e), to) = {}
    /\ \E r \in Fetch(ScopeId(p, e), n) :
         /\ OpensUnderVaultKey(r)
         /\ rows' = (rows \ {r}) \cup {Renamed(r, to)}
    /\ StartCall(c, "forget", p, e, {n, to}, cred)
    /\ UNCHANGED <<scopeVars, locked, registry, grant, loose>>

\* handleUnattendedImport, one value: SealUnattendedWithKey reads the row and
\* opens it with the vault key; the write is guarded on the scheme it read.
ImportRead(c, p, e, n, cred) ==
    /\ Count
    /\ call[c] = NoCall
    /\ Authorized(cred, p, e)
    /\ ~locked \/ cred = "password"
    /\ \E r \in Fetch(ScopeId(p, e), n) :
         /\ r.ver = AuthoredKeyed /\ OpensUnderVaultKey(r)
         /\ call' = [call EXCEPT ![c] =
               [stage |-> "import", proj |-> p, env |-> e, names |-> {n},
                cred |-> IF locked THEN "import" ELSE cred, authKey |-> 0, unattended |-> FALSE, rec |-> NoGrant, mig |-> {r}]]
    /\ UNCHANGED <<scopeVars, rows, locked, registry, grant, loose>>

\* Mutant: the write of an import is not guarded.
ImportTargetAny(r) == Fetch(r.env, r.name)

\* The row an import replaces: still on the authored scheme.
ImportTarget(r) == {s \in Fetch(r.env, r.name) : s.ver = AuthoredKeyed}
ImportWrite(c) ==
    /\ Under(c, "import")
    /\ LET k == call[c]
           r == CHOOSE x \in k.mig : TRUE
       IN IF ImportTarget(r) = {}
            THEN call' = Done(c) /\ UNCHANGED <<rows, loose>>
            ELSE /\ rows' = (rows \ ImportTarget(r)) \cup {SealEntry(r.env, r.name, r.val)}
                 /\ loose' = loose \cup Overtaken(k.mig)
                 /\ call' = To(c, "forget")
    /\ UNCHANGED <<scopeVars, locked, registry, grant, ops>>

-----------------------------------------------------------------------------
(* Get (handleGet): what a caller without a credential is given.            *)

Mine(c, p, e, n) == Own(c, p, e, n) /\ Policy(p, e) # "always"
ReadAuthored(p, e, n) ==
    {r \in Fetch(ScopeId(p, e), n) :
        r.ver = AuthoredKeyed /\ \E k \in AuthoredKeyFor(p, e) : Decrypts(AuthoredKey(k), r)}
GetEnvVar(p, e, n) == {r \in Inherited(p, e, n) : ~locked /\ ScopeId(p, e) # 0 /\ OpensUnderVaultKey(r)}
HandleGet(c, p, e, n) ==
    IF locked
      THEN IF Mine(c, p, e, n) THEN ReadAuthored(p, e, n) ELSE {}
      ELSE IF Mine(c, p, e, n) \/ Policy(p, e) = "none" THEN GetEnvVar(p, e, n) ELSE {}

-----------------------------------------------------------------------------
Structure ==
    \/ \E p \in ProjNames : HandleProjectCreate(p)
    \/ \E p \in ProjNames, cred \in Creds : HandleProjectDelete(p, cred)
    \/ \E p, to \in ProjNames, cred \in Creds : HandleProjectRename(p, to, cred)
    \/ \E p \in ProjNames, e \in EnvNames : HandleEnvCreate(p, e)
    \/ \E p \in ProjNames, e \in EnvNames, cred \in Creds : HandleEnvDelete(p, e, cred)
    \/ \E p \in ProjNames, e, to \in EnvNames, cred \in Creds : HandleEnvRename(p, e, to, cred)
    \/ \E p \in ProjNames, e \in EnvNames, cred \in Creds : HandleEnvClear(p, e, cred)

Requests(c) ==
    \/ \E m \in Manifests, cred \in CredsOf(c) : GrantRead(c, m, cred)
    \/ \E p \in ProjNames, e \in EnvNames :
      \/ \E n \in VarNames, cred \in CredsOf(c) : HandlePut(c, p, e, n, cred)
      \/ \E n \in VarNames, cred \in CredsOf(c) : HandleDelete(c, p, e, n, cred)
      \/ \E n, to \in VarNames, cred \in CredsOf(c) : HandleRename(c, p, e, n, to, cred)
      \/ \E n \in VarNames, cred \in CredsOf(c) : ImportRead(c, p, e, n, cred)

Steps(c) ==
    \/ PutDecide(c) \/ PutOverwrite(c) \/ RecordAuthored(c) \/ ForgetAuthored(c) \/ SettleFails(c)
    \/ RefreshRead(c) \/ WriteGrant(c) \/ DeleteEnvVar(c) \/ ImportWrite(c)

ENext ==
    \/ Lock \/ Unlock \/ DaemonRestarts \/ HandleTrustRemove \/ Structure
    \/ \E c \in Callers : Requests(c) \/ Steps(c)

ESpec == EInit /\ [][ENext]_evars

-----------------------------------------------------------------------------
(* Properties                                                               *)

Value0 == [n : 0..MaxOps, by : Callers \cup {"past"}]

\* The tables, the registry and the calls under way keep their shape, ids stay
\* below their counters, and a row belongs to an env that exists (the foreign
\* key of schema.go).
EntriesTypeOK ==
    /\ \A q \in projects : q.id \in 1..lastProj /\ q.name \in ProjNames
    /\ \A x \in envs : x.id \in 1..lastEnv /\ x.name \in EnvNames /\ \E q \in projects : q.id = x.proj
    /\ lastProj <= MaxProj /\ lastEnv <= MaxEnv /\ ops \in 0..MaxOps
    /\ \A r \in rows : /\ r.name \in VarNames /\ r.ver \in Schemes /\ r.val \in Value0
                       /\ \E x \in envs : x.id = r.env
    /\ \A r, s \in rows : r.env = s.env /\ r.name = s.name => r = s
    /\ registry \subseteq [proj : ProjNames, env : EnvNames, name : VarNames, who : Callers,
                          authored : BOOLEAN, unattended : BOOLEAN]

\* A row stored under the vault key opens under it with the identity the row
\* has now, through renames of the variable, its env and its project, through
\* imports and through the move of a legacy row (openEntry, store.go).
RowsOpen == \A r \in rows : r.ver # AuthoredKeyed => OpensUnderVaultKey(r)

\* A captured key is of a row that covered one of an older scheme, and went.
Uncovered(g) ==
    \E k \in g.keys : /\ k.kind = "row" /\ k.ver # RowKeyed
                      /\ \E r \in Inherited(g.proj, g.env, k.name) : r.ver = RowKeyed

\* A wildcard grant whose scope key is the one of the scope its names stand for
\* opens every value on the current schemes that the scope lists, inherited or its
\* own, stored before the grant or after it, and no value makes it refuse the whole
\* run, unless a row of an older scheme has come out from under one whose key was
\* captured (openCapabilityValues, execfetch.go; CaptureScopeKey, store.go;
\* CaptureDefaultKeys, inherited.go).
WildcardDelivers ==
    grant # NoGrant /\ grant.wild /\ ScopeKey(ScopeId(grant.proj, grant.env)) \in grant.keys
    /\ ~Uncovered(grant)
      => /\ ~Refused(grant)
         /\ \A n \in ListEnvVars(grant.proj, grant.env) : \A r \in Inherited(grant.proj, grant.env, n) :
              r.ver \in {EnvKeyed, AuthoredKeyed} /\ OpensUnderVaultKey(r)
                => n \in OpenCapabilityValues(grant)

\* A call has stored, moved or removed the value and not yet said whose it is.
Unsettled(key) == \E c \in Callers : Settling(c) /\ key \in NamesOf(call[c])

\* A caller without a credential is handed only values it stored itself, unless the
\* policy asks for no credential (handleGet and the claims of authored.go, which
\* follow the last writer), for every name that no call is about to settle and whose
\* claim did not come loose: by a registry that could not be saved or a daemon that
\* stopped before it was, by a record made after another call took the row, by a
\* migration or an import that put an older value back, or because the scope was cleared, deleted
\* or renamed under its claims.  Calls may overlap in any other way.
OwnValuesOnly ==
    \A p \in ProjNames, e \in EnvNames, n \in VarNames :
      <<p, e, n>> \notin loose /\ ~Unsettled(<<p, e, n>>) =>
        \A c \in Callers : \A r \in HandleGet(c, p, e, n) : r.val.by = c \/ Policy(p, e) = "none"

\* What authored.go says of every caller: it reads the values it authored and, with
\* no credential, nothing else, unless the policy asks for none.
NothingElse ==
    \A c \in Callers, p \in ProjNames, e \in EnvNames, n \in VarNames :
      \A r \in HandleGet(c, p, e, n) : r.val.by = c \/ Policy(p, e) = "none"

\* A step brings an older value back only over a value that was stored
\* unattended, or from a row an older byn left: an import that read before an
\* owner's write does not undo that write (SealUnattendedWithKey, inherited.go).
OwnersWriteStays ==
    [][\A r \in rows : \A s \in rows' :
          s.env = r.env /\ s.name = r.name /\ s.val.n < r.val.n
            => r.ver = AuthoredKeyed \/ s.val.by = "past"]_evars

\* What store.go says of the authored scheme: the vault key opens every row.
EveryRowOpens == \A r \in rows : OpensUnderVaultKey(r)
=============================================================================
