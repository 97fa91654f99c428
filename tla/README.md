# byn: a TLA+ verification project

byn is a local secret manager. A daemon keeps vaults of secrets, unlocks them for
sessions, runs commands with the secrets a project file (`.byn`) allows, puts the
commands it does not allow to the owner as *approval cards*, and writes an audit log
that is chained by HMACs. This directory holds TLA+ models of the daemon's protocols and
of the clients that have control of their own, TLC configurations that check them on small
instances and TLAPS proofs of main properties for every instance. Line numbers are those
of the commit in `src/`; `PROJECT.json` maps every definition to the lines it models.

## 1. The system

| Part | State | Operations | What is hard in it |
|---|---|---|---|
| Approval queue (`internal/approval`) | one JSON file: cards, denial counts, cooldowns | Enqueue, Decide, DecideOnce, AttachCapability, Revoke, ConsumeOnce, Cancel, List, the readers LastDenial and ActionGrantRequest | every call reloads and rewrites the whole file; expiry is lazy; the same question may be asked, answered, lapsed, withdrawn and revoked in any order |
| Watch (`daemon/approvalwatch.go`) | channels of waiting callers | watch, cancel, publish | look, subscribe, look again; an answer races the deadline; nobody announces expiry |
| Exec gates (`daemon/execfetch.go`, `adhoc.go`, `approvalgate.go`, `approvalops.go`) | none of their own | exec, decide, revoke | a grant is found, spent and used in separate calls |
| Trust (`internal/trust`, `daemon/policy.go`, `bynwrite.go`, `execpreflight.go`) | one file of records | trust, untrust, widening approval, re-seal on a write, verify, pre-flight | load, change and rename with no lock across them; the file on disk changes under its record |
| Entries (`internal/vault`, `daemon/dispatch.go`, `authored.go`, `unattended.go`) | SQLite rows under four sealing schemes, registry of unattended writes | put, get, list, rename, delete, import, migrate, capture keys | a handler is several transactions; a ciphertext is bound to its identity; inheritance between environments |
| Notes and runs (`vault/annotation.go`, `execrun.go`) | annotations with versions, snapshots of runs | describe, note, edit, remove, sweep, record, reveal | look-up and write apart; names are used again; diffs of diffs |
| Exec (`cmd/byn/cmd_exec.go`, `byn-exec-helper`, `daemon/exectoken.go`, `cmd_ps`, `cmd_kill`) | one-time tokens, processes | route, authorize, wait, redeem, signal, sweep, kill | four processes, signals at every point, a daemon that goes away |
| Access (`internal/auth`, `daemon/sessions.go`, `passkey.go`, `*_token.go`, `internal/ui`, `internal/session`) | back-off file, sessions, codes, passkeys, settings | unlock, act, lock, enrol, sign in, boot, write and reload settings | check and record apart, tokens in files that outlive their session |
| Audit log (`internal/audit`) | log files, head in the vault database, head in memory | Append, Reseal, VerifyChain, New | crash between write and head, torn lines, failures the process survives |
| Vaults and sessions (`daemon/dispatch.go`, `daemon.go`, `sessions.go`, `internal/vault`) | directories, open stores, keys, sessions | init, unlock, lock, passwd, rename, delete, session end and expiry, idle janitor | handlers are chains of critical sections under different locks; two files are rewritten one after the other |
| Set-up (`internal/setup`, `migrate`, `privsep`, `cmd_setup.go`, `cmd_migrate.go`) | directory trees, service, owner record | setup, relocate, import, teardown, purge | a dozen file operations, each of which may be the last |
| Terminal UI (`internal/tui`) | the Model, calls in flight | keys, answers, ticks | answers in any order, in any mode |

How they interact: a client sends one request at a time on a connection and the daemon
serves connections concurrently, one goroutine each. `byn exec` asks the daemon for an
authorization: the gate reads the `.byn` and its trust record, opens the values the record
allows and hands out a one-time token that the helper redeems in the process that becomes
the target. An exec that no `.byn` action and no live grant allows raises a card in the
queue and returns; the asker waits with a watch or polls; the owner's `approve`, `deny` or
`revoke` changes the queue and then publishes to the watchers; the next exec finds the
grant and spends it if it is single-use. Every handler reaches a vault through the map of
open stores, appends to that vault's audit log, and touches its idle timer; the janitor
locks idle vaults and ends their sessions.

What makes each part correct:

- *queue*: one card per question; a bounded number waiting; cooldowns that begin and end
  together with their counts; an ended card never grants again;
- *watch*: no answer and no lapse is missed; what is reported as a decision is one;
- *gates*: a run follows a yes; a revocation stops new runs; a refusal is a wall; a
  single-use grant is paid for;
- *trust*: a record is a policy the owner granted; a run gets no more than that; a widening
  is settled in the end; what the pre-flight says should be what the gate does (it is not,
  see 5.20);
- *entries*: a row opens under the identity it has now; a wildcard delivers its scope; a
  caller without a credential reads only what it wrote;
- *notes and runs*: history tells the whole story, is about its own object, and shows
  nothing newer than the run;
- *exec*: the owner's identity is used only when vouched for; nothing outlives its wrapper
  or its token; no run waits for ever;
- *access*: the delay holds; a session works for the vault name and at the device number it
  was earned for, and while it lives; an unlock record goes with its passkey;
- *audit*: a crash does not break the chain; what has verified keeps verifying; a reseal
  moves past the break it names;
- *vaults*: a session goes with its key; a vault stops opening only when writers overlapped,
  failed half way or died;
- *set-up*: no interruption costs a vault; the service starts only on the vaults; the owner
  can reach it;
- *terminal UI*: what is shown is of the scope; a password repeats what was refused; a
  revealed value goes away.

`PROJECT.json` lists the hazards behind these, each at its line, with the property that
would catch it.

## 2. Modules

| Module | Extends | Models |
|---|---|---|
| `ApprovalContract` | | what a card promises: asked, open, granted, closed |
| `ApprovalQueue` | | the methods of `approval.Store`, one atomic action each (all but `Prune`, which has no caller) |
| `ApprovalWatch` | `ApprovalQueue` | the watch handler against deciding handlers |
| `ExecGate` | `ApprovalQueue` | exec handlers and `approval.decide` around the queue |
| `AuditChain` | | the log of one vault, its heads, crash and reopen |
| `VaultLifecycle` | | vault directories, open stores, sessions, handlers, janitor |
| `Trust` | | `.byn` files, the store of records, its four writers, pre-flight, the run's use of a record |
| `Entries` | | projects, environments, rows and their keys, captured keys, unattended writes |
| `History` | | annotations and their versions, snapshots and records of runs |
| `ExecRun` | | command line, token store, helper, wrapper, target and `byn kill` |
| `Access` | | passwords and back-off, sessions, terminals, passkeys, one-time codes, settings |
| `Install` | | setup, relocate, import, teardown as sequences of file operations |
| `Tui` | | the terminal UI's Model, its keys and the calls in flight |
| `ApprovalQueueProofs`, `HistoryProofs`, `TrustProofs`, `ExecRunProofs`, `AccessProofs` | the module they are about | theorems |
| `ApprovalProofs` | `ApprovalWatch`, `ExecGate`, `ApprovalQueueProofs` | theorems about both |
| `VaultProofs` | `AuditChain`, `VaultLifecycle`, `Entries` | theorems about each |
| `ClientProofs` | `Install`, `Tui` | theorems about each |
| `MC*` | the module they check | values of the constants, symmetry sets |

`ApprovalWatch` and `ExecGate` compose the queue with its users: they take the queue's
actions as they are and add the handlers' program counters. That each is a refinement of
the queue alone is proved (`GateUsesTheQueue`, `WatchUsesTheQueue`), so what the queue's
theorems say holds under any number of concurrent handlers.

### ApprovalQueue

`queue`, `denials` and `holds` are the three parts of the file; an index of `queue` is a
request id. A *question* is the pair (subject, fingerprint); the fingerprint hashes the
subject, so a question determines its subject and kind. Every method holds the store's
mutex, loads the file and either saves it by a rename or returns: one action each, and a
path that returns before saving leaves the file alone, lapses included (`expire` works on
the loaded copy). Time is a counter; `decided` keeps only the order of decision times,
which is all the code compares. Wording, requestors' details, repeat counts and reasons are
left out. `DecideMoot` is a decision on a card that can no longer take it.

`CardState` is the refinement mapping: a waiting card is *open*, one that authorizes is
*granted*, any other is *closed*.

### ApprovalWatch

A watch is `LookUp`, `Subscribe`, `Reread` and then whichever of `Wake`, `PollTick`,
`Deadline` and `CallerGone` comes first. A decider changes the store and publishes in a
later step. `Deadline` may happen at any time. A restart drops handlers and channels and
keeps the file.

### ExecGate

An exec finds the first live grant it may use, or raises a question. For a command of a
`.byn` the grant is spent and then the values are opened (`ActionSpend`,
`ActionDeliver`); for an ad hoc request the values are opened and then the grant is spent
(`AdhocOpen`, `AdhocDeliver`). A decider reads the card, seals the keys of an ad hoc grant
into it, and decides, in three steps. Callers with a password or a presence token do not
use the queue and are left out. Whether the vault is unlocked when values are wanted is a
free choice. `ran`, `spentFor` and `over` are history. `Preflight` is what
`handleExecPreflight` says of refusals and grants; no action uses it, and
`PreflightIsTheGate` compares it with the gate.

### AuditChain

An event's HMAC is unique because its timestamp is, so a line is the event's number and
the number of the event it was chained to. `WriteLine` and `StoreHead` are the two halves
of an append, with a crash, a torn write or a failure after the write in between; `Open`
is `audit.New`, which takes the last line that parses as the head. A new monthly file only
matters for a torn line, which the next write continues in the same file.

### VaultLifecycle

For each vault: its directory (`good` when meta.json has the fingerprint of wrapped.key),
its entry in the daemon (open, key in memory, activity), and its sessions. For each
connection: the handler it runs, the vault, and whether it still *owns* the Store it
fetched or the wrapped key it wrote. Taken as one step although the code makes two calls:
the janitor's and the lock handler's check that the vault is unlocked followed by the lock
(nothing between them can make the lock wrong), and rename's write of meta.json followed by
the move. Two inits racing before either has written a file are not modelled: the check
and the first write are one step. Passwords always match; a failed authorization only
leaves the store open, which `UseVault` does. `Restart` is a kill at any point. A
password change may fail between its two writes (`PasswdMeta`): the handler answers an error
over a directory whose files no longer agree.

`excused` is history: the vaults whose files two handlers changed at once, or one changed
and then failed or died. A session's mark says whether the lock overtook its unlock (`late`) or its vault
was renamed, deleted or replaced (`left`).

### Trust

A policy is a record of what a file asks for (scope, variables, commands, writable
directories, aliases, password levels); `Widenings` is `ComparePolicies`. The store is a
function from paths to records, and each of its four writers is Load, change, write of the
one temporary file, rename, in separate steps, with a restart possible between any two.
`ExecRead`, `ExecVerify` (or `ExecClash`, the refusal of a request that names another
scope than the file) and the delivery are the steps of `authorizeExec`, so the file,
the record and the queue may change between them. `Preflight` is what
`handleExecPreflight` answers; it changes nothing and is no action. `ever` is history: the
policies the owner has granted each file. Records are written by this daemon, so their MACs verify; a
foreign store file is not modelled.

### Entries

A row has the scheme it was sealed under (vault key, row key, environment key, authored
key), the identity it was sealed with and the identity it has; it opens if they agree.
A transaction is a step (the database has one connection) and a handler is the sequence
of its transactions. Environment ids are unique, so an id stands for the pair of ids that
the code mixes into keys. A grant is the keys captured for a manifest; `Refused` says when
one value makes the whole run fail (a captured key that no longer opens its row), and
`OpenCapabilityValues` is what a run that is not refused is given. The claim of a put
(`RecordAuthored`, `ForgetAuthored`) is a step of its own after the row is written:
`SettleFails` is a registry that cannot be saved, whose error the code drops, and
`DaemonRestarts` cuts a handler off between the two. `loose` is history: the names whose
claim did not follow the last writer, because the save failed or was cut off, because a
record was made after another call took the row, because a migration or an import put an
older value back, or because the scope under the claim was cleared, deleted or renamed.

### History

A text and a stored blob are the number of the request that wrote them (a put seals under
a fresh nonce). Statements of a handler that share no transaction are separate steps. Which
object an annotation was written about, and what a run held, are history fields.

### ExecRun

A form is the way a run is typed (with a `.byn`, an alias, variables, `--no-privsep`,
`--wait-approval`) and what its target does (forks, ignores SIGTERM). The gate's answer is
free, ask or password; a run with neither `.byn` nor variables always needs the password, a
run of named variables always somebody's decision, and no session stands in for either. The
pre-flight's answer is free, except that it reports a refusal only where there is a question.
An alias that the daemon does not resolve runs in process, as one it cannot be asked about.
The wrapper's start, process group, signal handler, wait and sweep
are separate steps, as are the helper's drop of privileges, arming and redeeming. Signals
and `byn kill` come at any time, and the daemon may go down and come back. An older client
and an older daemon are among the instances because the code keeps paths for them.

### Access

A request is built from what its client holds (a token file per terminal and vault, the
portal's memory), and is served in several steps: back-off check, derivation, record,
mint. The back-off state has a copy in memory and one on disk, which a full disk leaves
stale. A terminal is its device number: `Reopen` closes the window and opens another that
gets the number, the token files of the number staying on disk. `VaultRemade` deletes a
vault and makes one under its name; sessions, codes and token files of the name stay.
`opened`, `made` and `origin` are history: which terminal and which vault of the name a
session was minted for. Codes and tokens are fresh numbers; guessing one is not modelled. The
behaviours are
grouped in *workloads*: operations that share state and whose steps meet. Operations of
different workloads meet only through the back-off counter and the key, which each
workload that uses them has.

### Install

A directory tree is the content of each vault, the trust and passkeys carried in, the
daemon's files, the owner record, the root's mode and owner. Each system call or command of
`Provision`, `Adopt`, `commitAdopt`, `Relocate` and `Teardown` that can be the last one is
an action; `os.RemoveAll` removes a vault's files one by one, staging is one step. Daemons
keep their files open through renames. `owed` is history: the last write acknowledged to
each vault. `commitAdopt` has two branches: into a directory that is absent or empty
(`ClearEmpty`, `Swap`: a failure leaves nothing in place, and a backup of an earlier command
is neither put back nor removed) and over one that is not (`ClearBackup`, `MoveAside`,
`Replace` with its rollback, `DropBackup`). The last step of setup may fail to write the
configuration or to restart the service, which are warnings: setup says it is done.

The per-user daemon may start at any moment and imports by force may follow one another. The
action constraint `Undisturbed` of `MCInstall.cfg` leaves two kinds of step out of the run,
and the theorems have the same as a hypothesis: a byn of the owner's that starts after a root
command has looked for it, and a forced replacement that clears a backup holding the only
copy of a vault. Both lose data, and `MCInstallRace.cfg` and `MCInstallBackup.cfg` show it.

### Tui

`m` is the Model and `flight` the unanswered calls; Update handles one message at a time.
Texts are told apart by where they come from. A key that only prints a refusal is no step,
and what the daemon answers is a free choice. The value of a refused put is one slice, shared
by the overlay and its repeats: Esc zeroes it under a repeat that was not sent yet (`wiped`).
The notes overlay keeps one parked call, a closure over the scope and the name of its view.
`refused` is history: the requests the daemon answered with *auth required*.

## 3. Runs

| Run | Distinct states | Properties |
|---|---|---|
| `queue` | 1,405,277 | `OneCardPerQuestion`, `PendingBounded`, `HeldQuestionIsQuiet`, `NoRevival`, `ImplementsContract`: one card per question, a bounded number waiting, a held question is quiet, an ended card is not revived; the queue implements the contract of a card |
| `watch` | 222,204 | `NoLostWakeup`, `DecisionIsAnEnd`, `EndIsReported`: no wakeup is lost, a reported decision is an end, every end is reported |
| `gate` | 2,224,404 | `RunsAnswerTheOwner`, `EndedGrantAuthorizesNoNewRun`, `RefusalIsAWall`, `OnceRunIsPaidFor`: runs follow the owner's answers, an ended grant authorizes nothing new, a refusal is a wall, a run on a single-use grant is paid for |
| `audit` | 267,337 | `BreaksAreForks`, `VerifiedPrefixStays`, `ResealAdvances`: breaks are forks of a crash or a failure, what has verified stays verified, a reseal moves past the break it names |
| `vault` | 676,665 | `SessionsFollowTheKey`, `MismatchHasACause`: a session goes with its key; a vault that stops opening had writers that overlapped, failed half way or died |
| `tui` | 328,859 | `ListingIsOfTheScope`, `RetryRepeatsARefusedCall`, `RevealEnds`: rows on screen are of the active scope, a get, put, delete or rename the overlay repeats was refused, a revealed value goes away |
| `entries` | 515,398 | `RowsOpen`, `WildcardDelivers`, `OwnValuesOnly`: rows keep opening; a wildcard grant delivers what its scope lists, and is not refused unless an older row was uncovered; a read without a credential gives a caller its own values, unless the claim came loose |
| `trust` | 503,877 | `GrantsAreTheOwners`, `RunWithinGrant`, `WideningsSettle`: records are the owner's grants, a run gets no more than its grant, widenings are settled |
| `history` | 983,406 | `TrailTells`, `OfItsObject`, `RevealIsOfTheRun`: the trail tells the whole story and is about its own object, a reveal shows nothing newer than the run |
| `exec` | 353,893 | `OwnerRunIsVouched`, `SubtreeReaped`, `LapsedTokenStartsNothing`, `RunsSettle`: owner runs are vouched for or are one of two downgrades, the subtree goes with its wrapper, a lapsed token starts nothing, every run settles |
| `access` | 2,070,238 | `UnlockRecordsBelong`, `BackoffHolds`, `SessionsAreEarned`: unlock records belong to passkeys, the back-off holds, sessions work for the vault name and device number they were earned for |
| `install` | 30,053 | `VaultsKept`, `ServiceHasTheVaults`, `SetupReachesTheOwner`: no acknowledged write is lost, the service has the vaults, a finished setup leaves a service and a directory the owner can reach |

Further properties stated in the modules hold in the same instances and have mutants beside
them, but are not part of a run: the type invariants (`TypeOK`, `WatchTypeOK`, `GateTypeOK`,
`AuditTypeOK`, `VaultTypeOK`, `TuiTypeOK`, `EntriesTypeOK`), `CleanQuitLosesNothing` and
`DraftLeavesOnPurpose` (Tui), `OwnersWriteStays` (Entries), `NarrowedListApplies` (Trust),
`NoteCapHolds`, `RunsResolve` and `HistoryOnlyGrows` (History), `StoppedMeansStopped`
(ExecRun), `OneCodeOneEffect` (Access), `ImportCarriesNoTrust` (Install). To check one, add
it to the run's configuration. `TypeOK`, `VaultTypeOK`, `TuiTypeOK`, `NoteCapHolds` and
`HistoryOnlyGrows` are proved (section 4).

Bounds. *Queue*: two questions about one subject with one place to wait is the least in
which the limit, a repeat and a second question meet; three cards let a question be asked
again after an answer and again after that; every duration is one or two ticks and the clock
has enough of them for a card to lapse, a grant to lapse and a cooldown to be served.
*Gates*: two execs (the race) and two cards (the grant that authorizes and another); exec
handlers are a symmetry set. A behaviour is about the `.byn` command or about the ad hoc
request (`OneQuestion`): the gates never look at another question's cards. No caller is
attributed to an agent in this instance, so a grant is usable when it is for anyone or its
asker was unattributed too, as `grantUsableBy` has it. *Audit*: six events are a fork, a
reseal, a second fork and a second reseal. *Vault*: two connections and two vaults are the
least with an overlap and a rename; the inductive invariant of the proof was also checked
with three connections. *Trust*: one file that is edited and run, a second that shares the
store, two writers, two scopes, four policies of which one moves to the other scope and the
others widen each other; two edits or grants beyond the first are enough for a lost update
and a stale approval. *Entries*: an agent and an owner, two projects (three names, so that
one can be renamed), three environment names, two variables, rows of every scheme, three
calls: the owner's put and its claim, overlapped by the agent's, and a read or a rename.
*History*: two connections, four requests: create, annotate, delete and create again. *Exec*: every form alone, and two plain runs sharing the token store; one
crash of the daemon; two polls. *Access*: two requests in flight; sessions live two ticks
and codes one, back-off reaches its maximum, one terminal is closed and its number used again
(`MaxAgain`). *Install*: two vaults, so that a tree can be half removed and still hold a whole
vault; one or two interruptions; two writes; `Undisturbed` as said in section 2. *Tui*: two
scopes and a name to rename to, six keys, two calls in flight. `CHECK_DEADLOCK FALSE`
except in `entries`: the other models stop at their bounds, and a program with nothing to
do may.

Fairness. `ApprovalWatch`: a watch handler that can take a step other than the deadline or
the caller's departure eventually does; the Go scheduler and a ticker that is never stopped
while the handler runs justify it. Nothing is assumed of the owner, the clock or a
decider's publish: `EndIsReported` holds because of the poll. `Tui`: the ticker's message
keeps coming (WF on `Tick`), as `tea.Tick` is re-armed by every tick. `ExecRun`: the command
line and the helper take their next step (WF), as a scheduled process does; nothing is
assumed of the person who approves, and a prompt may wait for ever. `Trust`: handlers go on
(WF), an agent that runs from the file tries again, and the owner answers a card that keeps
coming back (SF on `ExecRead` and `ApprovePending`): this is an assumption about people, and
`WideningsSettle` says what the code makes of it. The other modules assume none.

Mutants. Every property of a run has a plausible bug in the code (the definitions
commented *Mutant*) under which TLC finds it violated.

## 4. Proofs

The theorems hold for any sets and limits that satisfy the modules' assumptions (durations
and limits positive, the no-agent and no-vault values distinct, workloads made of the vaults
and places there are, rows of an older byn sealed for the names they have), with the three
further hypotheses named below (a write that does not fail, orderly and undisturbed
installs, a finite number of connections). Each safety theorem rests on an inductive invariant; the argument is
why that invariant, and not the property alone, is kept by every step.

- `ApprovalQueueProofs`: type correctness; `OneCardHolds` (inductive with the type
  invariant); `HeldQuestionIsQuietHolds`, whose two halves are proved in turn (counts match
  cooldowns; a held question has no open card, which needs one card per question: the denial
  that starts the cooldown closes the only card); `PendingBoundedHolds`; `NoRevivalHolds`,
  an action property; `QueueImplementsContract`, the refinement. The last three rest on one
  lemma per method that says which cards it moves and how (`StepShape`, `MovesOne`, `Kept`).
  `AnswersAreOrdered`: every answer has a stamp of its own (`Stamped`), so "the latest
  answer" is one card; the gate's wall needs it.
- `ApprovalProofs`, the gates: `GateUsesTheQueue` (every step of the handlers is a queue
  step or leaves the queue alone), hence `GateKeepsTheQueueSafe`. `GateInv` says what a
  handler may rely on between its calls: a grant once found is a card of the exec's question
  that is approved, spent or revoked, and a decider's card exists. From it:
  `RunsAnswerTheOwnerHolds`; `EndedGrantHolds`; `RefusalIsAWallHolds`, with `WallStands`
  (the refusal an exec met keeps its stamp, so not being refused any more means a later
  stamp); `OnceRunIsPaidForHolds`, with `Paid` (payment is recorded from the moment the
  values are authorized, and a card that paid has ended). The last assumes that the write of
  a spent grant does not fail (`StoreMayFail = FALSE`): `consumeOnceGrant` drops that error,
  and with it the property is false.
- `ApprovalProofs`, the watch: `WatchUsesTheQueue`; `WatchInv` (a decider publishes only
  what has ended, a closed channel tells of an end, only a subscribed watch has a channel)
  gives `DecisionIsAnEndHolds` and `NoLostWakeupHolds`. The second is the order subscribe,
  look again, wait: at the last look the card was open, so its answer is by a decider that
  has yet to publish.
- `VaultProofs`, the audit log: `CrashNeverBreaksTheChain`. The strengthening says what the
  in-memory head is in each state of the logger: the last line's id, unless that line
  failed, was torn, or is being written. `VerifiedPrefixStaysHolds` needs that no two
  readable lines share an HMAC (`EventsNumbered`): a marker names a break by its HMAC and
  the last marker of an HMAC wins, so a shared one would let a reseal withdraw an earlier
  acknowledgement. `ResealAdvancesHolds`: the marker just written is the last of the file.
- `VaultProofs`, the lifecycle: `VaultTypeCorrect` from `TypeInv` (a handler that owns a
  store works on an open vault, without which unlocking could give a key to no store);
  `SessionsFollowTheKeyHolds`; `MismatchHasACauseHolds` from `FilesInv`: two writers in
  one directory, a writer that lost the key it wrote, and one that failed half way are excused
  (`WritersOverlap`, `LostKeyIsExcused`), so a lone writer writes a fingerprint that
  matches.
- `VaultProofs`, the entries: `RowsOpenHolds` is inductive by itself, with one argument per
  way a row is sealed, and needs of the rows an older byn left only that they were sealed
  for the name they have (`LegacyAssumption`). `WildcardHolds` needs that ids stand for one
  scope and are never handed out again (`IdsSound`) and that a capability by scope holds the
  keys of its scope and of the default env it inherits from (`KeysSound`), the copy a call
  has in hand included; that no value makes it refuse the run is then a matter of which keys
  a captured row can have. `OwnValuesHolds` says of every claim on an unattended value that
  its row stands and is the claimant's, unless a call is about to settle that very name or
  the name is loose (`ClaimsSound`), that rows belong to an env (`RowsSound`), and which
  names a call under way carries (`CallSound`). Calls may overlap in any way.
- `HistoryProofs`: `HistoryInv` is that rows have ids of their own below the sequence they
  come from, that an annotation is about the row that has its id, if any has, and that a
  request under way carries an object of which the same is true: a row that goes takes its
  id with it, so a request that resolved it can only write about nothing. `OfItsObjectHolds`
  and `TrailHolds` follow. `HistoryGrows` proves the action property `HistoryOnlyGrows` with
  it, statement by statement. `NoteCapIsHeld` adds a count (`Room`): the notes of an object
  and the requests between their count and their insert are together at most the limit and
  the number of the other connections. It needs that the connections are finitely many.
- `TrustProofs`: `TrustInv` is that every record in sight (in the store, in the temporary
  file, in a handler's copy, in the list a refresh works through) is of a policy the owner
  granted that path, and has the wildcard only if that policy does. Lost updates bring back
  older records but never others: `GrantsAreTheOwnersHolds`, and `RunWithinGrantHolds`,
  since a run compares the file with such a record.
- `ExecRunProofs`: `RunInv` says of each run where its processes can be for each place of
  the command line (`Placed`), who holds its token (`Ticketed`: a target that runs has no
  token left, a lapsed token was not redeemed), why it takes the in-process path (`Routed`),
  and what vouches for it (`Vouched`); `Reaps` follows the signals. Three properties are
  consequences: `LapsedTokenHolds`, `OwnerRunIsVouchedHolds`, `SubtreeReapedHolds`.
- `AccessProofs`: `AccessInv` ties every token in a file, in the portal or in a request to
  the session that was minted for that vault name and device number (`Mine`), the back-off in memory to
  the wrong passwords answered in a row and the file to the memory unless a write failed
  (`BackOK`), and unlock records to passkeys (`KeysOK`). From it `UnlockRecordsHold`,
  `BackoffIsKept` and `SessionsAreEarnedHolds`, the last two action properties.
- `ClientProofs`, installs: `InstallInv` says what a command may rely on at each of its
  steps (`StageSound`, `MoveSound`, `SetupSound`) and what holds between any two of them, an
  interruption included (`TreesSound`, `Kept`, `DaemonsSound`): a tree is put in place where
  there is none to lose, and the old one goes when all of it is in the new one.
  `VaultsKeptHolds`, `ServiceHolds` and `SetupHolds` are about behaviours whose steps are
  `Undisturbed`, as the run's are, and workloads that are `Orderly`: no replacement by force.
  Without the first `VaultsKept` is false (14 and 15 in the next section); the run `install`
  also covers replacement by force, which the theorems do not. `SetupHolds` adds `Told`: a
  setup that said it is done has installed the service.
- `ClientProofs`, the terminal UI: `TuiInv` says what the Model and every call in progress
  carry about scopes (`ModelSound`, `CallSound`), whose the rows shown are (`Shows`), and
  that the request in the overlay, and every repeat of it, is one that was refused. From it
  `TuiTypesHold`, `ListingHolds` and `RetryHolds`.

Only model-checked: the liveness properties (`EndIsReported`, `RevealEnds`,
`WideningsSettle`, `RunsSettle`), which are out of the prover's reach, and
`RevealIsOfTheRun`, which is about what the recursive function `Resolved` computes from a
chain of diffs: that is an induction over the chain. Every other invariant and action
property of the passing runs is stated by a theorem.

## 5. Where the code and its own words differ

Each of these is a property that a comment or a document states and TLC finds violated. They
are not runs of the project; the configurations named are kept to be run by hand (where
none is named, put the property into the module's configuration).

1. `MCApprovalQueueWall.cfg`, `WallSurvivesWithdrawal`: a withdrawn card counts as the
   latest answer to its question (approval.go:716), so a refusal followed by a forced
   question that the asker withdraws is no longer a refusal; approval.go:977 says a
   cancellation "must leave no mark on the owner's answer history".
2. `MCApprovalWatchTimeout.cfg`, `TimeoutMeansPending`: the deadline branch re-reads the
   card and returns its status with `timed_out` (approvalwatch.go:183), which may be an
   answer that has just arrived; docs/cli-reference.md:1181 says `pending`.
3. `MCExecGateOnce.cfg`, `OnceRunsOnce`: finding and spending a single-use grant are
   separate calls and the result of spending is not used (execfetch.go:496), so two
   concurrent execs both run; approval.go:507 says the grant "is spent the first time byn
   authorizes a run with it". `OnceRunIsPaidFor` is what does hold.
4. `MCAuditChainTorn.cfg`, `AppendedIsReadable`: an event written after a torn line becomes
   part of it (audit.go:316); audit.go:4 says each event is one line.
5. `MCVaultLifecycleLate.cfg`, `LockEndsSessions`: a lock between an unlock's key and its
   session leaves the session (dispatch.go:535); docs/portal.md:133 says a lock clears all
   sessions. `SessionsFollowTheKey` says that this and a moved vault are the only ways.
6. `MCVaultLifecycleReopen.cfg`, `EvictedBeforeMove`: Destroy and RenameVault require that
   no Store is open (destroy.go:22, rename.go:16); nothing keeps a request from opening one
   after the eviction (dispatch.go:657).
7. In `Tui`, `DraftIsOfThisEntry`: a draft is resumed by name alone (update.go:606),
   so a draft of one scope is offered for the entry of the same name in another;
   docs/spec.md:552 says a dirty draft of a different entry refuses.
8. `MCEntriesOpen.cfg`, `EveryRowOpens`: a grant keeps the authored key of the environment
   it was made for, and governs by name; after that environment is deleted and created
   again, an unattended put seals a row of the new one under the old one's key, and the
   vault key does not open it. store.go:1638 says an authored key comes "from the vault key,
   so the master password remains a complete answer for everything in the vault".
9. `MCTrustNarrow.cfg`, `NarrowingApplies`: under a wildcard grant a variable the file has
   dropped is still delivered; execfetch.go says a narrowing "applies immediately".
10. `MCTrustRollback.cfg`, `RollbackTouchesNoGrant`: a refused grant rolls back access that
    an earlier grant of the same file still needs (cmd_trust.go:194).
11. `MCExecRunDowngrade.cfg`, `DowngradeIsHarmless`: a status call that fails while the
    authorization after it succeeds runs the command as the owner; cmd_exec.go:222 says
    "degrading here is harmless". `PendingIsNotRefused` (cmd_exec.go:1171) and
    `OrphanIsListed` (cmd_kill.go:5) do not hold either.
12. In `Access`, `LiveIsOnDisk`: two reloads that overlap may leave the older
    settings in force (daemon.go:764).
13. `MCInstallRerun.cfg`, `RerunIsClean`: a setup interrupted after the new tree is in place
    and before the old one is gone refuses, when run again, the tree it put there;
    setup.go:138 says "re-running is clean".
14. `MCInstallBackup.cfg`, `VaultsKept`: a forced import interrupted between its two
    renames leaves the old vaults in the backup. The next one finds no directory and takes
    the branch that neither restores nor removes the backup; the one after that removes it
    before anything takes its place (adopt.go:376, whose comment promises "never none").
15. `MCInstallRace.cfg`, `VaultsKept`: while the empty system directory is out of the way
    (adopt.go:363 to 366) the owner's byn falls back to `~/.byn`; a daemon started in that
    instant writes to a tree that is about to be removed.
16. In `History`: `RevealIsWhatTheRunHeld` (execrun.go:436; a write between the opening of
    the values and the recording of the run is taken for the run's own value),
    `RemovedKeepsItsText` and `AgentsNeverReword`.
17. In `Entries`, `NothingElse`: authored.go:20 says a caller may "read the values it
    authored, and nothing else". An agent reads an owner's value where its claim
    outlived its own: its record was made after the owner's overwrite had forgotten the name;
    the save of the registry failed or the daemon stopped between the owner's put and the
    forgetting (authored.go:80); or the scope was cleared or deleted, which leaves the claims,
    and the value is then inherited. Beside it: a wildcard grant whose captured key no longer opens its
    row, because an override over a row of an older scheme was removed, refuses the whole
    run and not that value (execfetch.go:894), which is what `WildcardDelivers` excepts.
18. In `Tui`, `RetryCarriesTheValue`: Esc zeroes the value of a refused put that its repeat,
    sent by Enter a moment before, still shares (update.go:1663), so a run of zeros may be
    stored; model.go:614 has the zeroing on submit wait for the retry.
19. In `Tui`, `NotesRepeatWasRefused`: the notes view keeps one parked call, and every call
    replaces it (annotations.go:230), so the overlay a refusal opens may repeat another call
    than the one refused; annotations.go:234 opens the overlay "for the parked call".
20. In `Trust` and in `ExecGate`, `PreflightIsTheGate`: execpreflight.go:135 says the
    pre-flight "has to agree with the gate or it is worse than nothing". It calls a file
    changed that the gate forgives, because the widening names only what the caller stored
    itself; it looks for a refusal before it looks for a grant, and for a grant whoever it
    was issued to, where the gate looks for one of this caller's (approvalgate.go:218) and
    only then for a refusal.
21. In `ExecRun`, `NoPrivsepTakesThePassword`: docs/cli-reference.md:640 says `--no-privsep`
    takes the master password in every run; a run of named variables with it is let through
    by an approval.
22. In `Access`, `SessionsAreOfThisTerminal`: docs/cli-reference.md:85 says an unlock is for
    "this terminal's session only"; a terminal opened after it that is given the same device
    number finds the token file and is let in. `SessionsAreOfThisVault`: so is a request for
    a vault that was deleted and made again under its name.
23. A password change whose second write fails (store.go:514) leaves a vault that refuses to
    open, with both the new wrapped key and the old fingerprint in place and the handler's
    answer an error; docs/troubleshooting.md:361 takes such a vault for one whose key was
    replaced. `MismatchHasACause` counts it among the causes.

## 6. Not modelled, and the plan

Not modelled: cryptography beyond whether a key opens a row; rendering and the portal's
pages; argument parsing, help and printing; IPC framing; the TOML syntax and the pattern
language of `.byn` files; access control lists, sandbox profiles, descriptor passing,
locked memory and machine id; WebAuthn messages and platform key stores; file entries (rows
of another kind); two inits of one name racing before either writes; the second Logger an
entry reopened during an append would have; `Store.Prune` of the approval queue, which
nothing calls; targets that leave their process group. Attempts in parallel that all pass the
back-off check before one of them is recorded are in `Access`, but no property limits them,
as nothing in the code does.

Next:

1. `VaultsKept` for workloads with a forced import whose steps are `Undisturbed`, which the
   run covers and the theorem does not.
2. Composition of `VaultLifecycle` with `AuditChain`.
3. Pattern matching of pinned actions against a reference definition.
