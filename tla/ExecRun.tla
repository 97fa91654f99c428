------------------------------ MODULE ExecRun ------------------------------
(***************************************************************************)
(* `byn exec` from the keyboard to the process that holds the secrets, and *)
(* `byn kill` after it: the command line's routing between the isolated    *)
(* and the in-process path, the daemon's one-time tokens, the setuid       *)
(* helper that redeems one and becomes the target, the wrapper that waits  *)
(* for it, and the sweep that stops a job.                                 *)
(*                                                                         *)
(* What the gate decides for a command is the subject of ExecGate and      *)
(* Trust; here a run is one the gate lets through, asks a person about, or *)
(* wants a password for.                                                   *)
(***************************************************************************)
EXTENDS Naturals, FiniteSets

CONSTANTS Runs,       \* invocations of `byn exec`
          Workloads,  \* run -> the ways it may be typed: see FormSet
          Hosts,      \* the machines it is typed on: see HostSet
          Platform,   \* "linux" or "darwin"
          MaxPolls,   \* polls a --wait-approval budget buys
          MaxCrashes  \* times the daemon goes down

Roles == {"wrapper", "child", "grand"}
FormSet == [byn: BOOLEAN, vars: BOOLEAN, alias: BOOLEAN, noPrivsep: BOOLEAN,
            wait: BOOLEAN, prompt: BOOLEAN, gate: {"free", "ask", "always"},
            client: {"this", "older"},
            dryRun: BOOLEAN,     \* only asks what would happen
            forks: BOOLEAN,      \* the target forks
            deaf: SUBSET Roles]  \* targets of the run that ignore SIGTERM
HostSet == [privsep: BOOLEAN, provisioned: BOOLEAN, old: BOOLEAN]

ASSUME ExecRunAssumption ==
    /\ Workloads \subseteq [Runs -> SUBSET FormSet] /\ Hosts \subseteq HostSet
    /\ \A w \in Workloads, i \in Runs : \A f \in w[i] : f.alias => f.byn /\ ~f.vars
    /\ Platform \in {"linux", "darwin"}
    /\ MaxPolls \in Nat /\ MaxCrashes \in Nat

VARIABLES load, host, up, crashes,
          store,     \* run -> the daemon's token for it
          cli,       \* run -> what the command line is doing
          decision,  \* run -> the answer of the person asked about it
          proc,      \* run -> the state of its wrapper, child and grandchild
          lapsed,    \* runs whose token was not redeemed in its time (history)
          rough,     \* runs whose wrapper died without running its handler
          kill       \* the one `byn kill` under way

vars == <<load, host, up, crashes, store, cli, decision, proc, lapsed, rough, kill>>

NoForm == [byn |-> FALSE, vars |-> FALSE, alias |-> FALSE, noPrivsep |-> FALSE,
           wait |-> FALSE, prompt |-> FALSE, gate |-> "free", client |-> "this",
           dryRun |-> FALSE, forks |-> FALSE, deaf |-> {}]
Idle == [pc |-> "idle", form |-> NoForm, pw |-> FALSE, yes |-> FALSE, polls |-> 0,
         last |-> "none", code |-> "none", blind |-> {}]
NoKill == [pc |-> "idle", run |-> CHOOSE i \in Runs : TRUE, head |-> "wrapper",
           targets |-> {}, direct |-> {}]

Init ==
    /\ load \in Workloads
    /\ host \in Hosts /\ up = TRUE /\ crashes = 0
    /\ store = [i \in Runs |-> "none"]
    /\ cli = [i \in Runs |-> Idle]
    /\ decision = [i \in Runs |-> "none"]
    /\ proc = [i \in Runs |-> [r \in Roles |-> "none"]]
    /\ lapsed = {} /\ rough = {}
    /\ kill = NoKill

----------------------------------------------------------------------------
(* Processes. *)

\* The uid a process runs as; the helper is the owner's until it has dropped.
UidOf(i, r) == IF proc[i][r] \in {"dropped", "armed", "exec"} THEN "exec" ELSE "owner"
Alive(i, r) == proc[i][r] \notin {"none", "gone"}

\* SIGTERM: a process with its own disposition survives it, and the wrapper
\* that has installed its handler only notes it.
Termed(P, i, rs) ==
    [r \in Roles |->
        IF r \notin rs \/ P[r] \in {"none", "gone"} THEN P[r]
        ELSE IF P[r] \in {"exec", "target"} /\ r \in cli[i].form.deaf THEN P[r]
        ELSE IF P[r] = "waiting" THEN "signalled"
        ELSE "gone"]

\* The parent-death signal the helper asks for: it reaches the one process the
\* helper became, and only where the platform has it.
Pdeath(P, i) ==
    IF Platform = "linux" /\ P["child"] \in {"armed", "exec"}
    THEN Termed(P, i, {"child"}) ELSE P

\* The wrapper leaves, however it leaves.
WrapperGone(P, i) == Pdeath([P EXCEPT !["wrapper"] = "gone"], i)

\* A sweep that misses what the target forked.
GroupTermChildOnly(P, i) == Termed(P, i, {r \in {"child"} : UidOf(i, r) = "exec"})

\* byn-exec-helper --kill-pgrp: the service user's members of the job's group.
GroupTerm(P, i) == Termed(P, i, {r \in {"child", "grand"} : UidOf(i, r) = "exec"})

\* reapGroup then exit.
Reaped(i) == WrapperGone(GroupTerm(proc[i], i), i)

----------------------------------------------------------------------------
(* The daemon. *)

\* Neither a .byn nor named variables: the whole scope, for credentials only.
Bare(f) == ~f.byn /\ ~f.vars

\* authorizeExec, as far as it matters here: the answer to a run with or
\* without credentials.  No session stands in for them, and a run of named
\* variables (authorizeAdhoc) is somebody's decision, whatever the caller forces.
Gate(i, force, pw) ==
    LET f == cli[i].form IN
    IF pw THEN "ok"
    ELSE IF Bare(f) \/ (~f.vars /\ (force \/ f.gate = "always")) THEN "auth_required"
    ELSE IF decision[i] = "approved" \/ (~f.vars /\ f.gate = "free") THEN "ok"
    ELSE IF decision[i] = "denied" THEN "refused" ELSE "pending"

\* client.Call: what the caller of op sees.
Answer(i, op, force, pw) ==
    IF ~up THEN "unreachable"
    ELSE IF op = "authorize" /\ host.old THEN "unknown_op"
    ELSE IF \/ op = "authorize" /\ ~host.provisioned
            \/ op = "spawn" /\ ~(host.privsep /\ host.provisioned) THEN "not_provisioned"
    ELSE Gate(i, force, pw)

\* The three operations that run a command; only the last two need the helper.
ExecFetch(i, pw) == Answer(i, "fetch", cli[i].form.noPrivsep, pw)
ExecAuthorize(i, pw) == Answer(i, "authorize", FALSE, pw)
ExecSpawn(i) == Answer(i, "spawn", FALSE, FALSE)

\* Raising the question is part of answering "pending".
Raised(i, ans) == IF ans = "pending" THEN [decision EXCEPT ![i] = "pending"] ELSE decision

\* exec.authorize: mint sweeps what has expired and stores the payload.
Swept == [j \in Runs |-> IF store[j] = "expired" THEN "none" ELSE store[j]]
Mint(i) == [Swept EXCEPT ![i] = "live"]

RedeemOKExpired(i) == up /\ store[i] \in {"live", "expired"}

\* exec.redeem: the token is gone whatever the answer is.
RedeemOK(i) == up /\ store[i] = "live"
\* Thirty seconds pass.
Expire(i) ==
    /\ store[i] = "live"
    /\ store' = [store EXCEPT ![i] = "expired"]
    /\ lapsed' = lapsed \cup {i}
    /\ UNCHANGED <<load, host, up, crashes, cli, decision, proc, rough, kill>>

\* The daemon stops: tokens live in its memory only.
DaemonDown ==
    /\ up /\ crashes < MaxCrashes
    /\ up' = FALSE /\ crashes' = crashes + 1
    /\ store' = [i \in Runs |-> "none"]
    /\ lapsed' = lapsed \cup {i \in Runs : store[i] # "none"}
    /\ UNCHANGED <<load, host, cli, decision, proc, rough, kill>>

DaemonUp ==
    /\ ~up
    /\ up' = TRUE
    /\ UNCHANGED <<load, lapsed, host, crashes, store, cli, decision, proc, rough, kill>>

\* A person answers the question a run raised.
Decide(i) ==
    /\ up /\ decision[i] = "pending"
    /\ \E d \in {"approved", "denied"} : decision' = [decision EXCEPT ![i] = d]
    /\ UNCHANGED <<load, lapsed, host, up, crashes, store, cli, proc, rough, kill>>

----------------------------------------------------------------------------
(* The command line. *)

Goto(i, pc) == cli' = [cli EXCEPT ![i].pc = pc]

\* The command returns; the wrapper process is gone.
Exit(i, code, last) ==
    /\ cli' = [cli EXCEPT ![i].pc = "ended", ![i].code = code, ![i].last = last]
    /\ proc' = [proc EXCEPT ![i]["wrapper"] = "gone"]

\* runExec up to its first call.
Launch(i) ==
    /\ cli[i].pc = "idle"
    /\ \E f \in load[i] :
          cli' = [cli EXCEPT ![i] = [Idle EXCEPT !.form = f,
                     !.pc = IF f.dryRun THEN "dry" ELSE IF f.client = "older" THEN "spawn"
                            ELSE IF f.noPrivsep THEN "fetch" ELSE "status"]]
    /\ proc' = [proc EXCEPT ![i]["wrapper"] = "alive"]
    /\ UNCHANGED <<load, lapsed, host, up, crashes, store, decision, rough, kill>>

\* The form as it was before aliases were resolved first.
RouteAliasInProcess(f, on) ==
    IF ~on \/ Bare(f) \/ f.alias THEN "fetch" ELSE "authorize"

\* exec.preflight: an earlier request for the same command may have been decided,
\* and a command the gate lets through may read as one it would ask about.
PreflightSays(f) ==
    IF ~up THEN {"unreachable"}
    ELSE {"ok", "pending"} \cup {a \in {"refused"} : f.gate = "ask"}

\* --dry-run: the pre-flight's answer as an exit code, with nothing queued; a
\* command that would run short of a variable is an error.
DryRun(i) ==
    /\ cli[i].pc = "dry"
    /\ \E ans \in PreflightSays(cli[i].form), short \in BOOLEAN :
          Exit(i, IF ~cli[i].form.byn \/ ans \in {"unreachable", "refused"} THEN "error"
                  ELSE IF ans = "pending" THEN "pending"
                  ELSE IF short THEN "error" ELSE "child", ans)
    /\ UNCHANGED <<load, lapsed, host, up, crashes, store, decision, rough, kill>>

\* Where a run goes once it knows whether the daemon isolates.
Route(f, on) ==
    IF ~on \/ Bare(f) THEN "fetch"
    ELSE IF f.alias THEN "alias" ELSE "authorize"

\* The status call: a failure reads as "privsep is off".
Status(i) ==
    /\ cli[i].pc = "status"
    /\ cli' = [cli EXCEPT ![i].pc = Route(cli[i].form, up /\ host.privsep),
                          ![i].blind = IF up THEN @ ELSE {"status"}]
    /\ UNCHANGED <<load, lapsed, host, up, crashes, store, decision, proc, rough, kill>>

\* resolveAliasArgv: an alias the daemon cannot be asked about, or does not
\* resolve (a .byn it calls changed or untrusted, an alias it does not know), runs
\* in process, with a warning.
ResolveAlias(i) ==
    /\ cli[i].pc = "alias"
    /\ \E resolved \in BOOLEAN :
          /\ resolved => up
          /\ cli' = [cli EXCEPT ![i].pc = IF resolved THEN "authorize" ELSE "fetch",
                                ![i].blind = IF resolved THEN @ ELSE @ \cup {"alias"}]
    /\ UNCHANGED <<load, lapsed, host, up, crashes, store, decision, proc, rough, kill>>

\* invokeExecHelper up to cmd.Start: the token goes down a pipe to the helper,
\* which shares the wrapper's process group.
StartHelper(i) ==
    proc' = [proc EXCEPT ![i]["wrapper"] = "starting", ![i]["child"] = "helper"]

\* What runExecPrivsep does with the last answer it got: start the helper, fall
\* back, or report.
Settle(i, ans) ==
    CASE ans = "ok" ->
            /\ Goto(i, "helper")
            /\ store' = Mint(i)
            /\ StartHelper(i)
      [] ans = "unknown_op" -> Goto(i, "fetch") /\ UNCHANGED <<store, proc>>
      [] ans = "pending" -> Exit(i, "pending", ans) /\ UNCHANGED store
      [] OTHER -> Exit(i, "error", ans) /\ UNCHANGED store

\* runExecPrivsep: authorize, then wait or prompt where that is possible.
Authorize(i) ==
    /\ cli[i].pc = "authorize"
    /\ LET ans == ExecAuthorize(i, FALSE) IN
       /\ decision' = Raised(i, ans)
       /\ IF ans = "pending" /\ cli[i].form.wait
          THEN /\ cli' = [cli EXCEPT ![i].pc = "waitA", ![i].polls = MaxPolls]
               /\ UNCHANGED <<store, proc>>
          ELSE IF ans = "auth_required" /\ cli[i].form.prompt
          THEN Goto(i, "promptA") /\ UNCHANGED <<store, proc>>
          ELSE Settle(i, ans)
    /\ UNCHANGED <<load, lapsed, host, up, crashes, rough, kill>>

\* Polling with no budget.
KeepWaitingForever(i, ans) == ans = "pending"

\* waitForAuthorize, waitForApproval: whether another poll is made after ans.
KeepWaiting(i, ans) == ans = "pending" /\ cli[i].polls > 1

\* One poll.  Whatever ends the wait without success, the error reported is the
\* first one: the question is pending.
PollAuthorize(i) ==
    /\ cli[i].pc = "waitA"
    /\ LET ans == ExecAuthorize(i, FALSE) IN
       /\ decision' = Raised(i, ans)
       /\ IF KeepWaiting(i, ans)
          THEN /\ cli' = [cli EXCEPT ![i].polls = IF @ > 0 THEN @ - 1 ELSE 0]
               /\ UNCHANGED <<store, proc>>
          ELSE IF ans = "ok" THEN Settle(i, ans)
          ELSE Exit(i, "pending", ans) /\ UNCHANGED store
    /\ UNCHANGED <<load, lapsed, host, up, crashes, rough, kill>>

\* The one prompt: a password, or the person walks away.
PromptAuthorize(i) ==
    /\ cli[i].pc = "promptA"
    /\ \/ LET ans == ExecAuthorize(i, TRUE) IN
          Settle(i, ans) /\ UNCHANGED decision
       \/ Exit(i, "error", "auth_required") /\ UNCHANGED <<store, decision>>
    /\ UNCHANGED <<load, lapsed, host, up, crashes, rough, kill>>

\* syscall.Exec: the wrapper's process is now the target, as its owner, with
\* the values in its environment.
Replace(i, pw) ==
    /\ cli' = [cli EXCEPT ![i].pc = "ended", ![i].pw = pw,
                          ![i].yes = (decision[i] = "approved")]
    /\ proc' = [proc EXCEPT ![i]["wrapper"] = "target"]

\* The in-process path's first call.
Fetch(i) ==
    /\ cli[i].pc = "fetch"
    /\ LET ans == ExecFetch(i, FALSE) IN
       /\ decision' = Raised(i, ans)
       /\ IF ans = "ok" THEN Replace(i, FALSE)
          ELSE IF ans = "pending" /\ cli[i].form.wait
          THEN /\ cli' = [cli EXCEPT ![i].pc = "waitF", ![i].polls = MaxPolls]
               /\ UNCHANGED proc
          ELSE IF ans = "auth_required" /\ cli[i].form.prompt
          THEN Goto(i, "promptF") /\ UNCHANGED proc
          ELSE Exit(i, IF ans = "pending" THEN "pending" ELSE "error", ans)
    /\ UNCHANGED <<load, lapsed, host, up, crashes, store, rough, kill>>

PollFetch(i) ==
    /\ cli[i].pc = "waitF"
    /\ LET ans == ExecFetch(i, FALSE) IN
       /\ decision' = Raised(i, ans)
       /\ IF KeepWaiting(i, ans)
          THEN /\ cli' = [cli EXCEPT ![i].polls = IF @ > 0 THEN @ - 1 ELSE 0]
               /\ UNCHANGED proc
          ELSE IF ans = "ok" THEN Replace(i, FALSE)
          ELSE Exit(i, "pending", ans)
    /\ UNCHANGED <<load, lapsed, host, up, crashes, store, rough, kill>>

PromptFetch(i) ==
    /\ cli[i].pc = "promptF"
    /\ \/ LET ans == ExecFetch(i, TRUE) IN
          IF ans = "ok" THEN Replace(i, TRUE) ELSE Exit(i, "error", ans)
       \/ Exit(i, "error", "auth_required")
    /\ UNCHANGED <<load, lapsed, host, up, crashes, store, decision, rough, kill>>

\* exec.spawn, which an older command line still calls: the daemon runs the
\* helper itself, in a session of its own, and answers when the child is done.
Spawn(i) ==
    /\ cli[i].pc = "spawn"
    /\ LET ans == ExecSpawn(i) IN
       /\ decision' = Raised(i, ans)
       /\ IF ans = "ok"
          THEN /\ Goto(i, "spawned")
               /\ proc' = [proc EXCEPT ![i]["child"] = "exec"]
          ELSE Exit(i, IF ans = "pending" THEN "pending" ELSE "error", ans)
    /\ UNCHANGED <<load, lapsed, host, up, crashes, store, rough, kill>>

SpawnReturns(i) ==
    /\ cli[i].pc = "spawned"
    /\ proc[i]["child"] = "gone" \/ ~up
    /\ Alive(i, "wrapper")
    /\ Exit(i, IF up THEN "child" ELSE "error", "ok")
    /\ UNCHANGED <<load, lapsed, host, up, crashes, store, decision, rough, kill>>

----------------------------------------------------------------------------
(* The helper and the target it becomes. *)

\* redeemMain up to the drop; any failure on the way is exit 127.
HelperDrop(i) ==
    /\ proc[i]["child"] = "helper"
    /\ \E s \in {"dropped", "gone"} : proc' = [proc EXCEPT ![i]["child"] = s]
    /\ UNCHANGED <<load, lapsed, host, up, crashes, store, cli, decision, rough, kill>>

\* setPdeathsig, after the drop: a wrapper already gone is not noticed.
HelperArm(i) ==
    /\ proc[i]["child"] = "dropped"
    /\ proc' = [proc EXCEPT ![i]["child"] = "armed"]
    /\ UNCHANGED <<load, lapsed, host, up, crashes, store, cli, decision, rough, kill>>

\* redeemToken and the execve: the helper is the target now, or exits 127.
HelperRedeem(i) ==
    /\ proc[i]["child"] = "armed"
    /\ proc' = [proc EXCEPT ![i]["child"] = IF RedeemOK(i) THEN "exec" ELSE "gone"]
    /\ store' = IF up THEN [store EXCEPT ![i] = "none"] ELSE store
    /\ UNCHANGED <<load, lapsed, host, up, crashes, cli, decision, rough, kill>>

\* The target forks once; what it forks shares its group.
Fork(i) ==
    /\ proc[i]["grand"] = "none" /\ cli[i].form.forks
    /\ proc[i]["child"] = "exec" \/ proc[i]["wrapper"] = "target"
    /\ proc' = [proc EXCEPT ![i]["grand"] = IF proc[i]["child"] = "exec" THEN "exec" ELSE "target"]
    /\ UNCHANGED <<load, lapsed, host, up, crashes, store, cli, decision, rough, kill>>

\* A target exits by itself.
TargetExits(i) ==
    /\ \E r \in Roles :
          /\ proc[i][r] \in {"exec", "target"}
          /\ proc' = [proc EXCEPT ![i][r] = "gone"]
    /\ UNCHANGED <<load, lapsed, host, up, crashes, store, cli, decision, rough, kill>>

----------------------------------------------------------------------------
(* The wrapper. *)

\* signal.Notify, after the helper has started.
InstallHandler(i) ==
    /\ proc[i]["wrapper"] = "starting"
    /\ proc' = [proc EXCEPT ![i]["wrapper"] = "waiting"]
    /\ UNCHANGED <<load, lapsed, host, up, crashes, store, cli, decision, rough, kill>>

\* A wrapper that returns the child's code and sweeps nothing.
WaitReturnsNoSweep(i) ==
    /\ proc[i]["wrapper"] \in {"waiting", "signalled"}
    /\ proc[i]["child"] = "gone"
    /\ proc' = [proc EXCEPT ![i] = WrapperGone(proc[i], i)]
    /\ cli' = [cli EXCEPT ![i].pc = "ended", ![i].code = "child"]
    /\ UNCHANGED <<load, lapsed, host, up, crashes, store, decision, rough, kill>>

\* cmd.Wait returns: sweep what the child forked, pass its exit code on.
WaitReturns(i) ==
    /\ proc[i]["wrapper"] \in {"waiting", "signalled"}
    /\ proc[i]["child"] = "gone"
    /\ proc' = [proc EXCEPT ![i] = Reaped(i)]
    /\ cli' = [cli EXCEPT ![i].pc = "ended", ![i].code = "child"]
    /\ UNCHANGED <<load, lapsed, host, up, crashes, store, decision, rough, kill>>

\* The handler: pass the signal on; where that is not permitted, sweep and exit.
HandleSignal(i) ==
    /\ proc[i]["wrapper"] = "signalled"
    /\ Alive(i, "child")
    /\ IF UidOf(i, "child") = "owner"
       THEN /\ proc' = [proc EXCEPT ![i] = [Termed(@, i, {"child"}) EXCEPT !["wrapper"] = "waiting"]]
            /\ UNCHANGED cli
       ELSE /\ proc' = [proc EXCEPT ![i] = Reaped(i)]
            /\ cli' = [cli EXCEPT ![i].pc = "ended", ![i].code = "signal"]
    /\ UNCHANGED <<load, lapsed, host, up, crashes, store, decision, rough, kill>>

\* The job's own process is told to stop, from the terminal or by kill(1).
OwnerSignals(i) ==
    /\ Alive(i, "wrapper") /\ proc[i]["wrapper"] # "signalled"
    /\ LET P == Termed(proc[i], i, {"wrapper"}) IN
       IF P["wrapper"] = "gone"
       THEN /\ proc' = [proc EXCEPT ![i] = WrapperGone(P, i)]
            /\ rough' = rough \cup {i}
            /\ Goto(i, "ended")
       ELSE proc' = [proc EXCEPT ![i] = P] /\ UNCHANGED <<cli, rough>>
    /\ UNCHANGED <<load, lapsed, host, up, crashes, store, decision, kill>>

\* ... or is killed outright.
WrapperKilled(i) ==
    /\ Alive(i, "wrapper")
    /\ proc' = [proc EXCEPT ![i] = WrapperGone(@, i)]
    /\ rough' = rough \cup {i}
    /\ Goto(i, "ended")
    /\ UNCHANGED <<load, lapsed, host, up, crashes, store, decision, kill>>

----------------------------------------------------------------------------
(* byn ps and byn kill. *)

\* A `byn exec` command line, or the marker in an environment the owner can read.
NamedJobs == {<<i, "wrapper">> : i \in {j \in Runs : Alive(j, "wrapper")}}

\* classifyExecProcs: a service-user process that heads a job of its own.
OrphanHeads ==
    {x \in Runs \X {"child", "grand"} :
        /\ Alive(x[1], x[2]) /\ UidOf(x[1], x[2]) = "exec"
        /\ x[2] = "child" => ~Alive(x[1], "wrapper") \/ cli[x[1]].form.client = "older"
        /\ x[2] = "grand" => ~Alive(x[1], "child")}

\* findBynExecProcs: only macOS looks for orphans.
FindBynExecProcs == NamedJobs \cup IF Platform = "darwin" THEN OrphanHeads ELSE {}

\* descendantsOf in a snapshot: a process whose parent has exited hangs off init.
DescendantsOf(i, r) ==
    {r} \cup
    CASE r = "wrapper" ->
            IF proc[i]["wrapper"] = "target" THEN {"grand"}
            ELSE IF cli[i].form.client = "older" \/ ~Alive(i, "child") THEN {}
            ELSE {"child", "grand"}
      [] r = "child" -> {"grand"}
      [] OTHER -> {}

\* runKill: one of the jobs listed.
KillFind ==
    /\ kill.pc = "idle"
    /\ \E x \in FindBynExecProcs :
          kill' = [kill EXCEPT !.pc = "found", !.run = x[1], !.head = x[2]]
    /\ UNCHANGED <<load, lapsed, host, up, crashes, store, cli, decision, proc, rough>>

\* stopExecProc: the process table under it, a moment later.
KillSnapshot ==
    /\ kill.pc = "found"
    /\ LET ts == {r \in DescendantsOf(kill.run, kill.head) : Alive(kill.run, r)} IN
       kill' = [kill EXCEPT !.pc = "group", !.targets = ts,
                            !.direct = {r \in ts : UidOf(kill.run, r) = "owner"}]
    /\ UNCHANGED <<load, lapsed, host, up, crashes, store, cli, decision, proc, rough>>

\* isGroupLeader: the wrapper made itself one; a target it forked is not.
LeadsGroup(i) == "wrapper" \in kill.targets /\ cli[i].form.client = "this"

\* The group sweep, only through a pid that leads its group.
KillGroup ==
    /\ kill.pc = "group"
    /\ LET i == kill.run IN
       proc' = [proc EXCEPT ![i] =
                  IF LeadsGroup(i) THEN GroupTerm(@, i) ELSE @]
    /\ kill' = [kill EXCEPT !.pc = "term"]
    /\ UNCHANGED <<load, lapsed, host, up, crashes, store, cli, decision, rough>>

\* signalPIDs: the owner's own directly, the service user's through the helper.
\* The uid is the snapshot's, so a helper that has dropped since is out of reach.
Reach == {r \in kill.targets : r \in kill.direct => UidOf(kill.run, r) = "owner"}

KillTerm ==
    /\ kill.pc = "term"
    /\ LET i == kill.run
           P == Termed(proc[i], i, Reach)
           died == Alive(i, "wrapper") /\ P["wrapper"] = "gone" IN
       /\ proc' = [proc EXCEPT ![i] = IF died THEN WrapperGone(P, i) ELSE P]
       /\ rough' = IF died THEN rough \cup {i} ELSE rough
       /\ cli' = IF died THEN [cli EXCEPT ![i].pc = "ended"] ELSE cli
    /\ kill' = [kill EXCEPT !.pc = "grace"]
    /\ UNCHANGED <<load, lapsed, host, up, crashes, store, decision>>

Survivors == {r \in kill.targets : Alive(kill.run, r)}

\* The grace period is over with something alive: SIGKILL.
KillHard ==
    /\ kill.pc = "grace" /\ Survivors # {}
    /\ LET i == kill.run
           hit == Survivors \cap Reach
           P == [r \in Roles |-> IF r \in hit THEN "gone" ELSE proc[i][r]]
           died == "wrapper" \in hit IN
       /\ proc' = [proc EXCEPT ![i] = IF died THEN WrapperGone(P, i) ELSE P]
       /\ rough' = IF died THEN rough \cup {i} ELSE rough
       /\ cli' = IF died THEN [cli EXCEPT ![i].pc = "ended"] ELSE cli
    /\ kill' = [kill EXCEPT !.pc = "hard"]
    /\ UNCHANGED <<load, lapsed, host, up, crashes, store, decision>>

\* The message that was printed whatever had happened.
VerdictUnchecked == "stopped"

\* What stopExecProc says of the job.
Verdict == IF Survivors = {} THEN "stopped" ELSE "survived"

KillReport ==
    /\ kill.pc = "hard" \/ (kill.pc = "grace" /\ Survivors = {})
    /\ kill' = [kill EXCEPT !.pc = Verdict]
    /\ UNCHANGED <<load, lapsed, host, up, crashes, store, cli, decision, proc, rough>>

----------------------------------------------------------------------------
CliStep(i) ==
    \/ Launch(i) \/ DryRun(i) \/ Status(i) \/ ResolveAlias(i) \/ Authorize(i) \/ PollAuthorize(i)
    \/ Fetch(i) \/ PollFetch(i) \/ Spawn(i) \/ SpawnReturns(i)
    \/ InstallHandler(i) \/ WaitReturns(i) \/ HandleSignal(i)

HelperStep(i) == HelperDrop(i) \/ HelperArm(i) \/ HelperRedeem(i)

KillStep == KillFind \/ KillSnapshot \/ KillGroup \/ KillTerm \/ KillHard \/ KillReport

Next ==
    \/ \E i \in Runs :
          \/ CliStep(i) \/ HelperStep(i)
          \/ PromptAuthorize(i) \/ PromptFetch(i)
          \/ Fork(i) \/ TargetExits(i) \/ OwnerSignals(i) \/ WrapperKilled(i)
          \/ Expire(i) \/ Decide(i)
    \/ DaemonDown \/ DaemonUp
    \/ KillStep

\* The kernel runs a process that can run: the command line and its helper are
\* not starved.  People, targets and the daemon's supervisor owe nobody a step.
Fairness == \A i \in Runs : WF_vars(CliStep(i)) /\ WF_vars(HelperStep(i))

Spec == Init /\ [][Next]_vars /\ Fairness

----------------------------------------------------------------------------
(* Properties. *)

\* On a machine set up to isolate, under a daemon that can, no target runs as the
\* owner on the strength of its .byn: the password was given in that very call, or
\* it is a run of named variables that asked for the in-process path and that a
\* person approved.  The ways round it are a command line that could not reach the
\* daemon when it asked how to run, and an alias the daemon did not resolve.
OwnerRunIsVouched ==
    \A i \in Runs :
        proc[i]["wrapper"] = "target" /\ host.privsep /\ ~host.old =>
            LET c == cli[i] IN
            c.pw \/ c.blind # {} \/ (c.form.vars /\ c.form.noPrivsep /\ c.yes)

\* As runExec's comment has it, degrading on a failed status call is harmless:
\* the only unvouched owner run is an alias, and that one is warned about.
DowngradeIsHarmless ==
    \A i \in Runs :
        proc[i]["wrapper"] = "target" /\ host.privsep /\ ~host.old =>
            LET c == cli[i] IN c.pw \/ "alias" \in c.blind \/ (c.form.noPrivsep /\ c.yes)

\* As the command's reference has it, --no-privsep takes the master password in
\* every run.
NoPrivsepTakesThePassword ==
    \A i \in Runs :
        proc[i]["wrapper"] = "target" /\ cli[i].form.noPrivsep => cli[i].pw

\* A wrapper that left by its own code has left nothing of its job behind that
\* listens to SIGTERM: its lifetime bounds the subtree, what the target forked
\* included.  What survives ignores the signal or comes from a target that does.
SubtreeReaped ==
    \A i \in Runs :
        /\ proc[i]["wrapper"] = "gone" /\ i \notin rough
        /\ proc[i]["child"] # "none" /\ cli[i].form.client = "this"
        => \A r \in {"child", "grand"} : Alive(i, r) => {r, "child"} \cap cli[i].form.deaf # {}

\* An authorization ends with its token: a run whose token expired, or whose
\* daemon went down, before the helper redeemed it starts no target, and a target
\* that runs has left no token behind to redeem again.
LapsedTokenStartsNothing ==
    \A i \in Runs :
        proc[i]["child"] = "exec" => i \notin lapsed /\ store[i] = "none"

\* `byn kill` says "stopped" only of a job whose processes, as it found them,
\* are all gone.
StoppedMeansStopped ==
    kill.pc = "stopped" => \A r \in kill.targets : ~Alive(kill.run, r)

\* Exit status 75 is never the report of a refusal.
PendingIsNotRefused ==
    \A i \in Runs : cli[i].code = "pending" => cli[i].last # "refused"

\* A service-user process whose wrapper is gone is one `byn ps` lists.
OrphanIsListed ==
    \A i \in Runs, r \in {"child", "grand"} :
        /\ Alive(i, r) /\ UidOf(i, r) = "exec" /\ ~Alive(i, "wrapper")
        /\ r = "grand" => ~Alive(i, "child")
        => <<i, r>> \in FindBynExecProcs

\* A run that was started is over, or its target is running, or it is a person's
\* turn to type: nobody's silence keeps a waiting run for ever.
RunsSettle ==
    \A i \in Runs :
        cli[i].pc # "idle" ~>
            \/ cli[i].pc \in {"ended", "promptA", "promptF"}
            \/ proc[i]["child"] = "exec"
============================================================================
