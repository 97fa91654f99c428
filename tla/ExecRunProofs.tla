--------------------------- MODULE ExecRunProofs ---------------------------
(***************************************************************************)
(* Theorems about ExecRun, for any number of runs, any way of typing them, *)
(* any machine, either platform, any waiting budget and any number of      *)
(* crashes: a token that lapsed starts nothing and a token is spent once,  *)
(* a target that runs as the owner was vouched for, and a wrapper that     *)
(* left by its own code left nothing behind that listens.                  *)
(*                                                                         *)
(* The three rest on one inductive invariant, Stands: where the command    *)
(* line of a run is determines which of its processes there can be, and    *)
(* whether it can have a token.  Every action but a crash of the daemon    *)
(* moves one run only, so each lemma looks at one run.                     *)
(***************************************************************************)
EXTENDS ExecRun, TLAPS

\* The command line before its run has been let through.
Early == {"idle", "dry", "status", "alias", "authorize", "waitA", "promptA",
          "fetch", "waitF", "promptF", "spawn"}
Pcs == Early \cup {"helper", "spawned", "ended"}
Lasts == {"none", "unreachable", "unknown_op", "not_provisioned", "ok", "auth_required",
          "refused", "pending"}
CliSet == [pc: Pcs, form: FormSet, pw: BOOLEAN, yes: BOOLEAN, polls: Nat, last: Lasts,
           code: {"none", "error", "child", "pending", "signal"}, blind: SUBSET {"status", "alias"}]

WrapperStates == {"none", "alive", "starting", "waiting", "signalled", "target", "gone"}
ChildStates == {"none", "helper", "dropped", "armed", "exec", "gone"}
GrandStates == {"none", "exec", "target", "gone"}
ProcSet == {P \in [Roles -> WrapperStates \cup ChildStates] :
               /\ P["wrapper"] \in WrapperStates
               /\ P["child"] \in ChildStates /\ P["grand"] \in GrandStates}

ExecTypeOK ==
    /\ load \in Workloads /\ host \in HostSet /\ up \in BOOLEAN
    /\ store \in [Runs -> {"none", "live", "expired"}]
    /\ cli \in [Runs -> CliSet]
    /\ decision \in [Runs -> {"none", "pending", "approved", "denied"}]
    /\ proc \in [Runs -> ProcSet]
    /\ lapsed \subseteq Runs

\* Which processes a run has at each place of its command line.
Placed(c, P) ==
    /\ c.pc = "idle" => P["wrapper"] = "none"
    /\ c.pc \in Early \ {"idle"} => P["wrapper"] = "alive"
    /\ c.pc \in Early => P["child"] = "none" /\ P["grand"] = "none"
    /\ c.pc = "spawn" => c.form.client = "older"
    /\ c.pc = "helper" =>
          /\ P["wrapper"] \in {"starting", "waiting", "signalled"}
          /\ P["child"] # "none"
    /\ c.pc = "spawned" => P["wrapper"] = "alive" /\ c.form.client = "older"
    /\ c.pc = "ended" => P["wrapper"] \in {"gone", "target"}
    /\ P["wrapper"] = "target" => P["child"] = "none"
    /\ P["grand"] = "target" => P["child"] = "none"

\* The token of a run: none before it is let through, none once it is spent.
Ticketed(c, P, tok, late) ==
    /\ c.pc \in Early => tok = "none" /\ ~late
    /\ tok = "live" => ~late
    /\ P["child"] = "exec" => tok = "none" /\ ~late

\* On a machine that isolates, the in-process path is for runs that asked for
\* it, runs of the whole scope, and runs that could not ask the daemon.
Routed(c, h) ==
    c.pc \in {"fetch", "waitF", "promptF"} /\ h.privsep /\ ~h.old =>
        c.form.noPrivsep \/ Bare(c.form) \/ c.blind # {}

Vouched(c, P, h) ==
    P["wrapper"] = "target" /\ h.privsep /\ ~h.old =>
        c.pw \/ c.blind # {} \/ (c.form.vars /\ c.form.noPrivsep /\ c.yes)

\* What a wrapper that left by its own code leaves behind.
Reaps(c, P, left) ==
    /\ P["wrapper"] = "gone" /\ ~left
    /\ P["child"] # "none" /\ c.form.client = "this"
    => \A r \in {"child", "grand"} :
          P[r] \notin {"none", "gone"} => {r, "child"} \cap c.form.deaf # {}

Stands(i) ==
    /\ Placed(cli[i], proc[i])
    /\ Ticketed(cli[i], proc[i], store[i], i \in lapsed)
    /\ Routed(cli[i], host)
    /\ Vouched(cli[i], proc[i], host)
    /\ Reaps(cli[i], proc[i], i \in rough)

RunInv == ExecTypeOK /\ \A i \in Runs : Stands(i)

----------------------------------------------------------------------------
(* One run at a time. *)

\* A step that leaves the other runs alone; a token of theirs may be swept.
Others(i) ==
    /\ host' = host
    /\ \A j \in Runs \ {i} :
          /\ cli'[j] = cli[j] /\ proc'[j] = proc[j]
          /\ store'[j] \in {store[j], "none"}
          /\ j \in lapsed' <=> j \in lapsed
          /\ j \in rough' <=> j \in rough

LEMMA OneRun ==
    ASSUME RunInv, NEW i, Others(i), ExecTypeOK', i \in Runs => Stands(i)'
    PROVE  RunInv'
<1> SUFFICES ASSUME NEW j \in Runs, j # i PROVE Stands(j)'
  BY DEF RunInv
<1>1. /\ cli'[j] = cli[j] /\ proc'[j] = proc[j] /\ host' = host
      /\ store'[j] \in {store[j], "none"}
      /\ j \in lapsed' <=> j \in lapsed
      /\ j \in rough' <=> j \in rough
  BY DEF Others
<1>2. Stands(j)
  BY DEF RunInv
<1>3. Placed(cli[j], proc[j])' /\ Routed(cli[j], host)' /\ Vouched(cli[j], proc[j], host)'
  BY <1>1, <1>2 DEF Stands, Placed, Routed, Vouched
<1>4. Ticketed(cli[j], proc[j], store[j], j \in lapsed)'
  BY <1>1, <1>2 DEF Stands, Ticketed
<1>5. Reaps(cli[j], proc[j], j \in rough)'
  BY <1>1, <1>2 DEF Stands, Reaps
<1> QED
  BY <1>3, <1>4, <1>5 DEF Stands

\* An answer of the daemon is one of the answers.
LEMMA AnswersType ==
    ASSUME NEW i, NEW op, NEW force, NEW pw
    PROVE  Answer(i, op, force, pw) \in Lasts
BY DEF Answer, Gate, Lasts

\* A step of run i gives it the record c and the processes P.
Moves(i, c, P) ==
    /\ cli' = [cli EXCEPT ![i] = c] /\ proc' = [proc EXCEPT ![i] = P]
    /\ load' = load /\ host' = host /\ up' = up
    /\ decision' \in [Runs -> {"none", "pending", "approved", "denied"}]

\* ... and leaves its token, or all of them, alone.
Quiet == store' = store /\ lapsed' = lapsed /\ rough' = rough

\* The invariant for a record and processes.
Fine(c, P, tok, late, left) ==
    /\ Placed(c, P) /\ Ticketed(c, P, tok, late) /\ Routed(c, host)
    /\ Vouched(c, P, host) /\ Reaps(c, P, left)

LEMMA Moved ==
    ASSUME RunInv, NEW i \in Runs, NEW c \in CliSet, NEW P \in ProcSet, Moves(i, c, P),
           store' \in [Runs -> {"none", "live", "expired"}],
           \A j \in Runs \ {i} : store'[j] \in {store[j], "none"},
           lapsed' = lapsed, rough' \in {rough, rough \cup {i}},
           Fine(c, P, store'[i], i \in lapsed, i \in rough')
    PROVE  RunInv'
<1>1. ExecTypeOK'
  BY DEF RunInv, ExecTypeOK, Moves
<1>2. Others(i)
  BY DEF RunInv, ExecTypeOK, Moves, Others
<1>3. cli'[i] = c /\ proc'[i] = P /\ host' = host /\ lapsed' = lapsed
  BY DEF RunInv, ExecTypeOK, Moves
<1>4. Stands(i)'
  BY <1>3 DEF Stands, Fine, Routed, Vouched
<1> QED
  BY <1>1, <1>2, <1>4, OneRun

LEMMA MovedQuietly ==
    ASSUME RunInv, NEW i \in Runs, NEW c \in CliSet, NEW P \in ProcSet, Moves(i, c, P), Quiet,
           Fine(c, P, store[i], i \in lapsed, i \in rough)
    PROVE  RunInv'
<1>1. store' \in [Runs -> {"none", "live", "expired"}] /\ store'[i] = store[i]
  BY DEF RunInv, ExecTypeOK, Quiet
<1>2. \A j \in Runs \ {i} : store'[j] \in {store[j], "none"}
  BY DEF Quiet
<1>3. rough' \in {rough, rough \cup {i}} /\ rough' = rough /\ lapsed' = lapsed
  BY DEF Quiet
<1> QED
  BY <1>1, <1>2, <1>3, Moved

\* The facts about a run before a step of it.
LEMMA Before ==
    ASSUME RunInv, NEW i \in Runs
    PROVE  /\ cli[i] \in CliSet /\ proc[i] \in ProcSet
           /\ store[i] \in {"none", "live", "expired"}
           /\ Placed(cli[i], proc[i])
           /\ Ticketed(cli[i], proc[i], store[i], i \in lapsed)
           /\ Routed(cli[i], host)
           /\ Vouched(cli[i], proc[i], host)
           /\ Reaps(cli[i], proc[i], i \in rough)
BY DEF RunInv, ExecTypeOK, Stands

\* A run whose processes change under an unchanged command line.
LEMMA ProcMoves ==
    ASSUME RunInv, NEW i \in Runs, NEW P,
           proc' = [proc EXCEPT ![i] = P],
           cli' = cli /\ load' = load /\ host' = host /\ up' = up /\ decision' = decision
    PROVE  Moves(i, cli[i], P)
BY DEF RunInv, ExecTypeOK, Moves

----------------------------------------------------------------------------
(* The command line. *)

LEMMA LaunchStep ==
    ASSUME RunInv, NEW i \in Runs, Launch(i)
    PROVE  RunInv'
<1>1. PICK f \in load[i] :
        cli' = [cli EXCEPT ![i] = [Idle EXCEPT !.form = f,
                   !.pc = IF f.dryRun THEN "dry" ELSE IF f.client = "older" THEN "spawn"
                          ELSE IF f.noPrivsep THEN "fetch" ELSE "status"]]
  BY DEF Launch
<1>2. f \in FormSet
  BY ExecRunAssumption DEF RunInv, ExecTypeOK
<1> DEFINE pc == IF f.dryRun THEN "dry" ELSE IF f.client = "older" THEN "spawn"
                 ELSE IF f.noPrivsep THEN "fetch" ELSE "status"
           c == [Idle EXCEPT !.form = f, !.pc = pc]
           P == [proc[i] EXCEPT !["wrapper"] = "alive"]
<1>3. pc \in Early \ {"idle"} /\ (pc = "spawn" => f.client = "older")
      /\ (pc \in {"fetch", "waitF", "promptF"} => f.noPrivsep)
  BY DEF Early
<1>4. NoForm \in FormSet
  BY DEF NoForm, FormSet, Roles
<1>5. c \in CliSet /\ c.pc = pc /\ c.form = f
  BY <1>2, <1>3, <1>4 DEF Idle, CliSet, Pcs, Lasts
<1>6. /\ proc[i] \in ProcSet
      /\ P \in ProcSet /\ P["wrapper"] = "alive" /\ P["child"] = "none" /\ P["grand"] = "none"
  BY Before DEF Launch, Placed, ProcSet, Roles, WrapperStates, Early
<1>7. Moves(i, c, P) /\ Quiet
  BY <1>1 DEF Launch, Moves, Quiet, RunInv, ExecTypeOK
<1>8. store[i] = "none" /\ i \notin lapsed
  BY Before DEF Launch, Ticketed, Early
<1> HIDE DEF pc, c, P
<1>9. Fine(c, P, store[i], i \in lapsed, i \in rough)
  BY <1>3, <1>5, <1>6, <1>8 DEF Fine, Placed, Ticketed, Routed, Vouched, Reaps, Early
<1> QED
  BY <1>5, <1>6, <1>7, <1>9, MovedQuietly

\* What every action on a run leaves alone.
Rest == load' = load /\ host' = host /\ up' = up
        /\ decision' \in [Runs -> {"none", "pending", "approved", "denied"}]

\* The question a run raises is a question.
LEMMA RaisedType ==
    ASSUME RunInv, NEW i, NEW ans
    PROVE  /\ Raised(i, ans) \in [Runs -> {"none", "pending", "approved", "denied"}]
           /\ decision \in [Runs -> {"none", "pending", "approved", "denied"}]
BY DEF RunInv, ExecTypeOK, Raised

\* A command line that is not yet let through, or that the daemon ran for.
Starting == Early \ {"idle"}

\* It may go on to another such place.
LEMMA GoesOn ==
    ASSUME RunInv, NEW i \in Runs, cli[i].pc \in Starting,
           NEW c \in CliSet, cli' = [cli EXCEPT ![i] = c], proc' = proc, Rest, Quiet,
           c.pc \in Starting \ {"spawn"}, c.form = cli[i].form, Routed(c, host)
    PROVE  RunInv'
<1>1. Moves(i, c, proc[i])
  BY DEF Moves, Rest, RunInv, ExecTypeOK
<1>2. Fine(c, proc[i], store[i], i \in lapsed, i \in rough)
  BY Before DEF Fine, Placed, Ticketed, Vouched, Reaps, Starting, Early
<1> QED
  BY <1>1, <1>2, Before, MovedQuietly

\* It may end.
LEMMA ExitStep ==
    ASSUME RunInv, NEW i \in Runs, cli[i].pc \in Starting \cup {"spawned"},
           NEW code \in {"none", "error", "child", "pending", "signal"}, NEW last \in Lasts,
           Exit(i, code, last), Rest, Quiet
    PROVE  RunInv'
<1> DEFINE c == [cli[i] EXCEPT !.pc = "ended", !.code = code, !.last = last]
           P == [proc[i] EXCEPT !["wrapper"] = "gone"]
<1>1. c \in CliSet
  BY Before DEF CliSet, Pcs
<1>2. c.pc = "ended" /\ c.form = cli[i].form
  BY Before DEF CliSet
<1>3. /\ P \in ProcSet /\ P["wrapper"] = "gone"
      /\ P["child"] = proc[i]["child"] /\ P["grand"] = proc[i]["grand"]
  BY Before DEF ProcSet, Roles, WrapperStates
<1>4. Moves(i, c, P)
  BY DEF Exit, Moves, Rest, RunInv, ExecTypeOK
<1> HIDE DEF c, P
<1>5. Fine(c, P, store[i], i \in lapsed, i \in rough)
  BY <1>2, <1>3, Before DEF Fine, Placed, Ticketed, Routed, Vouched, Reaps, Starting, Early
<1> QED
  BY <1>1, <1>3, <1>4, <1>5, MovedQuietly

LEMMA DryRunStep ==
    ASSUME RunInv, NEW i \in Runs, DryRun(i)
    PROVE  RunInv'
<1>1. PICK ans \in PreflightSays(cli[i].form), short \in BOOLEAN :
        Exit(i, IF ~cli[i].form.byn \/ ans \in {"unreachable", "refused"} THEN "error"
                ELSE IF ans = "pending" THEN "pending"
                ELSE IF short THEN "error" ELSE "child", ans)
  BY DEF DryRun
<1> DEFINE code == IF ~cli[i].form.byn \/ ans \in {"unreachable", "refused"} THEN "error"
                   ELSE IF ans = "pending" THEN "pending"
                   ELSE IF short THEN "error" ELSE "child"
<1>2. ans \in Lasts
  BY DEF PreflightSays, Lasts
<1>3. code \in {"none", "error", "child", "pending", "signal"}
  OBVIOUS
<1>4. Exit(i, code, ans) /\ Quiet /\ Rest /\ cli[i].pc \in Starting
  BY <1>1, RaisedType DEF DryRun, Quiet, Rest, Starting, Early
<1> HIDE DEF code
<1> QED
  BY <1>2, <1>3, <1>4, ExitStep

LEMMA StatusStep ==
    ASSUME RunInv, NEW i \in Runs, Status(i)
    PROVE  RunInv'
<1> DEFINE pc == Route(cli[i].form, up /\ host.privsep)
           blind == IF up THEN cli[i].blind ELSE {"status"}
           c == [cli[i] EXCEPT !.pc = pc, !.blind = blind]
<1>1. pc \in {"fetch", "alias", "authorize"}
  BY DEF Route
<1>2. pc = "fetch" /\ host.privsep => ~up \/ Bare(cli[i].form)
  BY DEF Route
<1>3. blind \in SUBSET {"status", "alias"} /\ (~up => blind # {})
  BY Before DEF CliSet
<1> HIDE DEF pc, blind
<1>4. pc \in Pcs /\ pc \in Starting \ {"spawn"}
  BY <1>1 DEF Pcs, Early, Starting
<1>5. c \in CliSet
  BY <1>3, <1>4, Before DEF CliSet
<1>6. c.pc = pc /\ c.form = cli[i].form /\ c.blind = blind
  BY Before DEF CliSet
<1>7. cli' = [cli EXCEPT ![i] = c] /\ proc' = proc /\ Rest /\ Quiet /\ cli[i].pc \in Starting
  <2>1. cli' = [cli EXCEPT ![i] = c]
    BY Before DEF Status, pc, blind, CliSet, RunInv, ExecTypeOK
  <2> QED
    BY <2>1, RaisedType DEF Status, Rest, Quiet, Starting, Early
<1> HIDE DEF c
<1>8. Routed(c, host)
  BY <1>1, <1>2, <1>3, <1>6 DEF Routed
<1> QED
  BY <1>4, <1>5, <1>6, <1>7, <1>8, GoesOn

LEMMA ResolveAliasStep ==
    ASSUME RunInv, NEW i \in Runs, ResolveAlias(i)
    PROVE  RunInv'
<1>0. PICK resolved \in BOOLEAN :
        cli' = [cli EXCEPT ![i].pc = IF resolved THEN "authorize" ELSE "fetch",
                           ![i].blind = IF resolved THEN @ ELSE @ \cup {"alias"}]
  BY DEF ResolveAlias
<1> DEFINE pc == IF resolved THEN "authorize" ELSE "fetch"
           blind == IF resolved THEN cli[i].blind ELSE cli[i].blind \cup {"alias"}
           c == [cli[i] EXCEPT !.pc = pc, !.blind = blind]
<1>1. pc \in Pcs /\ pc \in Starting \ {"spawn"} /\ pc \notin {"waitF", "promptF"}
      /\ (pc = "fetch" => blind # {})
  BY DEF Pcs, Starting, Early
<1>2. blind \in SUBSET {"status", "alias"}
  BY Before DEF CliSet
<1> HIDE DEF pc, blind
<1>3. c \in CliSet
  BY <1>1, <1>2, Before DEF CliSet
<1>4. c.pc = pc /\ c.form = cli[i].form /\ c.blind = blind
  BY Before DEF CliSet
<1>5. cli' = [cli EXCEPT ![i] = c] /\ proc' = proc /\ Rest /\ Quiet /\ cli[i].pc \in Starting
  <2>1. cli' = [cli EXCEPT ![i] = c]
    BY <1>0, Before DEF pc, blind, CliSet, RunInv, ExecTypeOK
  <2> QED
    BY <2>1, RaisedType DEF ResolveAlias, Rest, Quiet, Starting, Early
<1> HIDE DEF c
<1>6. Routed(c, host)
  BY <1>1, <1>4 DEF Routed
<1> QED
  BY <1>1, <1>3, <1>4, <1>5, <1>6, GoesOn

\* A command line that only moves on, its record otherwise unchanged.
LEMMA GotoStep ==
    ASSUME RunInv, NEW i \in Runs, cli[i].pc \in Starting,
           NEW pc \in Starting \ {"spawn"}, Goto(i, pc), proc' = proc, Rest, Quiet,
           pc \in {"fetch", "waitF", "promptF"} =>
              cli[i].pc \in {"fetch", "waitF", "promptF"} \/ host.old
    PROVE  RunInv'
<1> DEFINE c == [cli[i] EXCEPT !.pc = pc]
<1>1. pc \in Pcs
  BY DEF Pcs, Starting
<1>2. c \in CliSet /\ c.pc = pc /\ c.form = cli[i].form /\ c.blind = cli[i].blind
  BY <1>1, Before DEF CliSet
<1>3. cli' = [cli EXCEPT ![i] = c]
  BY DEF Goto
<1> HIDE DEF c
<1>4. Routed(c, host)
  BY <1>2, Before DEF Routed
<1> QED
  BY <1>2, <1>3, <1>4, GoesOn

\* A poll, or the first of them.
Polling(i, pc, polls) == cli' = [cli EXCEPT ![i] = [cli[i] EXCEPT !.pc = pc, !.polls = polls]]

LEMMA PollsStep ==
    ASSUME RunInv, NEW i \in Runs, cli[i].pc \in Starting,
           NEW pc \in Starting \ {"spawn"}, NEW polls \in Nat,
           Polling(i, pc, polls), proc' = proc, Rest, Quiet,
           pc \in {"fetch", "waitF", "promptF"} => cli[i].pc \in {"fetch", "waitF", "promptF"}
    PROVE  RunInv'
<1> DEFINE c == [cli[i] EXCEPT !.pc = pc, !.polls = polls]
<1>1. pc \in Pcs
  BY DEF Pcs, Starting
<1>2. c \in CliSet /\ c.pc = pc /\ c.form = cli[i].form /\ c.blind = cli[i].blind
  BY <1>1, Before DEF CliSet
<1>3. cli' = [cli EXCEPT ![i] = c]
  BY DEF Polling
<1> HIDE DEF c
<1>4. Routed(c, host)
  BY <1>2, Before DEF Routed
<1> QED
  BY <1>2, <1>3, <1>4, GoesOn

\* A run that is let through on the isolated path gets its token and its helper.
LEMMA HelperStarts ==
    ASSUME RunInv, NEW i \in Runs, cli[i].pc \in {"authorize", "waitA", "promptA"},
           Goto(i, "helper"), store' = Mint(i), StartHelper(i), Rest,
           lapsed' = lapsed, rough' = rough
    PROVE  RunInv'
<1> DEFINE c == [cli[i] EXCEPT !.pc = "helper"]
           P == [proc[i] EXCEPT !["wrapper"] = "starting", !["child"] = "helper"]
<1>1. c \in CliSet /\ c.pc = "helper" /\ c.form = cli[i].form
  BY Before DEF CliSet, Pcs
<1>2. cli[i].pc \in Early /\ proc[i]["grand"] = "none" /\ i \notin lapsed
  BY Before DEF Early, Placed, Ticketed
<1>3. /\ P \in ProcSet /\ P["wrapper"] = "starting" /\ P["child"] = "helper"
      /\ P["grand"] = "none"
  BY <1>2, Before DEF ProcSet, Roles, WrapperStates, ChildStates
<1>4. Moves(i, c, P)
  BY DEF Goto, StartHelper, Moves, Rest, RunInv, ExecTypeOK
<1>5. /\ store' \in [Runs -> {"none", "live", "expired"}] /\ store'[i] = "live"
      /\ \A j \in Runs \ {i} : store'[j] \in {store[j], "none"}
  BY DEF Mint, Swept, RunInv, ExecTypeOK
<1> HIDE DEF c, P
<1>6. Fine(c, P, store'[i], i \in lapsed, i \in rough')
  BY <1>1, <1>2, <1>3, <1>5 DEF Fine, Placed, Ticketed, Routed, Vouched, Reaps, Early
<1> QED
  BY <1>1, <1>3, <1>4, <1>5, <1>6, Moved

LEMMA SettleStep ==
    ASSUME RunInv, NEW i \in Runs, cli[i].pc \in {"authorize", "waitA", "promptA"},
           NEW ans \in Lasts, Settle(i, ans), Rest, lapsed' = lapsed, rough' = rough,
           ans = "unknown_op" => host.old
    PROVE  RunInv'
<1>0. cli[i].pc \in Starting
  BY DEF Starting, Early
<1>1. CASE ans = "ok"
  BY <1>1, HelperStarts DEF Settle
<1>2. CASE ans = "unknown_op"
  <2>1. Goto(i, "fetch") /\ proc' = proc /\ Quiet /\ "fetch" \in Starting \ {"spawn"}
    BY <1>2 DEF Settle, Quiet, Starting, Early
  <2> QED
    BY <1>0, <1>2, <2>1, GotoStep
<1>3. CASE ans \notin {"ok", "unknown_op"}
  <2>1. PICK code \in {"error", "pending"} : Exit(i, code, ans) /\ store' = store
    BY <1>3 DEF Settle
  <2> QED
    BY <1>0, <2>1, ExitStep DEF Quiet
<1> QED
  BY <1>1, <1>2, <1>3

\* Only a daemon too old to know it does not know the operation.
LEMMA UnknownToOld ==
    ASSUME NEW i, NEW pw, ExecAuthorize(i, pw) = "unknown_op"
    PROVE  host.old
BY DEF ExecAuthorize, Answer, Gate

LEMMA AuthorizeStep ==
    ASSUME RunInv, NEW i \in Runs, Authorize(i)
    PROVE  RunInv'
<1> DEFINE ans == ExecAuthorize(i, FALSE)
<1>1. ans \in Lasts /\ (ans = "unknown_op" => host.old)
  BY AnswersType, UnknownToOld DEF ExecAuthorize
<1>2. cli[i].pc = "authorize" /\ cli[i].pc \in Starting /\ Rest /\ lapsed' = lapsed /\ rough' = rough
  BY RaisedType DEF Authorize, Rest, Starting, Early
<1>3. \/ /\ cli' = [cli EXCEPT ![i].pc = "waitA", ![i].polls = MaxPolls]
         /\ store' = store /\ proc' = proc
      \/ Goto(i, "promptA") /\ store' = store /\ proc' = proc
      \/ Settle(i, ans)
  BY DEF Authorize
<1> HIDE DEF ans
<1>4. CASE cli' = [cli EXCEPT ![i].pc = "waitA", ![i].polls = MaxPolls] /\ store' = store /\ proc' = proc
  <2>1. Polling(i, "waitA", MaxPolls)
    BY <1>4 DEF Polling, RunInv, ExecTypeOK
  <2>2. "waitA" \in Starting \ {"spawn"} /\ MaxPolls \in Nat /\ Quiet
    BY <1>2, <1>4, ExecRunAssumption DEF Starting, Early, Quiet
  <2> QED
    BY <1>2, <1>4, <2>1, <2>2, PollsStep
<1>5. CASE Goto(i, "promptA") /\ store' = store /\ proc' = proc
  <2>1. "promptA" \in Starting \ {"spawn"} /\ Quiet
    BY <1>2, <1>5 DEF Starting, Early, Quiet
  <2> QED
    BY <1>2, <1>5, <2>1, GotoStep
<1>6. CASE Settle(i, ans)
  BY <1>1, <1>2, <1>6, SettleStep
<1> QED
  BY <1>3, <1>4, <1>5, <1>6

LEMMA PollAuthorizeStep ==
    ASSUME RunInv, NEW i \in Runs, PollAuthorize(i)
    PROVE  RunInv'
<1> DEFINE ans == ExecAuthorize(i, FALSE)
           n == IF cli[i].polls > 0 THEN cli[i].polls - 1 ELSE 0
<1>1. ans \in Lasts /\ (ans = "unknown_op" => host.old)
  BY AnswersType, UnknownToOld DEF ExecAuthorize
<1>2. cli[i].pc = "waitA" /\ cli[i].pc \in Starting /\ Rest /\ lapsed' = lapsed /\ rough' = rough
  BY RaisedType DEF PollAuthorize, Rest, Starting, Early
<1>3. \/ /\ cli' = [cli EXCEPT ![i].polls = n]
         /\ store' = store /\ proc' = proc
      \/ Settle(i, ans)
      \/ Exit(i, "pending", ans) /\ store' = store
  BY DEF PollAuthorize
<1>4. CASE cli' = [cli EXCEPT ![i].polls = n] /\ store' = store /\ proc' = proc
  <2>1. cli[i] \in CliSet /\ n \in Nat
    BY Before DEF CliSet
  <2> HIDE DEF n
  <2>2. [cli[i] EXCEPT !.polls = n] = [cli[i] EXCEPT !.pc = "waitA", !.polls = n]
    BY <1>2, <2>1 DEF CliSet
  <2>3. Polling(i, "waitA", n)
    BY <1>4, <2>2 DEF Polling, RunInv, ExecTypeOK
  <2>4. "waitA" \in Starting \ {"spawn"} /\ Quiet
    BY <1>2, <1>4 DEF Starting, Early, Quiet
  <2> QED
    BY <1>2, <1>4, <2>1, <2>3, <2>4, PollsStep
<1> HIDE DEF ans
<1>5. CASE Settle(i, ans)
  BY <1>1, <1>2, <1>5, SettleStep
<1>6. CASE Exit(i, "pending", ans) /\ store' = store
  BY <1>1, <1>2, <1>6, ExitStep DEF Quiet
<1> QED
  BY <1>3, <1>4, <1>5, <1>6

LEMMA PromptAuthorizeStep ==
    ASSUME RunInv, NEW i \in Runs, PromptAuthorize(i)
    PROVE  RunInv'
<1> DEFINE ans == ExecAuthorize(i, TRUE)
<1>1. ans \in Lasts /\ (ans = "unknown_op" => host.old) /\ "auth_required" \in Lasts
  BY AnswersType, UnknownToOld DEF ExecAuthorize, Lasts
<1>2. cli[i].pc = "promptA" /\ cli[i].pc \in Starting /\ Rest /\ lapsed' = lapsed /\ rough' = rough
  BY RaisedType DEF PromptAuthorize, Rest, Starting, Early
<1>3. Settle(i, ans) \/ (Exit(i, "error", "auth_required") /\ store' = store)
  BY DEF PromptAuthorize
<1> HIDE DEF ans
<1>4. CASE Settle(i, ans)
  BY <1>1, <1>2, <1>4, SettleStep
<1>5. CASE Exit(i, "error", "auth_required") /\ store' = store
  BY <1>1, <1>2, <1>5, ExitStep DEF Quiet
<1> QED
  BY <1>3, <1>4, <1>5

\* Without a password the gate lets through no run of the whole scope, and of
\* those that ask for the in-process path only an approved one of named variables.
LEMMA GateOpens ==
    ASSUME NEW i, NEW force \in BOOLEAN, Gate(i, force, FALSE) = "ok"
    PROVE  /\ ~Bare(cli[i].form)
           /\ force => cli[i].form.vars /\ decision[i] = "approved"
<1>1. CASE Bare(cli[i].form)
  BY <1>1 DEF Gate
<1>2. CASE ~Bare(cli[i].form) /\ force /\ ~cli[i].form.vars
  BY <1>2 DEF Gate
<1>3. CASE ~Bare(cli[i].form) /\ cli[i].form.vars /\ decision[i] # "approved"
  <2>1. Gate(i, force, FALSE) \in {"refused", "pending"}
    BY <1>3 DEF Gate
  <2> QED
    BY <2>1
<1> QED
  BY <1>1, <1>2, <1>3

\* The in-process path lets a run through for the password, for a person's
\* approval of its variables, or because nothing routed it to the isolated one.
LEMMA ReplaceStep ==
    ASSUME RunInv, NEW i \in Runs, cli[i].pc \in {"fetch", "waitF", "promptF"},
           NEW pw \in BOOLEAN, Replace(i, pw), Rest, Quiet,
           pw \/ ExecFetch(i, FALSE) = "ok"
    PROVE  RunInv'
<1> DEFINE yes == decision[i] = "approved"
           c == [cli[i] EXCEPT !.pc = "ended", !.pw = pw, !.yes = yes]
           P == [proc[i] EXCEPT !["wrapper"] = "target"]
<1>0. yes \in BOOLEAN
  OBVIOUS
<1>4. Moves(i, c, P)
  BY DEF Replace, Moves, Rest, RunInv, ExecTypeOK
<1>5. ~pw => Gate(i, cli[i].form.noPrivsep, FALSE) = "ok"
  BY DEF ExecFetch, Answer
<1>6. cli[i].form.noPrivsep \in BOOLEAN
  BY Before DEF CliSet, FormSet
<1>7. ~pw => /\ ~Bare(cli[i].form)
             /\ cli[i].form.noPrivsep => cli[i].form.vars /\ yes
  BY <1>5, <1>6, GateOpens
<1> HIDE DEF yes
<1>1. /\ c \in CliSet /\ c.pc = "ended" /\ c.form = cli[i].form /\ c.pw = pw
      /\ c.blind = cli[i].blind /\ c.yes = yes
  BY <1>0, Before DEF CliSet, Pcs
<1>2. proc[i]["child"] = "none" /\ proc[i]["grand"] = "none" /\ store[i] = "none" /\ i \notin lapsed
  BY Before DEF Placed, Ticketed, Early
<1>3. P \in ProcSet /\ P["wrapper"] = "target" /\ P["child"] = "none" /\ P["grand"] = "none"
  BY <1>2, Before DEF ProcSet, Roles, WrapperStates
<1> HIDE DEF c, P
<1>8. Vouched(c, P, host)
  BY <1>1, <1>7, Before DEF Vouched, Routed
<1>9. Fine(c, P, store[i], i \in lapsed, i \in rough)
  BY <1>1, <1>2, <1>3, <1>8 DEF Fine, Placed, Ticketed, Routed, Reaps, Early
<1> QED
  BY <1>1, <1>3, <1>4, <1>9, MovedQuietly

LEMMA FetchStep ==
    ASSUME RunInv, NEW i \in Runs, Fetch(i)
    PROVE  RunInv'
<1> DEFINE ans == ExecFetch(i, FALSE)
           code == IF ans = "pending" THEN "pending" ELSE "error"
<1>1. ans \in Lasts
  BY AnswersType DEF ExecFetch
<1>2. cli[i].pc = "fetch" /\ cli[i].pc \in Starting /\ Rest /\ Quiet
  BY RaisedType DEF Fetch, Rest, Quiet, Starting, Early
<1>3. \/ ans = "ok" /\ Replace(i, FALSE)
      \/ cli' = [cli EXCEPT ![i].pc = "waitF", ![i].polls = MaxPolls] /\ proc' = proc
      \/ Goto(i, "promptF") /\ proc' = proc
      \/ Exit(i, code, ans)
  BY DEF Fetch
<1>4. CASE ans = "ok" /\ Replace(i, FALSE)
  BY <1>2, <1>4, ReplaceStep
<1>5. CASE cli' = [cli EXCEPT ![i].pc = "waitF", ![i].polls = MaxPolls] /\ proc' = proc
  <2>1. Polling(i, "waitF", MaxPolls)
    BY <1>5 DEF Polling, RunInv, ExecTypeOK
  <2>2. "waitF" \in Starting \ {"spawn"} /\ MaxPolls \in Nat
    BY ExecRunAssumption DEF Starting, Early
  <2> QED
    BY <1>2, <1>5, <2>1, <2>2, PollsStep
<1>6. CASE Goto(i, "promptF") /\ proc' = proc
  <2>1. "promptF" \in Starting \ {"spawn"}
    BY DEF Starting, Early
  <2> QED
    BY <1>2, <1>6, <2>1, GotoStep
<1> HIDE DEF ans
<1>7. CASE Exit(i, code, ans)
  BY <1>1, <1>2, <1>7, ExitStep
<1> QED
  BY <1>3, <1>4, <1>5, <1>6, <1>7

LEMMA PollFetchStep ==
    ASSUME RunInv, NEW i \in Runs, PollFetch(i)
    PROVE  RunInv'
<1> DEFINE ans == ExecFetch(i, FALSE)
           n == IF cli[i].polls > 0 THEN cli[i].polls - 1 ELSE 0
<1>1. ans \in Lasts
  BY AnswersType DEF ExecFetch
<1>2. cli[i].pc = "waitF" /\ cli[i].pc \in Starting /\ Rest /\ Quiet
  BY RaisedType DEF PollFetch, Rest, Quiet, Starting, Early
<1>3. \/ cli' = [cli EXCEPT ![i].polls = n] /\ proc' = proc
      \/ ans = "ok" /\ Replace(i, FALSE)
      \/ Exit(i, "pending", ans)
  BY DEF PollFetch
<1>4. CASE cli' = [cli EXCEPT ![i].polls = n] /\ proc' = proc
  <2>1. cli[i] \in CliSet /\ n \in Nat
    BY Before DEF CliSet
  <2> HIDE DEF n
  <2>2. [cli[i] EXCEPT !.polls = n] = [cli[i] EXCEPT !.pc = "waitF", !.polls = n]
    BY <1>2, <2>1 DEF CliSet
  <2>3. Polling(i, "waitF", n)
    BY <1>4, <2>2 DEF Polling, RunInv, ExecTypeOK
  <2>4. "waitF" \in Starting \ {"spawn"}
    BY DEF Starting, Early
  <2> QED
    BY <1>2, <1>4, <2>1, <2>3, <2>4, PollsStep
<1>5. CASE ans = "ok" /\ Replace(i, FALSE)
  BY <1>2, <1>5, ReplaceStep
<1> HIDE DEF ans
<1>6. CASE Exit(i, "pending", ans)
  BY <1>1, <1>2, <1>6, ExitStep
<1> QED
  BY <1>3, <1>4, <1>5, <1>6

LEMMA PromptFetchStep ==
    ASSUME RunInv, NEW i \in Runs, PromptFetch(i)
    PROVE  RunInv'
<1> DEFINE ans == ExecFetch(i, TRUE)
<1>1. ans \in Lasts /\ "auth_required" \in Lasts
  BY AnswersType DEF ExecFetch, Lasts
<1>2. cli[i].pc = "promptF" /\ cli[i].pc \in Starting /\ Rest /\ Quiet
  BY RaisedType DEF PromptFetch, Rest, Quiet, Starting, Early
<1>3. Replace(i, TRUE) \/ Exit(i, "error", ans) \/ Exit(i, "error", "auth_required")
  BY DEF PromptFetch
<1> HIDE DEF ans
<1>4. CASE Replace(i, TRUE)
  BY <1>2, <1>4, ReplaceStep
<1>5. CASE Exit(i, "error", ans) \/ Exit(i, "error", "auth_required")
  BY <1>1, <1>2, <1>5, ExitStep
<1> QED
  BY <1>3, <1>4, <1>5

\* The daemon's own spawn: a child without a token.
LEMMA SpawnStep ==
    ASSUME RunInv, NEW i \in Runs, Spawn(i)
    PROVE  RunInv'
<1> DEFINE ans == ExecSpawn(i)
           code == IF ans = "pending" THEN "pending" ELSE "error"
           c == [cli[i] EXCEPT !.pc = "spawned"]
           P == [proc[i] EXCEPT !["child"] = "exec"]
<1>1. ans \in Lasts
  BY AnswersType DEF ExecSpawn
<1>2. cli[i].pc = "spawn" /\ cli[i].pc \in Starting /\ Rest /\ Quiet
  BY RaisedType DEF Spawn, Rest, Quiet, Starting, Early
<1>3. \/ Goto(i, "spawned") /\ proc' = [proc EXCEPT ![i]["child"] = "exec"]
      \/ Exit(i, code, ans)
  BY DEF Spawn
<1> HIDE DEF ans
<1>4. CASE Exit(i, code, ans)
  BY <1>1, <1>2, <1>4, ExitStep
<1>5. CASE Goto(i, "spawned") /\ proc' = [proc EXCEPT ![i]["child"] = "exec"]
  <2>1. c \in CliSet /\ c.pc = "spawned" /\ c.form = cli[i].form
    BY Before DEF CliSet, Pcs
  <2>2. /\ proc[i]["wrapper"] = "alive" /\ proc[i]["grand"] = "none" /\ store[i] = "none"
        /\ i \notin lapsed /\ c.form.client = "older"
    BY <1>2, <2>1, Before DEF Placed, Ticketed, Early
  <2>3. P \in ProcSet /\ P["wrapper"] = "alive" /\ P["child"] = "exec" /\ P["grand"] = "none"
    BY <2>2, Before DEF ProcSet, Roles, ChildStates
  <2>4. Moves(i, c, P)
    BY <1>2, <1>5 DEF Goto, Moves, Rest, RunInv, ExecTypeOK
  <2> HIDE DEF c, P
  <2>5. Fine(c, P, store[i], i \in lapsed, i \in rough)
    BY <2>1, <2>2, <2>3 DEF Fine, Placed, Ticketed, Routed, Vouched, Reaps, Early
  <2> QED
    BY <1>2, <2>1, <2>3, <2>4, <2>5, MovedQuietly
<1> QED
  BY <1>3, <1>4, <1>5

LEMMA SpawnReturnsStep ==
    ASSUME RunInv, NEW i \in Runs, SpawnReturns(i)
    PROVE  RunInv'
<1>1. PICK code \in {"child", "error"} : Exit(i, code, "ok")
  BY DEF SpawnReturns
<1>2. cli[i].pc \in Starting \cup {"spawned"} /\ Rest /\ Quiet /\ "ok" \in Lasts
  BY RaisedType DEF SpawnReturns, Rest, Quiet, Lasts
<1> QED
  BY <1>1, <1>2, ExitStep

----------------------------------------------------------------------------
(* The helper and the targets. *)

LEMMA HelperDropStep ==
    ASSUME RunInv, NEW i \in Runs, HelperDrop(i)
    PROVE  RunInv'
<1>1. PICK s \in {"dropped", "gone"} : proc' = [proc EXCEPT ![i]["child"] = s]
  BY DEF HelperDrop
<1> DEFINE P == [proc[i] EXCEPT !["child"] = s]
<1>2. /\ P \in ProcSet /\ P["wrapper"] = proc[i]["wrapper"] /\ P["child"] = s
      /\ P["grand"] = proc[i]["grand"]
  BY Before DEF ProcSet, Roles, ChildStates
<1>3. Moves(i, cli[i], P) /\ Quiet
  BY <1>1 DEF HelperDrop, Moves, Quiet, RunInv, ExecTypeOK
<1> HIDE DEF P
<1>4. proc[i]["child"] = "helper"
  BY DEF HelperDrop
<1>5. Fine(cli[i], P, store[i], i \in lapsed, i \in rough)
  BY <1>2, <1>4, Before DEF Fine, Placed, Ticketed, Vouched, Reaps
<1> QED
  BY <1>2, <1>3, <1>5, Before, MovedQuietly

LEMMA HelperArmStep ==
    ASSUME RunInv, NEW i \in Runs, HelperArm(i)
    PROVE  RunInv'
<1> DEFINE P == [proc[i] EXCEPT !["child"] = "armed"]
<1>2. /\ P \in ProcSet /\ P["wrapper"] = proc[i]["wrapper"] /\ P["child"] = "armed"
      /\ P["grand"] = proc[i]["grand"]
  BY Before DEF ProcSet, Roles, ChildStates
<1>3. Moves(i, cli[i], P) /\ Quiet
  BY DEF HelperArm, Moves, Quiet, RunInv, ExecTypeOK
<1> HIDE DEF P
<1>4. proc[i]["child"] = "dropped"
  BY DEF HelperArm
<1>5. Fine(cli[i], P, store[i], i \in lapsed, i \in rough)
  BY <1>2, <1>4, Before DEF Fine, Placed, Ticketed, Vouched, Reaps
<1> QED
  BY <1>2, <1>3, <1>5, Before, MovedQuietly

\* The helper becomes the target only on a live token, and spends it.
LEMMA HelperRedeemStep ==
    ASSUME RunInv, NEW i \in Runs, HelperRedeem(i)
    PROVE  RunInv'
<1> DEFINE s == IF RedeemOK(i) THEN "exec" ELSE "gone"
           P == [proc[i] EXCEPT !["child"] = s]
<1>1. s \in {"exec", "gone"} /\ (s = "exec" => up /\ store[i] = "live")
  BY DEF RedeemOK
<1>2. /\ P \in ProcSet /\ P["wrapper"] = proc[i]["wrapper"] /\ P["child"] = s
      /\ P["grand"] = proc[i]["grand"]
  BY <1>1, Before DEF ProcSet, Roles, ChildStates
<1>3. Moves(i, cli[i], P) /\ lapsed' = lapsed /\ rough' = rough /\ proc[i]["child"] = "armed"
  BY DEF HelperRedeem, Moves, RunInv, ExecTypeOK
<1> HIDE DEF P, s
<1>4. /\ store' \in [Runs -> {"none", "live", "expired"}]
      /\ \A j \in Runs \ {i} : store'[j] \in {store[j], "none"}
      /\ store'[i] \in {store[i], "none"} /\ (up => store'[i] = "none")
  BY DEF HelperRedeem, RunInv, ExecTypeOK
<1>5. Placed(cli[i], P) /\ Vouched(cli[i], P, host) /\ Reaps(cli[i], P, i \in rough')
  BY <1>1, <1>2, <1>3, Before DEF Placed, Vouched, Reaps
<1>6. Ticketed(cli[i], P, store'[i], i \in lapsed)
  BY <1>1, <1>2, <1>3, <1>4, Before DEF Ticketed
<1>7. Fine(cli[i], P, store'[i], i \in lapsed, i \in rough')
  BY <1>5, <1>6, Before DEF Fine
<1> QED
  BY <1>2, <1>3, <1>4, <1>7, Before, Moved

LEMMA ForkStep ==
    ASSUME RunInv, NEW i \in Runs, Fork(i)
    PROVE  RunInv'
<1> DEFINE s == IF proc[i]["child"] = "exec" THEN "exec" ELSE "target"
           P == [proc[i] EXCEPT !["grand"] = s]
<1>1. /\ s \in {"exec", "target"}
      /\ s = "exec" => proc[i]["child"] = "exec"
      /\ s = "target" => proc[i]["wrapper"] = "target"
  BY DEF Fork
<1>2. /\ P \in ProcSet /\ P["wrapper"] = proc[i]["wrapper"] /\ P["grand"] = s
      /\ P["child"] = proc[i]["child"]
  BY <1>1, Before DEF ProcSet, Roles, ChildStates, GrandStates, WrapperStates
<1>3. Moves(i, cli[i], P) /\ Quiet
  BY DEF Fork, Moves, Quiet, RunInv, ExecTypeOK
<1> HIDE DEF P, s
<1>4. Placed(cli[i], P)
  BY <1>1, <1>2, Before DEF Placed, Early
<1>5. Reaps(cli[i], P, i \in rough)
  BY <1>1, <1>2, Before DEF Reaps
<1>6. Fine(cli[i], P, store[i], i \in lapsed, i \in rough)
  BY <1>1, <1>2, <1>4, <1>5, Before DEF Fine, Ticketed, Vouched
<1> QED
  BY <1>2, <1>3, <1>6, Before, MovedQuietly

LEMMA TargetExitsStep ==
    ASSUME RunInv, NEW i \in Runs, TargetExits(i)
    PROVE  RunInv'
<1>1. PICK r \in Roles :
        proc[i][r] \in {"exec", "target"} /\ proc' = [proc EXCEPT ![i][r] = "gone"]
  BY DEF TargetExits
<1> DEFINE P == [proc[i] EXCEPT ![r] = "gone"]
<1>2. /\ P \in ProcSet /\ P[r] = "gone"
      /\ \A q \in Roles \ {r} : P[q] = proc[i][q]
  BY Before DEF ProcSet, Roles, ChildStates, GrandStates, WrapperStates
<1>3. Moves(i, cli[i], P) /\ Quiet
  BY <1>1 DEF TargetExits, Moves, Quiet, RunInv, ExecTypeOK
<1> HIDE DEF P
<1>4. r = "wrapper" => proc[i]["wrapper"] = "target" /\ proc[i]["child"] = "none"
  BY <1>1, Before DEF ProcSet, WrapperStates, Placed
<1>5. Fine(cli[i], P, store[i], i \in lapsed, i \in rough)
  BY <1>1, <1>2, <1>4, Before DEF Fine, Placed, Ticketed, Vouched, Reaps, Early, Roles
<1> QED
  BY <1>2, <1>3, <1>5, Before, MovedQuietly

----------------------------------------------------------------------------
(* Signals. *)

\* The processes below the wrapper may go, and nothing else happens to them.
Wanes(P, Q) ==
    /\ Q \in ProcSet
    /\ \A r \in {"child", "grand"} : Q[r] = P[r] \/ (Q[r] = "gone" /\ P[r] # "none")

LEMMA TermedWanes ==
    ASSUME NEW P \in ProcSet, NEW i, NEW rs
    PROVE  /\ Wanes(P, Termed(P, i, rs))
           /\ Termed(P, i, rs)["wrapper"] \in {P["wrapper"], "gone", "signalled"}
           /\ "wrapper" \notin rs => Termed(P, i, rs)["wrapper"] = P["wrapper"]
           /\ Termed(P, i, rs)["wrapper"] = "signalled" => P["wrapper"] \in {"waiting", "signalled"}
<1> DEFINE Q == Termed(P, i, rs)
<1>1. Q = [r \in Roles |-> Q[r]] /\ DOMAIN Q = Roles
  BY DEF Termed
<1>2. /\ Q["child"] \in {P["child"], "gone"}
      /\ P["child"] = "none" => Q["child"] = "none"
  BY DEF Termed, Roles, ProcSet, ChildStates
<1>3. /\ Q["grand"] \in {P["grand"], "gone"}
      /\ P["grand"] = "none" => Q["grand"] = "none"
  BY DEF Termed, Roles, ProcSet, GrandStates
<1>4. /\ Q["wrapper"] \in {P["wrapper"], "gone", "signalled"}
      /\ "wrapper" \notin rs => Q["wrapper"] = P["wrapper"]
      /\ Q["wrapper"] = "signalled" => P["wrapper"] \in {"waiting", "signalled"}
  BY DEF Termed, Roles
<1> HIDE DEF Q
<1>5. Q \in ProcSet
  BY <1>1, <1>2, <1>3, <1>4 DEF ProcSet, Roles, WrapperStates, ChildStates, GrandStates
<1> QED
  BY <1>2, <1>3, <1>4, <1>5 DEF Wanes, Q

LEMMA GoneWanes ==
    ASSUME NEW P \in ProcSet, NEW i
    PROVE  Wanes(P, WrapperGone(P, i)) /\ WrapperGone(P, i)["wrapper"] = "gone"
<1> DEFINE Q == [P EXCEPT !["wrapper"] = "gone"]
<1>1. /\ Q \in ProcSet /\ Q["wrapper"] = "gone" /\ Q["child"] = P["child"]
      /\ Q["grand"] = P["grand"]
  BY DEF ProcSet, Roles, WrapperStates
<1> HIDE DEF Q
<1>2. /\ Wanes(Q, Termed(Q, i, {"child"})) /\ Termed(Q, i, {"child"})["wrapper"] = "gone"
  BY <1>1, TermedWanes
<1>3. Wanes(Q, Pdeath(Q, i)) /\ Pdeath(Q, i)["wrapper"] = "gone"
  BY <1>1, <1>2 DEF Pdeath, Wanes
<1> QED
  BY <1>1, <1>3 DEF Wanes, WrapperGone, Q

LEMMA WanesTwice ==
    ASSUME NEW P, NEW Q, NEW R, Wanes(P, Q), Wanes(Q, R)
    PROVE  Wanes(P, R)
BY DEF Wanes

\* A run loses processes, its wrapper not among them.
LEMMA WaneStep ==
    ASSUME RunInv, NEW i \in Runs, NEW P, Wanes(proc[i], P),
           \/ P["wrapper"] = proc[i]["wrapper"]
           \/ {P["wrapper"], proc[i]["wrapper"]} \subseteq {"starting", "waiting", "signalled"},
           proc' = [proc EXCEPT ![i] = P], cli' = cli, Rest, Quiet
    PROVE  RunInv'
<1>1. Moves(i, cli[i], P)
  BY DEF Moves, Rest, RunInv, ExecTypeOK
<1>2. Placed(cli[i], P)
  BY Before DEF Placed, Wanes
<1>3. Reaps(cli[i], P, i \in rough)
  BY Before DEF Reaps, Wanes
<1>4. Fine(cli[i], P, store[i], i \in lapsed, i \in rough)
  BY <1>2, <1>3, Before DEF Fine, Ticketed, Vouched, Wanes
<1> QED
  BY <1>1, <1>4, Before, MovedQuietly DEF Wanes

\* A run loses its wrapper, which had no time to sweep.
LEMMA RoughStep ==
    ASSUME RunInv, NEW i \in Runs, NEW P, Wanes(proc[i], P), P["wrapper"] = "gone",
           proc' = [proc EXCEPT ![i] = P], Goto(i, "ended"), Rest,
           store' = store, lapsed' = lapsed, rough' = rough \cup {i}
    PROVE  RunInv'
<1> DEFINE c == [cli[i] EXCEPT !.pc = "ended"]
<1>1. c \in CliSet /\ c.pc = "ended" /\ c.form = cli[i].form
  BY Before DEF CliSet, Pcs
<1>2. Moves(i, c, P)
  BY DEF Goto, Moves, Rest, RunInv, ExecTypeOK
<1>3. /\ store' \in [Runs -> {"none", "live", "expired"}] /\ i \in rough'
      /\ \A j \in Runs \ {i} : store'[j] \in {store[j], "none"}
  BY DEF RunInv, ExecTypeOK
<1> HIDE DEF c
<1>4. Placed(c, P) /\ Ticketed(c, P, store'[i], i \in lapsed)
  BY <1>1, Before DEF Placed, Ticketed, Wanes, Early
<1>5. Fine(c, P, store'[i], i \in lapsed, i \in rough')
  BY <1>1, <1>3, <1>4 DEF Fine, Routed, Vouched, Reaps
<1> QED
  BY <1>1, <1>2, <1>3, <1>5, Moved DEF Wanes

\* A wrapper that ends its job: what listens to SIGTERM is gone with it.
LEMMA ReapStep ==
    ASSUME RunInv, NEW i \in Runs, proc[i]["wrapper"] \in {"waiting", "signalled"},
           proc[i]["child"] = "gone" \/ UidOf(i, "child") = "exec",
           proc' = [proc EXCEPT ![i] = Reaped(i)], NEW code \in {"child", "signal"},
           cli' = [cli EXCEPT ![i].pc = "ended", ![i].code = code], Rest, Quiet
    PROVE  RunInv'
<1> DEFINE c == [cli[i] EXCEPT !.pc = "ended", !.code = code]
           Q == GroupTerm(proc[i], i)
           P == Reaped(i)
<1>1. c \in CliSet /\ c.pc = "ended" /\ c.form = cli[i].form
  <2>1. cli[i] \in CliSet /\ "ended" \in Pcs
    BY Before DEF Pcs
  <2>2. code \in {"none", "error", "child", "pending", "signal"}
    OBVIOUS
  <2> QED
    BY <2>1, <2>2 DEF CliSet
<1>2. Wanes(proc[i], Q)
  BY Before, TermedWanes DEF GroupTerm
<1>3. Wanes(Q, P) /\ P["wrapper"] = "gone"
  BY <1>2, GoneWanes DEF Reaped, Wanes
<1>4. Wanes(proc[i], P)
  BY <1>2, <1>3, WanesTwice
<1>5. proc[i]["child"] # "none" /\ proc[i]["grand"] # "target"
  BY Before DEF Placed, UidOf
<1>6. Q["child"] \in {"none", "gone"} \/ "child" \in cli[i].form.deaf
  BY <1>5, Before DEF GroupTerm, Termed, UidOf, Roles, ProcSet, ChildStates
<1>7. Q["grand"] \in {"none", "gone"} \/ "grand" \in cli[i].form.deaf
  BY <1>5, Before DEF GroupTerm, Termed, UidOf, Roles, ProcSet, GrandStates
<1>8. Moves(i, c, P)
  BY DEF Moves, Rest, RunInv, ExecTypeOK
<1> HIDE DEF c, Q, P
<1>9. Reaps(c, P, i \in rough)
  BY <1>1, <1>3, <1>6, <1>7 DEF Reaps, Wanes
<1>10. Placed(c, P) /\ Ticketed(c, P, store[i], i \in lapsed)
  BY <1>1, <1>3, <1>4, Before DEF Placed, Ticketed, Wanes, Early
<1>11. Fine(c, P, store[i], i \in lapsed, i \in rough)
  BY <1>1, <1>3, <1>9, <1>10 DEF Fine, Routed, Vouched
<1> QED
  BY <1>1, <1>4, <1>8, <1>11, MovedQuietly DEF Wanes

----------------------------------------------------------------------------
(* The wrapper. *)

LEMMA InstallHandlerStep ==
    ASSUME RunInv, NEW i \in Runs, InstallHandler(i)
    PROVE  RunInv'
<1> DEFINE P == [proc[i] EXCEPT !["wrapper"] = "waiting"]
<1>1. Wanes(proc[i], P) /\ P["wrapper"] = "waiting"
  BY Before DEF Wanes, ProcSet, Roles, WrapperStates
<1>2. proc' = [proc EXCEPT ![i] = P] /\ cli' = cli /\ Rest /\ Quiet
  BY RaisedType DEF InstallHandler, Rest, Quiet
<1>3. proc[i]["wrapper"] = "starting"
  BY DEF InstallHandler
<1> HIDE DEF P
<1> QED
  BY <1>1, <1>2, <1>3, WaneStep

LEMMA WaitReturnsStep ==
    ASSUME RunInv, NEW i \in Runs, WaitReturns(i)
    PROVE  RunInv'
<1>1. Rest /\ Quiet
  BY RaisedType DEF WaitReturns, Rest, Quiet
<1> QED
  BY <1>1, ReapStep DEF WaitReturns

LEMMA HandleSignalStep ==
    ASSUME RunInv, NEW i \in Runs, HandleSignal(i)
    PROVE  RunInv'
<1>1. Rest /\ Quiet /\ proc[i]["wrapper"] = "signalled"
  BY RaisedType DEF HandleSignal, Rest, Quiet
<1>2. CASE UidOf(i, "child") = "owner"
  <2> DEFINE Q == Termed(proc[i], i, {"child"})
             P == [Q EXCEPT !["wrapper"] = "waiting"]
  <2>1. Wanes(proc[i], Q)
    BY Before, TermedWanes
  <2>2. proc' = [proc EXCEPT ![i] = P] /\ cli' = cli
    BY <1>2 DEF HandleSignal
  <2> HIDE DEF Q
  <2>3. Wanes(proc[i], P) /\ P["wrapper"] = "waiting"
    BY <2>1 DEF Wanes, ProcSet, Roles, WrapperStates
  <2> HIDE DEF P
  <2> QED
    BY <1>1, <2>2, <2>3, WaneStep
<1>3. CASE UidOf(i, "child") # "owner"
  <2>1. UidOf(i, "child") = "exec"
    BY <1>3 DEF UidOf
  <2>2. /\ proc' = [proc EXCEPT ![i] = Reaped(i)]
        /\ cli' = [cli EXCEPT ![i].pc = "ended", ![i].code = "signal"]
    BY <1>3 DEF HandleSignal
  <2> QED
    BY <1>1, <2>1, <2>2, ReapStep
<1> QED
  BY <1>2, <1>3

LEMMA OwnerSignalsStep ==
    ASSUME RunInv, NEW i \in Runs, OwnerSignals(i)
    PROVE  RunInv'
<1> DEFINE P == Termed(proc[i], i, {"wrapper"})
<1>1. Rest /\ store' = store /\ lapsed' = lapsed
  BY RaisedType DEF OwnerSignals, Rest
<1>2. /\ Wanes(proc[i], P) /\ P["wrapper"] \in {proc[i]["wrapper"], "gone", "signalled"}
      /\ P["wrapper"] = "signalled" => proc[i]["wrapper"] \in {"waiting", "signalled"}
  BY Before, TermedWanes
<1>3. CASE P["wrapper"] = "gone"
  <2>1. /\ proc' = [proc EXCEPT ![i] = WrapperGone(P, i)]
        /\ rough' = rough \cup {i} /\ Goto(i, "ended")
    BY <1>3 DEF OwnerSignals
  <2> HIDE DEF P
  <2>2. Wanes(P, WrapperGone(P, i)) /\ WrapperGone(P, i)["wrapper"] = "gone"
    BY <1>2, GoneWanes DEF Wanes
  <2>3. Wanes(proc[i], WrapperGone(P, i))
    BY <1>2, <2>2, WanesTwice
  <2> QED
    BY <1>1, <2>1, <2>2, <2>3, RoughStep
<1>4. CASE P["wrapper"] # "gone"
  <2>1. proc' = [proc EXCEPT ![i] = P] /\ cli' = cli /\ rough' = rough
    BY <1>4 DEF OwnerSignals
  <2> HIDE DEF P
  <2> QED
    BY <1>1, <1>2, <1>4, <2>1, WaneStep DEF Quiet
<1> QED
  BY <1>3, <1>4

LEMMA WrapperKilledStep ==
    ASSUME RunInv, NEW i \in Runs, WrapperKilled(i)
    PROVE  RunInv'
<1>1. Rest /\ store' = store /\ lapsed' = lapsed /\ rough' = rough \cup {i} /\ Goto(i, "ended")
  BY RaisedType DEF WrapperKilled, Rest
<1>2. proc' = [proc EXCEPT ![i] = WrapperGone(proc[i], i)]
  BY DEF WrapperKilled
<1>3. Wanes(proc[i], WrapperGone(proc[i], i)) /\ WrapperGone(proc[i], i)["wrapper"] = "gone"
  BY Before, GoneWanes
<1> QED
  BY <1>1, <1>2, <1>3, RoughStep

----------------------------------------------------------------------------
(* byn kill. *)

\* A step of `byn kill` on no run of the system changes none.
LEMMA NoRunStep ==
    ASSUME RunInv, NEW i, i \notin Runs, ExecTypeOK', host' = host, store' = store,
           lapsed' = lapsed, rough' \in {rough, rough \cup {i}},
           \A j \in Runs : cli'[j] = cli[j] /\ proc'[j] = proc[j]
    PROVE  RunInv'
<1>1. Others(i)
  BY DEF Others
<1> QED
  BY <1>1, OneRun

LEMMA KillGroupStep ==
    ASSUME RunInv, KillGroup
    PROVE  RunInv'
<1> DEFINE i == kill.run
           P == IF LeadsGroup(i) THEN GroupTerm(proc[i], i) ELSE proc[i]
<1>1. Rest /\ Quiet /\ cli' = cli /\ proc' = [proc EXCEPT ![i] = P]
  BY RaisedType DEF KillGroup, Rest, Quiet
<1>2. CASE i \in Runs
  <2>1. /\ Wanes(proc[i], GroupTerm(proc[i], i))
        /\ GroupTerm(proc[i], i)["wrapper"] = proc[i]["wrapper"]
    BY <1>2, Before, TermedWanes DEF GroupTerm
  <2>2. Wanes(proc[i], P) /\ P["wrapper"] = proc[i]["wrapper"]
    BY <1>2, <2>1, Before DEF Wanes
  <2> HIDE DEF P, i
  <2> QED
    BY <1>1, <1>2, <2>2, WaneStep
<1>3. CASE i \notin Runs
  <2> HIDE DEF P, i
  <2>1. proc' = proc
    BY <1>1, <1>3 DEF RunInv, ExecTypeOK
  <2>2. ExecTypeOK'
    BY <1>1, <2>1 DEF RunInv, ExecTypeOK, Rest, Quiet
  <2> QED
    BY <1>1, <1>3, <2>1, <2>2, NoRunStep DEF Rest, Quiet
<1> QED
  BY <1>2, <1>3

\* SIGTERM or SIGKILL to a job: with its wrapper it ends, otherwise it wanes.
LEMMA KillSignal ==
    ASSUME RunInv, NEW i, NEW P, NEW died \in BOOLEAN, Rest, store' = store, lapsed' = lapsed,
           i \in Runs => Wanes(proc[i], P),
           i \in Runs /\ ~died =>
              \/ P["wrapper"] = proc[i]["wrapper"]
              \/ {P["wrapper"], proc[i]["wrapper"]} \subseteq {"starting", "waiting", "signalled"},
           proc' = [proc EXCEPT ![i] = IF died THEN WrapperGone(P, i) ELSE P],
           rough' = IF died THEN rough \cup {i} ELSE rough,
           cli' = IF died THEN [cli EXCEPT ![i].pc = "ended"] ELSE cli
    PROVE  RunInv'
<1>1. CASE i \in Runs /\ died
  <2>1. Wanes(P, WrapperGone(P, i)) /\ WrapperGone(P, i)["wrapper"] = "gone"
    BY <1>1, GoneWanes DEF Wanes
  <2>2. Wanes(proc[i], WrapperGone(P, i))
    BY <1>1, <2>1, WanesTwice
  <2>3. proc' = [proc EXCEPT ![i] = WrapperGone(P, i)] /\ rough' = rough \cup {i} /\ Goto(i, "ended")
    BY <1>1 DEF Goto
  <2> QED
    BY <1>1, <2>1, <2>2, <2>3, RoughStep
<1>2. CASE i \in Runs /\ ~died
  <2>1. proc' = [proc EXCEPT ![i] = P] /\ Quiet /\ cli' = cli
    BY <1>2 DEF Quiet
  <2> QED
    BY <1>2, <2>1, WaneStep
<1>3. CASE i \notin Runs
  <2>1. proc' = proc /\ cli' = cli
    BY <1>3 DEF RunInv, ExecTypeOK
  <2>2. ExecTypeOK'
    BY <2>1 DEF RunInv, ExecTypeOK, Rest
  <2> QED
    BY <1>3, <2>1, <2>2, NoRunStep DEF Rest
<1> QED
  BY <1>1, <1>2, <1>3

LEMMA KillTermStep ==
    ASSUME RunInv, KillTerm
    PROVE  RunInv'
<1> DEFINE i == kill.run
           P == Termed(proc[i], i, Reach)
           died == Alive(i, "wrapper") /\ P["wrapper"] = "gone"
<1>1. /\ Rest /\ store' = store /\ lapsed' = lapsed
      /\ proc' = [proc EXCEPT ![i] = IF died THEN WrapperGone(P, i) ELSE P]
      /\ rough' = IF died THEN rough \cup {i} ELSE rough
      /\ cli' = IF died THEN [cli EXCEPT ![i].pc = "ended"] ELSE cli
  BY RaisedType DEF KillTerm, Rest
<1>2. ASSUME i \in Runs
      PROVE  /\ Wanes(proc[i], P)
             /\ P["wrapper"] \in {proc[i]["wrapper"], "gone", "signalled"}
             /\ P["wrapper"] = "signalled" => proc[i]["wrapper"] \in {"waiting", "signalled"}
             /\ proc[i]["wrapper"] = "none" => P["wrapper"] = "none"
  <2>1. proc[i] \in ProcSet
    BY <1>2, Before
  <2>2. proc[i]["wrapper"] = "none" => P["wrapper"] = "none"
    BY DEF Termed, Roles
  <2> QED
    BY <2>1, <2>2, TermedWanes
<1>3. ASSUME i \in Runs, ~died
      PROVE  \/ P["wrapper"] = proc[i]["wrapper"]
             \/ {P["wrapper"], proc[i]["wrapper"]} \subseteq {"starting", "waiting", "signalled"}
  BY <1>2, <1>3 DEF Alive
<1>4. died \in BOOLEAN
  OBVIOUS
<1> HIDE DEF died, P, i
<1> QED
  BY <1>1, <1>2, <1>3, <1>4, KillSignal

LEMMA KillHardStep ==
    ASSUME RunInv, KillHard
    PROVE  RunInv'
<1> DEFINE i == kill.run
           hit == Survivors \cap Reach
           P == [r \in Roles |-> IF r \in hit THEN "gone" ELSE proc[i][r]]
           died == "wrapper" \in hit
<1>1. /\ Rest /\ store' = store /\ lapsed' = lapsed
      /\ proc' = [proc EXCEPT ![i] = IF died THEN WrapperGone(P, i) ELSE P]
      /\ rough' = IF died THEN rough \cup {i} ELSE rough
      /\ cli' = IF died THEN [cli EXCEPT ![i].pc = "ended"] ELSE cli
  BY RaisedType DEF KillHard, Rest
<1>2. \A r \in hit : proc[i][r] # "none"
  BY DEF Survivors, Alive
<1>3. ASSUME i \in Runs
      PROVE  Wanes(proc[i], P) /\ (~died => P["wrapper"] = proc[i]["wrapper"])
  <2>1. proc[i] \in ProcSet
    BY <1>3, Before
  <2> HIDE DEF hit
  <2> QED
    BY <1>2, <2>1 DEF Wanes, ProcSet, Roles, WrapperStates, ChildStates, GrandStates
<1>4. died \in BOOLEAN
  OBVIOUS
<1> HIDE DEF died, P, i
<1> QED
  BY <1>1, <1>3, <1>4, KillSignal

----------------------------------------------------------------------------
(* The daemon. *)

\* A token that expires, or goes down with the daemon, lapses; a target that
\* runs has none.
LEMMA LapseStep ==
    ASSUME RunInv, NEW ts \in SUBSET {i \in Runs : store[i] # "none"},
           store' \in [Runs -> {"none", "live", "expired"}],
           \A i \in ts : store'[i] # "live",
           \A i \in Runs \ ts : store'[i] = store[i],
           lapsed' = lapsed \cup ts, load' = load, host' = host, up' \in BOOLEAN,
           cli' = cli, decision' = decision, proc' = proc, rough' = rough
    PROVE  RunInv'
<1>1. ExecTypeOK'
  BY DEF RunInv, ExecTypeOK
<1> SUFFICES ASSUME NEW i \in Runs PROVE Stands(i)'
  BY <1>1 DEF RunInv
<1>2. Ticketed(cli[i], proc[i], store[i], i \in lapsed)'
  <2>1. CASE i \in ts
    BY <2>1, Before DEF Ticketed
  <2>2. CASE i \notin ts
    BY <2>2, Before DEF Ticketed
  <2> QED
    BY <2>1, <2>2
<1>3. Placed(cli[i], proc[i])' /\ Routed(cli[i], host)' /\ Vouched(cli[i], proc[i], host)'
  BY Before DEF Placed, Routed, Vouched
<1>4. Reaps(cli[i], proc[i], i \in rough)'
  BY Before DEF Reaps
<1> QED
  BY <1>2, <1>3, <1>4 DEF Stands

LEMMA ExpireStep ==
    ASSUME RunInv, NEW i \in Runs, Expire(i)
    PROVE  RunInv'
<1> DEFINE ts == {i}
<1>1. ts \in SUBSET {j \in Runs : store[j] # "none"} /\ lapsed' = lapsed \cup ts
  BY DEF Expire
<1>2. /\ store' \in [Runs -> {"none", "live", "expired"}]
      /\ \A j \in ts : store'[j] # "live"
      /\ \A j \in Runs \ ts : store'[j] = store[j]
  BY DEF Expire, RunInv, ExecTypeOK
<1>3. /\ load' = load /\ host' = host /\ up' \in BOOLEAN
      /\ cli' = cli /\ decision' = decision /\ proc' = proc /\ rough' = rough
  BY DEF Expire, RunInv, ExecTypeOK
<1> HIDE DEF ts
<1> QED
  BY <1>1, <1>2, <1>3, LapseStep

LEMMA DaemonDownStep ==
    ASSUME RunInv, DaemonDown
    PROVE  RunInv'
<1> DEFINE ts == {i \in Runs : store[i] # "none"}
<1>1. ts \in SUBSET {j \in Runs : store[j] # "none"} /\ lapsed' = lapsed \cup ts
  BY DEF DaemonDown
<1>2. /\ store' \in [Runs -> {"none", "live", "expired"}]
      /\ \A j \in ts : store'[j] # "live"
      /\ \A j \in Runs \ ts : store'[j] = store[j]
  BY DEF DaemonDown, RunInv, ExecTypeOK
<1>3. /\ load' = load /\ host' = host /\ up' \in BOOLEAN
      /\ cli' = cli /\ decision' = decision /\ proc' = proc /\ rough' = rough
  BY DEF DaemonDown
<1> HIDE DEF ts
<1> QED
  BY <1>1, <1>2, <1>3, LapseStep

\* Steps that touch neither a run's processes nor its token.
LEMMA StillStep ==
    ASSUME RunInv, Quiet, load' = load, host' = host, cli' = cli, proc' = proc, up' \in BOOLEAN,
           decision' \in [Runs -> {"none", "pending", "approved", "denied"}]
    PROVE  RunInv'
<1>1. ExecTypeOK'
  BY DEF RunInv, ExecTypeOK, Quiet
<1> SUFFICES ASSUME NEW i \in Runs PROVE Stands(i)'
  BY <1>1 DEF RunInv
<1>2. store' = store /\ lapsed' = lapsed /\ rough' = rough
  BY DEF Quiet
<1>3. Placed(cli[i], proc[i])' /\ Routed(cli[i], host)' /\ Vouched(cli[i], proc[i], host)'
  BY Before DEF Placed, Routed, Vouched
<1>4. Reaps(cli[i], proc[i], i \in rough)' /\ Ticketed(cli[i], proc[i], store[i], i \in lapsed)'
  BY <1>2, Before DEF Reaps, Ticketed
<1> QED
  BY <1>3, <1>4 DEF Stands

LEMMA QuietStep ==
    ASSUME RunInv,
           \/ DaemonUp \/ KillFind \/ KillSnapshot \/ KillReport \/ UNCHANGED vars
           \/ \E i \in Runs : Decide(i)
    PROVE  RunInv'
<1>1. CASE DaemonUp
  BY <1>1, StillStep DEF DaemonUp, Quiet, RunInv, ExecTypeOK
<1>2. CASE KillFind
  BY <1>2, StillStep DEF KillFind, Quiet, RunInv, ExecTypeOK
<1>3. CASE KillSnapshot
  BY <1>3, StillStep DEF KillSnapshot, Quiet, RunInv, ExecTypeOK
<1>4. CASE KillReport
  BY <1>4, StillStep DEF KillReport, Quiet, RunInv, ExecTypeOK
<1>5. CASE UNCHANGED vars
  BY <1>5, StillStep DEF vars, Quiet, RunInv, ExecTypeOK
<1>6. ASSUME NEW i \in Runs, Decide(i) PROVE RunInv'
  BY <1>6, StillStep DEF Decide, Quiet, RunInv, ExecTypeOK
<1> QED
  BY <1>1, <1>2, <1>3, <1>4, <1>5, <1>6

----------------------------------------------------------------------------
(* The theorems. *)

\* Before any run is typed.
LEMMA RunInit ==
    ASSUME Init
    PROVE  RunInv
<1>1. NoForm \in FormSet
  BY DEF NoForm, FormSet, Roles
<1>2. Idle \in CliSet /\ Idle.pc = "idle"
  BY <1>1 DEF Idle, CliSet, Pcs, Early, Lasts
<1>3. [r \in Roles |-> "none"] \in ProcSet
  BY DEF ProcSet, Roles, WrapperStates, ChildStates, GrandStates
<1>4. ExecTypeOK
  BY <1>2, <1>3, ExecRunAssumption DEF Init, ExecTypeOK
<1>5. ASSUME NEW i \in Runs PROVE Stands(i)
  <2>1. /\ cli[i] = Idle /\ \A r \in Roles : proc[i][r] = "none"
        /\ store[i] = "none" /\ lapsed = {}
    BY DEF Init
  <2> QED
    BY <1>2, <2>1 DEF Stands, Placed, Ticketed, Routed, Vouched, Reaps, Roles, Early
<1> QED
  BY <1>4, <1>5 DEF RunInv

LEMMA RunStep ==
    ASSUME RunInv, [Next]_vars
    PROVE  RunInv'
<1>1. ASSUME NEW i \in Runs, CliStep(i) PROVE RunInv'
  BY <1>1, LaunchStep, DryRunStep, StatusStep, ResolveAliasStep, AuthorizeStep,
     PollAuthorizeStep, FetchStep, PollFetchStep, SpawnStep, SpawnReturnsStep,
     InstallHandlerStep, WaitReturnsStep, HandleSignalStep DEF CliStep
<1>2. ASSUME NEW i \in Runs, HelperStep(i) PROVE RunInv'
  BY <1>2, HelperDropStep, HelperArmStep, HelperRedeemStep DEF HelperStep
<1>3. ASSUME NEW i \in Runs,
             \/ PromptAuthorize(i) \/ PromptFetch(i) \/ Fork(i) \/ TargetExits(i)
             \/ OwnerSignals(i) \/ WrapperKilled(i) \/ Expire(i) \/ Decide(i)
      PROVE  RunInv'
  BY <1>3, PromptAuthorizeStep, PromptFetchStep, ForkStep, TargetExitsStep,
     OwnerSignalsStep, WrapperKilledStep, ExpireStep, QuietStep
<1>4. ASSUME DaemonDown \/ DaemonUp \/ KillStep \/ UNCHANGED vars PROVE RunInv'
  BY <1>4, DaemonDownStep, QuietStep, KillGroupStep, KillTermStep, KillHardStep DEF KillStep
<1> QED
  BY <1>1, <1>2, <1>3, <1>4 DEF Next

\* The place of a run's command line, its processes, its token and its route
\* fit together in every reachable state.
THEOREM RunInvariant == Spec => []RunInv
<1>1. Init => RunInv
  BY RunInit
<1>2. RunInv /\ [Next]_vars => RunInv'
  BY RunStep
<1> QED
  BY <1>1, <1>2, PTL DEF Spec

\* exec.redeem deletes the token it is asked for and refuses an expired one: for
\* any number of runs sharing the store, a run whose token lapsed starts no
\* target, and a target that runs has left no token to redeem again.
THEOREM LapsedTokenHolds == Spec => []LapsedTokenStartsNothing
<1>1. RunInv => LapsedTokenStartsNothing
  BY DEF RunInv, Stands, Ticketed, LapsedTokenStartsNothing
<1> QED
  BY <1>1, RunInvariant, PTL

\* runExec's routing: on a machine that isolates, whatever the way a command is
\* typed and whenever the daemon goes down, a target that runs as the owner took
\* the password or a person's approval of its variables, or its command line could
\* not reach the daemon when it asked how to run, or its alias was not resolved.
THEOREM OwnerRunIsVouchedHolds == Spec => []OwnerRunIsVouched
<1>1. RunInv => OwnerRunIsVouched
  BY DEF RunInv, Stands, Vouched, OwnerRunIsVouched
<1> QED
  BY <1>1, RunInvariant, PTL

\* reapGroup: a wrapper that returns or handles a signal, at whatever moment of
\* its helper's life, leaves behind only what ignores SIGTERM or comes from a
\* target that does.
THEOREM SubtreeReapedHolds == Spec => []SubtreeReaped
<1>1. RunInv => SubtreeReaped
  BY DEF RunInv, Stands, Reaps, SubtreeReaped, Alive
<1> QED
  BY <1>1, RunInvariant, PTL
============================================================================
