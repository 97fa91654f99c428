---------------------------- MODULE ClientProofs ----------------------------
(***************************************************************************)
(* Proofs about the two programs the owner runs at a terminal: the moves of *)
(* his data by setup, migrate and uninstall (Install), and the terminal UI  *)
(* (Tui).  The two share nothing and are proved one after the other.        *)
(*                                                                         *)
(* Install: what a command may rely on at each of its steps (StageSound,    *)
(* MoveSound, SetupSound) and what holds between any two, an interruption   *)
(* included (TreesSound, Kept, DaemonsSound), is inductive together; one    *)
(* lemma per step of a command.                                             *)
(*                                                                         *)
(* Tui: what the Model and each call in progress carry about scopes         *)
(* (ModelSound, CallSound, Shows); one lemma per view.                      *)
(***************************************************************************)
EXTENDS Install, Tui, TLAPS

-----------------------------------------------------------------------------
(* Install: the invariant.                                                 *)

\* The workloads the theorems are about: no replacement by force, whose
\* interruptions MCInstallBackup.cfg shows to cost a vault.
Orderly == ~load.force

\* What a vault of a tree can be, and what a tree can be.
Copies == {Gone, Torn} \cup [of : Origins, n : Nat]
Trees == [there : BOOLEAN, vaults : [Vaults -> Copies], trust : BOOLEAN, keys : BOOLEAN,
          running : BOOLEAN, owner : BOOLEAN, mode : {"0700", "0711"},
          by : {"owner", "root", "_byn"}, from : {"home", "import"}]
\* The commands and their steps, but those of a replacement by force.
MovePcs == {"stage", "verify", "own", "commit", "clear", "swap", "mode"}
Commands == Moving \cup {"teardown", "purge", "none"}
Pcs == MovePcs \cup {"none", "helper", "stop", "list", "transform", "remove", "owner", "service",
                    "check", "privsep", "unservice", "unowner", "purge"}

\* The type part of the invariant.
InstallTypes ==
    /\ load \in Workloads
    /\ tree \in [Places -> Trees]
    /\ up \in [{"user", "svc"} -> {"down", "legacy", "sys"}]
    /\ service \in [users : BOOLEAN, installed : BOOLEAN]
    /\ cmd \in [op : Commands, pc : Pcs, mode : {"none", "0700", "0711"}]
    /\ owed \in [Origins -> [Vaults -> Nat]]

\* The system tree holds every vault of the owner's as last written.
HomeInSys == \A v \in Vaults : owed["home"][v] # 0 => tree.sys.vaults[v] = [of |-> "home", n |-> owed["home"][v]]

\* No tree was moved aside, nothing is stored where there is no directory, the
\* tree an import copies is not touched, the system directory is the account's.
TreesSound ==
    /\ tree.old = NoTree
    /\ \A p \in {"legacy", "sys"} : ~tree[p].there => \A v \in Vaults : tree[p].vaults[v] = Gone
    /\ \A v \in Vaults : tree.ext.vaults[v] = [of |-> "ext", n |-> 1]
    /\ tree.ext.there
    /\ tree.sys.there => tree.sys.by = "_byn"

\* Every acknowledged write is whole in a tree that is in place.
Kept == \A o \in Origins, v \in Vaults : owed[o][v] # 0 =>
           \E p \in {"legacy", "sys", "ext"} : tree[p].vaults[v] = [of |-> o, n |-> owed[o][v]]

\* A daemon has the tree of its own place open; the service is installed on
\* a directory that is complete.
DaemonsSound ==
    /\ up["user"] \in {"down", "legacy"} /\ up["svc"] \in {"down", "sys"}
    /\ up["user"] = "legacy" => tree.legacy.there
    /\ up["svc"] = "sys" => service.installed
    /\ service.installed =>
         /\ tree.sys.there /\ tree.sys.owner /\ tree.sys.mode = "0711"
         /\ up["user"] = "down" /\ HomeInSys

\* From the staged tree's verification until it is put in place its vaults are
\* those of the tree it was copied from.
Placed == {"clear", "swap", "mode", "remove"}
StageSound ==
    /\ cmd.op \in Moving /\ cmd.pc \in {"commit", "clear", "swap"} =>
          tree.stage.there /\ tree.stage.by = "_byn"
    /\ cmd.op \in Moving /\ cmd.pc \in {"verify", "transform", "own"} => tree.stage.there
    /\ cmd.op \in {"setup", "relocate"} /\ cmd.pc \in {"verify", "own", "commit", "clear", "swap"} =>
          tree.stage.vaults = tree.legacy.vaults
    /\ cmd.op = "import" /\ cmd.pc \in {"verify", "transform", "own", "commit", "clear", "swap"} =>
          tree.stage.vaults = tree.ext.vaults

\* A tree is put in place where there is none to lose, with no daemon of the
\* owner's running, and the old one goes when all of it is in the new one.
MoveSound ==
    /\ cmd.op \in Moving /\ cmd.pc \in Placed => ~service.installed
    /\ cmd.op \in Moving /\ cmd.pc \in {"clear", "swap"} => \A v \in Vaults : tree.sys.vaults[v] = Gone
    /\ cmd.op \in Moving /\ cmd.pc \in {"mode", "remove"} => tree.sys.there
    /\ cmd.op \in {"setup", "relocate"} /\ cmd.pc \in {"list"} \cup Placed \cup MovePcs => up["user"] = "down"
    /\ cmd.op \in {"setup", "relocate"} /\ cmd.pc \in {"remove"} \cup MovePcs => tree.legacy.there
    /\ cmd.op \in {"setup", "relocate"} /\ cmd.pc \in {"mode", "remove"} => HomeInSys
    /\ cmd.op \in {"setup", "relocate"} /\ cmd.pc = "mode" => tree.sys.vaults = tree.legacy.vaults
    /\ cmd.op \in {"setup", "relocate"} /\ cmd.pc = "remove" =>
          \A v \in Vaults : tree.legacy.vaults[v] \in {Gone, Torn, tree.sys.vaults[v]}

\* What each step of a setup or a teardown relies on of the steps before it.
SetupSound ==
    /\ cmd.op \in {"teardown", "purge"} /\ cmd.pc \in {"unowner", "purge"} => ~service.installed
    /\ cmd.op = "setup" /\ cmd.pc \in {"stop", "list", "stage", "verify", "own", "commit", "clear", "remove", "owner", "service", "check", "privsep"} =>
          tree.sys.there /\ tree.sys.mode = "0711"
    /\ cmd.op = "setup" /\ cmd.pc \in {"clear", "swap", "mode"} => cmd.mode = "0711"
    /\ cmd.op = "setup" /\ cmd.pc \in {"owner", "service"} => up["user"] = "down" /\ HomeInSys
    /\ cmd.op = "setup" /\ cmd.pc = "service" => tree.sys.owner
    /\ cmd.op = "setup" /\ cmd.pc \in {"check", "privsep"} => service.installed

\* The inductive invariant.
InstallInv ==
    /\ InstallTypes /\ TreesSound /\ Kept /\ DaemonsSound /\ StageSound /\ MoveSound /\ SetupSound

-----------------------------------------------------------------------------
(* Install: trees.                                                         *)

GoneAll(t) == \A v \in Vaults : t.vaults[v] = Gone

\* The trees by name.
LEMMA TreeOf ==
    ASSUME InstallTypes
    PROVE  /\ tree \in [Places -> Trees]
           /\ tree.legacy \in Trees /\ tree.sys \in Trees /\ tree.stage \in Trees
           /\ tree.ext \in Trees /\ tree.old \in Trees
           /\ "legacy" \in Places /\ "sys" \in Places /\ "stage" \in Places /\ "ext" \in Places
           /\ "old" \in Places
  BY DEF InstallTypes, Places

\* A new directory has nothing in it.
LEMMA EmptyTree ==
    /\ NoTree \in Trees /\ ~NoTree.there /\ GoneAll(NoTree)
    /\ \A mode \in {"0700", "0711"} : \A by \in {"owner", "root", "_byn"} :
         LET t == Empty(mode, by)
         IN t \in Trees /\ t.there /\ GoneAll(t) /\ t.mode = mode /\ t.by = by
  <1>1. [v \in Vaults |-> Gone] \in [Vaults -> Copies]
    BY DEF Copies
  <1>2. NoTree \in Trees /\ ~NoTree.there /\ GoneAll(NoTree)
    BY <1>1 DEF NoTree, Trees, GoneAll
  <1>. QED
    BY <1>2 DEF Empty, Trees, GoneAll

\* What every change of a directory keeps: its vaults.
LEMMA DataDirKeeps ==
    ASSUME NEW t \in Trees, ~t.there => GoneAll(t)
    PROVE  LET u == DataDir(t)
           IN /\ u \in Trees /\ u.there /\ u.vaults = t.vaults
              /\ u.mode = "0711" /\ u.by = "_byn" /\ (t.there => u.owner = t.owner)
  <1>1. CASE t.there
    BY <1>1 DEF DataDir, Trees
  <1>2. CASE ~t.there
    <2>1. DataDir(t) = Empty("0711", "_byn")
      BY <1>2 DEF DataDir
    <2>2. Empty("0711", "_byn") \in Trees /\ Empty("0711", "_byn").there /\ GoneAll(Empty("0711", "_byn"))
          /\ Empty("0711", "_byn").mode = "0711" /\ Empty("0711", "_byn").by = "_byn"
      BY EmptyTree
    <2>3. Empty("0711", "_byn").vaults = t.vaults
      BY <1>2, <2>2 DEF GoneAll, Trees
    <2>. QED
      BY <1>2, <2>1, <2>2, <2>3
  <1>. QED
    BY <1>1, <1>2

\* A start of the service's daemon keeps the vaults, and leaves a directory of
\* the account's its owner.
LEMMA StartedKeeps ==
    ASSUME NEW t \in Trees, ~t.there => GoneAll(t), InstallTypes, load.linux \/ t.there
    PROVE  LET u == Started(t)
           IN /\ u \in Trees /\ u.there /\ u.vaults = t.vaults /\ (t.there => u.owner = t.owner)
              /\ (t.mode = "0711" => u.mode = "0711")
              /\ (t.there => u.by = t.by) /\ (~t.there => u.by = "_byn")
  <1>1. CASE load.linux
    <2>. DEFINE d == DataDir(t)
    <2>1. d \in Trees /\ d.there /\ d.vaults = t.vaults /\ d.mode = "0711" /\ (t.there => d.owner = t.owner)
      BY DataDirKeeps
    <2>2. Started(t) = [d EXCEPT !.running = TRUE, !.by = IF t.there THEN t.by ELSE "_byn"]
      BY <1>1 DEF Started
    <2>. HIDE DEF d
    <2>3. (IF t.there THEN t.by ELSE "_byn") \in {"owner", "root", "_byn"}
      BY DEF Trees
    <2>. QED
      BY <2>1, <2>2, <2>3 DEF Trees
  <1>2. CASE ~load.linux
    BY <1>2 DEF Started, Trees
  <1>. QED
    BY <1>1, <1>2

\* So does every step of the staging.
LEMMA StagedKeeps ==
    /\ \A t \in Trees : \A from \in {"home", "import"} :
         Staged(t, from) \in Trees /\ Staged(t, from).vaults = t.vaults /\ Staged(t, from).there = t.there
    /\ \A t \in Trees :
         Transformed(t) \in Trees /\ Transformed(t).vaults = t.vaults /\ Transformed(t).there = t.there
    /\ \A t \in Trees :
         Owned(t) \in Trees /\ Owned(t).vaults = t.vaults /\ Owned(t).there = t.there /\ Owned(t).by = "_byn"
  BY DEF Staged, Artifacts, Transformed, Owned, Trees

\* The command's own record.
LEMMA GoesTo ==
    ASSUME InstallTypes, NEW pc \in Pcs, Goes(pc)
    PROVE  cmd'.pc = pc /\ cmd'.op = cmd.op /\ cmd'.mode = cmd.mode
           /\ cmd' \in [op : Commands, pc : Pcs, mode : {"none", "0700", "0711"}]
  BY DEF InstallTypes, Goes

\* When no command is under way there is nothing a command relies on.
LEMMA NoCommand ==
    ASSUME cmd' = NoCmd
    PROVE  /\ StageSound' /\ MoveSound' /\ SetupSound'
           /\ cmd' \in [op : Commands, pc : Pcs, mode : {"none", "0700", "0711"}]
  BY DEF NoCmd, StageSound, MoveSound, SetupSound, Moving, Commands, Pcs

\* A step that looks only: what is stored stays as it is.
LEMMA Stays ==
    ASSUME TreesSound, Kept, DaemonsSound, tree' = tree, up' = up, service' = service, owed' = owed
    PROVE  TreesSound' /\ Kept' /\ DaemonsSound'
  BY DEF TreesSound, Kept, DaemonsSound, HomeInSys

\* A step that changes the staging directory alone.
LEMMA StageOnly ==
    ASSUME InstallTypes, TreesSound, Kept, DaemonsSound, NEW t \in Trees,
           tree' = [tree EXCEPT !.stage = t], up' = up, service' = service, owed' = owed
    PROVE  /\ TreesSound' /\ Kept' /\ DaemonsSound' /\ tree' \in [Places -> Trees]
           /\ tree'.stage = t /\ tree'.legacy = tree.legacy /\ tree'.sys = tree.sys /\ tree'.ext = tree.ext
  <1>1. /\ tree' \in [Places -> Trees] /\ tree'.stage = t
        /\ \A p \in Places \ {"stage"} : tree'[p] = tree[p]
    BY TreeOf
  <1>2. tree'.legacy = tree.legacy /\ tree'.sys = tree.sys /\ tree'.ext = tree.ext /\ tree'.old = tree.old
    BY <1>1 DEF Places
  <1>. QED
    BY <1>1, <1>2 DEF TreesSound, Kept, DaemonsSound, HomeInSys

\* A command that fails removes its staging directory and nothing else.
LEMMA FailsKeeps ==
    ASSUME InstallInv, NEW how, Fails(how)
    PROVE  InstallInv'
  <1>1. cmd' = NoCmd /\ UNCHANGED <<load, up, service, owed>> /\ tree' = [tree EXCEPT !.stage = NoTree]
    BY DEF Fails, Ends
  <1>2. TreesSound' /\ Kept' /\ DaemonsSound' /\ tree' \in [Places -> Trees]
    BY <1>1, StageOnly, EmptyTree DEF InstallInv
  <1>. QED
    BY <1>1, <1>2, NoCommand DEF InstallInv, InstallTypes

\* A command begins, fails, or verifies what it staged.
LEMMA Looking ==
    /\ InstallInv /\ Begin => InstallInv'
    /\ InstallInv /\ Failure => InstallInv'
    /\ InstallInv /\ Verify => InstallInv'
  <1>1. ASSUME InstallInv, Begin PROVE InstallInv'
    <2>1. UNCHANGED <<load, tree, up, service, owed>>
      BY <1>1 DEF Begin, Begins
    <2>2. cmd' \in [op : Commands, pc : Pcs, mode : {"none", "0700", "0711"}]
          /\ \/ cmd'.pc = "helper" /\ cmd'.op = "setup"
             \/ cmd'.pc = "stop" /\ cmd'.op = "relocate"
             \/ cmd'.pc = "stage" /\ cmd'.op = "import"
             \/ cmd'.pc = "unservice" /\ cmd'.op \in {"teardown", "purge"}
      BY <1>1 DEF Begin, Begins, NoCmd, Commands, Moving, Pcs, MovePcs
    <2>3. TreesSound' /\ Kept' /\ DaemonsSound'
      BY <1>1, <2>1, Stays DEF InstallInv
    <2>4. StageSound' /\ MoveSound' /\ SetupSound'
      BY <2>2 DEF StageSound, MoveSound, SetupSound, Placed, MovePcs
    <2>. QED
      BY <1>1, <2>1, <2>2, <2>3, <2>4 DEF InstallInv, InstallTypes
  <1>2. ASSUME InstallInv, Failure PROVE InstallInv'
    BY <1>2, FailsKeeps DEF Failure
  <1>3. ASSUME InstallInv, Verify PROVE InstallInv'
    <2>1. CASE Fails("unverified")
      BY <1>3, <2>1, FailsKeeps
    <2>2. CASE /\ Verified(tree.stage)
               /\ Goes(IF cmd.op = "import" THEN "transform" ELSE "own")
               /\ UNCHANGED <<load, tree, up, service, last, crashes, owed>>
      <3>1. cmd.op \in Moving /\ cmd.pc = "verify" /\ InstallTypes
        BY <1>3 DEF Verify, At, InstallInv
      <3>. DEFINE pc == IF cmd.op = "import" THEN "transform" ELSE "own"
      <3>2. pc \in Pcs
        BY DEF Pcs, MovePcs
      <3>3. cmd'.pc = pc /\ cmd'.op = cmd.op /\ cmd' \in [op : Commands, pc : Pcs, mode : {"none", "0700", "0711"}]
        BY <2>2, <3>1, <3>2, GoesTo
      <3>4. TreesSound' /\ Kept' /\ DaemonsSound'
        BY <1>3, <2>2, Stays DEF InstallInv
      <3>5. StageSound'
        BY <1>3, <2>2, <3>1, <3>3 DEF StageSound, InstallInv, Moving
      <3>6. MoveSound' /\ SetupSound'
        BY <1>3, <2>2, <3>1, <3>3 DEF MoveSound, SetupSound, InstallInv, Moving, Placed, MovePcs
      <3>. QED
        BY <2>2, <3>1, <3>3, <3>4, <3>5, <3>6 DEF InstallInv, InstallTypes
    <2>. QED
      BY <1>3, <2>1, <2>2 DEF Verify
  <1>. QED
    BY <1>1, <1>2, <1>3

\* Staging a tree, dropping what an import may not carry, handing it to _byn.
LEMMA Staging == InstallInv /\ (Stage \/ Transform \/ ApplyOwnership) => InstallInv'
  <1>. SUFFICES ASSUME InstallInv PROVE (Stage \/ Transform \/ ApplyOwnership) => InstallInv'
    OBVIOUS
  <1>0. InstallTypes /\ TreesSound /\ Kept /\ DaemonsSound
    BY DEF InstallInv
  <1>a. ASSUME NEW t \in Trees, tree' = [tree EXCEPT !.stage = t],
               UNCHANGED <<load, up, service, owed>>,
               cmd' \in [op : Commands, pc : Pcs, mode : {"none", "0700", "0711"}],
               StageSound', MoveSound', SetupSound'
        PROVE  InstallInv'
    BY <1>0, <1>a, StageOnly DEF InstallInv, InstallTypes
  <1>1. ASSUME Stage PROVE InstallInv'
    <2>. DEFINE t == IF cmd.op = "import" THEN Staged(tree.ext, "import") ELSE Staged(tree.legacy, "home")
    <2>1. cmd.op \in Moving /\ cmd.pc = "stage"
      BY <1>1 DEF Stage, At
    <2>2. cmd'.pc = "verify" /\ cmd'.op = cmd.op /\ cmd' \in [op : Commands, pc : Pcs, mode : {"none", "0700", "0711"}]
      BY <1>0, <1>1, GoesTo DEF Stage, Pcs, MovePcs
    <2>3. t \in Trees /\ t.vaults = (IF cmd.op = "import" THEN tree.ext ELSE tree.legacy).vaults
          /\ t.there = (IF cmd.op = "import" THEN tree.ext ELSE tree.legacy).there
      BY <1>0, TreeOf, StagedKeeps
    <2>4. tree' = [tree EXCEPT !.stage = t] /\ UNCHANGED <<load, up, service, owed>>
      BY <1>1 DEF Stage
    <2>. HIDE DEF t
    <2>5. tree'.stage = t /\ tree'.legacy = tree.legacy /\ tree'.sys = tree.sys /\ tree'.ext = tree.ext
      BY <1>0, <2>3, <2>4, StageOnly
    <2>6. MoveSound'
      BY <2>1, <2>2, <2>4, <2>5 DEF InstallInv, MoveSound, Moving, Placed, MovePcs
    <2>7. SetupSound'
      BY <2>1, <2>2, <2>4, <2>5 DEF InstallInv, SetupSound, Moving, Placed, MovePcs
    <2>8. tree.ext.there /\ (cmd.op # "import" => tree.legacy.there)
      BY <2>1 DEF InstallInv, TreesSound, MoveSound, Moving, MovePcs
    <2>9. StageSound'
      BY <2>1, <2>2, <2>3, <2>5, <2>8 DEF StageSound, Moving
    <2>. QED
      BY <1>a, <2>2, <2>3, <2>4, <2>6, <2>7, <2>9
  <1>2. ASSUME Transform PROVE InstallInv'
    <2>1. cmd.op = "import" /\ cmd.pc = "transform"
      BY <1>2 DEF Transform, At
    <2>2. cmd'.pc = "own" /\ cmd'.op = cmd.op /\ cmd' \in [op : Commands, pc : Pcs, mode : {"none", "0700", "0711"}]
      BY <1>0, <1>2, GoesTo DEF Transform, Pcs, MovePcs
    <2>3. Transformed(tree.stage) \in Trees /\ Transformed(tree.stage).vaults = tree.stage.vaults
          /\ Transformed(tree.stage).there = tree.stage.there
      BY <1>0, TreeOf, StagedKeeps
    <2>4. tree' = [tree EXCEPT !.stage = Transformed(tree.stage)] /\ UNCHANGED <<load, up, service, owed>>
      BY <1>0, <1>2 DEF Transform
    <2>5. tree'.stage = Transformed(tree.stage) /\ tree'.legacy = tree.legacy /\ tree'.sys = tree.sys
          /\ tree'.ext = tree.ext
      BY <1>0, <2>3, <2>4, StageOnly
    <2>6. MoveSound' /\ SetupSound'
      BY <2>1, <2>2, <2>4, <2>5 DEF InstallInv, MoveSound, SetupSound, Moving, Placed, MovePcs
    <2>7. StageSound'
      BY <2>1, <2>2, <2>3, <2>5 DEF InstallInv, StageSound, Moving
    <2>. QED
      BY <1>a, <2>2, <2>3, <2>4, <2>6, <2>7
  <1>3. ASSUME ApplyOwnership PROVE InstallInv'
    <2>1. cmd.op \in Moving /\ cmd.pc = "own"
      BY <1>3 DEF ApplyOwnership, At
    <2>2. cmd'.pc = "commit" /\ cmd'.op = cmd.op /\ cmd' \in [op : Commands, pc : Pcs, mode : {"none", "0700", "0711"}]
      BY <1>0, <1>3, GoesTo DEF ApplyOwnership, Pcs, MovePcs
    <2>3. Owned(tree.stage) \in Trees /\ Owned(tree.stage).vaults = tree.stage.vaults
          /\ Owned(tree.stage).there = tree.stage.there /\ Owned(tree.stage).by = "_byn"
      BY <1>0, TreeOf, StagedKeeps
    <2>4. tree' = [tree EXCEPT !.stage = Owned(tree.stage)] /\ UNCHANGED <<load, up, service, owed>>
      BY <1>0, <1>3 DEF ApplyOwnership
    <2>5. tree'.stage = Owned(tree.stage) /\ tree'.legacy = tree.legacy /\ tree'.sys = tree.sys
          /\ tree'.ext = tree.ext
      BY <1>0, <2>3, <2>4, StageOnly
    <2>6. MoveSound' /\ SetupSound'
      BY <2>1, <2>2, <2>4, <2>5 DEF InstallInv, MoveSound, SetupSound, Moving, Placed, MovePcs
    <2>7. StageSound'
      BY <2>1, <2>2, <2>3, <2>5 DEF InstallInv, StageSound, Moving
    <2>. QED
      BY <1>a, <2>2, <2>3, <2>4, <2>6, <2>7
  <1>. QED
    BY <1>1, <1>2, <1>3

\* The existing destination is refused, or there is nothing in it to lose.
LEMMA Committing == Orderly /\ InstallInv /\ Commit => InstallInv'
  <1>. SUFFICES ASSUME Orderly, InstallInv, Commit PROVE InstallInv'
    OBVIOUS
  <1>0. InstallTypes /\ TreesSound /\ Kept /\ DaemonsSound /\ cmd.op \in Moving /\ cmd.pc = "commit"
    BY DEF InstallInv, Commit, At
  <1>1. CASE Fails("not empty")
    BY <1>1, FailsKeeps
  <1>2. CASE /\ ~NonEmpty(tree.sys)
             /\ cmd' = [cmd EXCEPT !.pc = "clear",
                                   !.mode = IF tree.sys.there THEN tree.sys.mode ELSE "none"]
             /\ UNCHANGED <<load, tree, up, service, last, crashes, owed>>
    <2>. DEFINE mode == IF tree.sys.there THEN tree.sys.mode ELSE "none"
    <2>1. mode \in {"none", "0700", "0711"}
      BY <1>0, TreeOf DEF Trees
    <2>2. cmd'.pc = "clear" /\ cmd'.op = cmd.op /\ cmd'.mode = mode /\ cmd' \in [op : Commands, pc : Pcs, mode : {"none", "0700", "0711"}]
      BY <1>0, <1>2, <2>1 DEF InstallTypes, Pcs, MovePcs
    <2>3. TreesSound' /\ Kept' /\ DaemonsSound'
      BY <1>0, <1>2, Stays
    <2>4. ~service.installed /\ GoneAll(tree.sys)
      BY <1>0, <1>2 DEF NonEmpty, HasArtifacts, TreesSound, DaemonsSound, GoneAll
    <2>5. StageSound'
      BY <1>0, <1>2, <2>2 DEF InstallInv, StageSound
    <2>6. MoveSound'
      BY <1>0, <1>2, <2>2, <2>4 DEF InstallInv, MoveSound, GoneAll, MovePcs
    <2>7. SetupSound'
      BY <1>0, <1>2, <2>2 DEF InstallInv, SetupSound
    <2>. QED
      BY <1>0, <1>2, <2>2, <2>3, <2>5, <2>6, <2>7 DEF InstallInv, InstallTypes
  <1>. QED
    BY <1>1, <1>2 DEF Commit, Forced, Orderly

\* The owner's daemon is stopped, and the old tree looked through.
LEMMA Stopping == InstallInv /\ (StopLegacy \/ List) => InstallInv'
  <1>. SUFFICES ASSUME InstallInv PROVE (StopLegacy \/ List) => InstallInv'
    OBVIOUS
  <1>0. InstallTypes /\ TreesSound /\ Kept /\ DaemonsSound
    BY DEF InstallInv
  <1>h. GoneAll(tree.legacy) => HomeInSys
    BY <1>0 DEF Kept, TreesSound, HomeInSys, GoneAll, Gone, Origins
  <1>a. ASSUME UNCHANGED <<load, tree, service, owed>>, up' \in [{"user", "svc"} -> {"down", "legacy", "sys"}],
               up'["user"] \in {"down", up["user"]}, up'["svc"] = up["svc"],
               cmd' \in [op : Commands, pc : Pcs, mode : {"none", "0700", "0711"}],
               StageSound', MoveSound', SetupSound'
        PROVE  InstallInv'
    <2>1. TreesSound' /\ Kept' /\ (HomeInSys => HomeInSys')
      BY <1>0, <1>a DEF TreesSound, Kept, HomeInSys
    <2>2. DaemonsSound'
      BY <1>0, <1>a, <2>1 DEF DaemonsSound
    <2>. QED
      BY <1>0, <1>a, <2>1, <2>2 DEF InstallInv, InstallTypes
  <1>1. ASSUME StopLegacy PROVE InstallInv'
    <2>0. cmd.op \in {"setup", "relocate"} /\ cmd.pc = "stop" /\ UNCHANGED <<load, tree, service, owed>>
      BY <1>1 DEF StopLegacy, At
    <2>1. CASE cmd.op = "setup" /\ ~tree.legacy.there /\ Goes("owner") /\ UNCHANGED <<up, last>>
      <3>1. cmd'.pc = "owner" /\ cmd'.op = cmd.op /\ cmd' \in [op : Commands, pc : Pcs, mode : {"none", "0700", "0711"}]
        BY <1>0, <2>1, GoesTo DEF Pcs
      <3>2. up["user"] = "down" /\ HomeInSys
        BY <1>0, <1>h, <2>1 DEF DaemonsSound, TreesSound, GoneAll
      <3>3. StageSound' /\ MoveSound'
        BY <2>1, <3>1 DEF StageSound, MoveSound, Moving, Placed, MovePcs
      <3>4. SetupSound'
        BY <2>0, <2>1, <3>1, <3>2 DEF InstallInv, SetupSound, HomeInSys
      <3>5. up' = up /\ up' \in [{"user", "svc"} -> {"down", "legacy", "sys"}]
        BY <1>0, <2>1 DEF InstallTypes
      <3>. QED
        BY <1>a, <2>0, <3>1, <3>3, <3>4, <3>5
    <2>2. CASE up' = Moved("legacy", "down") /\ Goes("list")
      <3>1. cmd'.pc = "list" /\ cmd'.op = cmd.op /\ cmd' \in [op : Commands, pc : Pcs, mode : {"none", "0700", "0711"}]
        BY <1>0, <2>2, GoesTo DEF Pcs
      <3>2. /\ up' \in [{"user", "svc"} -> {"down", "legacy", "sys"}]
            /\ up'["user"] = "down" /\ up'["svc"] = up["svc"]
        BY <1>0, <2>2 DEF InstallTypes, DaemonsSound, Moved
      <3>3. StageSound' /\ MoveSound'
        BY <2>0, <3>1, <3>2 DEF StageSound, MoveSound, Moving, Placed, MovePcs
      <3>4. SetupSound'
        BY <2>0, <3>1, <3>2 DEF InstallInv, SetupSound
      <3>. QED
        BY <1>a, <2>0, <3>1, <3>2, <3>3, <3>4
    <2>3. CASE Ends("still running") /\ UNCHANGED up
      <3>1. cmd' = NoCmd
        BY <2>3 DEF Ends
      <3>2. up' = up /\ up' \in [{"user", "svc"} -> {"down", "legacy", "sys"}]
        BY <1>0, <2>3 DEF InstallTypes
      <3>. QED
        BY <1>a, <2>0, <3>1, <3>2, NoCommand
    <2>. QED
      BY <1>1, <2>1, <2>2, <2>3 DEF StopLegacy
  <1>2. ASSUME List PROVE InstallInv'
    <2>0. /\ cmd.op \in {"setup", "relocate"} /\ cmd.pc = "list"
          /\ UNCHANGED <<load, tree, up, service, owed>> /\ up["user"] = "down"
          /\ up' \in [{"user", "svc"} -> {"down", "legacy", "sys"}]
      BY <1>0, <1>2 DEF List, At, InstallInv, MoveSound, InstallTypes
    <2>1. CASE cmd' = NoCmd
      BY <1>a, <2>0, <2>1, NoCommand
    <2>2. CASE tree.legacy.there /\ HasArtifacts(tree.legacy) /\ Goes("stage")
      <3>1. cmd'.pc = "stage" /\ cmd'.op = cmd.op /\ cmd' \in [op : Commands, pc : Pcs, mode : {"none", "0700", "0711"}]
        BY <1>0, <2>2, GoesTo DEF Pcs, MovePcs
      <3>3. StageSound' /\ MoveSound'
        BY <2>0, <2>2, <3>1 DEF StageSound, MoveSound, Moving, Placed, MovePcs
      <3>4. SetupSound'
        BY <2>0, <3>1 DEF InstallInv, SetupSound
      <3>. QED
        BY <1>a, <2>0, <3>1, <3>3, <3>4
    <2>3. CASE ~HasArtifacts(tree.legacy) /\ cmd.op = "setup" /\ Goes("owner")
      <3>1. cmd'.pc = "owner" /\ cmd'.op = cmd.op /\ cmd' \in [op : Commands, pc : Pcs, mode : {"none", "0700", "0711"}]
        BY <1>0, <2>3, GoesTo DEF Pcs
      <3>2. HomeInSys
        BY <1>h, <2>3 DEF HasArtifacts, GoneAll
      <3>3. StageSound' /\ MoveSound'
        BY <2>3, <3>1 DEF StageSound, MoveSound, Moving, Placed, MovePcs
      <3>4. SetupSound'
        BY <2>0, <2>3, <3>1, <3>2 DEF InstallInv, SetupSound, HomeInSys
      <3>. QED
        BY <1>a, <2>0, <3>1, <3>3, <3>4
    <2>. QED
      BY <1>2, <2>1, <2>2, <2>3 DEF List, Ends
  <1>. QED
    BY <1>1, <1>2

\* A step that changes one of the two trees.
LEMMA SysOnly ==
    ASSUME InstallTypes, NEW t \in Trees, tree' = [tree EXCEPT !.sys = t]
    PROVE  /\ tree' \in [Places -> Trees] /\ tree'.sys = t /\ tree'.legacy = tree.legacy
           /\ tree'.stage = tree.stage /\ tree'.ext = tree.ext /\ tree'.old = tree.old
  <1>1. /\ tree' \in [Places -> Trees] /\ tree'.sys = t
        /\ \A p \in Places \ {"sys"} : tree'[p] = tree[p]
    BY TreeOf
  <1>. QED
    BY <1>1 DEF Places

LEMMA LegacyOnly ==
    ASSUME InstallTypes, NEW t \in Trees, tree' = [tree EXCEPT !.legacy = t]
    PROVE  /\ tree' \in [Places -> Trees] /\ tree'.legacy = t /\ tree'.sys = tree.sys
           /\ tree'.stage = tree.stage /\ tree'.ext = tree.ext /\ tree'.old = tree.old
  <1>1. /\ tree' \in [Places -> Trees] /\ tree'.legacy = t
        /\ \A p \in Places \ {"legacy"} : tree'[p] = tree[p]
    BY TreeOf
  <1>. QED
    BY <1>1 DEF Places

\* A step that changes the system tree and keeps its vaults, its owner record
\* and its mode, and takes it from nobody.
LEMMA SysKept ==
    ASSUME InstallTypes, TreesSound, Kept, DaemonsSound, NEW t \in Trees, tree' = [tree EXCEPT !.sys = t],
           t.vaults = tree.sys.vaults, t.there \/ ~tree.sys.there, t.there => t.by = "_byn",
           t.there = FALSE => tree.sys.there = FALSE,
           service.installed => t.owner /\ t.mode = "0711",
           UNCHANGED <<up, service, owed>>
    PROVE  TreesSound' /\ Kept' /\ DaemonsSound' /\ (HomeInSys => HomeInSys')
  <1>1. /\ tree' \in [Places -> Trees] /\ tree'.sys = t /\ tree'.legacy = tree.legacy
        /\ tree'.stage = tree.stage /\ tree'.ext = tree.ext /\ tree'.old = tree.old
    BY SysOnly
  <1>2. t.there \in BOOLEAN /\ tree.sys.there \in BOOLEAN
    BY TreeOf DEF Trees
  <1>3. HomeInSys => HomeInSys'
    BY <1>1 DEF HomeInSys
  <1>4. TreesSound'
    BY <1>1, <1>2 DEF TreesSound
  <1>5. Kept'
    BY <1>1 DEF Kept
  <1>6. DaemonsSound'
    BY <1>1, <1>2, <1>3 DEF DaemonsSound
  <1>. QED
    BY <1>3, <1>4, <1>5, <1>6

\* The empty destination is removed.
LEMMA Clearing == InstallInv /\ ClearEmpty => InstallInv'
  <1>. SUFFICES ASSUME InstallInv, ClearEmpty PROVE InstallInv'
    OBVIOUS
  <1>0. /\ InstallTypes /\ TreesSound /\ Kept /\ DaemonsSound
        /\ cmd.op \in Moving /\ cmd.pc = "clear" /\ ~service.installed /\ GoneAll(tree.sys)
        /\ tree' = [tree EXCEPT !.sys = NoTree] /\ UNCHANGED <<load, up, service, owed>>
    BY DEF InstallInv, ClearEmpty, At, MoveSound, GoneAll, Placed
  <1>1. cmd'.pc = "swap" /\ cmd'.op = cmd.op /\ cmd'.mode = cmd.mode /\ cmd' \in [op : Commands, pc : Pcs, mode : {"none", "0700", "0711"}]
    BY <1>0, GoesTo DEF ClearEmpty, Pcs, MovePcs
  <1>2. /\ tree' \in [Places -> Trees] /\ tree'.sys = NoTree /\ tree'.legacy = tree.legacy
        /\ tree'.stage = tree.stage /\ tree'.ext = tree.ext /\ tree'.old = tree.old
    BY <1>0, SysOnly, EmptyTree
  <1>3. TreesSound'
    BY <1>0, <1>2, EmptyTree DEF TreesSound, GoneAll
  <1>4. Kept'
    BY <1>0, <1>2 DEF Kept, GoneAll, Gone, Origins
  <1>5. DaemonsSound'
    BY <1>0, <1>2 DEF DaemonsSound
  <1>6. StageSound'
    BY <1>0, <1>1, <1>2 DEF InstallInv, StageSound
  <1>7. MoveSound'
    BY <1>0, <1>1, <1>2, EmptyTree DEF InstallInv, MoveSound, Placed, MovePcs, GoneAll
  <1>8. SetupSound'
    BY <1>0, <1>1, <1>2 DEF InstallInv, SetupSound
  <1>. QED
    BY <1>0, <1>1, <1>2, <1>3, <1>4, <1>5, <1>6, <1>7, <1>8 DEF InstallInv, InstallTypes

\* Nothing is moved aside without force.
LEMMA NoAside == InstallInv => ~ClearBackup /\ ~MoveAside /\ ~Replace /\ ~DropBackup
  BY DEF InstallInv, InstallTypes, Pcs, MovePcs, ClearBackup, MoveAside, Replace, DropBackup, At

\* The staged tree takes the place of the destination.
LEMMA Swapping == InstallInv /\ Swap => InstallInv'
  <1>. SUFFICES ASSUME InstallInv, Swap PROVE InstallInv'
    OBVIOUS
  <1>0. /\ InstallTypes /\ TreesSound /\ Kept /\ DaemonsSound
        /\ cmd.op \in Moving /\ cmd.pc = "swap" /\ ~service.installed /\ GoneAll(tree.sys)
        /\ ~tree.old.there /\ tree.stage.there /\ tree.stage.by = "_byn"
    BY EmptyTree DEF InstallInv, Swap, At, MoveSound, StageSound, TreesSound, GoneAll, Placed
  <1>1. CASE Fails("failed")
    BY <1>1, FailsKeeps
  <1>2. CASE /\ tree' = [tree EXCEPT !.sys = tree.stage, !.stage = NoTree]
             /\ owed' = [owed EXCEPT !["ext"] = [v \in Vaults |->
                    IF tree.stage.vaults[v].of = "ext" THEN tree.stage.vaults[v].n ELSE @[v]]]
             /\ Goes("mode")
             /\ UNCHANGED <<load, up, service, last, crashes>>
    <2>1. cmd'.pc = "mode" /\ cmd'.op = cmd.op /\ cmd'.mode = cmd.mode /\ cmd' \in [op : Commands, pc : Pcs, mode : {"none", "0700", "0711"}]
      BY <1>0, <1>2, GoesTo DEF Pcs, MovePcs
    <2>2. /\ tree' \in [Places -> Trees] /\ tree'.sys = tree.stage
          /\ \A p \in Places \ {"sys", "stage"} : tree'[p] = tree[p]
      BY <1>0, <1>2, TreeOf, EmptyTree
    <2>3. tree'.legacy = tree.legacy /\ tree'.ext = tree.ext /\ tree'.old = tree.old
      BY <2>2 DEF Places
    <2>4. \A v \in Vaults : tree.stage.vaults[v] \in Copies
      BY <1>0, TreeOf DEF Trees
    <2>5. /\ owed' \in [Origins -> [Vaults -> Nat]]
          /\ owed'["home"] = owed["home"]
          /\ \A v \in Vaults : owed'["ext"][v] =
                IF tree.stage.vaults[v].of = "ext" THEN tree.stage.vaults[v].n ELSE owed["ext"][v]
      BY <1>0, <1>2, <2>4 DEF InstallTypes, Copies, Origins, Gone, Torn
    <2>6. TreesSound'
      BY <1>0, <2>2, <2>3 DEF TreesSound
    <2>7. Kept'
      <3>1. ASSUME NEW v \in Vaults, owed'["home"][v] # 0
            PROVE  \E p \in {"legacy", "sys", "ext"} :
                      tree'[p].vaults[v] = [of |-> "home", n |-> owed'["home"][v]]
        <4>1. \E p \in {"legacy", "sys", "ext"} :
                 tree[p].vaults[v] = [of |-> "home", n |-> owed["home"][v]]
          BY <1>0, <2>5, <3>1 DEF Kept, Origins
        <4>2. tree.legacy.vaults[v] = [of |-> "home", n |-> owed["home"][v]]
          BY <1>0, <4>1 DEF TreesSound, GoneAll, Gone
        <4>. QED
          BY <2>3, <2>5, <4>2
      <3>2. ASSUME NEW v \in Vaults, owed'["ext"][v] # 0
            PROVE  \E p \in {"legacy", "sys", "ext"} :
                      tree'[p].vaults[v] = [of |-> "ext", n |-> owed'["ext"][v]]
        <4>1. CASE tree.stage.vaults[v].of = "ext"
          <5>1. tree.stage.vaults[v] = [of |-> "ext", n |-> tree.stage.vaults[v].n]
            BY <2>4, <4>1 DEF Copies, Gone, Torn, Origins
          <5>. QED
            BY <2>2, <2>5, <4>1, <5>1
        <4>2. CASE tree.stage.vaults[v].of # "ext"
          <5>1. \E p \in {"legacy", "sys", "ext"} :
                   tree[p].vaults[v] = [of |-> "ext", n |-> owed["ext"][v]]
            BY <1>0, <2>5, <3>2, <4>2 DEF Kept, Origins
          <5>2. tree.sys.vaults[v] = Gone
            BY <1>0 DEF GoneAll
          <5>. QED
            BY <2>3, <2>5, <4>2, <5>1, <5>2 DEF Gone
        <4>. QED
          BY <4>1, <4>2
      <3>. QED
        BY <3>1, <3>2 DEF Kept, Origins
    <2>8. DaemonsSound'
      BY <1>0, <1>2, <2>2, <2>3 DEF DaemonsSound
    <2>9. StageSound'
      BY <2>1 DEF StageSound
    <2>10. MoveSound'
      <3>1. cmd.op # "import" => HomeInSys' /\ tree'.sys.vaults = tree'.legacy.vaults
        <4>1. cmd.op # "import" => tree.stage.vaults = tree.legacy.vaults
          BY <1>0 DEF InstallInv, StageSound, Moving
        <4>2. \A v \in Vaults : owed["home"][v] # 0 =>
                 tree.legacy.vaults[v] = [of |-> "home", n |-> owed["home"][v]]
          BY <1>0 DEF Kept, TreesSound, GoneAll, Gone, Origins
        <4>. QED
          BY <2>2, <2>3, <2>5, <4>1, <4>2 DEF HomeInSys
      <3>. QED
        BY <1>0, <1>2, <2>1, <2>2, <2>3, <3>1 DEF InstallInv, MoveSound, Placed, Moving, MovePcs
    <2>11. SetupSound'
      BY <1>0, <1>2, <2>1 DEF InstallInv, SetupSound
    <2>. QED
      BY <1>0, <1>2, <2>1, <2>2, <2>5, <2>6, <2>7, <2>8, <2>9, <2>10, <2>11 DEF InstallInv, InstallTypes
  <1>. QED
    BY <1>0, <1>1, <1>2 DEF Swap

\* The destination gets the mode it had.
LEMMA Restoring == InstallInv /\ RestoreMode => InstallInv'
  <1>. SUFFICES ASSUME InstallInv, RestoreMode PROVE InstallInv'
    OBVIOUS
  <1>0. /\ InstallTypes /\ TreesSound /\ Kept /\ DaemonsSound /\ ~service.installed
        /\ cmd.op \in Moving /\ cmd.pc = "mode" /\ UNCHANGED <<load, up, service, owed>>
        /\ tree.sys.there
    BY DEF InstallInv, RestoreMode, At, MoveSound, Placed
  <1>. DEFINE t == IF cmd.mode = "none" THEN tree.sys ELSE [tree.sys EXCEPT !.mode = cmd.mode]
  <1>1. t \in Trees /\ t.vaults = tree.sys.vaults /\ t.there /\ t.by = tree.sys.by
        /\ (cmd.mode = "0711" => t.mode = "0711")
    BY <1>0, TreeOf DEF InstallTypes, Trees
  <1>2. tree' = [tree EXCEPT !.sys = t]
    BY <1>0, TreeOf DEF RestoreMode
  <1>. HIDE DEF t
  <1>3. tree.sys.by = "_byn"
    BY <1>0 DEF TreesSound
  <1>4. TreesSound' /\ Kept' /\ DaemonsSound' /\ (HomeInSys => HomeInSys')
    BY <1>0, <1>1, <1>2, <1>3, SysKept
  <1>5. /\ tree' \in [Places -> Trees] /\ tree'.sys = t /\ tree'.legacy = tree.legacy
        /\ tree'.stage = tree.stage /\ tree'.ext = tree.ext
    BY <1>0, <1>1, <1>2, SysOnly
  <1>6. CASE cmd.op = "import" /\ Ends("ok")
    BY <1>0, <1>4, <1>5, <1>6, NoCommand DEF InstallInv, InstallTypes, Ends
  <1>7. CASE cmd.op # "import" /\ Goes("remove")
    <2>1. cmd'.pc = "remove" /\ cmd'.op = cmd.op /\ cmd' \in [op : Commands, pc : Pcs, mode : {"none", "0700", "0711"}]
      BY <1>0, <1>7, GoesTo DEF Pcs
    <2>2. StageSound'
      BY <2>1 DEF StageSound
    <2>3. HomeInSys /\ tree.sys.vaults = tree.legacy.vaults /\ tree.legacy.there /\ up["user"] = "down"
      BY <1>0, <1>7 DEF InstallInv, MoveSound, Moving, MovePcs, Placed
    <2>4. MoveSound'
      BY <1>0, <1>1, <1>4, <1>5, <2>1, <2>3 DEF MoveSound, Placed, MovePcs
    <2>5. SetupSound'
      BY <1>0, <1>1, <1>5, <2>1 DEF InstallInv, SetupSound
    <2>. QED
      BY <1>0, <1>4, <1>5, <2>1, <2>2, <2>4, <2>5 DEF InstallInv, InstallTypes
  <1>. QED
    BY <1>6, <1>7 DEF RestoreMode, AfterAdopt

\* The old tree goes a file at a time: what is left of it is what was copied.
LEMMA Removing == InstallInv /\ RemoveLegacy => InstallInv'
  <1>. SUFFICES ASSUME InstallInv, RemoveLegacy PROVE InstallInv'
    OBVIOUS
  <1>0. /\ InstallTypes /\ TreesSound /\ Kept /\ DaemonsSound /\ ~service.installed
        /\ cmd.op \in {"setup", "relocate"} /\ cmd.pc = "remove" /\ UNCHANGED <<load, service, owed>>
        /\ tree.sys.there /\ tree.legacy.there /\ HomeInSys /\ up["user"] = "down"
        /\ \A v \in Vaults : tree.legacy.vaults[v] \in {Gone, Torn, tree.sys.vaults[v]}
    BY DEF InstallInv, RemoveLegacy, At, MoveSound, Placed, Moving
  <1>1. ASSUME NEW v \in Vaults, tree.legacy.vaults[v] # Gone,
               tree' = [tree EXCEPT !.legacy.vaults[v] = IF Whole(@) THEN Torn ELSE Gone],
               UNCHANGED <<cmd, last, up>>
        PROVE  InstallInv'
    <2>. DEFINE c == IF Whole(tree.legacy.vaults[v]) THEN Torn ELSE Gone
                t == [tree.legacy EXCEPT !.vaults[v] = c]
    <2>1. /\ t \in Trees /\ t.there = tree.legacy.there /\ t.vaults[v] = c /\ c \in {Gone, Torn}
          /\ \A w \in Vaults : w # v => t.vaults[w] = tree.legacy.vaults[w]
      BY <1>0, TreeOf DEF Trees, Copies
    <2>2. tree' = [tree EXCEPT !.legacy = t]
      BY <1>0, <1>1, TreeOf
    <2>. HIDE DEF t, c
    <2>3. /\ tree' \in [Places -> Trees] /\ tree'.legacy = t /\ tree'.sys = tree.sys
          /\ tree'.stage = tree.stage /\ tree'.ext = tree.ext /\ tree'.old = tree.old
      BY <1>0, <2>1, <2>2, LegacyOnly
    <2>4. TreesSound'
      BY <1>0, <2>1, <2>3 DEF TreesSound
    <2>5. Kept'
      BY <1>0, <2>1, <2>3 DEF Kept, Gone, Torn, Origins
    <2>6. DaemonsSound' /\ HomeInSys'
      BY <1>0, <1>1, <2>1, <2>3 DEF DaemonsSound, HomeInSys
    <2>7. StageSound'
      BY <1>0, <1>1 DEF StageSound, Moving
    <2>8. MoveSound'
      BY <1>0, <1>1, <2>1, <2>3, <2>6 DEF MoveSound, MovePcs
    <2>9. SetupSound'
      BY <1>0, <1>1, <2>3 DEF InstallInv, SetupSound
    <2>. QED
      BY <1>0, <1>1, <2>3, <2>4, <2>5, <2>6, <2>7, <2>8, <2>9 DEF InstallInv, InstallTypes
  <1>2. ASSUME \A v \in Vaults : tree.legacy.vaults[v] = Gone,
               tree' = [tree EXCEPT !.legacy = NoTree], up' = Moved("legacy", "gone"),
               IF cmd.op = "setup" THEN Goes("owner") /\ UNCHANGED last ELSE Ends("ok")
        PROVE  InstallInv'
    <2>1. up' = up
      BY <1>0, <1>2 DEF Moved, InstallTypes, DaemonsSound
    <2>2. /\ tree' \in [Places -> Trees] /\ tree'.legacy = NoTree /\ tree'.sys = tree.sys
          /\ tree'.stage = tree.stage /\ tree'.ext = tree.ext /\ tree'.old = tree.old
      BY <1>0, <1>2, EmptyTree, LegacyOnly
    <2>3. TreesSound'
      BY <1>0, <2>2, EmptyTree DEF TreesSound, GoneAll
    <2>4. Kept'
      BY <1>0, <1>2, <2>2 DEF Kept, Gone, Origins
    <2>5. DaemonsSound' /\ HomeInSys'
      BY <1>0, <2>1, <2>2 DEF DaemonsSound, HomeInSys
    <2>6. CASE Ends("ok")
      BY <1>0, <2>1, <2>2, <2>3, <2>4, <2>5, <2>6, NoCommand DEF InstallInv, InstallTypes, Ends
    <2>7. CASE cmd.op = "setup" /\ Goes("owner")
      <3>1. cmd'.pc = "owner" /\ cmd'.op = cmd.op /\ cmd' \in [op : Commands, pc : Pcs, mode : {"none", "0700", "0711"}]
        BY <1>0, <2>7, GoesTo DEF Pcs
      <3>2. StageSound' /\ MoveSound'
        BY <3>1 DEF StageSound, MoveSound, Placed, MovePcs
      <3>3. SetupSound'
        BY <1>0, <2>1, <2>2, <2>5, <2>7, <3>1 DEF InstallInv, SetupSound
      <3>. QED
        BY <1>0, <2>1, <2>2, <2>3, <2>4, <2>5, <3>1, <3>2, <3>3 DEF InstallInv, InstallTypes
    <2>. QED
      BY <1>2, <2>6, <2>7
  <1>. QED
    BY <1>1, <1>2 DEF RemoveLegacy

\* What a step does to the system tree and nothing else, and what the command
\* then is.
LEMMA SysStep ==
    ASSUME InstallInv, NEW t \in Trees, tree' = [tree EXCEPT !.sys = t],
           t.vaults = tree.sys.vaults, t.there, t.by = "_byn",
           UNCHANGED <<load, owed>>,
           up' \in [{"user", "svc"} -> {"down", "legacy", "sys"}], up'["user"] = up["user"],
           up'["svc"] \in {"down", "sys"}, up'["svc"] = "sys" => service'.installed,
           service' \in [users : BOOLEAN, installed : BOOLEAN],
           service'.installed =>
              t.owner /\ t.mode = "0711" /\ up["user"] = "down" /\ HomeInSys,
           cmd' \in [op : Commands, pc : Pcs, mode : {"none", "0700", "0711"}],
           StageSound', MoveSound', SetupSound'
    PROVE  InstallInv'
  <1>0. InstallTypes /\ TreesSound /\ Kept /\ DaemonsSound
    BY DEF InstallInv
  <1>1. /\ tree' \in [Places -> Trees] /\ tree'.sys = t /\ tree'.legacy = tree.legacy
        /\ tree'.stage = tree.stage /\ tree'.ext = tree.ext /\ tree'.old = tree.old
    BY <1>0, SysOnly
  <1>2. HomeInSys => HomeInSys'
    BY <1>1 DEF HomeInSys
  <1>3. TreesSound'
    BY <1>0, <1>1 DEF TreesSound
  <1>4. Kept'
    BY <1>0, <1>1 DEF Kept
  <1>5. DaemonsSound'
    BY <1>0, <1>1, <1>2 DEF DaemonsSound
  <1>. QED
    BY <1>0, <1>1, <1>3, <1>4, <1>5 DEF InstallInv, InstallTypes

\* The accounts and the data directory.
LEMMA Helping == InstallInv /\ InstallHelper => InstallInv'
  <1>. SUFFICES ASSUME InstallInv, InstallHelper PROVE InstallInv'
    OBVIOUS
  <1>0. /\ InstallTypes /\ TreesSound /\ DaemonsSound /\ cmd.op = "setup" /\ cmd.pc = "helper"
        /\ UNCHANGED <<load, up, owed>>
    BY DEF InstallInv, InstallHelper, At
  <1>. DEFINE t == DataDir(tree.sys)
  <1>1. /\ t \in Trees /\ t.there /\ t.vaults = tree.sys.vaults /\ t.mode = "0711" /\ t.by = "_byn"
        /\ (tree.sys.there => t.owner = tree.sys.owner)
    BY <1>0, TreeOf, DataDirKeeps DEF TreesSound, GoneAll
  <1>2. tree' = [tree EXCEPT !.sys = t]
    BY <1>0, TreeOf DEF InstallHelper
  <1>. HIDE DEF t
  <1>3. cmd'.pc = "stop" /\ cmd'.op = cmd.op /\ cmd' \in [op : Commands, pc : Pcs, mode : {"none", "0700", "0711"}]
    BY <1>0, GoesTo DEF InstallHelper, Pcs
  <1>4. /\ service' \in [users : BOOLEAN, installed : BOOLEAN] /\ service'.installed = service.installed
        /\ up' \in [{"user", "svc"} -> {"down", "legacy", "sys"}]
    BY <1>0 DEF InstallHelper, InstallTypes
  <1>5. tree'.sys = t
    BY <1>0, <1>1, <1>2, SysOnly
  <1>6. StageSound' /\ MoveSound' /\ SetupSound'
    BY <1>0, <1>1, <1>3, <1>5 DEF StageSound, MoveSound, SetupSound, Placed, MovePcs
  <1>. QED
    BY <1>0, <1>1, <1>2, <1>3, <1>4, <1>6, SysStep DEF DaemonsSound

\* The owner record.
LEMMA Owning == InstallInv /\ WriteOwner => InstallInv'
  <1>. SUFFICES ASSUME InstallInv, WriteOwner PROVE InstallInv'
    OBVIOUS
  <1>0. /\ InstallTypes /\ TreesSound /\ DaemonsSound /\ cmd.op = "setup" /\ cmd.pc = "owner"
        /\ UNCHANGED <<load, up, service, owed>> /\ tree.sys.there /\ tree.sys.mode = "0711"
        /\ up["user"] = "down" /\ HomeInSys
    BY DEF InstallInv, WriteOwner, At, SetupSound
  <1>. DEFINE t == [tree.sys EXCEPT !.owner = TRUE]
  <1>1. /\ t \in Trees /\ t.there /\ t.vaults = tree.sys.vaults /\ t.mode = tree.sys.mode
        /\ t.by = tree.sys.by /\ t.owner
    BY <1>0, TreeOf DEF Trees
  <1>2. tree' = [tree EXCEPT !.sys = t] /\ Goes("service")
    BY <1>0, TreeOf DEF WriteOwner
  <1>. HIDE DEF t
  <1>3. cmd'.pc = "service" /\ cmd'.op = cmd.op /\ cmd' \in [op : Commands, pc : Pcs, mode : {"none", "0700", "0711"}]
    BY <1>0, <1>2, GoesTo DEF Pcs
  <1>4. tree'.sys = t /\ HomeInSys'
    BY <1>0, <1>1, <1>2, SysOnly DEF HomeInSys
  <1>5. StageSound' /\ MoveSound' /\ SetupSound'
    BY <1>0, <1>1, <1>3, <1>4 DEF StageSound, MoveSound, SetupSound, Placed, MovePcs
  <1>6. /\ service' \in [users : BOOLEAN, installed : BOOLEAN]
        /\ up' \in [{"user", "svc"} -> {"down", "legacy", "sys"}] /\ tree.sys.by = "_byn"
    BY <1>0 DEF InstallTypes, TreesSound
  <1>. QED
    BY <1>0, <1>1, <1>2, <1>3, <1>5, <1>6, SysStep DEF DaemonsSound

\* The service's daemon is started on what setup put in place.
LEMMA Serving == InstallInv /\ (InstallService \/ EnablePrivsep) => InstallInv'
  <1>. SUFFICES ASSUME InstallInv, InstallService \/ EnablePrivsep PROVE InstallInv'
    OBVIOUS
  <1>0. /\ InstallTypes /\ TreesSound /\ DaemonsSound /\ cmd.op = "setup"
        /\ cmd.pc \in {"service", "privsep"} /\ UNCHANGED <<load, owed>>
    BY DEF InstallInv, InstallService, EnablePrivsep, At
  <1>1. /\ tree.sys.there /\ tree.sys.mode = "0711" /\ tree.sys.owner /\ tree.sys.by = "_byn"
        /\ up["user"] = "down" /\ HomeInSys
    BY <1>0 DEF InstallInv, SetupSound, DaemonsSound, TreesSound
  <1>. DEFINE t == Started(tree.sys)
  <1>2. /\ t \in Trees /\ t.there /\ t.vaults = tree.sys.vaults /\ t.mode = "0711" /\ t.by = "_byn"
        /\ t.owner
    BY <1>0, <1>1, TreeOf, StartedKeeps
  <1>3. /\ tree' = [tree EXCEPT !.sys = t] \/ tree' = [tree EXCEPT !.sys = tree.sys]
        /\ up' \in [{"user", "svc"} -> {"down", "legacy", "sys"}] /\ up'["user"] = up["user"]
        /\ up'["svc"] \in {"down", "sys"}
    BY <1>0, TreeOf DEF InstallService, EnablePrivsep, InstallTypes, DaemonsSound
  <1>. HIDE DEF t
  <1>4. service' \in [users : BOOLEAN, installed : BOOLEAN] /\ service'.installed
    BY <1>0 DEF InstallService, EnablePrivsep, InstallTypes, InstallInv, SetupSound, At
  <1>5. cmd' \in [op : Commands, pc : Pcs, mode : {"none", "0700", "0711"}] /\ StageSound' /\ MoveSound' /\ SetupSound'
    <2>1. CASE Goes("check")
      <3>1. cmd'.pc = "check" /\ cmd'.op = cmd.op /\ cmd' \in [op : Commands, pc : Pcs, mode : {"none", "0700", "0711"}]
        BY <1>0, <2>1, GoesTo DEF Pcs
      <3>2. tree'.sys \in {t, tree.sys}
        BY <1>0, <1>2, <1>3, TreeOf, SysOnly
      <3>. QED
        BY <1>0, <1>1, <1>2, <1>4, <3>1, <3>2 DEF StageSound, MoveSound, SetupSound, Placed, MovePcs
    <2>2. CASE cmd' = NoCmd
      BY <2>2, NoCommand
    <2>. QED
      BY <2>1, <2>2 DEF InstallService, EnablePrivsep, Ends
  <1>6. CASE tree' = [tree EXCEPT !.sys = t]
    BY <1>0, <1>1, <1>2, <1>3, <1>4, <1>5, <1>6, SysStep
  <1>7. CASE tree' = [tree EXCEPT !.sys = tree.sys]
    BY <1>0, <1>1, <1>3, <1>4, <1>5, <1>7, TreeOf, SysStep
  <1>. QED
    BY <1>3, <1>6, <1>7

\* What was provisioned is looked at again.
LEMMA Checking == InstallInv /\ VerifyProvisioned => InstallInv'
  <1>. SUFFICES ASSUME InstallInv, VerifyProvisioned PROVE InstallInv'
    OBVIOUS
  <1>0. /\ InstallTypes /\ TreesSound /\ Kept /\ DaemonsSound /\ cmd.op = "setup" /\ cmd.pc = "check"
        /\ UNCHANGED <<load, tree, up, service, owed>>
    BY DEF InstallInv, VerifyProvisioned, At
  <1>1. TreesSound' /\ Kept' /\ DaemonsSound'
    BY <1>0, Stays
  <1>2. CASE Goes("privsep")
    <2>1. cmd'.pc = "privsep" /\ cmd'.op = cmd.op /\ cmd' \in [op : Commands, pc : Pcs, mode : {"none", "0700", "0711"}]
      BY <1>0, <1>2, GoesTo DEF Pcs
    <2>2. StageSound' /\ MoveSound'
      BY <2>1 DEF StageSound, MoveSound, Placed, MovePcs
    <2>3. SetupSound'
      BY <1>0, <2>1 DEF InstallInv, SetupSound
    <2>. QED
      BY <1>0, <1>1, <2>1, <2>2, <2>3 DEF InstallInv, InstallTypes
  <1>3. CASE Ends("failed")
    BY <1>0, <1>1, <1>3, NoCommand DEF InstallInv, InstallTypes, Ends
  <1>. QED
    BY <1>2, <1>3 DEF VerifyProvisioned

\* Teardown and purge.
LEMMA TakingDown == InstallInv /\ (Unservice \/ RemoveOwner) => InstallInv'
  <1>. SUFFICES ASSUME InstallInv PROVE (Unservice \/ RemoveOwner) => InstallInv'
    OBVIOUS
  <1>0. InstallTypes /\ TreesSound /\ Kept /\ DaemonsSound
    BY DEF InstallInv
  <1>1. ASSUME Unservice PROVE InstallInv'
    <2>1. cmd.op \in {"teardown", "purge"} /\ UNCHANGED <<load, tree, owed>>
      BY <1>1 DEF Unservice, At
    <2>2. cmd'.pc = "unowner" /\ cmd'.op = cmd.op /\ cmd' \in [op : Commands, pc : Pcs, mode : {"none", "0700", "0711"}]
      BY <1>0, <1>1, GoesTo DEF Unservice, Pcs
    <2>3. /\ service' \in [users : BOOLEAN, installed : BOOLEAN] /\ ~service'.installed
          /\ up' \in [{"user", "svc"} -> {"down", "legacy", "sys"}] /\ up'["svc"] = "down"
          /\ up'["user"] = up["user"]
      BY <1>0, <1>1 DEF Unservice, InstallTypes
    <2>4. TreesSound' /\ Kept' /\ DaemonsSound'
      BY <1>0, <2>1, <2>3 DEF TreesSound, Kept, DaemonsSound
    <2>5. StageSound' /\ MoveSound' /\ SetupSound'
      BY <2>1, <2>2, <2>3 DEF StageSound, MoveSound, SetupSound, Moving
    <2>. QED
      BY <1>0, <2>1, <2>2, <2>3, <2>4, <2>5 DEF InstallInv, InstallTypes
  <1>2. ASSUME RemoveOwner PROVE InstallInv'
    <2>. DEFINE t == [tree.sys EXCEPT !.owner = FALSE]
    <2>1. /\ cmd.op \in {"teardown", "purge"} /\ cmd.pc = "unowner" /\ UNCHANGED <<load, up, service, owed>>
          /\ ~service.installed
      BY <1>2 DEF RemoveOwner, At, InstallInv, SetupSound
    <2>2. t \in Trees /\ t.vaults = tree.sys.vaults /\ t.there = tree.sys.there /\ t.by = tree.sys.by
      BY <1>0, TreeOf DEF Trees
    <2>3. tree' = [tree EXCEPT !.sys = t]
      BY <1>0, <1>2, TreeOf DEF RemoveOwner
    <2>. HIDE DEF t
    <2>4. tree.sys.there \in BOOLEAN /\ (tree.sys.there => tree.sys.by = "_byn")
      BY <1>0, TreeOf DEF Trees, TreesSound
    <2>5. TreesSound' /\ Kept' /\ DaemonsSound'
      BY <1>0, <2>1, <2>2, <2>3, <2>4, SysKept
    <2>6. tree' \in [Places -> Trees]
      BY <1>0, <2>2, <2>3, SysOnly
    <2>7. cmd' \in [op : Commands, pc : Pcs, mode : {"none", "0700", "0711"}] /\ StageSound' /\ MoveSound' /\ SetupSound'
      <3>1. CASE Goes("purge")
        <4>1. cmd'.pc = "purge" /\ cmd'.op = cmd.op /\ cmd' \in [op : Commands, pc : Pcs, mode : {"none", "0700", "0711"}]
          BY <1>0, <3>1, GoesTo DEF Pcs
        <4>. QED
          BY <2>1, <4>1 DEF StageSound, MoveSound, SetupSound, Moving
      <3>2. CASE Ends("ok")
        BY <3>2, NoCommand DEF Ends
      <3>. QED
        BY <1>2, <3>1, <3>2 DEF RemoveOwner
    <2>. QED
      BY <1>0, <2>1, <2>5, <2>6, <2>7 DEF InstallInv, InstallTypes
  <1>. QED
    BY <1>1, <1>2

\* A purge takes the system tree; what is owed after it is in the other trees.
LEMMA Purging == InstallInv /\ Purge => InstallInv'
  <1>. SUFFICES ASSUME InstallInv, Purge PROVE InstallInv'
    OBVIOUS
  <1>0. /\ InstallTypes /\ TreesSound /\ Kept /\ DaemonsSound /\ ~service.installed
        /\ tree' = [tree EXCEPT !.sys = NoTree] /\ UNCHANGED <<load, up, service>> /\ cmd' = NoCmd
        /\ owed' = Left({tree.legacy, tree.ext})
    BY DEF InstallInv, Purge, At, SetupSound, Ends
  <1>1. /\ tree' \in [Places -> Trees] /\ tree'.sys = NoTree /\ tree'.legacy = tree.legacy
        /\ tree'.stage = tree.stage /\ tree'.ext = tree.ext /\ tree'.old = tree.old
    BY <1>0, SysOnly, EmptyTree
  <1>2. owed' \in [Origins -> [Vaults -> Nat]]
    BY <1>0 DEF Left, InstallTypes
  <1>3. ASSUME NEW o \in Origins, NEW v \in Vaults, owed'[o][v] # 0
        PROVE  \E p \in {"legacy", "sys", "ext"} : tree'[p].vaults[v] = [of |-> o, n |-> owed'[o][v]]
    <2>1. /\ owed'[o][v] = owed[o][v]
          /\ \E u \in {tree.legacy, tree.ext} : u.vaults[v] = [of |-> o, n |-> owed[o][v]]
      BY <1>0, <1>3 DEF Left
    <2>. QED
      BY <1>1, <2>1
  <1>4. TreesSound'
    BY <1>0, <1>1, EmptyTree DEF TreesSound, GoneAll
  <1>5. Kept' /\ DaemonsSound'
    BY <1>0, <1>1, <1>3 DEF Kept, DaemonsSound
  <1>. QED
    BY <1>0, <1>1, <1>2, <1>4, <1>5, NoCommand DEF InstallInv, InstallTypes

\* An interruption, of the command or of the machine.
LEMMA Crashing == InstallInv /\ Crash => InstallInv'
  <1>. SUFFICES ASSUME InstallInv, Crash PROVE InstallInv'
    OBVIOUS
  <1>0. /\ InstallTypes /\ TreesSound /\ Kept /\ DaemonsSound /\ cmd' = NoCmd
        /\ tree' = [tree EXCEPT !.stage = NoTree] /\ UNCHANGED <<load, service, owed>>
        /\ up' = up \/ up' = [d \in DOMAIN up |-> "down"]
    BY DEF InstallInv, Crash, Ends
  <1>1. /\ tree' \in [Places -> Trees] /\ \A p \in Places \ {"stage"} : tree'[p] = tree[p]
    BY <1>0, TreeOf, EmptyTree
  <1>2. tree'.legacy = tree.legacy /\ tree'.sys = tree.sys /\ tree'.ext = tree.ext /\ tree'.old = tree.old
    BY <1>1 DEF Places
  <1>3. /\ up' \in [{"user", "svc"} -> {"down", "legacy", "sys"}]
        /\ up'["user"] \in {"down", up["user"]} /\ up'["svc"] \in {"down", up["svc"]}
    BY <1>0 DEF InstallTypes
  <1>4. TreesSound' /\ Kept' /\ (HomeInSys => HomeInSys')
    BY <1>0, <1>2 DEF TreesSound, Kept, HomeInSys
  <1>5. DaemonsSound'
    BY <1>0, <1>2, <1>3, <1>4 DEF DaemonsSound
  <1>. QED
    BY <1>0, <1>1, <1>3, <1>4, <1>5, NoCommand DEF InstallInv, InstallTypes

\* The owner's daemon comes and goes, a terminal keeps its session file.
LEMMA OwnerSide == Undisturbed /\ InstallInv /\ (UserStart \/ UserStop \/ SessionFile) => InstallInv'
  <1>. SUFFICES ASSUME Undisturbed, InstallInv PROVE (UserStart \/ UserStop \/ SessionFile) => InstallInv'
    OBVIOUS
  <1>0. InstallTypes /\ TreesSound /\ Kept /\ DaemonsSound
    BY DEF InstallInv
  <1>e. /\ Empty("0700", "owner") \in Trees /\ Empty("0700", "owner").there
        /\ GoneAll(Empty("0700", "owner"))
    BY EmptyTree
  <1>1. ASSUME UserStart PROVE InstallInv'
    <2>. DEFINE u == IF tree.legacy.there THEN tree.legacy ELSE Empty("0700", "owner")
                t == [u EXCEPT !.running = TRUE]
    <2>1. u \in Trees /\ u.there /\ u.vaults = tree.legacy.vaults
      BY <1>0, <1>e, TreeOf DEF Trees, TreesSound, GoneAll
    <2>2. t \in Trees /\ t.there /\ t.vaults = tree.legacy.vaults
      <3>. HIDE DEF u
      <3>. QED
        BY <2>1 DEF Trees
    <2>3. /\ tree' = [tree EXCEPT !.legacy = t] /\ up' = [up EXCEPT !.user = "legacy"]
          /\ UNCHANGED <<load, service, cmd, owed>> /\ ~tree.sys.there /\ up["user"] = "down"
      BY <1>1 DEF UserStart
    <2>. HIDE DEF t
    <2>4. /\ tree' \in [Places -> Trees] /\ tree'.legacy = t /\ tree'.sys = tree.sys
          /\ tree'.stage = tree.stage /\ tree'.ext = tree.ext /\ tree'.old = tree.old
      BY <1>0, <2>2, <2>3, LegacyOnly
    <2>5. up' \in [{"user", "svc"} -> {"down", "legacy", "sys"}] /\ up'["user"] = "legacy"
          /\ up'["svc"] = up["svc"]
      BY <1>0, <2>3 DEF InstallTypes
    <2>6. TreesSound' /\ Kept'
      BY <1>0, <2>2, <2>3, <2>4 DEF TreesSound, Kept
    <2>7. DaemonsSound'
      BY <1>0, <2>2, <2>3, <2>4, <2>5 DEF DaemonsSound
    <2>8. cmd.pc \in {"none", "helper", "stop"}
      BY <2>3, <2>5 DEF Undisturbed
    <2>9. StageSound' /\ MoveSound' /\ SetupSound'
      BY <2>3, <2>4, <2>8 DEF InstallInv, StageSound, MoveSound, SetupSound, Placed, MovePcs
    <2>. QED
      BY <1>0, <2>3, <2>4, <2>5, <2>6, <2>7, <2>9 DEF InstallInv, InstallTypes
  <1>2. ASSUME UserStop PROVE InstallInv'
    <2>1. UNCHANGED <<load, tree, service, cmd, owed>>
      BY <1>2 DEF UserStop
    <2>2. up' \in [{"user", "svc"} -> {"down", "legacy", "sys"}] /\ up'["user"] = "down"
          /\ up'["svc"] = up["svc"]
      BY <1>0, <1>2 DEF UserStop, InstallTypes
    <2>3. TreesSound' /\ Kept' /\ StageSound' /\ (HomeInSys => HomeInSys')
      BY <1>0, <2>1 DEF TreesSound, Kept, StageSound, InstallInv, HomeInSys
    <2>4. DaemonsSound'
      BY <1>0, <2>1, <2>2, <2>3 DEF DaemonsSound
    <2>5. MoveSound'
      BY <2>1, <2>2, <2>3 DEF MoveSound, InstallInv
    <2>6. SetupSound'
      BY <2>1, <2>2, <2>3 DEF SetupSound, InstallInv
    <2>. QED
      BY <1>0, <2>1, <2>2, <2>3, <2>4, <2>5, <2>6 DEF InstallInv, InstallTypes
  <1>3. ASSUME SessionFile PROVE InstallInv'
    <2>. DEFINE t == [Empty("0700", "owner") EXCEPT !.running = TRUE]
    <2>1. t \in Trees /\ t.there /\ GoneAll(t)
      BY <1>e DEF Trees, GoneAll
    <2>2. tree' = [tree EXCEPT !.legacy = t] /\ UNCHANGED <<load, up, service, cmd, owed>>
          /\ ~tree.legacy.there /\ GoneAll(tree.legacy)
      BY <1>0, <1>3 DEF SessionFile, TreesSound, GoneAll
    <2>. HIDE DEF t
    <2>3. /\ tree' \in [Places -> Trees] /\ tree'.legacy = t /\ tree'.sys = tree.sys
          /\ tree'.stage = tree.stage /\ tree'.ext = tree.ext /\ tree'.old = tree.old
      BY <1>0, <2>1, <2>2, LegacyOnly
    <2>v. t.vaults = tree.legacy.vaults
      BY <1>0, <2>1, <2>2, TreeOf DEF GoneAll, Trees
    <2>4. TreesSound' /\ Kept'
      BY <1>0, <2>1, <2>2, <2>3, <2>v DEF TreesSound, Kept
    <2>5. DaemonsSound' /\ (HomeInSys => HomeInSys')
      BY <1>0, <2>1, <2>2, <2>3 DEF DaemonsSound, HomeInSys
    <2>6. StageSound'
      BY <2>2, <2>3, <2>v DEF StageSound, InstallInv
    <2>7. MoveSound'
      BY <2>1, <2>2, <2>3, <2>v, <2>5 DEF MoveSound, InstallInv
    <2>8. SetupSound'
      BY <2>2, <2>3, <2>5 DEF SetupSound, InstallInv
    <2>. QED
      BY <1>0, <2>2, <2>3, <2>4, <2>5, <2>6, <2>7, <2>8 DEF InstallInv, InstallTypes
  <1>. QED
    BY <1>1, <1>2, <1>3

\* The service is started.
LEMMA ServiceSide == InstallInv /\ ServiceStart => InstallInv'
  <1>. SUFFICES ASSUME InstallInv, ServiceStart PROVE InstallInv'
    OBVIOUS
  <1>0. /\ InstallTypes /\ TreesSound /\ DaemonsSound /\ service.installed
        /\ UNCHANGED <<load, service, cmd, owed>> /\ up' = [up EXCEPT !.svc = "sys"]
    BY DEF InstallInv, ServiceStart
  <1>1. /\ tree.sys.there /\ tree.sys.mode = "0711" /\ tree.sys.owner /\ tree.sys.by = "_byn"
        /\ up["user"] = "down" /\ HomeInSys
    BY <1>0 DEF DaemonsSound, TreesSound
  <1>. DEFINE t == Started(tree.sys)
  <1>2. /\ t \in Trees /\ t.there /\ t.vaults = tree.sys.vaults /\ t.mode = "0711" /\ t.by = "_byn"
        /\ t.owner
    BY <1>0, <1>1, TreeOf, StartedKeeps
  <1>3. tree' = [tree EXCEPT !.sys = t]
    BY <1>0, TreeOf DEF ServiceStart
  <1>. HIDE DEF t
  <1>4. /\ up' \in [{"user", "svc"} -> {"down", "legacy", "sys"}] /\ up'["user"] = up["user"]
        /\ up'["svc"] = "sys" /\ service' \in [users : BOOLEAN, installed : BOOLEAN]
        /\ cmd' \in [op : Commands, pc : Pcs, mode : {"none", "0700", "0711"}]
    BY <1>0 DEF InstallTypes
  <1>5. /\ tree' \in [Places -> Trees] /\ tree'.sys = t /\ tree'.legacy = tree.legacy
        /\ tree'.stage = tree.stage /\ tree'.ext = tree.ext
    BY <1>0, <1>2, <1>3, SysOnly
  <1>6. StageSound' /\ HomeInSys'
    BY <1>0, <1>1, <1>2, <1>5 DEF StageSound, InstallInv, HomeInSys
  <1>7. MoveSound'
    BY <1>0, <1>1, <1>2, <1>4, <1>5, <1>6 DEF MoveSound, InstallInv
  <1>8. SetupSound'
    BY <1>0, <1>1, <1>2, <1>4, <1>5, <1>6 DEF SetupSound, InstallInv
  <1>. QED
    BY <1>0, <1>1, <1>2, <1>3, <1>4, <1>6, <1>7, <1>8, SysStep

\* The write of new to vault v of the tree p.
Wrote(d, v, p, new) ==
    LET t == [tree[p] EXCEPT !.vaults[v] = new]
    IN /\ up[d] = p /\ (d = "user" <=> p = "legacy")
       /\ t \in Trees /\ t.there = tree[p].there /\ t.by = tree[p].by
       /\ t.owner = tree[p].owner /\ t.mode = tree[p].mode /\ t.there
       /\ t.vaults[v] = new /\ \A w \in Vaults \ {v} : t.vaults[w] = tree[p].vaults[w]
       /\ \/ tree[p].vaults[v] = Gone /\ owed["home"][v] = 0 /\ new.of = "home"
          \/ tree[p].vaults[v].of = new.of /\ Whole(tree[p].vaults[v])
       /\ new.n # 0
       /\ tree' = [tree EXCEPT ![p] = t]
       /\ owed' = [owed EXCEPT ![new.of][v] = new.n]
       /\ UNCHANGED <<load, up, service, cmd>>

\* What a write leaves of a tree: its vaults but one.
LEMMA WriteKeeps ==
    ASSUME InstallInv, NEW d \in {"user", "svc"}, NEW v \in Vaults, Write(d, v)
    PROVE  \E p \in {"legacy", "sys"}, new \in [of : Origins, n : Nat] : Wrote(d, v, p, new)
  <1>0. InstallTypes /\ TreesSound /\ DaemonsSound
    BY DEF InstallInv
  <1>. DEFINE p == up[d]
              c == IF p \in Places THEN tree[p].vaults[v] ELSE Gone
              new == [of |-> IF Whole(c) THEN c.of ELSE "home",
                      n |-> IF Whole(c) THEN c.n + 1 ELSE owed["home"][v] + 1]
              t == [tree[p] EXCEPT !.vaults[v] = new]
  <1>1. p \in {"legacy", "sys"} /\ (d = "user" <=> p = "legacy") /\ tree[p].there
    BY <1>0 DEF Write, DaemonsSound
  <1>2. p \in Places /\ tree[p] \in Trees
    BY <1>0, <1>1, TreeOf
  <1>3. c = tree[p].vaults[v] /\ c \in Copies
    BY <1>2 DEF Trees
  <1>4. /\ c # Torn /\ (Whole(c) \/ owed["home"][v] = 0)
        /\ tree' = [tree EXCEPT ![p].vaults[v] = new] /\ owed' = [owed EXCEPT ![new.of][v] = new.n]
        /\ UNCHANGED <<load, up, service, cmd>>
    BY <1>2 DEF Write
  <1>5. Whole(c) => c.of \in Origins /\ c.n \in Nat
    BY <1>3 DEF Whole, Copies
  <1>6. "home" \in Origins /\ owed["home"][v] \in Nat
    BY <1>0 DEF InstallTypes, Origins
  <1>7. new \in [of : Origins, n : Nat] /\ new.n # 0
    <2>. HIDE DEF c
    <2>. QED
      BY <1>5, <1>6
  <1>8. \/ c = Gone /\ owed["home"][v] = 0 /\ new.of = "home"
        \/ c.of = new.of /\ Whole(c)
    BY <1>4 DEF Whole
  <1>. HIDE DEF new, c
  <1>9. new \in Copies
    BY <1>7 DEF Copies
  <1>10. /\ t \in Trees /\ t.there = tree[p].there /\ t.by = tree[p].by
         /\ t.owner = tree[p].owner /\ t.mode = tree[p].mode
         /\ t.vaults[v] = new /\ \A w \in Vaults \ {v} : t.vaults[w] = tree[p].vaults[w]
    BY <1>2, <1>9 DEF Trees
  <1>11. tree' = [tree EXCEPT ![p] = t]
    BY <1>0, <1>2, <1>4 DEF InstallTypes
  <1>p. p = up[d]
    OBVIOUS
  <1>. HIDE DEF p
  <1>12. Wrote(d, v, p, new)
    BY <1>p, <1>1, <1>3, <1>4, <1>7, <1>8, <1>10, <1>11 DEF Wrote
  <1>. QED
    BY <1>1, <1>7, <1>12

\* A write the daemon acknowledges is where it has its files open, and no
\* root command that moves a tree is past its stop.
LEMMA Writing ==
    ASSUME InstallInv, NEW d \in {"user", "svc"}, NEW v \in Vaults, Write(d, v)
    PROVE  InstallInv'
  <1>0. InstallTypes /\ TreesSound /\ Kept /\ DaemonsSound /\ StageSound /\ MoveSound /\ SetupSound
    BY DEF InstallInv
  <1>. PICK p \in {"legacy", "sys"}, new \in [of : Origins, n : Nat] : Wrote(d, v, p, new)
    BY WriteKeeps
  <1>. DEFINE t == [tree[p] EXCEPT !.vaults[v] = new]
  <1>t. /\ t \in Trees /\ t.there = tree[p].there /\ t.by = tree[p].by
        /\ t.owner = tree[p].owner /\ t.mode = tree[p].mode /\ t.there
        /\ t.vaults[v] = new /\ \A w \in Vaults \ {v} : t.vaults[w] = tree[p].vaults[w]
        /\ tree' = [tree EXCEPT ![p] = t]
    BY DEF Wrote
  <1>w. /\ up[d] = p /\ (d = "user" <=> p = "legacy")
        /\ \/ tree[p].vaults[v] = Gone /\ owed["home"][v] = 0 /\ new.of = "home"
           \/ tree[p].vaults[v].of = new.of /\ Whole(tree[p].vaults[v])
        /\ new.n # 0
        /\ owed' = [owed EXCEPT ![new.of][v] = new.n]
        /\ UNCHANGED <<load, up, service, cmd>>
    BY DEF Wrote
  <1>. HIDE DEF t
  <1>1. /\ owed' \in [Origins -> [Vaults -> Nat]] /\ owed'[new.of][v] = new.n
        /\ \A o \in Origins, w \in Vaults : (o # new.of \/ w # v) => owed'[o][w] = owed[o][w]
    BY <1>0, <1>w DEF InstallTypes
  <1>2. /\ tree' \in [Places -> Trees] /\ tree'[p] = t
        /\ \A q \in Places \ {p} : tree'[q] = tree[q]
    BY <1>0, <1>t, TreeOf
  <1>3. /\ tree'.stage = tree.stage /\ tree'.ext = tree.ext /\ tree'.old = tree.old
        /\ p = "legacy" => tree'.sys = tree.sys
        /\ p = "sys" => tree'.legacy = tree.legacy
    BY <1>2 DEF Places
  <1>4. Kept'
    <2>. SUFFICES ASSUME NEW o \in Origins, NEW w \in Vaults, owed'[o][w] # 0
                  PROVE  \E q \in {"legacy", "sys", "ext"} : tree'[q].vaults[w] = [of |-> o, n |-> owed'[o][w]]
      BY DEF Kept
    <2>1. CASE o = new.of /\ w = v
      <3>1. new = [of |-> o, n |-> owed'[o][w]]
        BY <1>1, <2>1
      <3>. QED
        BY <1>2, <1>t, <2>1, <3>1
    <2>2. CASE o # new.of \/ w # v
      <3>1. owed'[o][w] = owed[o][w]
        BY <1>1, <2>2
      <3>2. PICK q \in {"legacy", "sys", "ext"} : tree[q].vaults[w] = [of |-> o, n |-> owed[o][w]]
        BY <1>0, <3>1 DEF Kept
      <3>3. CASE q = p /\ w = v
        <4>1. tree[p].vaults[v].of = o /\ tree[p].vaults[v].n # 0
          BY <1>w, <3>1, <3>2, <3>3
        <4>2. tree[p].vaults[v] # Gone
          BY <4>1 DEF Gone
        <4>. QED
          BY <1>w, <2>2, <3>3, <4>1, <4>2
      <3>4. CASE q # p \/ w # v
        <4>1. tree'[q].vaults[w] = tree[q].vaults[w]
          BY <1>2, <1>t, <3>4 DEF Places
        <4>. QED
          BY <3>1, <3>2, <4>1
      <3>. QED
        BY <3>3, <3>4
    <2>. QED
      BY <2>1, <2>2
  <1>5. ASSUME p = "sys", HomeInSys PROVE HomeInSys'
    <2>. SUFFICES ASSUME NEW w \in Vaults, owed'["home"][w] # 0
                  PROVE  tree'.sys.vaults[w] = [of |-> "home", n |-> owed'["home"][w]]
      BY DEF HomeInSys
    <2>0. "home" \in Origins /\ tree'.sys = t
      BY <1>2, <1>5 DEF Origins
    <2>1. CASE w # v
      BY <1>1, <1>5, <1>t, <2>0, <2>1 DEF HomeInSys
    <2>2. CASE w = v /\ new.of = "home"
      BY <1>1, <1>t, <2>0, <2>2
    <2>3. CASE w = v /\ new.of # "home"
      BY <1>1, <1>5, <1>w, <2>0, <2>3 DEF HomeInSys
    <2>. QED
      BY <2>1, <2>2, <2>3
  <1>6. p = "legacy" => /\ up["user"] = "legacy" /\ ~service.installed /\ tree'.sys = tree.sys
    BY <1>0, <1>w, <1>3 DEF DaemonsSound
  <1>7. p = "sys" => service.installed /\ HomeInSys /\ tree'.sys = t /\ tree'.legacy = tree.legacy
    BY <1>0, <1>w, <1>2, <1>3 DEF DaemonsSound
  <1>8. TreesSound'
    BY <1>0, <1>2, <1>3, <1>t DEF TreesSound
  <1>9. DaemonsSound'
    BY <1>0, <1>w, <1>2, <1>3, <1>t, <1>5, <1>6, <1>7 DEF DaemonsSound
  <1>10. StageSound'
    BY <1>0, <1>w, <1>3, <1>6, <1>7 DEF StageSound, MoveSound, Placed, MovePcs
  <1>11. MoveSound'
    BY <1>0, <1>w, <1>2, <1>3, <1>t, <1>6, <1>7 DEF MoveSound, Moving, Placed, MovePcs
  <1>12. SetupSound'
    BY <1>0, <1>w, <1>2, <1>3, <1>t, <1>5, <1>6, <1>7 DEF SetupSound
  <1>. QED
    BY <1>0, <1>w, <1>1, <1>2, <1>4, <1>8, <1>9, <1>10, <1>11, <1>12 DEF InstallInv, InstallTypes

\* The invariant holds at the start.
LEMMA InitSound == Init => InstallInv
  <1>. SUFFICES ASSUME Init PROVE InstallInv
    OBVIOUS
  <1>. DEFINE sys == [Empty("0711", "_byn") EXCEPT !.vaults = Home, !.trust = TRUE, !.keys = TRUE, !.owner = TRUE]
              legacy == [Empty("0700", "owner") EXCEPT !.vaults = Home, !.trust = TRUE, !.keys = TRUE, !.owner = FALSE]
              ext == [Empty("0700", "owner") EXCEPT
                        !.vaults = [v \in Vaults |-> [of |-> "ext", n |-> 1]], !.trust = TRUE, !.keys = TRUE]
  <1>1. load \in Workloads /\ load.at \in {"legacy", "sys"}
    BY InstallAssumption DEF Init
  <1>2. /\ tree.old = NoTree /\ tree.stage = NoTree /\ tree.ext = ext
        /\ tree.legacy = IF load.at = "legacy" THEN legacy ELSE NoTree
        /\ tree.sys = IF load.at = "sys" THEN sys ELSE NoTree
        /\ DOMAIN tree = Places /\ tree = [p \in Places |-> tree[p]]
    BY <1>1 DEF Init, Places
  <1>3. /\ sys \in Trees /\ legacy \in Trees /\ ext \in Trees /\ NoTree \in Trees
        /\ sys.there /\ sys.vaults = Home /\ sys.owner /\ sys.mode = "0711" /\ sys.by = "_byn"
        /\ legacy.there /\ legacy.vaults = Home /\ ext.there
        /\ \A v \in Vaults : ext.vaults[v] = [of |-> "ext", n |-> 1]
        /\ ~NoTree.there /\ GoneAll(NoTree)
    <2>1. /\ Empty("0711", "_byn") \in Trees /\ Empty("0711", "_byn").there
          /\ Empty("0711", "_byn").mode = "0711" /\ Empty("0711", "_byn").by = "_byn"
          /\ Empty("0700", "owner") \in Trees /\ Empty("0700", "owner").there
          /\ NoTree \in Trees /\ ~NoTree.there /\ GoneAll(NoTree)
      BY EmptyTree
    <2>2. Home \in [Vaults -> Copies] /\ [v \in Vaults |-> [of |-> "ext", n |-> 1]] \in [Vaults -> Copies]
      BY DEF Home, Copies, Origins
    <2>. QED
      BY <2>1, <2>2 DEF Trees
  <1>. HIDE DEF sys, legacy, ext
  <1>4. tree \in [Places -> Trees]
    BY <1>2, <1>3 DEF Places
  <1>5. /\ up = [user |-> "down", svc |-> "down"] /\ cmd = NoCmd
        /\ service = [users |-> load.at = "sys", installed |-> load.at = "sys"]
        /\ owed = [o \in Origins |-> [v \in Vaults |-> IF o = "home" THEN 1 ELSE 0]]
    BY DEF Init
  <1>6. InstallTypes
    <2>1. up \in [{"user", "svc"} -> {"down", "legacy", "sys"}]
      BY <1>5
    <2>2. cmd \in [op : Commands, pc : Pcs, mode : {"none", "0700", "0711"}]
      BY <1>5 DEF NoCmd, Commands, Pcs
    <2>. QED
      BY <1>1, <1>4, <1>5, <2>1, <2>2 DEF InstallTypes
  <1>7. HomeInSys \/ load.at = "legacy"
    BY <1>1, <1>2, <1>3, <1>5 DEF HomeInSys, Home, Origins
  <1>8. TreesSound
    BY <1>1, <1>2, <1>3 DEF TreesSound, GoneAll
  <1>9. Kept
    <2>. SUFFICES ASSUME NEW o \in Origins, NEW v \in Vaults, owed[o][v] # 0
                  PROVE  \E p \in {"legacy", "sys", "ext"} : tree[p].vaults[v] = [of |-> o, n |-> owed[o][v]]
      BY DEF Kept
    <2>1. o = "home" /\ owed[o][v] = 1
      BY <1>5
    <2>. QED
      BY <1>1, <1>2, <1>3, <2>1 DEF Home
  <1>10. DaemonsSound
    BY <1>1, <1>2, <1>3, <1>5, <1>7 DEF DaemonsSound
  <1>11. StageSound /\ MoveSound /\ SetupSound
    BY <1>5 DEF StageSound, MoveSound, SetupSound, NoCmd, Moving
  <1>. QED
    BY <1>6, <1>8, <1>9, <1>10, <1>11 DEF InstallInv

\* No step chooses another workload.
LEMMA LoadStays == [Next]_ivars => load' = load
  <1>1. UserStart \/ UserStop \/ SessionFile \/ ServiceStart => load' = load
    BY DEF UserStart, UserStop, SessionFile, ServiceStart
  <1>2. \A d, v : Write(d, v) => load' = load
    BY DEF Write
  <1>3. Begin \/ Failure \/ Crash => load' = load
    BY DEF Begin, Begins, Failure, Fails, Crash
  <1>4. InstallHelper \/ StopLegacy \/ List => load' = load
    BY DEF InstallHelper, StopLegacy, List
  <1>5. Stage \/ Verify \/ Transform \/ ApplyOwnership \/ Commit => load' = load
    BY DEF Stage, Verify, Fails, Transform, ApplyOwnership, Commit
  <1>6. ClearEmpty \/ ClearBackup \/ MoveAside \/ Swap \/ Replace \/ DropBackup \/ RestoreMode => load' = load
    BY DEF ClearEmpty, ClearBackup, MoveAside, Swap, Fails, Replace, DropBackup, RestoreMode
  <1>7. RemoveLegacy \/ WriteOwner \/ InstallService \/ VerifyProvisioned \/ EnablePrivsep => load' = load
    BY DEF RemoveLegacy, WriteOwner, InstallService, VerifyProvisioned, EnablePrivsep
  <1>8. Unservice \/ RemoveOwner \/ Purge => load' = load
    BY DEF Unservice, RemoveOwner, Purge
  <1>. QED
    BY <1>1, <1>2, <1>3, <1>4, <1>5, <1>6, <1>7, <1>8 DEF Next, ivars

\* ... and every step keeps it, in an orderly workload.
LEMMA StepSound ==
    ASSUME Orderly, Undisturbed \/ UNCHANGED ivars, InstallInv, [Next]_ivars
    PROVE  InstallInv'
  <1>1. CASE Undisturbed /\ (UserStart \/ UserStop \/ SessionFile \/ ServiceStart)
    BY <1>1, OwnerSide, ServiceSide
  <1>2. CASE \E d \in DOMAIN up, v \in Vaults : Write(d, v)
    <2>1. DOMAIN up = {"user", "svc"}
      BY DEF InstallInv, InstallTypes
    <2>. QED
      BY <1>2, <2>1, Writing
  <1>3. CASE Begin \/ Failure \/ Crash
    BY <1>3, Looking, Crashing
  <1>4. CASE InstallHelper \/ StopLegacy \/ List
    BY <1>4, Helping, Stopping
  <1>5. CASE Stage \/ Verify \/ Transform \/ ApplyOwnership \/ Commit
    BY <1>5, Staging, Looking, Committing
  <1>6. CASE ClearEmpty \/ ClearBackup \/ MoveAside \/ Swap \/ Replace \/ DropBackup \/ RestoreMode
    BY <1>6, Clearing, NoAside, Swapping, Restoring
  <1>7. CASE RemoveLegacy \/ WriteOwner \/ InstallService \/ VerifyProvisioned \/ EnablePrivsep
    BY <1>7, Removing, Owning, Serving, Checking
  <1>8. CASE Unservice \/ RemoveOwner \/ Purge
    BY <1>8, TakingDown, Purging
  <1>9. CASE UNCHANGED ivars
    <2>1. UNCHANGED <<load, tree, up, service, cmd, owed>>
      BY <1>9 DEF ivars
    <2>2. InstallTypes' /\ TreesSound' /\ Kept' /\ DaemonsSound'
      BY <2>1, Stays DEF InstallInv, InstallTypes
    <2>3. StageSound' /\ MoveSound' /\ SetupSound'
      BY <2>1, <2>2 DEF InstallInv, StageSound, MoveSound, SetupSound, HomeInSys
    <2>. QED
      BY <2>2, <2>3 DEF InstallInv
  <1>. QED
    BY <1>1, <1>2, <1>3, <1>4, <1>5, <1>6, <1>7, <1>8, <1>9 DEF Next

\* The invariant holds throughout an orderly, undisturbed workload.
LEMMA OrderlyInvariant == Spec /\ [][Undisturbed]_ivars => [](Orderly => InstallInv)
  <1>1. Init => (Orderly => InstallInv)
    BY InitSound
  <1>2. (Orderly => InstallInv) /\ [Next]_ivars /\ [Undisturbed]_ivars => (Orderly => InstallInv)'
    <2>. SUFFICES ASSUME Orderly => InstallInv, [Next]_ivars, [Undisturbed]_ivars, Orderly'
                  PROVE  InstallInv'
      OBVIOUS
    <2>1. Orderly
      BY LoadStays DEF Orderly
    <2>. QED
      BY <2>1, StepSound
  <1>. QED
    BY <1>1, <1>2, PTL DEF Spec

\* VaultsKept for any vaults, workloads and number of writes: with no replacement
\* by force, and no byn of the owner's started in the middle of a command, every
\* acknowledged write is whole at a place the owner can find, wherever setup,
\* relocate, import, teardown or purge failed or was interrupted (adopt.go,
\* modes.go, setup_legacy_daemon.go).
THEOREM VaultsKeptHolds == Spec /\ [][Undisturbed]_ivars => [](Orderly => VaultsKept)
  <1>1. InstallInv => VaultsKept
    BY DEF InstallInv, Kept, VaultsKept, InPlace
  <1>. QED
    BY <1>1, OrderlyInvariant, PTL

\* ServiceHasTheVaults likewise: the service never runs on a directory that is
\* not _byn's or lacks a vault of the owner's (setup.go, Provision).
THEOREM ServiceHolds == Spec /\ [][Undisturbed]_ivars => [](Orderly => ServiceHasTheVaults)
  <1>1. InstallInv => ServiceHasTheVaults
    BY DEF InstallInv, DaemonsSound, HomeInSys, TreesSound, ServiceHasTheVaults, InPlace, InstallTypes
  <1>. QED
    BY <1>1, OrderlyInvariant, PTL

\* How the last command ended is known when none is under way; after a setup that
\* said it is done the service is installed until another command begins.
Told ==
    /\ cmd.pc # "none" => last = "none"
    /\ last = "set up" => service.installed

\* Only the last step of a setup says it is done, and only while no setup is done
\* is the service removed.
LEMMA ToldKept ==
    ASSUME InstallInv, Told, [Next]_ivars
    PROVE  Told'
  <1>0. \A d, v : Write(d, v) => UNCHANGED <<cmd, last, service>>
    BY DEF Write
  <1>1. UserStart \/ UserStop \/ SessionFile \/ ServiceStart => UNCHANGED <<cmd, last, service>>
    BY DEF UserStart, UserStop, SessionFile, ServiceStart
  <1>2. Begin => last' = "none"
    BY DEF Begin, Begins
  <1>3. Failure \/ Crash => cmd' = NoCmd /\ last' # "set up"
    BY DEF Failure, Crash, Fails, Ends
  <1>4. InstallHelper \/ StopLegacy \/ List =>
          cmd.pc # "none" /\ ((cmd' = NoCmd /\ last' # "set up") \/ last' = last)
    BY DEF InstallHelper, StopLegacy, List, At, Ends
  <1>5. Stage \/ Verify \/ Transform \/ ApplyOwnership \/ Commit =>
          cmd.pc # "none" /\ ((cmd' = NoCmd /\ last' # "set up") \/ last' = last)
    BY DEF Stage, Verify, Transform, ApplyOwnership, Commit, At, Fails, Ends
  <1>6. ClearEmpty \/ Swap \/ RestoreMode =>
          cmd.pc # "none" /\ ((cmd' = NoCmd /\ last' # "set up") \/ last' = last)
    BY DEF ClearEmpty, Swap, RestoreMode, AfterAdopt, At, Fails, Ends
  <1>7. RemoveLegacy \/ WriteOwner \/ InstallService \/ VerifyProvisioned =>
          cmd.pc # "none" /\ ((cmd' = NoCmd /\ last' # "set up") \/ last' = last)
    BY DEF RemoveLegacy, WriteOwner, InstallService, VerifyProvisioned, At, Ends
  <1>8. EnablePrivsep => cmd' = NoCmd /\ service' = service /\ service.installed
    BY DEF EnablePrivsep, At, Ends, InstallInv, SetupSound
  <1>9. Unservice \/ RemoveOwner \/ Purge =>
          cmd.pc # "none" /\ ((cmd' = NoCmd /\ last' # "set up") \/ last' = last)
    BY DEF Unservice, RemoveOwner, Purge, At, Ends
  <1>10. cmd.pc # "none" => last = "none"
    BY DEF Told
  <1>11. UNCHANGED ivars => UNCHANGED <<cmd, last, service>>
    BY DEF ivars
  <1>12. CASE UNCHANGED <<cmd, last, service>>
    BY <1>12 DEF Told
  <1>13. CASE last' = "none"
    BY <1>13 DEF Told
  <1>14. CASE cmd' = NoCmd /\ last' # "set up"
    BY <1>14 DEF Told, NoCmd
  <1>15. CASE EnablePrivsep
    <2>1. cmd'.pc = "none"
      BY <1>8, <1>15 DEF NoCmd
    <2>2. service'.installed
      BY <1>8, <1>15
    <2>. QED
      BY <2>1, <2>2 DEF Told
  <1>16. CASE cmd.pc # "none" /\ ((cmd' = NoCmd /\ last' # "set up") \/ last' = last)
    BY <1>10, <1>13, <1>14, <1>16
  <1>17. CASE \E d \in DOMAIN up, v \in Vaults : Write(d, v)
    BY <1>0, <1>12, <1>17
  <1>18. CASE UserStart \/ UserStop \/ SessionFile \/ ServiceStart
    BY <1>1, <1>12, <1>18
  <1>19. CASE Begin
    BY <1>2, <1>13, <1>19
  <1>20. CASE Failure \/ Crash
    BY <1>3, <1>14, <1>20
  <1>21. CASE InstallHelper \/ StopLegacy \/ List \/ Stage \/ Verify \/ Transform \/ ApplyOwnership \/ Commit
    BY <1>4, <1>5, <1>16, <1>21
  <1>22. CASE ClearEmpty \/ Swap \/ RestoreMode \/ RemoveLegacy \/ WriteOwner \/ InstallService \/ VerifyProvisioned
    BY <1>6, <1>7, <1>16, <1>22
  <1>23. CASE Unservice \/ RemoveOwner \/ Purge
    BY <1>9, <1>16, <1>23
  <1>. QED
    BY <1>11, <1>12, <1>15, <1>17, <1>18, <1>19, <1>20, <1>21, <1>22, <1>23, NoAside DEF Next

\* SetupReachesTheOwner likewise: after a setup that said it is done, whatever
\* earlier runs left behind and whether or not the restart of the service
\* failed, the service is installed on a directory with the mode, the owner and
\* the owner record by which the owner reaches it, and stays so while it is
\* installed (adopt.go, cmd_setup.go).
THEOREM SetupHolds == Spec /\ [][Undisturbed]_ivars => [](Orderly => SetupReachesTheOwner)
  <1>1. Init => Told
    BY DEF Init, Told, NoCmd
  <1>2. Orderly' /\ (Orderly => InstallInv) /\ (Orderly => Told) /\ [Next]_ivars => Told'
    BY ToldKept, LoadStays DEF Orderly
  <1>3. InstallInv /\ Told => SetupReachesTheOwner
    BY DEF InstallInv, DaemonsSound, TreesSound, Told, SetupReachesTheOwner
  <1>4. (Orderly => InstallInv) /\ (Orderly => Told) /\ [Next]_ivars => (Orderly => Told)'
    BY <1>2
  <1>. QED
    BY <1>1, <1>3, <1>4, OrderlyInvariant, PTL DEF Spec

-----------------------------------------------------------------------------
(* Tui.                                                                    *)

EntryNames == Names \cup {Fresh, ""}

\* What the Model keeps about itself: the overlay holds a call that was refused, and a
\* view names what it is about.
ModelSound(md) ==
    /\ md \in Model
    /\ md.auth.kind \in RetryKinds => /\ md.auth.scope \in Scopes
                                      /\ Asked(md.auth.kind, md.auth.scope, md.auth.name) \in refused
    /\ md.mode = "reveal" => md.reveal.name \in EntryNames
    /\ md.mode = "scoperename" => md.renaming \in Scopes

\* What a call in progress carries, by its kind.
CallSound(c) ==
    /\ c \in Calls
    /\ c.kind \in {"value", "op", "retry"} => c.scope \in Scopes /\ c.name \in EntryNames
    /\ c.kind = "op" => c.op \in {"put", "delete", "rename", "describe"}
    /\ c.kind = "value" => c.op = "get"
    /\ c.kind = "retry" => Asked(c.op, c.scope, c.name) \in refused
    /\ c.kind \in {"renamed", "deleted"} => c.scope \in Scopes
    /\ c.kind = "renamed" => c.name \in Scopes

\* The rows shown are those of the active scope, or of one that was left.
Shows(md, gone) == md.entriesOf \in {None, md.scope} \cup gone

\* What was refused had been called.
RefusedTyped == \A a \in refused : \E c \in Calls : a = Asked(c.op, c.scope, c.name)

TuiInv ==
    /\ ModelSound(m) /\ Shows(m, doomed)
    /\ \A c \in flight : CallSound(c)
    /\ RefusedTyped
    /\ quit \in {"no", "clean", "forced"}
    /\ doomed \subseteq Scopes /\ keys \in 0..MaxKeys

LEMMA ModeNames ==
    /\ "normal" \in Modes /\ "insert" \in Modes /\ "add" \in Modes /\ "rename" \in Modes
    /\ "reveal" \in Modes /\ "confirm" \in Modes /\ "picker" \in Modes /\ "command" \in Modes
    /\ "search" \in Modes /\ "audit" \in Modes /\ "help" \in Modes /\ "scoperename" \in Modes
    /\ "auth" \in Modes /\ "approvals" \in Modes /\ "annotations" \in Modes
  BY DEF Modes

\* A put whose value was zeroed is as sound as it was.
LEMMA ZeroedSound ==
    ASSUME \A c \in flight : CallSound(c), NEW W, W \subseteq flight
    PROVE  \A c \in Zeroed(W) : CallSound(c)
  <1>1. ASSUME NEW c \in W PROVE CallSound([c EXCEPT !.wiped = TRUE])
    <2>. DEFINE d == [c EXCEPT !.wiped = TRUE]
    <2>1. CallSound(c) /\ c \in Calls
      BY DEF CallSound
    <2>2. d \in Calls /\ d.kind = c.kind /\ d.op = c.op /\ d.scope = c.scope /\ d.name = c.name
      BY <2>1 DEF Calls
    <2>. HIDE DEF d
    <2>3. CallSound(d)
      BY <2>1, <2>2 DEF CallSound
    <2>. QED
      BY <2>3 DEF d
  <1>. QED
    BY <1>1 DEF Zeroed

\* What is known of the Model and of calls does not change while nothing is refused.
LEMMA SoundStays ==
    ASSUME refused' = refused, RefusedTyped, NEW md, ModelSound(md), m' = md, NEW calls, flight' = calls,
           \A c \in calls : CallSound(c)
    PROVE  ModelSound(m)' /\ (\A c \in flight : CallSound(c))' /\ RefusedTyped'
  <1>1. ModelSound(m)'
    BY DEF ModelSound
  <1>2. \A c \in calls : CallSound(c)'
    BY DEF CallSound
  <1>. QED
    BY <1>1, <1>2 DEF RefusedTyped

\* A key keeps the invariant when the Model it leads to and its calls do.
LEMMA KeyWithKeeps ==
    ASSUME TuiInv, NEW calls, \A c \in calls : CallSound(c), NEW next, NEW cmds, KeyWith(calls, next, cmds),
           ModelSound(next), Shows(next, doomed), \A c \in cmds : CallSound(c)
    PROVE  TuiInv'
  <1>1. keys' \in 0..MaxKeys
    BY TuiAssumption DEF KeyWith, TuiInv
  <1>2. /\ refused' = refused /\ m' = next /\ flight' = calls \cup cmds /\ doomed' = doomed /\ quit' = quit
        /\ \A c \in calls \cup cmds : CallSound(c)
    BY DEF KeyWith
  <1>3. ModelSound(m)' /\ (\A c \in flight : CallSound(c))' /\ RefusedTyped'
    BY <1>2, SoundStays DEF TuiInv
  <1>4. Shows(m, doomed)'
    BY <1>2 DEF Shows
  <1>. QED
    BY <1>1, <1>2, <1>3, <1>4 DEF TuiInv

LEMMA KeyKeeps ==
    ASSUME TuiInv, NEW next, NEW cmds, Key(next, cmds),
           ModelSound(next), Shows(next, doomed), \A c \in cmds : CallSound(c)
    PROVE  TuiInv'
  BY KeyWithKeeps DEF Key, TuiInv

\* So does an answer, which may add to the scopes that were left.
LEMMA AnswerWithKeeps ==
    ASSUME TuiInv, NEW calls, \A k \in calls : CallSound(k), NEW c \in flight, NEW next, NEW cmds,
           AnswerWith(calls, c, next, cmds),
           ModelSound(next), Shows(next, doomed'), doomed' \subseteq Scopes,
           \A k \in cmds : CallSound(k)
    PROVE  TuiInv'
  <1>1. /\ refused' = refused /\ m' = next /\ flight' = (calls \ {c}) \cup cmds /\ keys' = keys /\ quit' = quit
        /\ \A k \in (calls \ {c}) \cup cmds : CallSound(k)
    BY DEF AnswerWith
  <1>2. ModelSound(m)' /\ (\A k \in flight : CallSound(k))' /\ RefusedTyped'
    BY <1>1, SoundStays DEF TuiInv
  <1>3. Shows(m, doomed)'
    BY <1>1 DEF Shows
  <1>. QED
    BY <1>1, <1>2, <1>3 DEF TuiInv

LEMMA AnswerKeeps ==
    ASSUME TuiInv, NEW c \in flight, NEW next, NEW cmds, Answer(c, next, cmds),
           ModelSound(next), Shows(next, doomed'), doomed' \subseteq Scopes,
           \A k \in cmds : CallSound(k)
    PROVE  TuiInv'
  BY AnswerWithKeeps DEF Answer, TuiInv

\* A refusal leads to a Model that holds what was known or the refused call.
LEMMA RefusalKeeps ==
    ASSUME TuiInv, NEW c \in flight, NEW next, Refusal(c, next), doomed' = doomed, Shows(next, doomed),
           next \in Model,
           next.auth.kind \in RetryKinds =>
               /\ next.auth.scope \in Scopes
               /\ Asked(next.auth.kind, next.auth.scope, next.auth.name)
                     \in refused \cup {Asked(c.op, c.scope, c.name)},
           next.mode = "reveal" => next.reveal.name \in EntryNames,
           next.mode = "scoperename" => next.renaming \in Scopes
    PROVE  TuiInv'
  <1>1. /\ refused' = refused \cup {Asked(c.op, c.scope, c.name)} /\ m' = next /\ flight' = flight \ {c}
        /\ keys' = keys /\ quit' = quit
    BY DEF Refusal
  <1>2. ModelSound(m)'
    BY <1>1 DEF ModelSound
  <1>3. \A k \in flight : CallSound(k)'
    BY <1>1 DEF CallSound, TuiInv
  <1>4. RefusedTyped'
    BY <1>1 DEF TuiInv, RefusedTyped, CallSound
  <1>5. Shows(m, doomed)'
    BY <1>1 DEF Shows
  <1>. QED
    BY <1>1, <1>2, <1>3, <1>4, <1>5 DEF TuiInv

LEMMA OpNames ==
    /\ "load" \in Ops /\ "get" \in Ops /\ "put" \in Ops /\ "delete" \in Ops /\ "rename" \in Ops
    /\ "describe" \in Ops /\ "approve" \in Ops
  BY DEF Ops, AuthKinds

\* The calls of data.go are sound.
LEMMA CommandsSound ==
    /\ \A s \in Scopes : CallSound(LoadEntriesCmd(s)) /\ CallSound(ScopeDeleteCmd(s))
    /\ \A s \in Scopes : \A n \in EntryNames :
          /\ CallSound(GetValueCmd(s, n))
          /\ \A op \in {"put", "delete", "rename", "describe"} : CallSound(OpCmd(op, s, n))
    /\ \A s \in Scopes : \A t \in Scopes : CallSound(ScopeRenameCmd(s, t))
    /\ CallSound(DecideApprovalCmd)
    /\ \A q \in Parked, pw \in BOOLEAN : CallSound(AnnCmd(q, pw))
  <1>1. ASSUME NEW s \in Scopes PROVE CallSound(LoadEntriesCmd(s)) /\ CallSound(ScopeDeleteCmd(s))
    <2>. DEFINE c == [kind |-> "entries", op |-> "load", scope |-> s, name |-> None, pw |-> FALSE, wiped |-> FALSE]
                d == [kind |-> "deleted", op |-> "delete", scope |-> s, name |-> None, pw |-> FALSE, wiped |-> FALSE]
    <2>1. c \in Calls /\ c.kind = "entries" /\ d \in Calls /\ d.kind = "deleted" /\ d.scope = s
      BY OpNames DEF Calls
    <2>. HIDE DEF c, d
    <2>2. CallSound(c) /\ CallSound(d)
      BY <2>1 DEF CallSound
    <2>. QED
      BY <2>2 DEF LoadEntriesCmd, ScopeDeleteCmd, Call, c, d
  <1>2. ASSUME NEW s \in Scopes, NEW n \in EntryNames PROVE CallSound(GetValueCmd(s, n))
    <2>. DEFINE c == [kind |-> "value", op |-> "get", scope |-> s, name |-> n, pw |-> FALSE, wiped |-> FALSE]
    <2>1. c \in Calls /\ c.kind = "value" /\ c.op = "get" /\ c.scope = s /\ c.name = n
      BY OpNames DEF Calls, EntryNames
    <2>. HIDE DEF c
    <2>2. CallSound(c)
      BY <2>1 DEF CallSound
    <2>. QED
      BY <2>2 DEF GetValueCmd, Call, c
  <1>3. ASSUME NEW s \in Scopes, NEW n \in EntryNames, NEW op \in {"put", "delete", "rename", "describe"}
        PROVE  CallSound(OpCmd(op, s, n))
    <2>. DEFINE c == [kind |-> "op", op |-> op, scope |-> s, name |-> n, pw |-> FALSE, wiped |-> FALSE]
    <2>1. c \in Calls /\ c.kind = "op" /\ c.op = op /\ c.scope = s /\ c.name = n
      BY OpNames DEF Calls, EntryNames
    <2>. HIDE DEF c
    <2>2. CallSound(c)
      BY <2>1 DEF CallSound
    <2>. QED
      BY <2>2 DEF OpCmd, Call, c
  <1>4. ASSUME NEW s \in Scopes, NEW t \in Scopes PROVE CallSound(ScopeRenameCmd(s, t))
    <2>. DEFINE c == [kind |-> "renamed", op |-> "rename", scope |-> s, name |-> t, pw |-> FALSE, wiped |-> FALSE]
    <2>1. c \in Calls /\ c.kind = "renamed" /\ c.scope = s /\ c.name = t
      BY OpNames DEF Calls
    <2>. HIDE DEF c
    <2>2. CallSound(c)
      BY <2>1 DEF CallSound
    <2>. QED
      BY <2>2 DEF ScopeRenameCmd, Call, c
  <1>5. CallSound(DecideApprovalCmd)
    <2>. DEFINE c == [kind |-> "decided", op |-> "approve", scope |-> None, name |-> None, pw |-> FALSE, wiped |-> FALSE]
    <2>1. c \in Calls /\ c.kind = "decided"
      BY OpNames DEF Calls
    <2>. HIDE DEF c
    <2>2. CallSound(c)
      BY <2>1 DEF CallSound
    <2>. QED
      BY <2>2 DEF DecideApprovalCmd, Call, c
  <1>6. ASSUME NEW q \in Parked, NEW pw \in BOOLEAN PROVE CallSound(AnnCmd(q, pw))
    <2>. DEFINE c == [kind |-> "ann", op |-> q.op, scope |-> q.scope, name |-> q.name, pw |-> pw, wiped |-> FALSE]
    <2>1. c = AnnCmd(q, pw)
      BY DEF AnnCmd
    <2>2. q.op \in Ops /\ q.scope \in Scopes \cup {None} /\ q.name \in Names \cup {None}
      BY DEF Parked, Ops, AuthKinds
    <2>3. c \in Calls /\ c.kind = "ann"
      BY <2>2 DEF Calls
    <2>. HIDE DEF c
    <2>4. CallSound(c)
      BY <2>3 DEF CallSound
    <2>. QED
      BY <2>1, <2>4
  <1>. QED
    BY <1>1, <1>2, <1>3, <1>4, <1>5, <1>6

LEMMA RetrySound ==
    ASSUME ModelSound(m), m.auth.kind \in RetryKinds
    PROVE  CallSound(AuthRetryCmd(m.auth))
  <1>1. m.auth \in AuthReqState
    BY DEF ModelSound, Model
  <1>. QED
    BY <1>1 DEF ModelSound, CallSound, Calls, Call, AuthRetryCmd, AuthReqState, Ops, AuthKinds, EntryNames

LEMMA RevealingTyped ==
    ASSUME NEW n \in EntryNames, NEW v \in Text
    PROVE  Revealing(n, v) \in RevealState /\ Revealing(n, v).name = n
  <1>1. RevealTicks \in 0..RevealTicks
    BY TuiAssumption
  <1>2. n \in Names \cup {Fresh, "", None}
    BY DEF EntryNames
  <1>. QED
    BY <1>1, <1>2 DEF Revealing, RevealState

LEMMA Unasked == NoAuth \in AuthReqState /\ NoAuth.kind \notin RetryKinds
  BY DEF NoAuth, AuthReqState, AuthKinds, RetryKinds, Modes

\* The overlay opened on a refused call.
LEMMA Asking ==
    ASSUME TuiInv, NEW c \in flight, c.scope \in Scopes, c.name \in EntryNames, c.op \in RetryKinds,
           NEW prior \in Modes, doomed' = doomed,
           Refusal(c, [m EXCEPT !.mode = "auth", !.auth = AuthReq(c.op, prior, c.scope, c.name)])
    PROVE  TuiInv'
  <1>. DEFINE ar == AuthReq(c.op, prior, c.scope, c.name)
              next == [m EXCEPT !.mode = "auth", !.auth = ar]
  <1>1. ar \in AuthReqState
    BY DEF AuthReq, AuthReqState, RetryKinds, AuthKinds, EntryNames
  <1>2. ar.scope = c.scope /\ ar.kind = c.op /\ ar.name = c.name
    BY DEF AuthReq
  <1>3. ModelSound(m) /\ Shows(m, doomed)
    BY DEF TuiInv
  <1>. HIDE DEF ar
  <1>4. next \in Model /\ next.auth = ar /\ next.mode = "auth" /\ Shows(next, doomed)
    BY <1>1, <1>3, ModeNames DEF ModelSound, Shows, Model
  <1>5. Refusal(c, next)
    BY DEF ar
  <1>. HIDE DEF next
  <1>. QED
    BY <1>2, <1>4, <1>5, RefusalKeeps

\* ... and for an annotation, whose call the view keeps.
LEMMA PasswordAsked ==
    ASSUME NEW md, ModelSound(md), Shows(md, doomed)
    PROVE  ModelSound(AnnAskPassword(md)) /\ Shows(AnnAskPassword(md), doomed)
  <1>. DEFINE ar == AuthReq("annotation", "annotations", None, "")
  <1>1. ar \in AuthReqState /\ ar.kind \notin RetryKinds
    BY DEF AuthReq, AuthReqState, AuthKinds, RetryKinds, Modes
  <1>2. "auth" \in Modes
    BY DEF Modes
  <1>3. AnnAskPassword(md) = [md EXCEPT !.mode = "auth", !.auth = ar]
    BY DEF AnnAskPassword
  <1>. HIDE DEF ar
  <1>. QED
    BY <1>1, <1>2, <1>3 DEF ModelSound, Shows, Model

LEMMA Receives == TuiInv /\ Receive => TuiInv'
  <1>. SUFFICES ASSUME TuiInv, NEW c \in flight,
                       \/ EntriesLoaded(c) \/ EntryValue(c) \/ OpComplete(c) \/ ScopeRenamed(c)
                       \/ ScopeDeleted(c) \/ ApprovalDecided(c) \/ AuthRetried(c) \/ AnnAnswered(c)
                PROVE  TuiInv'
    BY DEF Receive
  <1>0. /\ ModelSound(m) /\ Shows(m, doomed) /\ CallSound(c) /\ doomed \subseteq Scopes
        /\ m.scope \in Scopes
    BY DEF TuiInv, ModelSound, Model
  <1>a. ASSUME NEW next, NEW cmds, Answer(c, next, cmds), doomed' = doomed, ModelSound(next),
               Shows(next, doomed), \A k \in cmds : CallSound(k)
        PROVE  TuiInv'
    BY <1>0, <1>a, AnswerKeeps
  <1>b. \A k \in {} : CallSound(k)
    OBVIOUS
  <1>d. ASSUME NEW next, Refusal(c, next), doomed' = doomed, ModelSound(next), Shows(next, doomed)
        PROVE  TuiInv'
    BY <1>d, RefusalKeeps DEF ModelSound
  <1>c. \A k \in {LoadEntriesCmd(m.scope)} : CallSound(k)
    BY <1>0, CommandsSound
  <1>1. CASE EntriesLoaded(c)
    <2>1. LET next == [m EXCEPT !.entriesOf = IF c.scope = m.scope THEN c.scope ELSE @]
          IN ModelSound(next) /\ Shows(next, doomed)
      BY <1>0 DEF ModelSound, Shows, Model
    <2>. QED
      BY <1>0, <1>1, <1>a, <1>b, <2>1 DEF EntriesLoaded
  <1>2. CASE EntryValue(c)
    <2>k. c.scope \in Scopes /\ c.name \in EntryNames /\ doomed' = doomed /\ c.op = "get"
      BY <1>0, <1>2 DEF EntryValue, CallSound
    <2>. DEFINE n1 == [m EXCEPT !.mode = "auth", !.auth = AuthReq(c.op, m.mode, c.scope, c.name)]
                n2 == [m EXCEPT !.reveal = Revealing(c.name, c.scope)]
                n3 == [m EXCEPT !.edit.value = c.scope, !.edit.orig = c.scope]
    <2>0. m.mode \in Modes /\ m.edit \in EditBuf
      BY <1>0 DEF ModelSound, Model
    <2>1. Refusal(c, n1) => TuiInv'
      BY <2>0, <2>k, Asking DEF RetryKinds
    <2>b. Revealing(c.name, c.scope) \in RevealState /\ Revealing(c.name, c.scope).name = c.name
      BY <2>k, RevealingTyped DEF Text
    <2>2. ModelSound(n2) /\ Shows(n2, doomed)
      BY <1>0, <2>k, <2>b DEF ModelSound, Shows, Model
    <2>c. [m.edit EXCEPT !.value = c.scope, !.orig = c.scope] \in EditBuf
      BY <2>0, <2>k DEF EditBuf, Text
    <2>3. ModelSound(n3) /\ Shows(n3, doomed)
      BY <1>0, <2>c DEF ModelSound, Shows, Model
    <2>. HIDE DEF n1, n2, n3
    <2>4. Answer(c, m, {}) \/ Refusal(c, n1) \/ Answer(c, n2, {}) \/ Answer(c, n3, {})
      BY <1>2, <2>k DEF EntryValue, n1, n2, n3
    <2>. QED
      BY <1>0, <1>a, <1>b, <2>k, <2>1, <2>2, <2>3, <2>4
  <1>3. CASE OpComplete(c)
    <2>k. c.scope \in Scopes /\ c.name \in EntryNames /\ doomed' = doomed
      BY <1>0, <1>3 DEF OpComplete, CallSound
    <2>. DEFINE n1 == [m EXCEPT !.mode = "auth", !.auth = AuthReq(c.op, "normal", c.scope, c.name)]
                n2 == [m EXCEPT !.auth = NoAuth]
    <2>1. CASE c.op # "describe" /\ Refusal(c, n1)
      <3>1. c.op \in RetryKinds
        BY <1>0, <1>3, <2>1 DEF OpComplete, CallSound, RetryKinds
      <3>. QED
        BY <2>1, <2>k, <3>1, Asking, ModeNames
    <2>2. ModelSound(n2) /\ Shows(n2, doomed)
      BY <1>0, Unasked DEF ModelSound, Shows, Model
    <2>3. Answer(c, n2, {}) \/ Answer(c, n2, {LoadEntriesCmd(m.scope)}) => TuiInv'
      BY <1>a, <1>b, <1>c, <2>k, <2>2
    <2>. QED
      BY <1>3, <2>1, <2>3 DEF OpComplete
  <1>4. CASE ScopeRenamed(c)
    <2>k. c.scope \in Scopes /\ c.name \in Scopes
      BY <1>0, <1>4 DEF ScopeRenamed, CallSound
    <2>. DEFINE n1 == [m EXCEPT !.scope = IF @ = c.scope THEN c.name ELSE @,
                                !.rail = (@ \ {c.scope}) \cup {c.name}]
    <2>1. CASE Answer(c, m, {}) /\ UNCHANGED doomed
      BY <1>0, <1>a, <1>b, <2>1
    <2>2. CASE Answer(c, n1, {}) /\ doomed' = doomed \cup {c.scope}
      <3>1. ModelSound(n1)
        BY <1>0, <2>k DEF ModelSound, Model
      <3>2. Shows(n1, doomed')
        BY <1>0, <2>k, <2>2 DEF ModelSound, Shows, Model
      <3>. QED
        BY <1>0, <1>b, <2>k, <2>2, <3>1, <3>2, AnswerKeeps
    <2>. QED
      BY <1>4, <2>1, <2>2 DEF ScopeRenamed
  <1>5. CASE ScopeDeleted(c)
    <2>1. LET next == [m EXCEPT !.rail = @ \ {c.scope}]
          IN ModelSound(next) /\ Shows(next, doomed)
      BY <1>0 DEF ModelSound, Shows, Model
    <2>. QED
      BY <1>0, <1>5, <1>a, <1>b, <2>1 DEF ScopeDeleted
  <1>6. CASE ApprovalDecided(c)
    <2>1. LET next == [m EXCEPT !.mode = "approvals", !.pendingApproval = FALSE]
          IN ModelSound(next) /\ Shows(next, doomed)
      BY <1>0, ModeNames DEF ModelSound, Shows, Model
    <2>. QED
      BY <1>0, <1>6, <1>a, <1>b, <2>1 DEF ApprovalDecided
  <1>7. CASE AuthRetried(c)
    <2>k. /\ c.scope \in Scopes /\ c.name \in EntryNames /\ doomed' = doomed
          /\ m.edit \in EditBuf /\ m.auth.name \in EntryNames /\ c.scope \in Text
      BY <1>0, <1>7 DEF AuthRetried, CallSound, ModelSound, Model, AuthReqState, EntryNames, Text
    <2>. DEFINE n1 == [m EXCEPT !.auth = NoAuth, !.mode = "insert",
                                !.edit.value = c.scope, !.edit.orig = c.scope]
                n2 == [m EXCEPT !.auth = NoAuth, !.mode = "reveal",
                                !.reveal = Revealing(m.auth.name, c.scope)]
                n3 == [m EXCEPT !.auth = NoAuth, !.mode = "normal"]
    <2>1. ModelSound(n1) /\ Shows(n1, doomed)
      <3>1. [m.edit EXCEPT !.value = c.scope, !.orig = c.scope] \in EditBuf
        BY <2>k DEF EditBuf
      <3>. QED
        BY <1>0, <3>1, Unasked, ModeNames DEF ModelSound, Shows, Model
    <2>2. ModelSound(n2) /\ Shows(n2, doomed)
      BY <1>0, <2>k, RevealingTyped, Unasked, ModeNames DEF ModelSound, Shows, Model
    <2>3. ModelSound(n3) /\ Shows(n3, doomed)
      BY <1>0, Unasked, ModeNames DEF ModelSound, Shows, Model
    <2>w. ASSUME NEW W, W \subseteq Repeats(m.auth), NEW next, NEW cmds, AnswerWith(Zeroed(W), c, next, cmds),
                 ModelSound(next), Shows(next, doomed), \A k \in cmds : CallSound(k)
          PROVE  TuiInv'
      <3>1. \A k \in Zeroed(W) : CallSound(k)
        BY <2>w, ZeroedSound DEF TuiInv, Repeats
      <3>. QED
        BY <1>0, <2>k, <2>w, <3>1, AnswerWithKeeps
    <2>4. \/ Answer(c, m, {}) \/ Answer(c, n3, {})
          \/ \E W \in SUBSET Repeats(m.auth) :
                \/ AnswerWith(Zeroed(W), c, n1, {}) \/ AnswerWith(Zeroed(W), c, n2, {})
                \/ AnswerWith(Zeroed(W), c, n3, {LoadEntriesCmd(m.scope)})
      BY <1>7 DEF AuthRetried
    <2>. HIDE DEF n1, n2, n3
    <2>. QED
      BY <1>0, <1>a, <1>b, <1>c, <2>k, <2>w, <2>1, <2>2, <2>3, <2>4
  <1>8. CASE AnnAnswered(c)
    <2>k. doomed' = doomed /\ m.ann \in AnnState
      BY <1>0, <1>8 DEF AnnAnswered, ModelSound, Model
    <2>. DEFINE n1 == [AnnLeaveOverlay EXCEPT !.ann.pending = Nothing]
    <2>1. ModelSound(AnnRetryAgain) /\ Shows(AnnRetryAgain, doomed)
      <3>1. [m.ann EXCEPT !.pw = FALSE] \in AnnState
        BY <2>k DEF AnnState
      <3>. QED
        BY <1>0, <3>1 DEF ModelSound, Shows, Model, AnnRetryAgain
    <2>2. ModelSound(AnnAskPassword(m)) /\ Shows(AnnAskPassword(m), doomed)
      BY <1>0, PasswordAsked
    <2>3. ModelSound(AnnLeaveOverlay) /\ Shows(AnnLeaveOverlay, doomed) /\ AnnLeaveOverlay.ann = m.ann
      BY <1>0, Unasked, ModeNames DEF ModelSound, Shows, Model, AnnLeaveOverlay
    <2>4. ModelSound(n1) /\ Shows(n1, doomed)
      <3>1. [m.ann EXCEPT !.pending = Nothing] \in AnnState
        BY <2>k DEF AnnState, Nothing, Parked
      <3>. QED
        BY <2>3, <3>1 DEF ModelSound, Shows, Model
    <2>5. CallSound(AnnCmd(OfView("load"), m.ann.pw))
      BY <2>k, CommandsSound DEF AnnState, Parked, OfView
    <2>6. \/ Answer(c, m, {}) \/ Refusal(c, AnnRetryAgain) \/ Refusal(c, AnnAskPassword(m))
          \/ Answer(c, AnnLeaveOverlay, {}) \/ Answer(c, n1, {AnnCmd(OfView("load"), m.ann.pw)})
      BY <1>8 DEF AnnAnswered
    <2>. HIDE DEF n1
    <2>. QED
      BY <1>0, <1>a, <1>b, <1>d, <2>k, <2>1, <2>2, <2>3, <2>4, <2>5, <2>6
  <1>. QED
    BY <1>1, <1>2, <1>3, <1>4, <1>5, <1>6, <1>7, <1>8

LEMMA QuietKey ==
    ASSUME TuiInv, NEW next, Key(next, {}), ModelSound(next), Shows(next, doomed)
    PROVE  TuiInv'
  BY KeyKeeps

LEMMA CallingKey ==
    ASSUME TuiInv, NEW next, NEW c, Key(next, {c}), ModelSound(next), Shows(next, doomed), CallSound(c)
    PROVE  TuiInv'
  BY KeyKeeps

LEMMA Fields ==
    ASSUME ModelSound(m)
    PROVE  /\ m.mode \in Modes /\ m.scope \in Scopes /\ m.rail \subseteq Scopes
           /\ m.edit \in EditBuf /\ m.edit.name \in EntryNames /\ m.edit.orig \in Text
           /\ m.reveal \in RevealState /\ m.reveal.value \in Text /\ m.auth \in AuthReqState
           /\ m.ann \in AnnState /\ m.ann.pending \in Parked /\ m.ann.pw \in BOOLEAN
           /\ \A op \in {"load", "op", "history"} : OfView(op) \in Parked
           /\ Rows \subseteq Names
  <1>1. /\ m.mode \in Modes /\ m.scope \in Scopes /\ m.rail \subseteq Scopes
        /\ m.edit \in EditBuf /\ m.reveal \in RevealState /\ m.auth \in AuthReqState
        /\ m.ann \in AnnState
    BY DEF ModelSound, Model
  <1>2. \A op \in {"load", "op", "history"} : OfView(op) \in Parked
    BY <1>1 DEF AnnState, OfView, Parked
  <1>. QED
    BY <1>1, <1>2 DEF EditBuf, RevealState, AnnState, EntryNames, Rows

LEMMA NoEditTyped == NoEdit \in EditBuf
  BY DEF NoEdit, EditBuf, Text

LEMMA NoRevealTyped == NoReveal \in RevealState
  <1>1. 0 \in 0..RevealTicks
    BY TuiAssumption
  <1>. QED
    BY <1>1 DEF NoReveal, RevealState, Text

\* A key that starts no call and only changes the mode.
LEMMA ModeKey ==
    ASSUME TuiInv, NEW md \in Modes, md \notin {"reveal", "scoperename"},
           Key([m EXCEPT !.mode = md], {})
    PROVE  TuiInv'
  <1>. DEFINE next == [m EXCEPT !.mode = md]
  <1>1. ModelSound(next) /\ Shows(next, doomed)
    BY DEF TuiInv, ModelSound, Shows, Model
  <1>. QED
    BY <1>1, KeyKeeps

\* Leaving changes nothing but what was not sent yet.
LEMMA Leaves ==
    ASSUME TuiInv, quit' \in {"no", "clean", "forced"}, UNCHANGED <<m, keys, doomed, refused>>,
           NEW W, W \subseteq Repeats(m.auth), flight' = Zeroed(W)
    PROVE  TuiInv'
  <1>1. \A c \in Zeroed(W) : CallSound(c)
    BY ZeroedSound DEF TuiInv, Repeats
  <1>2. ModelSound(m)' /\ (\A c \in flight : CallSound(c))' /\ RefusedTyped'
    BY <1>1, SoundStays DEF TuiInv
  <1>. QED
    BY <1>2 DEF TuiInv, Shows

LEMMA Exits == ASSUME TuiInv, NEW how \in {"clean", "forced"}, Exit(how) PROVE TuiInv'
  <1>1. flight = Zeroed({})
    BY DEF Zeroed
  <1>. QED
    BY <1>1, Leaves DEF Exit

LEMMA LoadKey ==
    ASSUME TuiInv, NEW md, ModelSound(md), NEW s \in Scopes, LoadCurrentScope(md, s)
    PROVE  TuiInv'
  <1>. DEFINE next == [md EXCEPT !.scope = s, !.entriesOf = None]
  <1>1. ModelSound(next) /\ Shows(next, doomed)
    BY DEF ModelSound, Shows, Model
  <1>2. \A c \in {LoadEntriesCmd(s)} : CallSound(c)
    BY CommandsSound
  <1>. QED
    BY <1>1, <1>2, KeyKeeps DEF LoadCurrentScope

LEMMA NormalKeys == TuiInv /\ KeyNormal => TuiInv'
  <1>. SUFFICES ASSUME TuiInv, KeyNormal PROVE TuiInv'
    OBVIOUS
  <1>0. ModelSound(m) /\ Shows(m, doomed)
    BY DEF TuiInv
  <1>1. ASSUME NEW n \in Rows, StartEdit(n) PROVE TuiInv'
    <2>. DEFINE b == [NoEdit EXCEPT !.kind = "insert", !.name = n, !.at = m.scope]
                next == [m EXCEPT !.mode = "insert", !.edit = b]
    <2>1. b \in EditBuf
      BY <1>0, <1>1, Fields DEF NoEdit, EditBuf, Text
    <2>2. ModelSound(next) /\ Shows(next, doomed)
      BY <1>0, <2>1, ModeNames DEF ModelSound, Shows, Model
    <2>3. CallSound(GetValueCmd(m.scope, n))
      BY <1>0, <1>1, Fields, CommandsSound DEF EntryNames
    <2>4. Key([m EXCEPT !.mode = "insert"], {}) \/ Key(next, {GetValueCmd(m.scope, n)})
      BY <1>1 DEF StartEdit
    <2>. HIDE DEF next
    <2>. QED
      BY CallingKey, <2>2, <2>3, <2>4, ModeKey, ModeNames
  <1>2. ASSUME NEW n \in Rows, StartRename(n) PROVE TuiInv'
    <2>. DEFINE b == [kind |-> "rename", name |-> n, value |-> n, orig |-> n, at |-> m.scope]
                next == [m EXCEPT !.mode = "rename", !.edit = b]
    <2>1. b \in EditBuf
      BY <1>0, <1>2, Fields DEF EditBuf, Text
    <2>2. ModelSound(next) /\ Shows(next, doomed)
      BY <1>0, <2>1, ModeNames DEF ModelSound, Shows, Model
    <2>. QED
      BY <1>2, QuietKey, <2>2 DEF StartRename
  <1>3. ASSUME NEW n \in Rows, StartReveal(n) PROVE TuiInv'
    <2>. DEFINE next == [m EXCEPT !.mode = "reveal", !.reveal = Revealing(n, "")]
    <2>1. n \in EntryNames /\ "" \in Text
      BY <1>0, <1>3, Fields DEF EntryNames, Text
    <2>2. ModelSound(next) /\ Shows(next, doomed)
      BY <1>0, <2>1, RevealingTyped, ModeNames DEF ModelSound, Shows, Model
    <2>3. CallSound(GetValueCmd(m.scope, n))
      BY <1>0, <2>1, Fields, CommandsSound
    <2>. QED
      BY <1>3, CallingKey, <2>2, <2>3 DEF StartReveal
  <1>4. ASSUME NEW n \in Rows, StartDelete(n) PROVE TuiInv'
    <2>. DEFINE next == [m EXCEPT !.mode = "confirm", !.confirm = n]
    <2>1. ModelSound(next) /\ Shows(next, doomed)
      BY <1>0, <1>4, Fields, ModeNames DEF ModelSound, Shows, Model
    <2>. QED
      BY <1>4, QuietKey, <2>1 DEF StartDelete
  <1>5. ASSUME NEW n \in Rows, NEW inh \in BOOLEAN, OpenAnnotations(n, inh) PROVE TuiInv'
    <2>. DEFINE s == IF inh THEN Default ELSE m.scope
                a == [NoAnn EXCEPT !.name = n, !.scope = s]
                q == [op |-> "load", scope |-> s, name |-> n]
                next == [m EXCEPT !.mode = "annotations", !.ann = a]
    <2>0. s \in Scopes /\ n \in Names
      BY <1>0, Fields, TuiAssumption
    <2>1. a \in AnnState /\ q \in Parked
      BY <2>0 DEF NoAnn, Nothing, AnnState, Parked
    <2>2. ModelSound(next) /\ Shows(next, doomed)
      BY <1>0, <2>1, ModeNames DEF ModelSound, Shows, Model
    <2>3. CallSound(AnnCmd(q, FALSE))
      BY <2>1, CommandsSound
    <2>4. Key(next, {AnnCmd(q, FALSE)})
      BY <1>5 DEF OpenAnnotations
    <2>. HIDE DEF next, q
    <2>. QED
      BY CallingKey, <2>2, <2>3, <2>4
  <1>6. ASSUME NEW s \in m.rail, Activate(s) PROVE TuiInv'
    BY <1>0, <1>6, Fields, LoadKey DEF Activate
  <1>7. ASSUME NEW s \in m.rail, StartScopeRename(s) PROVE TuiInv'
    <2>. DEFINE next == [m EXCEPT !.mode = "scoperename", !.renaming = s]
    <2>1. ModelSound(next) /\ Shows(next, doomed)
      BY <1>0, <1>7, Fields, ModeNames DEF ModelSound, Shows, Model
    <2>. QED
      BY <1>7, QuietKey, <2>1 DEF StartScopeRename
  <1>8. ASSUME NEW s \in m.rail, StartScopeDelete(s) PROVE TuiInv'
    <2>. DEFINE next == [m EXCEPT !.mode = "confirm", !.confirm = s]
    <2>1. ModelSound(next) /\ Shows(next, doomed)
      BY <1>0, <1>8, Fields, ModeNames DEF ModelSound, Shows, Model
    <2>. QED
      BY <1>8, QuietKey, <2>1 DEF StartScopeDelete
  <1>9. ASSUME StartAdd PROVE TuiInv'
    <2>. DEFINE b == [NoEdit EXCEPT !.kind = "new", !.at = m.scope]
                next == [m EXCEPT !.mode = "add", !.edit = b]
    <2>1. b \in EditBuf
      BY <1>0, Fields DEF NoEdit, EditBuf, Text
    <2>2. ModelSound(next) /\ Shows(next, doomed)
      BY <1>0, <2>1, ModeNames DEF ModelSound, Shows, Model
    <2>. QED
      BY <1>9, QuietKey, <2>2 DEF StartAdd
  <1>10. ASSUME OpenScopePicker PROVE TuiInv'
    BY <1>10, ModeKey, ModeNames DEF OpenScopePicker
  <1>11. ASSUME NEW v \in {"", "typed", m.edit.orig}, ChangeDraft(v) PROVE TuiInv'
    <2>. DEFINE next == [m EXCEPT !.edit.value = v]
    <2>1. v \in Text
      BY <1>0, Fields DEF Text
    <2>2. [m.edit EXCEPT !.value = v] \in EditBuf
      BY <1>0, <2>1, Fields DEF EditBuf
    <2>3. ModelSound(next) /\ Shows(next, doomed)
      BY <1>0, <2>2 DEF ModelSound, Shows, Model
    <2>. QED
      BY <1>11, QuietKey, <2>3 DEF ChangeDraft
  <1>12. ASSUME NEW md \in {"search", "audit", "help", "approvals"}, Look(md) PROVE TuiInv'
    BY <1>12, ModeKey, ModeNames DEF Look
  <1>13. ASSUME KeyNormalQuit PROVE TuiInv'
    BY <1>13, Exits DEF KeyNormalQuit
  <1>. QED
    BY <1>1, <1>2, <1>3, <1>4, <1>5, <1>6, <1>7, <1>8, <1>9, <1>10, <1>11, <1>12, <1>13
       DEF KeyNormal

LEMMA EditKeys ==
    TuiInv /\ (KeyInsertEsc \/ OpenCommand \/ \E v \in Names \cup {Fresh, "typed", ""} : TypeText(v))
      => TuiInv'
  <1>. SUFFICES ASSUME TuiInv
                PROVE  (KeyInsertEsc \/ OpenCommand
                         \/ \E v \in Names \cup {Fresh, "typed", ""} : TypeText(v)) => TuiInv'
    OBVIOUS
  <1>0. ModelSound(m) /\ Shows(m, doomed)
    BY DEF TuiInv
  <1>1. CASE KeyInsertEsc
    <2>. DEFINE b == IF Dirty(m.edit) THEN m.edit ELSE NoEdit
                next == [m EXCEPT !.mode = "normal", !.edit = IF Dirty(@) THEN @ ELSE NoEdit]
    <2>1. next = [m EXCEPT !.mode = "normal", !.edit = b] /\ b \in EditBuf
      BY <1>0, Fields, NoEditTyped
    <2>2. ModelSound(next) /\ Shows(next, doomed)
      <3>. HIDE DEF b
      <3>. QED
        BY <1>0, <2>1, ModeNames DEF ModelSound, Shows, Model
    <2>. HIDE DEF next
    <2>3. Key(next, {})
      BY <1>1 DEF KeyInsertEsc, next
    <2>. QED
      BY QuietKey, <2>2, <2>3
  <1>2. CASE OpenCommand
    <2>. DEFINE next == [m EXCEPT !.mode = "command", !.fromEdit = m.mode \in EditModes]
    <2>1. PICK editing \in BOOLEAN : editing <=> m.mode \in EditModes
      OBVIOUS
    <2>2. next = [m EXCEPT !.mode = "command", !.fromEdit = editing]
      BY <2>1
    <2>3. Key(next, {})
      BY <1>2 DEF OpenCommand
    <2>4. ModelSound(next) /\ Shows(next, doomed)
      BY <1>0, <2>2, ModeNames DEF ModelSound, Shows, Model
    <2>. QED
      BY <2>3, <2>4, QuietKey
  <1>3. ASSUME NEW v \in Names \cup {Fresh, "typed", ""}, TypeText(v) PROVE TuiInv'
    <2>. DEFINE n1 == [m EXCEPT !.edit.value = v]
                n2 == [m EXCEPT !.edit.name = v]
    <2>1. [m.edit EXCEPT !.value = v] \in EditBuf
      BY <1>0, <1>3, Fields DEF EditBuf, Text
    <2>2. v \in Names \cup {Fresh, ""} => [m.edit EXCEPT !.name = v] \in EditBuf
      BY <1>0, Fields DEF EditBuf
    <2>3. ModelSound(n1) /\ Shows(n1, doomed)
      BY <1>0, <2>1 DEF ModelSound, Shows, Model
    <2>4. v \in Names \cup {Fresh, ""} => ModelSound(n2) /\ Shows(n2, doomed)
      BY <1>0, <2>2 DEF ModelSound, Shows, Model
    <2>5. Key(n1, {}) \/ (v \in Names \cup {Fresh, ""} /\ Key(n2, {}))
      BY <1>3 DEF TypeText
    <2>. HIDE DEF n1, n2
    <2>. QED
      BY QuietKey, <2>3, <2>4, <2>5
  <1>. QED
    BY <1>1, <1>2, <1>3

LEMMA CommandKeys == TuiInv /\ KeyCommand => TuiInv'
  <1>. SUFFICES ASSUME TuiInv, KeyCommand PROVE TuiInv'
    OBVIOUS
  <1>0. ModelSound(m) /\ Shows(m, doomed)
    BY DEF TuiInv
  <1>. DEFINE back == [m EXCEPT !.mode = "normal", !.fromEdit = FALSE]
              done == [m EXCEPT !.mode = "normal", !.edit = NoEdit, !.fromEdit = FALSE]
  <1>c. ModelSound(back) /\ Shows(back, doomed)
    BY <1>0, ModeNames DEF ModelSound, Shows, Model
  <1>d. ModelSound(done) /\ Shows(done, doomed)
    BY <1>0, NoEditTyped, ModeNames DEF ModelSound, Shows, Model
  <1>1. CASE KeyCommandEsc
    <2>. DEFINE md == IF ~m.fromEdit \/ m.edit.kind = "none" THEN "normal"
                      ELSE IF m.edit.kind = "new" THEN "add" ELSE "insert"
                next == [m EXCEPT !.mode = md, !.fromEdit = FALSE]
    <2>1. md \in {"normal", "add", "insert"} /\ md \in Modes
      BY ModeNames
    <2>2. Key(next, {})
      BY <1>1 DEF KeyCommandEsc
    <2>. HIDE DEF md
    <2>3. ModelSound(next) /\ Shows(next, doomed)
      BY <1>0, <2>1 DEF ModelSound, Shows, Model
    <2>. QED
      BY QuietKey, <2>2, <2>3
  <1>2. CASE CommitEdit
    <2>. DEFINE again == [m EXCEPT !.mode = "add", !.fromEdit = FALSE]
    <2>1. ModelSound(again) /\ Shows(again, doomed)
      BY <1>0, ModeNames DEF ModelSound, Shows, Model
    <2>2. CallSound(OpCmd("put", m.scope, m.edit.name)) /\ CallSound(OpCmd("rename", m.scope, m.edit.name))
      BY <1>0, Fields, CommandsSound
    <2>3. \/ Key(again, {}) \/ Key(done, {}) \/ Key(done, {OpCmd("put", m.scope, m.edit.name)})
          \/ Key(done, {OpCmd("rename", m.scope, m.edit.name)})
      BY <1>2 DEF CommitEdit
    <2>. HIDE DEF again, done
    <2>. QED
      BY QuietKey, CallingKey, <1>d, <2>1, <2>2, <2>3
  <1>3. CASE QuitCommand
    <2>. DEFINE out == [back EXCEPT !.edit = NoEdit]
    <2>1. ModelSound(out) /\ Shows(out, doomed)
      BY <1>c, NoEditTyped DEF ModelSound, Shows, Model
    <2>2. Key(back, {}) \/ Key(out, {}) \/ Exit("clean")
      BY <1>3 DEF QuitCommand
    <2>. HIDE DEF back, out
    <2>. QED
      BY QuietKey, <1>c, <2>1, <2>2, Exits
  <1>4. CASE ForceQuitCommand
    BY <1>4, QuietKey, <1>d, Exits DEF ForceQuitCommand
  <1>5. ASSUME NEW s \in m.rail \cup {m.scope}, LoadCurrentScope(back, s) PROVE TuiInv'
    BY <1>0, <1>5, <1>c, Fields, LoadKey
  <1>6. ASSUME NEW n \in Rows, Key(back, {OpCmd("describe", m.scope, n)}) PROVE TuiInv'
    <2>1. CallSound(OpCmd("describe", m.scope, n))
      BY <1>0, <1>6, Fields, CommandsSound DEF EntryNames
    <2>. QED
      BY <1>6, CallingKey, <1>c, <2>1
  <1>7. ASSUME NEW md \in {"audit", "help", "normal"}, Key([back EXCEPT !.mode = md], {}) PROVE TuiInv'
    <2>. DEFINE next == [back EXCEPT !.mode = md]
    <2>1. md \in Modes /\ md \notin {"reveal", "scoperename"}
      BY ModeNames
    <2>2. ModelSound(next) /\ Shows(next, doomed)
      <3>. HIDE DEF back
      <3>. QED
        BY <1>c, <2>1 DEF ModelSound, Shows, Model
    <2>. HIDE DEF next
    <2>. QED
      BY <1>7, QuietKey, <2>2 DEF next
  <1>8. CASE Exit("clean")
    BY <1>8, Exits
  <1>. HIDE DEF done
  <1>. QED
    BY <1>1, <1>2, <1>3, <1>4, <1>5, <1>6, <1>7, <1>8 DEF KeyCommand, RunCommand

LEMMA ViewKeys ==
    TuiInv /\ (KeyReveal \/ KeyConfirm \/ KeyAudit \/ KeyHelp \/ KeySearch) => TuiInv'
  <1>. SUFFICES ASSUME TuiInv, KeyReveal \/ KeyConfirm \/ KeyAudit \/ KeyHelp \/ KeySearch
                PROVE  TuiInv'
    OBVIOUS
  <1>0. ModelSound(m) /\ Shows(m, doomed)
    BY DEF TuiInv
  <1>1. CASE KeyReveal
    <2>. DEFINE b == [kind |-> "insert", name |-> m.reveal.name, value |-> m.reveal.value,
                      orig |-> m.reveal.value, at |-> m.scope]
                n1 == [m EXCEPT !.mode = "normal", !.reveal = NoReveal]
                n2 == [m EXCEPT !.reveal = Revealing(@.name, @.value)]
                n3 == [m EXCEPT !.mode = "insert", !.reveal = NoReveal, !.edit = b]
    <2>k. m.reveal.name \in EntryNames /\ m.reveal.value \in Text /\ m.scope \in Scopes
      BY <1>0, <1>1, Fields DEF KeyReveal, ModelSound
    <2>b. b \in EditBuf
      BY <2>k DEF EditBuf, EntryNames
    <2>1. ModelSound(n1) /\ Shows(n1, doomed)
      BY <1>0, NoRevealTyped, ModeNames DEF ModelSound, Shows, Model
    <2>r. Revealing(m.reveal.name, m.reveal.value) \in RevealState
          /\ Revealing(m.reveal.name, m.reveal.value).name = m.reveal.name
      BY <2>k, RevealingTyped
    <2>2. ModelSound(n2) /\ Shows(n2, doomed)
      BY <1>0, <2>r DEF ModelSound, Shows, Model
    <2>3. ModelSound(n3) /\ Shows(n3, doomed)
      <3>. HIDE DEF b
      <3>. QED
        BY <1>0, <2>b, NoRevealTyped, ModeNames DEF ModelSound, Shows, Model
    <2>4. Key(n1, {}) \/ Key(n2, {}) \/ Key(n3, {})
      BY <1>1 DEF KeyReveal
    <2>. HIDE DEF n1, n2, n3
    <2>. QED
      BY QuietKey, <2>1, <2>2, <2>3, <2>4
  <1>2. CASE KeyConfirm
    <2>. DEFINE back == [m EXCEPT !.mode = "normal", !.confirm = None]
                next == [back EXCEPT !.scope = ClearScopeIfDeleted(m.confirm)]
    <2>1. ModelSound(back) /\ Shows(back, doomed)
      BY <1>0, ModeNames DEF ModelSound, Shows, Model
    <2>2. CASE Key(back, {})
      BY QuietKey, <2>1, <2>2
    <2>3. CASE m.confirm \in Names /\ Key(back, {OpCmd("delete", m.scope, m.confirm)})
      <3>1. CallSound(OpCmd("delete", m.scope, m.confirm))
        BY <1>0, <2>3, Fields, CommandsSound DEF EntryNames
      <3>. QED
        BY CallingKey, <2>1, <2>3, <3>1
    <2>4. CASE /\ m.confirm \in Scopes /\ quit = "no" /\ keys < MaxKeys
               /\ keys' = keys + 1 /\ m' = next
               /\ flight' = flight \cup {ScopeDeleteCmd(m.confirm)}
               /\ doomed' = doomed \cup {m.confirm} /\ UNCHANGED <<quit, refused>>
      <3>1. ClearScopeIfDeleted(m.confirm) \in Scopes
        BY <1>0, Fields, TuiAssumption DEF ClearScopeIfDeleted
      <3>2. ModelSound(next)
        <4>. HIDE DEF back
        <4>. QED
          BY <2>1, <3>1 DEF ModelSound, Model
      <3>3. next.entriesOf = m.entriesOf /\ next.scope = ClearScopeIfDeleted(m.confirm)
        BY <1>0 DEF ModelSound, Model
      <3>4. Shows(next, doomed')
        BY <1>0, <2>4, <3>3 DEF Shows, ClearScopeIfDeleted
      <3>5. \A c \in flight \cup {ScopeDeleteCmd(m.confirm)} : CallSound(c)
        BY <2>4, CommandsSound DEF TuiInv
      <3>6. keys' \in 0..MaxKeys
        BY <2>4, TuiAssumption DEF TuiInv
      <3>. HIDE DEF next
      <3>7. ModelSound(m)' /\ (\A c \in flight : CallSound(c))' /\ RefusedTyped'
        BY <2>4, <3>2, <3>5, SoundStays DEF TuiInv
      <3>8. Shows(m, doomed)'
        BY <2>4, <3>4 DEF Shows
      <3>9. quit' \in {"no", "clean", "forced"} /\ doomed' \subseteq Scopes
        BY <2>4 DEF TuiInv
      <3>. QED
        BY <3>6, <3>7, <3>8, <3>9 DEF TuiInv
    <2>. QED
      BY <1>2, <2>2, <2>3, <2>4 DEF KeyConfirm
  <1>3. CASE KeyAudit
    <2>. DEFINE next == [m EXCEPT !.mode = "search", !.searchAudit = TRUE]
    <2>1. ModelSound(next) /\ Shows(next, doomed)
      BY <1>0, ModeNames DEF ModelSound, Shows, Model
    <2>. QED
      BY <1>3, QuietKey, <2>1, ModeKey, ModeNames DEF KeyAudit
  <1>4. CASE KeyHelp
    BY <1>4, ModeKey, ModeNames DEF KeyHelp
  <1>5. CASE KeySearch
    <2>. DEFINE md == IF m.searchAudit THEN "audit" ELSE "normal"
                next == [m EXCEPT !.mode = md, !.searchAudit = FALSE]
    <2>1. md \in Modes /\ md \notin {"reveal", "scoperename"}
      BY ModeNames
    <2>2. Key(next, {})
      BY <1>5 DEF KeySearch
    <2>. HIDE DEF md
    <2>3. ModelSound(next) /\ Shows(next, doomed)
      BY <1>0, <2>1 DEF ModelSound, Shows, Model
    <2>. QED
      BY QuietKey, <2>2, <2>3
  <1>. QED
    BY <1>1, <1>2, <1>3, <1>4, <1>5

LEMMA ScopeKeys ==
    /\ TuiInv /\ (\E s \in m.rail : KeyScopePicker(s)) => TuiInv'
    /\ TuiInv /\ (\E s \in Scopes \ (m.rail \cup doomed) : KeyScopeRename(s)) => TuiInv'
    /\ TuiInv /\ CtrlC => TuiInv'
  <1>. SUFFICES ASSUME TuiInv
                PROVE  /\ \A s \in m.rail : KeyScopePicker(s) => TuiInv'
                       /\ \A s \in Scopes : KeyScopeRename(s) => TuiInv'
                       /\ CtrlC => TuiInv'
    OBVIOUS
  <1>0. ModelSound(m) /\ Shows(m, doomed)
    BY DEF TuiInv
  <1>1. ASSUME NEW s \in m.rail, KeyScopePicker(s) PROVE TuiInv'
    <2>. DEFINE next == [m EXCEPT !.mode = "normal"]
    <2>1. ModelSound(next)
      BY <1>0, ModeNames DEF ModelSound, Model
    <2>2. Key(next, {}) \/ LoadCurrentScope(next, s)
      BY <1>1 DEF KeyScopePicker
    <2>3. s \in Scopes
      BY <1>0, <1>1, Fields
    <2>. HIDE DEF next
    <2>4. LoadCurrentScope(next, s) => TuiInv'
      BY <2>1, <2>3, LoadKey
    <2>5. Key(next, {}) => TuiInv'
      BY ModeKey, ModeNames DEF next
    <2>. QED
      BY <2>2, <2>4, <2>5
  <1>2. ASSUME NEW s \in Scopes, KeyScopeRename(s) PROVE TuiInv'
    <2>. DEFINE back == [m EXCEPT !.mode = "normal", !.renaming = None]
    <2>1. ModelSound(back) /\ Shows(back, doomed)
      BY <1>0, ModeNames DEF ModelSound, Shows, Model
    <2>2. CallSound(ScopeRenameCmd(m.renaming, s))
      BY <1>0, <1>2, CommandsSound DEF KeyScopeRename, ModelSound
    <2>3. Key(back, {}) \/ Key(back, {ScopeRenameCmd(m.renaming, s)})
      BY <1>2 DEF KeyScopeRename
    <2>. HIDE DEF back
    <2>. QED
      BY <2>1, <2>2, <2>3, QuietKey, CallingKey
  <1>3. ASSUME CtrlC PROVE TuiInv'
    BY <1>3, Exits, Leaves DEF CtrlC
  <1>. QED
    BY <1>1, <1>2, <1>3

LEMMA ApprovalKeys == TuiInv /\ KeyApprovals => TuiInv'
  <1>. SUFFICES ASSUME TuiInv, KeyApprovals PROVE TuiInv'
    OBVIOUS
  <1>0. ModelSound(m) /\ Shows(m, doomed)
    BY DEF TuiInv
  <1>. DEFINE ar == AuthReq("approve", "approvals", None, "")
              next == [m EXCEPT !.mode = "auth", !.pendingApproval = TRUE, !.auth = ar]
  <1>1. ar \in AuthReqState /\ ar.kind \notin RetryKinds
    BY ModeNames DEF AuthReq, AuthReqState, AuthKinds, RetryKinds
  <1>2. Key([m EXCEPT !.mode = "normal"], {}) \/ Key(m, {DecideApprovalCmd}) \/ Key(next, {})
    BY DEF KeyApprovals
  <1>3. ModelSound(next) /\ Shows(next, doomed)
    <2>. HIDE DEF ar
    <2>. QED
      BY <1>0, <1>1, ModeNames DEF ModelSound, Shows, Model
  <1>. HIDE DEF next
  <1>. QED
    BY <1>0, <1>2, <1>3, QuietKey, CallingKey, CommandsSound, ModeKey, ModeNames

\* Enter in the overlay: what it repeats was refused.
LEMMA AuthKeys == TuiInv /\ KeyAuthRequired => TuiInv'
  <1>. SUFFICES ASSUME TuiInv, KeyAuthRequired PROVE TuiInv'
    OBVIOUS
  <1>0. ModelSound(m) /\ Shows(m, doomed)
    BY DEF TuiInv
  <1>. DEFINE md == IF m.auth.kind = "annotation" /\ m.ann.name # None THEN "annotations" ELSE "normal"
              p == IF m.auth.kind = "annotation" /\ m.ann.name # None THEN Nothing ELSE m.ann.pending
              esc == [m EXCEPT !.mode = md, !.auth = NoAuth, !.ann.pending = p]
              again == [m EXCEPT !.ann.pw = TRUE]
  <1>1. md \in {"annotations", "normal"} /\ md \in Modes
    BY ModeNames
  <1>2. [m.ann EXCEPT !.pending = p] \in AnnState /\ [m.ann EXCEPT !.pw = TRUE] \in AnnState
    BY <1>0, Fields DEF AnnState, Nothing, Parked
  <1>3. ModelSound(esc) /\ Shows(esc, doomed)
    <2>. HIDE DEF md, p
    <2>. QED
      BY <1>0, <1>1, <1>2, Unasked DEF ModelSound, Shows, Model
  <1>4. ModelSound(again) /\ Shows(again, doomed)
    BY <1>0, <1>2 DEF ModelSound, Shows, Model
  <1>5. CallSound(AnnCmd(m.ann.pending, TRUE)) /\ CallSound(DecideApprovalCmd)
    BY <1>0, Fields, CommandsSound
  <1>6. m.auth.kind \in RetryKinds => CallSound(AuthRetryCmd(m.auth))
    BY <1>0, RetrySound
  <1>7. \/ Key([m EXCEPT !.mode = "normal"], {})
        \/ \E W \in SUBSET Repeats(m.auth) : KeyWith(Zeroed(W), esc, {})
        \/ m.auth.kind \in RetryKinds /\ Key(m, {AuthRetryCmd(m.auth)})
        \/ Key(m, {DecideApprovalCmd})
        \/ Key(again, {AnnCmd(m.ann.pending, TRUE)})
    <2>1. ASSUME NEW W \in SUBSET Repeats(m.auth),
                 KeyWith(Zeroed(W),
                         [m EXCEPT !.mode = IF m.auth.kind = "annotation" /\ m.ann.name # None
                                              THEN "annotations" ELSE "normal",
                                   !.auth = NoAuth,
                                   !.ann.pending = IF m.auth.kind = "annotation" /\ m.ann.name # None
                                                   THEN Nothing ELSE @], {})
          PROVE  KeyWith(Zeroed(W), esc, {})
      BY <2>1
    <2>. HIDE DEF esc
    <2>. QED
      BY <2>1 DEF KeyAuthRequired
  <1>. HIDE DEF esc, again
  <1>8. ASSUME NEW W \in SUBSET Repeats(m.auth), KeyWith(Zeroed(W), esc, {}) PROVE TuiInv'
    <2>1. \A k \in Zeroed(W) : CallSound(k)
      BY ZeroedSound DEF TuiInv, Repeats
    <2>. QED
      BY <1>3, <1>8, <2>1, KeyWithKeeps
  <1>. QED
    BY <1>0, <1>4, <1>5, <1>6, <1>7, <1>8, QuietKey, CallingKey, ModeKey, ModeNames

LEMMA AnnotationKeys == TuiInv /\ KeyAnnotations => TuiInv'
  <1>. SUFFICES ASSUME TuiInv, KeyAnnotations PROVE TuiInv'
    OBVIOUS
  <1>0. ModelSound(m) /\ Shows(m, doomed)
    BY DEF TuiInv
  <1>1. ASSUME NEW op \in {"op", "history"}, AnnRun(op) PROVE TuiInv'
    <2>. DEFINE q == OfView(op)
                next == [m EXCEPT !.ann.line = "list", !.ann.pending = q]
    <2>0. q \in Parked /\ m.ann.pw \in BOOLEAN
      BY <1>0, Fields
    <2>3. Key(next, {AnnCmd(q, m.ann.pw)})
      BY <1>1 DEF AnnRun
    <2>. HIDE DEF q
    <2>1. [m.ann EXCEPT !.line = "list", !.pending = q] \in AnnState
      BY <1>0, <2>0, Fields DEF AnnState
    <2>2. ModelSound(next) /\ Shows(next, doomed)
      BY <1>0, <2>1 DEF ModelSound, Shows, Model
    <2>4. CallSound(AnnCmd(q, m.ann.pw))
      BY <2>0, CommandsSound
    <2>. HIDE DEF next
    <2>. QED
      BY <2>2, <2>3, <2>4, CallingKey
  <1>2. ASSUME NEW l \in {"list", "typing", "confirm"}, Key([m EXCEPT !.ann.line = l], {}) PROVE TuiInv'
    <2>. DEFINE next == [m EXCEPT !.ann.line = l]
    <2>1. [m.ann EXCEPT !.line = l] \in AnnState
      BY <1>0, Fields DEF AnnState
    <2>2. ModelSound(next) /\ Shows(next, doomed)
      BY <1>0, <2>1 DEF ModelSound, Shows, Model
    <2>. QED
      BY <1>2, <2>2, QuietKey
  <1>3. ASSUME CloseAnnotations PROVE TuiInv'
    <2>. DEFINE next == [m EXCEPT !.mode = "normal", !.ann = NoAnn]
    <2>1. NoAnn \in AnnState
      BY DEF NoAnn, AnnState, Nothing, Parked
    <2>2. ModelSound(next) /\ Shows(next, doomed)
      BY <1>0, <2>1, ModeNames DEF ModelSound, Shows, Model
    <2>3. CallSound(LoadEntriesCmd(m.scope))
      BY <1>0, Fields, CommandsSound
    <2>. QED
      BY <1>3, <2>2, <2>3, CallingKey DEF CloseAnnotations
  <1>4. ASSUME Key(AnnAskPassword([m EXCEPT !.ann.pending = OfView("load")]), {}) PROVE TuiInv'
    <2>. DEFINE next == [m EXCEPT !.ann.pending = OfView("load")]
    <2>1. [m.ann EXCEPT !.pending = OfView("load")] \in AnnState
      BY <1>0, Fields DEF AnnState
    <2>2. ModelSound(next) /\ Shows(next, doomed)
      BY <1>0, <2>1 DEF ModelSound, Shows, Model
    <2>. HIDE DEF next
    <2>3. Key(AnnAskPassword(next), {})
      BY <1>4 DEF next
    <2>. QED
      BY <2>2, <2>3, PasswordAsked, QuietKey
  <1>5. ASSUME Key(m, {AnnCmd(OfView("load"), m.ann.pw)}) PROVE TuiInv'
    BY <1>0, <1>5, Fields, CallingKey, CommandsSound
  <1>6. \/ AnnRun("op") \/ AnnRun("history") \/ CloseAnnotations
        \/ \E l \in {"list", "typing", "confirm"} : Key([m EXCEPT !.ann.line = l], {})
        \/ Key(m, {AnnCmd(OfView("load"), m.ann.pw)})
        \/ Key(AnnAskPassword([m EXCEPT !.ann.pending = OfView("load")]), {})
    BY DEF KeyAnnotations
  <1>. QED
    BY <1>1, <1>2, <1>3, <1>4, <1>5, <1>6

\* A step that only moves the Model.
LEMMA Counts ==
    ASSUME TuiInv, NEW next, m' = next, UNCHANGED <<flight, keys, quit, doomed, refused>>,
           ModelSound(next), Shows(next, doomed)
    PROVE  TuiInv'
  <1>1. ModelSound(m)' /\ (\A c \in flight : CallSound(c))' /\ RefusedTyped'
    BY SoundStays DEF TuiInv
  <1>. QED
    BY <1>1 DEF TuiInv, Shows

LEMMA Ticks == TuiInv /\ Tick => TuiInv'
  <1>. SUFFICES ASSUME TuiInv, Tick PROVE TuiInv'
    OBVIOUS
  <1>0. ModelSound(m) /\ Shows(m, doomed)
    BY DEF TuiInv
  <1>. DEFINE n1 == [m EXCEPT !.mode = "normal", !.reveal = NoReveal]
              n2 == [m EXCEPT !.reveal.left = @ - 1]
  <1>1. ModelSound(n1) /\ Shows(n1, doomed)
    BY <1>0, NoRevealTyped, ModeNames DEF ModelSound, Shows, Model
  <1>2. CASE m.reveal.left # 0
    <2>. DEFINE r == [m.reveal EXCEPT !.left = m.reveal.left - 1]
    <2>0. m.reveal \in RevealState /\ m.reveal.left \in 0..RevealTicks
      BY <1>0, Fields DEF RevealState
    <2>a. m.reveal.left - 1 \in 0..RevealTicks
      BY <1>2, <2>0, TuiAssumption
    <2>1. r \in RevealState /\ r.name = m.reveal.name
      BY <2>0, <2>a DEF RevealState
    <2>2. n2 = [m EXCEPT !.reveal = r]
      BY <1>0
    <2>3. ModelSound(n2) /\ Shows(n2, doomed)
      <3>. HIDE DEF r, n2
      <3>. QED
        BY <1>0, <2>1, <2>2 DEF ModelSound, Shows, Model
    <2>4. m' = n2 /\ UNCHANGED <<flight, keys, quit, doomed, refused>>
      BY <1>2 DEF Tick
    <2>. HIDE DEF n2
    <2>. QED
      BY <2>3, <2>4, Counts
  <1>3. CASE m.reveal.left = 0
    <2>1. m' = n1 /\ UNCHANGED <<flight, keys, quit, doomed, refused>>
      BY <1>3 DEF Tick
    <2>. HIDE DEF n1
    <2>. QED
      BY <1>1, <2>1, Counts
  <1>. QED
    BY <1>2, <1>3

LEMMA TuiStarts == TuiInit => TuiInv
  <1>. SUFFICES ASSUME TuiInit PROVE TuiInv
    OBVIOUS
  <1>1. Default \in Scopes /\ Existing \subseteq Scopes /\ keys \in 0..MaxKeys
    BY TuiAssumption DEF TuiInit
  <1>2. NoAnn \in AnnState
    BY DEF NoAnn, AnnState, Nothing, Parked
  <1>3. m \in Model /\ m.auth = NoAuth /\ m.mode = "normal" /\ m.entriesOf = None
    BY <1>1, <1>2, NoEditTyped, NoRevealTyped, Unasked, ModeNames DEF TuiInit, Model
  <1>4. \A c \in flight : CallSound(c)
    BY <1>1, CommandsSound DEF TuiInit
  <1>5. quit \in {"no", "clean", "forced"} /\ doomed \subseteq Scopes /\ RefusedTyped
    BY DEF TuiInit, RefusedTyped
  <1>. QED
    BY <1>1, <1>3, <1>4, <1>5, Unasked DEF TuiInv, ModelSound, Shows

LEMMA TuiSteps == TuiInv /\ [TuiNext]_vars => TuiInv'
  <1>1. CASE UNCHANGED vars
    BY <1>1 DEF vars, TuiInv, ModelSound, Shows, CallSound, Calls, RefusedTyped
  <1>2. TuiInv /\ HandleKey => TuiInv'
    BY NormalKeys, EditKeys, CommandKeys, ViewKeys, ScopeKeys, ApprovalKeys, AuthKeys, AnnotationKeys
       DEF HandleKey
  <1>. QED
    BY <1>1, <1>2, Receives, Ticks DEF TuiNext

LEMMA TuiAlways == TuiSpec => []TuiInv
  BY TuiStarts, TuiSteps, PTL DEF TuiSpec

\* The Model and the calls in progress keep their types through every key,
\* answer and tick.
THEOREM TuiTypesHold == TuiSpec => []TuiTypeOK
  <1>1. TuiInv => TuiTypeOK
    BY DEF TuiInv, TuiTypeOK, ModelSound, CallSound, RefusedTyped
  <1>. QED
    BY <1>1, TuiAlways, PTL

\* However answers overtake scope changes, the rows on the screen are those of
\* the active scope, or of one that was renamed or deleted.
THEOREM ListingHolds == TuiSpec => []ListingIsOfTheScope
  <1>1. TuiInv => ListingIsOfTheScope
    BY DEF TuiInv, Shows, ListingIsOfTheScope
  <1>. QED
    BY <1>1, TuiAlways, PTL

\* A get, put, delete or rename that the password overlay repeats is one that the
\* daemon refused, by what was asked of which name in which scope.
THEOREM RetryHolds == TuiSpec => []RetryRepeatsARefusedCall
  <1>1. TuiInv => RetryRepeatsARefusedCall
    BY DEF TuiInv, CallSound, RetryRepeatsARefusedCall
  <1>. QED
    BY <1>1, TuiAlways, PTL
=============================================================================
