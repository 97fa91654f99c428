------------------------------- MODULE Install -------------------------------
(***************************************************************************)
(* Moving the owner's data under the service account and back: `byn setup`,*)
(* `byn migrate` (relocate and import), `byn setup --uninstall` and the    *)
(* `byn uninstall` of a provisioned machine, as the sequences of file      *)
(* operations they are, with an interruption or a failure possible between *)
(* any two, and with the per-user daemon and the system service beside     *)
(* them.                                                                   *)
(*                                                                         *)
(* A directory tree is what the properties tell apart of it: the content   *)
(* of each vault (who created it and how many writes it has taken), the    *)
(* trust and passkeys carried in from elsewhere, the files of a running    *)
(* daemon, the owner record, the mode of its root and who owns it.  One    *)
(* root command runs at a time.  RemoveAll removes a vault's files in any  *)
(* order: a vault half removed is torn.  A tree is staged in one step.     *)
(***************************************************************************)
EXTENDS Integers

CONSTANTS
    Vaults,      \* vault names
    Workloads,   \* commands and daemons explored together, and the start of each
    MaxGen       \* bound: writes a vault takes

ASSUME InstallAssumption ==
    /\ MaxGen \in Nat
    /\ \A w \in Workloads :
         w.at \in {"legacy", "sys"} /\ w.force \in BOOLEAN /\ w.linux \in BOOLEAN /\ w.crashes \in Nat

VARIABLES
    load,        \* the workload of this behaviour
    tree,        \* the tree at each place
    up,          \* the place of the tree each daemon has open
    service,     \* the accounts exist; the service is installed
    cmd,         \* the root command under way
    last,        \* how the last root command ended
    crashes,     \* interruptions so far
    owed         \* history: the last write acknowledged to each vault of each origin

ivars == <<load, tree, up, service, cmd, last, crashes, owed>>

Places == {"legacy", "sys", "old", "ext", "stage"}
Origins == {"home", "ext"}
Gone == [of |-> "none", n |-> 0]
Torn == [of |-> "torn", n |-> 0]
Whole(c) == c \notin {Gone, Torn}

NoTree == [there |-> FALSE, vaults |-> [v \in Vaults |-> Gone], trust |-> FALSE, keys |-> FALSE,
           running |-> FALSE, owner |-> FALSE, mode |-> "0700", by |-> "owner", from |-> "home"]
Empty(mode, by) == [NoTree EXCEPT !.there = TRUE, !.mode = mode, !.by = by]

NoCmd == [op |-> "none", pc |-> "none", mode |-> "none"]

-----------------------------------------------------------------------------
(* Trees.                                                                  *)

\* List and IsStateArtifact: what a migration carries of a tree.
Artifacts(t) == [t EXCEPT !.running = FALSE, !.owner = FALSE]
HasArtifacts(t) == t.trust \/ \E v \in Vaults : t.vaults[v] # Gone

\* dirHasEntries.
NonEmpty(t) == t.there /\ (HasArtifacts(t) \/ t.running \/ t.owner)

\* stageArtifacts: a fresh directory of root's beside the destination.
Staged(t, from) == [Artifacts(t) EXCEPT !.mode = "0700", !.by = "root", !.from = from]

\* verifyStaged: at least one vault, and every one of them opens.
Verified(t) ==
    /\ \E v \in Vaults : Whole(t.vaults[v])
    /\ \A v \in Vaults : t.vaults[v] # Torn

\* dropTrustAndPasskeys.
Transformed(t) == [t EXCEPT !.trust = FALSE, !.keys = FALSE]

\* applyOwnership.
Owned(t) == [t EXCEPT !.mode = "0700", !.by = "_byn"]

\* install -d: the directory is made, or its owner and mode set again.
DataDir(t) == IF t.there THEN [t EXCEPT !.mode = "0711", !.by = "_byn"] ELSE Empty("0711", "_byn")

\* A daemon keeps its files open through a rename and a removal.
Moved(p, q) == [d \in DOMAIN up |-> IF up[d] = p THEN q ELSE up[d]]

-----------------------------------------------------------------------------
(* The two daemons and their writes.                                       *)

\* dataDir: the owner's byn uses ~/.byn until the system directory exists.
\* Nothing keeps it from starting while a root command is under way.
UserStart ==
    /\ "user" \in load.ops
    /\ up.user = "down" /\ ~tree.sys.there
    /\ tree' = [tree EXCEPT !.legacy = [(IF tree.legacy.there THEN tree.legacy ELSE Empty("0700", "owner"))
                                          EXCEPT !.running = TRUE]]
    /\ up' = [up EXCEPT !.user = "legacy"]
    /\ UNCHANGED <<load, service, cmd, last, crashes, owed>>

UserStop ==
    /\ "user" \in load.ops
    /\ up.user # "down"
    /\ up' = [up EXCEPT !.user = "down"]
    /\ UNCHANGED <<load, tree, service, cmd, last, crashes, owed>>

\* A terminal's session file is kept in ~/.byn whoever serves it.
SessionFile ==
    /\ up.svc = "sys" /\ ~tree.legacy.there
    /\ tree' = [tree EXCEPT !.legacy = [Empty("0700", "owner") EXCEPT !.running = TRUE]]
    /\ UNCHANGED <<load, up, service, cmd, last, crashes, owed>>

\* The unit starts its daemon as _byn; systemd makes the directory.
Started(t) ==
    IF load.linux THEN [DataDir(t) EXCEPT !.running = TRUE, !.by = IF t.there THEN t.by ELSE "_byn"]
    ELSE [t EXCEPT !.running = TRUE]

ServiceStart ==
    /\ "service" \in load.ops
    /\ service.installed /\ up.svc = "down"
    /\ load.linux \/ tree.sys.there
    /\ Started(tree.sys).by = "_byn"
    /\ tree' = [tree EXCEPT !.sys = Started(@)]
    /\ up' = [up EXCEPT !.svc = "sys"]
    /\ UNCHANGED <<load, service, cmd, last, crashes, owed>>

\* A write the daemon of a tree acknowledges: it is in the files it has open.
Write(d, v) ==
    LET p == up[d]
        c == IF p \in Places THEN tree[p].vaults[v] ELSE Gone
        new == [of |-> IF Whole(c) THEN c.of ELSE "home",
                n |-> IF Whole(c) THEN c.n + 1 ELSE owed["home"][v] + 1]
    IN /\ p # "down"
       /\ d = "svc" => "service" \in load.ops
       /\ c # Torn /\ new.n <= MaxGen
       /\ Whole(c) \/ owed["home"][v] = 0 \/ p \notin Places
       /\ tree' = IF p \in Places THEN [tree EXCEPT ![p].vaults[v] = new] ELSE tree
       /\ owed' = [owed EXCEPT ![new.of][v] = new.n]
       /\ UNCHANGED <<load, up, service, cmd, last, crashes>>

-----------------------------------------------------------------------------
(* A root command: one step after another until it ends.                   *)

At(op, pc) == cmd.op \in op /\ cmd.pc = pc
Moving == {"setup", "relocate", "import"}

Goes(pc) == cmd' = [cmd EXCEPT !.pc = pc]

\* Whatever went wrong, the staging directory is removed on the way out.
Ends(how) == cmd' = NoCmd /\ last' = how
Fails(how) ==
    /\ Ends(how)
    /\ tree' = [tree EXCEPT !.stage = NoTree]
    /\ UNCHANGED <<load, up, service, crashes, owed>>

\* A step that can fail of itself: a command, a system call.
Failure ==
    /\ "failure" \in load.ops
    /\ cmd.pc \in {"helper", "stop", "stage", "transform", "own", "clear", "aside", "mode", "remove",
                   "owner", "service", "unservice", "unowner"}
    /\ Fails("failed")

Begins(op, pc) ==
    /\ op \in load.ops /\ cmd = NoCmd
    /\ cmd' = [NoCmd EXCEPT !.op = op, !.pc = pc]
    /\ last' = "none"
    /\ UNCHANGED <<load, tree, up, service, crashes, owed>>

\* runSetupWith; runMigrateWith wants the accounts that setup makes.
Begin ==
    \/ Begins("setup", "helper")
    \/ service.users /\ Begins("relocate", "stop")
    \/ service.users /\ Begins("import", "stage")
    \/ Begins("teardown", "unservice")
    \/ Begins("purge", "unservice")

\* privsep.Setup: the accounts, the helper, the data directory.
InstallHelper ==
    /\ At({"setup"}, "helper")
    /\ service' = [service EXCEPT !.users = TRUE]
    /\ tree' = [tree EXCEPT !.sys = DataDir(@)]
    /\ Goes("stop")
    /\ UNCHANGED <<load, up, last, crashes, owed>>

\* Mutant: the daemon is stopped and its data left where it is.
StopLegacyOnly ==
    /\ At({"setup", "relocate"}, "stop")
    /\ up' = Moved("legacy", "down")
    /\ Goes(IF cmd.op = "setup" THEN "owner" ELSE "list")
    /\ UNCHANGED <<load, tree, service, last, crashes, owed>>

\* stopLegacyDaemon: terminated and awaited, or the command goes no further.
\* A daemon whose directory has gone has no pid file and no socket to find.
StopLegacy ==
    /\ At({"setup", "relocate"}, "stop")
    /\ \/ /\ cmd.op = "setup" /\ ~tree.legacy.there
          /\ Goes("owner") /\ UNCHANGED <<up, last>>
       \/ /\ tree.legacy.there \/ cmd.op = "relocate"
          /\ up' = Moved("legacy", "down")
          /\ Goes("list") /\ UNCHANGED last
       \/ /\ up.user = "legacy"
          /\ Ends("still running") /\ UNCHANGED up
    /\ UNCHANGED <<load, tree, service, crashes, owed>>

\* Relocate: nothing to move is a fresh install, nowhere to look an error.
List ==
    /\ At({"setup", "relocate"}, "list")
    /\ IF ~tree.legacy.there THEN Ends("failed")
       ELSE IF HasArtifacts(tree.legacy) THEN Goes("stage") /\ UNCHANGED last
       ELSE IF cmd.op = "setup" THEN Goes("owner") /\ UNCHANGED last ELSE Ends("ok")
    /\ UNCHANGED <<load, tree, up, service, crashes, owed>>

Stage ==
    /\ At(Moving, "stage")
    /\ tree' = [tree EXCEPT !.stage = IF cmd.op = "import" THEN Staged(tree.ext, "import")
                                                          ELSE Staged(tree.legacy, "home")]
    /\ Goes("verify")
    /\ UNCHANGED <<load, up, service, last, crashes, owed>>

Verify ==
    /\ At(Moving, "verify")
    /\ \/ /\ Verified(tree.stage)
          /\ Goes(IF cmd.op = "import" THEN "transform" ELSE "own")
          /\ UNCHANGED <<load, tree, up, service, last, crashes, owed>>
       \/ ~Verified(tree.stage) /\ Fails("unverified")

\* Mutant: the staged tree is committed as it was copied.
TransformNot ==
    /\ At({"import"}, "transform")
    /\ Goes("own")
    /\ UNCHANGED <<load, tree, up, service, last, crashes, owed>>

Transform ==
    /\ At({"import"}, "transform")
    /\ tree' = [tree EXCEPT !.stage = Transformed(@)]
    /\ Goes("own")
    /\ UNCHANGED <<load, up, service, last, crashes, owed>>

ApplyOwnership ==
    /\ At(Moving, "own")
    /\ tree' = [tree EXCEPT !.stage = Owned(@)]
    /\ Goes("commit")
    /\ UNCHANGED <<load, up, service, last, crashes, owed>>

\* commitAdopt: refuse, or note the destination's mode and go on, by way of
\* "clear" where there is nothing to lose and of "aside" where there is.
Forced == load.force /\ cmd.op # "setup"

Commit ==
    /\ At(Moving, "commit")
    /\ \/ NonEmpty(tree.sys) /\ ~Forced /\ Fails("not empty")
       \/ /\ NonEmpty(tree.sys) => Forced
          /\ cmd' = [cmd EXCEPT !.pc = IF NonEmpty(tree.sys) THEN "aside" ELSE "clear",
                                !.mode = IF tree.sys.there THEN tree.sys.mode ELSE "none"]
          /\ UNCHANGED <<load, tree, up, service, last, crashes, owed>>

ClearEmpty ==
    /\ At(Moving, "clear")
    /\ tree' = [tree EXCEPT !.sys = NoTree]
    /\ Goes("swap")
    /\ UNCHANGED <<load, up, service, last, crashes, owed>>

ClearBackup ==
    /\ At(Moving, "aside")
    /\ tree' = [tree EXCEPT !.old = NoTree]
    /\ up' = Moved("old", "gone")
    /\ Goes("rename")
    /\ UNCHANGED <<load, service, last, crashes, owed>>

\* Mutant: the existing tree is removed instead of being moved aside.
MoveAsideRemoved ==
    /\ At(Moving, "rename")
    /\ tree' = [tree EXCEPT !.sys = NoTree]
    /\ up' = Moved("sys", "gone")
    /\ Goes("replace")
    /\ UNCHANGED <<load, service, last, crashes, owed>>

MoveAside ==
    /\ At(Moving, "rename")
    /\ tree' = [tree EXCEPT !.old = tree.sys, !.sys = NoTree]
    /\ up' = Moved("sys", "old")
    /\ Goes("replace")
    /\ UNCHANGED <<load, service, last, crashes, owed>>

\* What a forced replacement drops is no longer owed.
OwedOf(t) ==
    [o \in Origins |-> [v \in Vaults |->
        IF \E u \in {t, tree.legacy, tree.ext} : u.vaults[v].of = o THEN owed[o][v] ELSE 0]]

\* Where nothing was moved aside a failure leaves nothing in place, and a backup
\* another command left stays where it is, its vaults owed as before.
Swap ==
    /\ At(Moving, "swap")
    /\ \/ /\ tree' = [tree EXCEPT !.sys = tree.stage, !.stage = NoTree]
          /\ owed' = [owed EXCEPT !["ext"] = [v \in Vaults |->
                         IF tree.stage.vaults[v].of = "ext" THEN tree.stage.vaults[v].n ELSE @[v]]]
          /\ Goes("mode")
          /\ UNCHANGED <<load, up, service, last, crashes>>
       \/ "failure" \in load.ops /\ Fails("failed")

\* The tree moved aside is put back when the new one cannot be put in place; when
\* that fails too it stays aside.
Replace ==
    /\ At(Moving, "replace")
    /\ \/ /\ tree' = [tree EXCEPT !.sys = tree.stage, !.stage = NoTree]
          /\ owed' = OwedOf(tree.stage)
          /\ Goes("drop")
          /\ UNCHANGED <<load, up, service, last, crashes>>
       \/ /\ "failure" \in load.ops
          /\ tree' = [tree EXCEPT !.sys = tree.old, !.old = NoTree, !.stage = NoTree]
          /\ up' = Moved("old", "sys")
          /\ Ends("failed")
          /\ UNCHANGED <<load, service, crashes, owed>>
       \/ "failure" \in load.ops /\ Fails("failed")

\* The tree moved aside goes; a failure to remove it is no error.
DropBackup ==
    /\ At(Moving, "drop")
    /\ \/ tree' = [tree EXCEPT !.old = NoTree] /\ up' = Moved("old", "gone")
       \/ "failure" \in load.ops /\ UNCHANGED <<tree, up>>
    /\ Goes("mode")
    /\ UNCHANGED <<load, service, last, crashes, owed>>

AfterAdopt == IF cmd.op = "import" THEN Ends("ok") ELSE Goes("remove") /\ UNCHANGED last

\* Mutant: the staged tree's mode stands.
RestoreModeNot ==
    /\ At(Moving, "mode")
    /\ AfterAdopt
    /\ UNCHANGED <<load, tree, up, service, crashes, owed>>

\* restoreDirMode: the destination keeps the mode it had.
RestoreMode ==
    /\ At(Moving, "mode")
    /\ tree' = IF cmd.mode = "none" THEN tree ELSE [tree EXCEPT !.sys.mode = cmd.mode]
    /\ AfterAdopt
    /\ UNCHANGED <<load, up, service, crashes, owed>>

\* os.RemoveAll(legacyDir).
RemoveLegacy ==
    /\ At({"setup", "relocate"}, "remove")
    /\ \/ \E v \in Vaults :
            /\ tree.legacy.vaults[v] # Gone
            /\ tree' = [tree EXCEPT !.legacy.vaults[v] = IF Whole(@) THEN Torn ELSE Gone]
            /\ UNCHANGED <<cmd, last, up>>
       \/ /\ \A v \in Vaults : tree.legacy.vaults[v] = Gone
          /\ tree' = [tree EXCEPT !.legacy = NoTree]
          /\ up' = Moved("legacy", "gone")
          /\ IF cmd.op = "setup" THEN Goes("owner") /\ UNCHANGED last ELSE Ends("ok")
    /\ UNCHANGED <<load, service, crashes, owed>>

\* WriteOwnerRecord needs the directory.
WriteOwner ==
    /\ At({"setup"}, "owner")
    /\ IF tree.sys.there
       THEN tree' = [tree EXCEPT !.sys.owner = TRUE] /\ Goes("service") /\ UNCHANGED last
       ELSE Ends("failed") /\ UNCHANGED tree
    /\ UNCHANGED <<load, up, service, crashes, owed>>

\* The unit is written and enabled --now (a daemon that runs is left alone);
\* launchd's is booted out and loaded again, and stays out when that fails.
InstallService ==
    /\ At({"setup"}, "service")
    /\ service' = [service EXCEPT !.installed = TRUE]
    /\ \/ /\ IF up.svc = "down" \/ ~load.linux
             THEN tree' = [tree EXCEPT !.sys = Started(@)] /\ up' = [up EXCEPT !.svc = "sys"]
             ELSE UNCHANGED <<tree, up>>
          /\ Goes("check") /\ UNCHANGED last
       \/ /\ "failure" \in load.ops
          /\ up' = [up EXCEPT !.svc = IF load.linux THEN @ ELSE "down"]
          /\ Ends("failed") /\ UNCHANGED tree
    /\ UNCHANGED <<load, crashes, owed>>

\* verifyProvisioned.
VerifyProvisioned ==
    /\ At({"setup"}, "check")
    /\ IF tree.sys.there /\ tree.sys.owner THEN Goes("privsep") /\ UNCHANGED last ELSE Ends("failed")
    /\ UNCHANGED <<load, tree, up, service, crashes, owed>>

\* enablePrivsepInConfig, and a restart when it changed the config.  A config
\* that is not written and a restart that fails, which may leave the service
\* stopped, are warnings: setup says it is done.
EnablePrivsep ==
    /\ At({"setup"}, "privsep")
    /\ \/ UNCHANGED <<tree, up>>
       \/ tree' = [tree EXCEPT !.sys = Started(@)] /\ up' = [up EXCEPT !.svc = "sys"]
       \/ "failure" \in load.ops /\ up' = [up EXCEPT !.svc = "down"] /\ UNCHANGED tree
    /\ Ends("set up")
    /\ UNCHANGED <<load, service, crashes, owed>>

\* Teardown: the service first, then the helper and the owner record.
Unservice ==
    /\ At({"teardown", "purge"}, "unservice")
    /\ service' = [service EXCEPT !.installed = FALSE]
    /\ up' = [up EXCEPT !.svc = "down"]
    /\ Goes("unowner")
    /\ UNCHANGED <<load, tree, last, crashes, owed>>

RemoveOwner ==
    /\ At({"teardown", "purge"}, "unowner")
    /\ tree' = [tree EXCEPT !.sys.owner = FALSE]
    /\ IF cmd.op = "purge" THEN Goes("purge") /\ UNCHANGED last ELSE Ends("ok")
    /\ UNCHANGED <<load, up, service, crashes, owed>>

\* What a purge leaves of what was owed: the writes that are whole in a tree
\* it does not touch.
Left(trees) ==
    [o \in Origins |-> [v \in Vaults |->
        IF \E u \in trees : u.vaults[v] = [of |-> o, n |-> owed[o][v]] THEN owed[o][v] ELSE 0]]

\* The owner typed yes.
Purge ==
    /\ At({"purge"}, "purge")
    /\ tree' = [tree EXCEPT !.sys = NoTree]
    /\ owed' = Left({tree.legacy, tree.ext})
    /\ Ends("ok")
    /\ UNCHANGED <<load, up, service, crashes>>

\* The command is interrupted, alone or with the machine.  A staging directory
\* it leaves has a name of its own and is not looked at again.
Crash ==
    /\ cmd # NoCmd /\ crashes < load.crashes
    /\ crashes' = crashes + 1
    /\ Ends("interrupted")
    /\ tree' = [tree EXCEPT !.stage = NoTree]
    /\ \/ UNCHANGED up
       \/ up' = [d \in DOMAIN up |-> "down"]
    /\ UNCHANGED <<load, service, owed>>

-----------------------------------------------------------------------------
Home == [v \in Vaults |-> [of |-> "home", n |-> 1]]

Init ==
    /\ load \in Workloads
    /\ tree = [p \in Places |->
         CASE p = load.at -> [Empty(IF p = "sys" THEN "0711" ELSE "0700", IF p = "sys" THEN "_byn" ELSE "owner")
                                EXCEPT !.vaults = Home, !.trust = TRUE, !.keys = TRUE, !.owner = (p = "sys")]
           [] p = "ext" -> [Empty("0700", "owner") EXCEPT
                              !.vaults = [v \in Vaults |-> [of |-> "ext", n |-> 1]], !.trust = TRUE, !.keys = TRUE]
           [] OTHER -> NoTree]
    /\ up = [user |-> "down", svc |-> "down"]
    /\ service = [users |-> load.at = "sys", installed |-> load.at = "sys"]
    /\ cmd = NoCmd /\ last = "none" /\ crashes = 0
    /\ owed = [o \in Origins |-> [v \in Vaults |-> IF o = "home" THEN 1 ELSE 0]]

Next ==
    \/ UserStart \/ UserStop \/ SessionFile \/ ServiceStart
    \/ \E d \in DOMAIN up, v \in Vaults : Write(d, v)
    \/ Begin \/ Failure \/ Crash
    \/ InstallHelper \/ StopLegacy \/ List
    \/ Stage \/ Verify \/ Transform \/ ApplyOwnership \/ Commit
    \/ ClearEmpty \/ ClearBackup \/ MoveAside \/ Swap \/ Replace \/ DropBackup \/ RestoreMode
    \/ RemoveLegacy \/ WriteOwner \/ InstallService \/ VerifyProvisioned \/ EnablePrivsep
    \/ Unservice \/ RemoveOwner \/ Purge

Spec == Init /\ [][Next]_ivars

-----------------------------------------------------------------------------
(* Properties.                                                             *)

InPlace(o, v) ==
    {p \in {"legacy", "sys", "old", "ext"} : tree[p].vaults[v] = [of |-> o, n |-> owed[o][v]]}

\* What nothing in the code rules out and the properties do not survive: a byn of
\* the owner's that starts after a root command looked for it, and a replacement
\* by force that clears a backup holding the only copy of a vault.
Undisturbed ==
    /\ up.user = "down" /\ up'.user # "down" => cmd.pc \in {"none", "helper", "stop"}
    /\ cmd.pc = "commit" /\ cmd'.pc = "aside" =>
         \A o \in Origins, v \in Vaults : owed[o][v] # 0 => InPlace(o, v) # {"old"}

\* adopt.go ("an interruption never leaves the user with no vault"),
\* modes.go, setup_legacy_daemon.go: every vault, with the last write any
\* daemon acknowledged to it, is whole at a place the owner can find,
\* wherever setup or a migration failed or was interrupted, until the owner
\* purges it or replaces it by force.
VaultsKept == \A o \in Origins, v \in Vaults : owed[o][v] # 0 => InPlace(o, v) # {}

\* setup.go (Provision: "the daemon never races the adopt or boots against
\* an empty, not-yet-owned data dir"): while the service runs, the
\* directory it serves is _byn's and holds every vault of the owner's as
\* last written (no replacement by force, which stops no daemon).
ServiceHasTheVaults ==
    up.svc # "down" /\ ~load.force =>
        /\ up.svc = "sys" /\ tree.sys.by = "_byn"
        /\ \A v \in Vaults : owed["home"][v] # 0 => "sys" \in InPlace("home", v)

\* modes.go (Import: "the adopted destination NEVER contains
\* trusted_byn.json or any passkey enrollment"): not even while it is
\* being put in place, or after an interruption.
ImportCarriesNoTrust ==
    tree.sys.from = "import" => ~tree.sys.trust /\ ~tree.sys.keys

\* adopt.go (commitAdopt), cmd_setup.go: once setup says it is done, whatever
\* earlier runs left behind and whether or not the service came up again, the
\* service is installed on a directory the owner can reach the socket in
\* (0711), that is _byn's and has the owner record; and so it is as long as the
\* service is installed and nothing was replaced by force.
SetupReachesTheOwner ==
    /\ last = "set up" => service.installed
    /\ last = "set up" \/ (service.installed /\ ~load.force) =>
         tree.sys.there /\ tree.sys.mode = "0711" /\ tree.sys.by = "_byn" /\ tree.sys.owner

\* setup.go (Provision): "an interrupted setup before the service step is not
\* yet provisioned and re-running is clean": setup never refuses the data its
\* own earlier run put in place.
RerunIsClean == load.ops \cap {"import", "relocate"} = {} => last # "not empty"
=============================================================================
