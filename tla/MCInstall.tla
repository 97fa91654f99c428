------------------------------ MODULE MCInstall ------------------------------
(* Small instances of Install: two vaults, so that a directory can be half  *)
(* removed and still verify.                                                 *)
EXTENDS Install

Load(ops, at, force, linux, stops) ==
    [ops |-> ops, at |-> at, force |-> force, linux |-> linux, crashes |-> stops]

Loads ==
    {Load({"setup", "teardown", "purge", "user", "service", "failure"}, "legacy", FALSE, linux, 1) :
       linux \in BOOLEAN}
    \cup {Load({"setup", "relocate", "user", "service"}, "legacy", FALSE, linux, 2) : linux \in BOOLEAN}
    \cup {Load({"import", "setup", "teardown", "failure"}, "sys", FALSE, linux, 1) : linux \in BOOLEAN}
    \cup {Load({"import", "failure"}, "sys", TRUE, FALSE, 2), Load({"purge", "import"}, "sys", FALSE, FALSE, 1)}

\* Replacements by force, interrupted.
LoadsForced == {Load({"import"}, "sys", TRUE, FALSE, 1)}

\* The owner's byn started in the instant the empty directory is out of the way.
LoadsRace == {Load({"setup", "user"}, "legacy", FALSE, FALSE, 0)}
==============================================================================
