----------------------------- MODULE MCHistory -----------------------------
(* A small vault: one project with the default env and one more. *)
EXTENDS History

CONSTANTS c1, c2

MCConns == {c1, c2}
MCEnvs == {"default", "dev"}
MCNames == {"TOKEN"}
MCTargets == {[type |-> "entry", env |-> "dev", name |-> "TOKEN"],
              [type |-> "env", env |-> "dev"]}
MCWorkloads == {{"annotate"}, {"exec"}}
MCPutCarries == {{}, {"description", "note"}}
ConnSymmetry == Permutations(MCConns)
=============================================================================
