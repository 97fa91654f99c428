------------------------------ MODULE MCTrust ------------------------------
EXTENDS Trust

Pol(env, acts, level, alias) ==
    [scope |-> Home, env |-> env, acts |-> acts, writable |-> {},
     aliases |-> [a \in Aliases |-> alias], auth |-> [o \in Ops |-> level]]

MCNarrow == Pol({"n1"}, {"run"}, "unset", NoAct)
MCWide == Pol({"n1", "n2"}, {}, "always", NoAct)
MCStar == [Pol({Star}, {"run"}, "trusted", "run") EXCEPT !.writable = Dirs]
MCAway == [MCNarrow EXCEPT !.scope = "away"]
MCFiles == {MCNarrow, MCWide, MCStar, MCAway}
MCGranted == {MCNarrow, MCStar}
MCOps == {"exec"}
MCScopes == {"home", "away"}
=============================================================================
