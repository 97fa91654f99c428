------------------------------- MODULE MCTui -------------------------------
(* One entry name in two scopes, a third scope name to rename to.          *)
EXTENDS Tui
CONSTANTS s1, s2, s3, n1
=============================================================================
