------------------------------ MODULE MCAccess ------------------------------
(* Passwords, sessions, passkeys and settings on small instances. *)
EXTENDS Access, TLC

CONSTANTS v1, v2, t1, t2, s1, c1, r1, r2

MCTexts ==
    {[valid |-> TRUE, ui |-> 1], [valid |-> TRUE, ui |-> 2], [valid |-> FALSE, ui |-> 1]}

MCStartText == [valid |-> TRUE, ui |-> 1]

Work(ops, vs, ps, words, policy, until) ==
    [ops |-> ops, vaults |-> vs, places |-> ps, words |-> words, policy |-> policy,
     until |-> until]

Both == {"right", "wrong"}

\* Families of operations whose steps meet.
MCWorkloads ==
    {Work({"passwd", "restart", "diskfull"}, {v1}, {s1}, Both, "default", MaxTime),
     Work({"unlock", "passwd", "restart"}, {v1, Absent}, {s1}, Both, "default", 1),
     Work({"unlock", "act"}, {v1}, {t1, t2}, {"right"}, "default", 2),
     Work({"unlock", "act", "lock", "end"}, {v1}, {t1, t2}, {"right"}, "default", 0),
     Work({"unlock", "act", "lock", "restart"}, {v1}, {t1, s1}, {"right"}, "default", 1),
     Work({"unlock", "act", "end", "terminal"}, {v1}, {t1, t2}, {"right"}, "default", 0),
     Work({"unlock", "act", "remake"}, {v1}, {t1, Portal}, Both, "default", 0),
     Work({"unlock", "act", "lock", "lockall", "janitor"}, {v1, v2}, {Portal}, {"right"}, "default", 1),
     Work({"act", "remove"}, {v1, Absent}, {Portal}, Both, "always", 2),
     Work({"act"}, {v1}, {s1}, Both, "none", 0),
     Work({"unlock", "enrol", "signin", "remove", "lock"}, {v1}, {Portal}, {"right", "kek"}, "always", 0),
     Work({"unlock", "enrol", "signin", "act"}, {v1}, {Portal}, {"right", "kek", "none"}, "always", 0),
     Work({"unlock", "enrol"}, {v1}, {Portal}, {"right", "none"}, "always", 2),
     Work({"boot"}, {}, {Portal}, {}, "default", 2),
     Work({"boot", "config"}, {}, {Portal}, {}, "default", 0),
     Work({"config", "reload", "restart"}, {}, {Portal, t1}, {}, "default", 0)}

Symmetry == Permutations(Reqs)
=============================================================================
