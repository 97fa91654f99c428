----------------------------- MODULE MCExecRun -----------------------------
(* `byn exec` and `byn kill` on small instances. *)
EXTENDS ExecRun

CONSTANTS r1, r2

\* A command the .byn pins, typed plainly; the others are variations of it.
Plain == [NoForm EXCEPT !.byn = TRUE]
Asking == [Plain EXCEPT !.gate = "ask", !.wait = TRUE]

\* One run, every way of typing it, under targets that listen or do not.
MCForms ==
    {[f EXCEPT !.forks = TRUE, !.deaf = d] :
        f \in {Plain, Asking, [NoForm EXCEPT !.prompt = TRUE],
               [Plain EXCEPT !.alias = TRUE], [Plain EXCEPT !.gate = "always", !.prompt = TRUE],
               [Plain EXCEPT !.noPrivsep = TRUE, !.prompt = TRUE],
               [NoForm EXCEPT !.vars = TRUE, !.gate = "ask"],
               [Asking EXCEPT !.byn = FALSE, !.vars = TRUE, !.noPrivsep = TRUE],
               [Plain EXCEPT !.client = "older"], [Asking EXCEPT !.dryRun = TRUE]},
        d \in {{}, {"wrapper", "child"}, {"grand"}}}

\* ... and two runs side by side, sharing the daemon's token store.
MCWorkloads ==
    {[i \in Runs |-> IF i = r1 THEN MCForms ELSE {}], [i \in Runs |-> {Plain}]}

MCHosts ==
    {[privsep |-> TRUE, provisioned |-> TRUE, old |-> FALSE],
     [privsep |-> TRUE, provisioned |-> FALSE, old |-> FALSE],
     [privsep |-> TRUE, provisioned |-> TRUE, old |-> TRUE],
     [privsep |-> FALSE, provisioned |-> FALSE, old |-> FALSE]}
============================================================================
