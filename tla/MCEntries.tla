----------------------------- MODULE MCEntries -----------------------------
EXTENDS Entries

\* An agent with no credential, an owner with a session or the password.
MCCredsOf(c) == IF c = "agent" THEN {"none"} ELSE {"session", "password"}

\* A wildcard .byn and one that names a variable and asks to be consulted.
MCManifests == {[proj |-> "default", env |-> "prod", wild |-> TRUE,
                 names |-> {}, auth |-> "default", put |-> TRUE],
                [proj |-> "default", env |-> "default", wild |-> FALSE,
                 names |-> {"x"}, auth |-> "always", put |-> TRUE]}

\* A row of the first scheme and one of the second, in the default env.
MCLegacyRows == {Row(1, "x", VaultKeyed, 0, "x", [n |-> 0, by |-> "past"]),
                 Row(1, "x", RowKeyed, 0, "x", [n |-> 0, by |-> "past"])}
=============================================================================
