------------------------------ MODULE MCPortal ------------------------------
\* Two accounts on one browser: ann belongs to both workspaces, bob to one.
EXTENDS Portal

Memberships == [u \in Users |-> IF u = "ann" THEN {"A", "B"} ELSE {"B"}]
=============================================================================
