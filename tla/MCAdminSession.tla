--------------------------- MODULE MCAdminSession ---------------------------
EXTENDS AdminSession, TLC

Symmetry == Permutations(Tabs) \cup Permutations(Reqs)

\* A token that is neither stored nor being presented is never either again, and what the
\* history variables say of it is never asked.
InUse == {store} \cup {req[r].token : r \in Reqs}
View == <<server, stale, browser, req, lost \cap InUse,
          [t \in Tokens |-> IF t \in InUse THEN taker[t] ELSE NoTab]>>
=============================================================================
