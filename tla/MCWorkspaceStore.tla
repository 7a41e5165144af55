-------------------------- MODULE MCWorkspaceStore --------------------------
(* Model values for WorkspaceStore.  c1 and d diverged and c2 merges both;  *)
(* d's truncated key collides with c1's.  r1 is at c1 and has it checked    *)
(* out, r2 has never been synced.                                          *)
EXTENDS WorkspaceStore, TLC

CONSTANTS r1, r2, c1, c2, d, h1, h2, s1, s2

CollidingKeys == (c1 :> "k1") @@ (c2 :> "k2") @@ (d :> "k1")
Histories == (c1 :> {c1}) @@ (c2 :> {c1, c2, d}) @@ (d :> {d})
OneSynced == [r \in Repos |-> IF r = r1 THEN c1 ELSE NoCommit]
FirstOut == [r \in Repos |-> IF r = r1 THEN {c1} ELSE {}]
=============================================================================
