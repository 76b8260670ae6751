-------------------------- MODULE MCConfigMutation --------------------------
(***************************************************************************)
(* ConfigMutation over a configuration reduced to the set of users it      *)
(* installs, with the three user operations and one outbound-style         *)
(* operation that validates before it backs up.                            *)
(***************************************************************************)
EXTENDS ConfigMutation, FiniteSets, TLC

CONSTANT Users

MCConfigs == {c : c \in SUBSET Users}

\* create: POST /user; batch: POST /users; delete: DELETE /user; touch: PUT
\* /outbound, which commits even when nothing differs and backs up late.
MCOps == [kind : {"create", "batch", "delete", "touch"}, user : Users]

MCRefuses(o, c) ==
    \/ o.kind = "create" /\ o.user \in c
    \/ o.kind \in {"delete", "touch"} /\ o.user \notin c

MCSkips(o, c) == o.kind = "batch" /\ o.user \in c

MCApply(o, c) == IF o.kind = "delete" THEN c \ {o.user} ELSE c \union {o.user}

MCEarlyBackup == {o \in MCOps : o.kind # "touch"}

\* For liveness one operation that always commits: the lock is what matters.
MCCommitOps == [kind : {"touch"}, user : Users]

Symmetry == Permutations(Tasks) \union Permutations(Users)
=============================================================================
