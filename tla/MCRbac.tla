------------------------------- MODULE MCRbac -------------------------------
(***************************************************************************)
(* Small instances of Rbac for TLC.                                        *)
(***************************************************************************)
EXTENDS Rbac, TLC

CONSTANTS u1, u2, r1, r2, r3, w1, w2

\* The permissions the handlers ask for.
AllPerms == {"*", "users.create", "users.update", "users.delete", "roles.manage"}

\* The operator holds none of them; the viewer differs in nothing that matters.
Seeded == ("super-admin" :> {"*"} @@ "operator" :> {})

\* A request grants nothing, everything, or all administration but the wildcard,
\* and assigns one role at most.
SomePerms == {{}, {"*"}, AllPerms \ {"*"}}
SomeRoles == {{}} \union {{r} : r \in Roles}

\* Nothing orders the ids.
Symmetry == Permutations(Users) \union Permutations(Roles)
=============================================================================
