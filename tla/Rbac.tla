-------------------------------- MODULE Rbac --------------------------------
(***************************************************************************)
(* Users, roles and grants: the RBAC handlers behind the authentication    *)
(* and permission middleware, and the seeding every start runs before the  *)
(* server listens.                                                         *)
(*                                                                         *)
(* No handler runs in a transaction of its own.  A request is two steps:   *)
(* the first authenticates, loads its rows and makes its checks, the       *)
(* second writes what was decided on those rows.  With one worker requests *)
(* never overlap; with two, everything between the steps of one may be a   *)
(* step of the other.  Users and roles are tables: functions whose domain  *)
(* is the set of ids in use.                                               *)
(***************************************************************************)
EXTENDS Naturals, FiniteSets

CONSTANTS
    Users, Roles,    \* row ids
    Perms,           \* permission names, the wildcard among them
    Names,           \* role names
    Default,         \* the seeded roles: names to permission sets
    Workers,         \* requests in flight
    Idle,            \* no request
    PermChoices,     \* bound: the permission sets requests name
    RoleChoices      \* bound: the role sets requests name

Wildcard == "*"
SuperAdminRole == "super-admin"

ASSUME RbacAssumption ==
    /\ Wildcard \in Perms
    /\ DOMAIN Default \subseteq Names /\ SuperAdminRole \in DOMAIN Default
    /\ \A n \in DOMAIN Default : Default[n] \subseteq Perms
    /\ Wildcard \in Default[SuperAdminRole]
    /\ PermChoices \subseteq SUBSET Perms /\ RoleChoices \subseteq SUBSET Roles

VARIABLES
    users,   \* users with their join rows
    roles,   \* roles with their join rows
    req,     \* per worker: Idle or the request between its two steps
    phase    \* where the process is: down, seeding or up

vars == <<users, roles, req, phase>>

UserRow == [active: BOOLEAN, roles: SUBSET Roles, perms: SUBSET Perms]
RoleRow == [name: Names, perms: SUBSET Perms]
Put(t, id, row) ==
    [x \in DOMAIN t \union {id} |-> IF x = id THEN row ELSE t[x]]

IsTable(t, ids, rows) == t \in [DOMAIN t -> rows] /\ DOMAIN t \subseteq ids

\* What a request carries from its checks to its write; `seen' are the roles it
\* loaded.
Carried(r) ==
    /\ r.super \in BOOLEAN
    /\ CASE r.op \in {"UserCreate", "SetRoles"} ->
              /\ r.user \in Users /\ r.perms \in SUBSET Perms
              /\ IsTable(r.seen, Roles, RoleRow)
         [] r.op = "UserUpdate" ->
              /\ r.user \in Users /\ r.row \in UserRow
              /\ IsTable(r.seen, Roles, RoleRow) /\ DOMAIN r.seen = r.row.roles
         [] r.op \in {"UserDelete", "SetPermissions"} ->
              r.user \in Users /\ r.perms \in SUBSET Perms
         [] r.op \in {"RoleCreate", "RoleUpdate"} ->
              r.role \in Roles /\ r.row \in RoleRow
         [] r.op \in {"RoleDelete", "RoleSetPermissions"} ->
              r.role \in Roles /\ r.perms \in SUBSET Perms

\* The tables hold rows, join rows point at rows (foreign keys), role names are
\* unique, and a request in flight carries what its handler loaded.
TypeOK ==
    /\ IsTable(users, Users, UserRow)
    /\ IsTable(roles, Roles, RoleRow)
    /\ \A u \in DOMAIN users : users[u].roles \subseteq DOMAIN roles
    /\ \A q, r \in DOMAIN roles : roles[q].name = roles[r].name => q = r
    /\ DOMAIN req = Workers
    /\ \A w \in Workers : req[w] = Idle \/ Carried(req[w])
    /\ phase \in {"down", "roles", "admin", "grant", "up"}

Init ==
    /\ users = <<>> /\ roles = <<>>
    /\ req = [w \in Workers |-> Idle]
    /\ phase = "down"

-----------------------------------------------------------------------------
(* Queries *)

Effective(row) == row.perms \union UNION {roles[r].perms : r \in row.roles}
IsSuperAdmin(row) == Wildcard \in Effective(row)

SuperAdmins == {u \in DOMAIN users : IsSuperAdmin(users[u])}
ActiveSupers == {u \in SuperAdmins : users[u].active}

\* Ids for inserts: the database hands out none that a request still carries.
FreshUsers ==
    {u \in Users \ DOMAIN users :
       \A w \in Workers : req[w] # Idle /\ "user" \in DOMAIN req[w] => req[w].user # u}
FreshRoles ==
    {r \in Roles \ DOMAIN roles :
       \A w \in Workers : req[w] # Idle =>
         /\ "role" \in DOMAIN req[w] => req[w].role # r
         /\ "seen" \in DOMAIN req[w] => r \notin DOMAIN req[w].seen}

\* A preload: what is in the table.
Load(ids) == [r \in ids \intersect DOMAIN roles |-> roles[r]]

\* Seeded fault: anybody resolves anything.
ResolvesAll(super, ids, perms) == ids \subseteq DOMAIN roles

\* resolveRoles and resolvePermissions: only a super admin may hand out the
\* wildcard, directly or in a role that carries it.
Resolves(super, ids, perms) ==
    /\ ids \subseteq DOMAIN roles
    /\ super \/ Wildcard \notin Effective([roles |-> ids, perms |-> perms])

\* Seeded fault: disabled super admins count.
GuardAny(u, still) == u \in SuperAdmins /\ ~still => SuperAdmins \ {u} # {}

\* guardLastSuperAdmin: a change that takes the wildcard from a user needs
\* another active super admin.
Guard(u, still) == u \in SuperAdmins /\ ~still => ActiveSupers \ {u} # {}

\* Seeded fault: any role may be changed.
UnprotectedAny(r) == TRUE

Unprotected(r) == roles[r].name # SuperAdminRole

-----------------------------------------------------------------------------
(* First steps: authenticate, load, check.  A refused request changes nothing *)
(* and has no step.                                                           *)

Begin(w, a, perm) ==
    /\ phase = "up" /\ req[w] = Idle
    /\ a \in DOMAIN users /\ users[a].active
    /\ {perm, Wildcard} \intersect Effective(users[a]) # {}
    /\ UNCHANGED <<users, roles, phase>>

Carry(w, r) == req' = [req EXCEPT ![w] = r]

UserCreate(w, a) ==
    \E u \in FreshUsers, ids \in RoleChoices, perms \in PermChoices :
      LET super == a \in SuperAdmins
      IN  /\ Begin(w, a, "users.create")
          /\ Resolves(super, ids, perms)
          /\ Carry(w, [op |-> "UserCreate", super |-> super, user |-> u,
                       seen |-> Load(ids), perms |-> perms])

\* The request may leave `active' out; a name or a password is not told apart.
UserUpdate(w, a) ==
    \E u \in DOMAIN users, asked \in {{}, {FALSE}, {TRUE}} :
      /\ Begin(w, a, "users.update")
      /\ asked = {FALSE} => u # a /\ Guard(u, FALSE)
      /\ \E on \in IF asked = {} THEN {users[u].active} ELSE asked :
           Carry(w, [op |-> "UserUpdate", super |-> a \in SuperAdmins, user |-> u,
                     row |-> [users[u] EXCEPT !.active = on],
                     seen |-> Load(users[u].roles)])

UserDelete(w, a) ==
    \E u \in DOMAIN users \ {a} :
      /\ Begin(w, a, "users.delete")
      /\ Guard(u, FALSE)
      /\ Carry(w, [op |-> "UserDelete", super |-> a \in SuperAdmins, user |-> u,
                    perms |-> {}])

SetRoles(w, a) ==
    \E u \in DOMAIN users, ids \in RoleChoices :
      LET super == a \in SuperAdmins
      IN  /\ Begin(w, a, "users.update")
          /\ Resolves(super, ids, {})
          /\ Guard(u, IsSuperAdmin([users[u] EXCEPT !.roles = ids]))
          /\ Carry(w, [op |-> "SetRoles", super |-> super, user |-> u,
                       seen |-> Load(ids), perms |-> {}])

SetPermissions(w, a) ==
    \E u \in DOMAIN users, perms \in PermChoices :
      LET super == a \in SuperAdmins
      IN  /\ Begin(w, a, "users.update")
          /\ Resolves(super, {}, perms)
          /\ Guard(u, IsSuperAdmin([users[u] EXCEPT !.perms = perms]))
          /\ Carry(w, [op |-> "SetPermissions", super |-> super, user |-> u,
                       perms |-> perms])

RoleCreate(w, a) ==
    \E r \in FreshRoles, n \in Names, perms \in PermChoices :
      LET super == a \in SuperAdmins
      IN  /\ Begin(w, a, "roles.manage")
          /\ Resolves(super, {}, perms)
          /\ Carry(w, [op |-> "RoleCreate", super |-> super, role |-> r,
                       row |-> [name |-> n, perms |-> perms]])

\* The super-admin role keeps its name.
RoleUpdate(w, a) ==
    \E r \in DOMAIN roles, n \in Names :
      /\ Begin(w, a, "roles.manage")
      /\ Unprotected(r) \/ n = SuperAdminRole
      /\ Carry(w, [op |-> "RoleUpdate", super |-> a \in SuperAdmins, role |-> r,
                   row |-> [roles[r] EXCEPT !.name = n]])

RoleDelete(w, a) ==
    \E r \in DOMAIN roles :
      /\ Begin(w, a, "roles.manage")
      /\ Unprotected(r)
      /\ Carry(w, [op |-> "RoleDelete", super |-> a \in SuperAdmins, role |-> r,
                   perms |-> {}])

RoleSetPermissions(w, a) ==
    \E r \in DOMAIN roles, perms \in PermChoices :
      LET super == a \in SuperAdmins
      IN  /\ Begin(w, a, "roles.manage")
          /\ Unprotected(r)
          /\ Resolves(super, {}, perms)
          /\ Carry(w, [op |-> "RoleSetPermissions", super |-> super, role |-> r,
                       perms |-> perms])

-----------------------------------------------------------------------------
(* Second steps: the write.  Any statement may fail, which leaves the tables  *)
(* alone but for Replace, which inserts new join rows before it deletes old.  *)

Finish(w, op) ==
    /\ req[w] # Idle /\ req[w].op = op
    /\ req' = [req EXCEPT ![w] = Idle]
    /\ UNCHANGED phase

Outcomes(old, new) == {old, old \union new, new}

\* The ORM saves what hangs on a row too, on conflict doing nothing: it inserts
\* again the roles and join rows a stale row was loaded with.  A name taken by
\* another role meanwhile lets the join rows fail, and all is rolled back.
Saveable(seen) ==
    \A r \in DOMAIN seen \ DOMAIN roles, q \in DOMAIN roles :
      roles[q].name # seen[r].name
Saved(seen) ==
    [r \in DOMAIN roles \union DOMAIN seen |->
       IF r \notin DOMAIN roles THEN seen[r]
       ELSE IF r \notin DOMAIN seen THEN roles[r]
       ELSE [roles[r] EXCEPT !.perms = @ \union seen[r].perms]]

\* A false `active' is dropped by the insert: the column's default is true.
UserInsert(w) ==
    /\ Finish(w, "UserCreate")
    /\ \/ /\ Saveable(req[w].seen)
          /\ roles' = Saved(req[w].seen)
          /\ req[w].user \notin DOMAIN users
          /\ users' = Put(users, req[w].user,
               [active |-> TRUE, roles |-> DOMAIN req[w].seen, perms |-> req[w].perms])
       \/ UNCHANGED <<users, roles>>

\* Of a user deleted meanwhile the join rows fail; without any, Save finds no
\* row to update and inserts the user again.
UserSave(w) ==
    LET u == req[w].user row == req[w].row
    IN  /\ Finish(w, "UserUpdate")
        /\ \/ /\ Saveable(req[w].seen)
              /\ u \in DOMAIN users \/ row.roles \union row.perms = {}
              /\ roles' = Saved(req[w].seen)
              /\ users' = Put(users, u, IF u \notin DOMAIN users THEN row ELSE
                             [active |-> row.active,
                              roles |-> users[u].roles \union row.roles,
                              perms |-> users[u].perms \union row.perms])
           \/ UNCHANGED <<users, roles>>

UserRemove(w) ==
    /\ Finish(w, "UserDelete")
    /\ \/ users' = [u \in DOMAIN users \ {req[w].user} |-> users[u]]
       \/ UNCHANGED users
    /\ UNCHANGED roles

\* The roles are loaded, one deleted meanwhile comes back without permissions.
UserReplaceRoles(w) ==
    LET u == req[w].user seen == req[w].seen
        bare == [r \in DOMAIN seen |-> [seen[r] EXCEPT !.perms = {}]]
    IN  /\ Finish(w, "SetRoles")
        /\ \/ /\ u \in DOMAIN users /\ Saveable(seen)
              /\ roles' = Saved(bare)
              /\ \E new \in Outcomes(users[u].roles, DOMAIN seen) :
                   users' = [users EXCEPT ![u].roles = new]
           \/ UNCHANGED <<users, roles>>

UserReplacePermissions(w) ==
    LET u == req[w].user
    IN  /\ Finish(w, "SetPermissions")
        /\ \/ /\ u \in DOMAIN users
              /\ \E new \in Outcomes(users[u].perms, req[w].perms) :
                   users' = [users EXCEPT ![u].perms = new]
           \/ UNCHANGED users
        /\ UNCHANGED roles

Unnamed(n, r) == \A q \in DOMAIN roles \ {r} : roles[q].name # n

RoleInsert(w) ==
    /\ Finish(w, "RoleCreate")
    /\ \/ /\ Unnamed(req[w].row.name, req[w].role)
          /\ req[w].role \notin DOMAIN roles
          /\ roles' = Put(roles, req[w].role, req[w].row)
       \/ UNCHANGED roles
    /\ UNCHANGED users

RoleSave(w) ==
    LET r == req[w].role row == req[w].row
    IN  /\ Finish(w, "RoleUpdate")
        /\ \/ /\ Unnamed(row.name, r)
              /\ r \in DOMAIN roles \/ row.perms = {}
              /\ roles' = Put(roles, r, IF r \notin DOMAIN roles THEN row ELSE
                             [row EXCEPT !.perms = @ \union roles[r].perms])
           \/ UNCHANGED roles
        /\ UNCHANGED users

\* Seeded fault: the users keep the role.
RoleRemoveNoCascade(w) ==
    /\ Finish(w, "RoleDelete")
    /\ roles' = [q \in DOMAIN roles \ {req[w].role} |-> roles[q]]
    /\ UNCHANGED users

\* Foreign keys take the role from its users.
RoleRemove(w) ==
    LET r == req[w].role
    IN  /\ Finish(w, "RoleDelete")
        /\ \/ /\ roles' = [q \in DOMAIN roles \ {r} |-> roles[q]]
              /\ users' = [u \in DOMAIN users |-> [users[u] EXCEPT !.roles = @ \ {r}]]
           \/ UNCHANGED <<users, roles>>

RoleReplacePermissions(w) ==
    LET r == req[w].role
    IN  /\ Finish(w, "RoleSetPermissions")
        /\ \/ /\ r \in DOMAIN roles
              /\ \E new \in Outcomes(roles[r].perms, req[w].perms) :
                   roles' = [roles EXCEPT ![r].perms = new]
           \/ UNCHANGED roles
        /\ UNCHANGED users

-----------------------------------------------------------------------------
(* The process: it may stop anywhere, a failed seeding statement stops it too *)

Stop ==
    /\ phase # "down" /\ phase' = "down"
    /\ req' = [w \in Workers |-> Idle]
    /\ UNCHANGED <<users, roles>>

Boot == phase = "down" /\ phase' = "roles" /\ UNCHANGED <<users, roles, req>>

\* Each default role is found by its name or created, then gets the catalog's
\* permissions; a role that was renamed is not found.
SeedRoles ==
    /\ phase = "roles" /\ phase' = "admin"
    /\ \E id \in [DOMAIN Default -> Roles] :
         /\ \A n \in DOMAIN Default :
              IF \E r \in DOMAIN roles : roles[r].name = n
                THEN id[n] \in DOMAIN roles /\ roles[id[n]].name = n
                ELSE id[n] \in FreshRoles
         /\ \A m, n \in DOMAIN Default : id[m] = id[n] => m = n
         /\ roles' = [r \in DOMAIN roles \union {id[n] : n \in DOMAIN Default} |->
                        IF \E n \in DOMAIN Default : id[n] = r
                          THEN LET n == CHOOSE n \in DOMAIN Default : id[n] = r
                               IN  [name |-> n, perms |-> Default[n]]
                          ELSE roles[r]]
    /\ UNCHANGED <<users, req>>

\* bootstrapAdmin looks for any user at all, and grants the role in a statement
\* of its own.
SeedAdmin ==
    /\ phase = "admin"
    /\ IF users # <<>>
         THEN phase' = "up" /\ UNCHANGED users
         ELSE /\ phase' = "grant"
              /\ \E u \in Users :
                   users' = Put(users, u, [active |-> TRUE, roles |-> {}, perms |-> {}])
    /\ UNCHANGED <<roles, req>>

SeedGrant ==
    /\ phase = "grant" /\ phase' = "up"
    /\ \E r \in DOMAIN roles :
         /\ roles[r].name = SuperAdminRole
         /\ users' = [u \in DOMAIN users |-> [users[u] EXCEPT !.roles = {r}]]
    /\ UNCHANGED <<roles, req>>

Receive(w, a) ==
    \/ UserCreate(w, a) \/ UserUpdate(w, a)     \/ UserDelete(w, a)
    \/ SetRoles(w, a)   \/ SetPermissions(w, a) \/ RoleCreate(w, a)
    \/ RoleUpdate(w, a) \/ RoleDelete(w, a)     \/ RoleSetPermissions(w, a)

Write(w) ==
    \/ UserInsert(w)       \/ UserSave(w)               \/ UserRemove(w)
    \/ UserReplaceRoles(w) \/ UserReplacePermissions(w) \/ RoleInsert(w)
    \/ RoleSave(w)         \/ RoleRemove(w)             \/ RoleReplacePermissions(w)

Next ==
    \/ Stop \/ Boot \/ SeedRoles \/ SeedAdmin \/ SeedGrant
    \/ \E w \in Workers : Write(w) \/ \E a \in Users : Receive(w, a)

Spec == Init /\ [][Next]_vars
-----------------------------------------------------------------------------
(* Properties *)

\* Whenever requests are served, the role the bootstrap admin gets is in the
\* table, under its name and with the wildcard: no sequence of creations,
\* renames, deletions and grants by those who manage roles takes it away.
SuperRoleIntact ==
    phase \in {"admin", "grant", "up"} =>
      \E r \in DOMAIN roles :
        roles[r].name = SuperAdminRole /\ Wildcard \in roles[r].perms

\* The step in which worker w writes.
Writes(w) == req[w] # Idle /\ req'[w] = Idle /\ phase' = "up"

\* Nobody becomes a super admin but by the request of a super admin or as the
\* bootstrap admin: not through a role that carries the wildcard, not by a grant
\* to a role already held, not by a rename that meets the next seeding.
OnlySuperMakesSuper ==
    [][\A u \in Users : u \notin SuperAdmins /\ u \in SuperAdmins' =>
         phase = "grant" \/ \E w \in Workers : Writes(w) /\ req[w].super]_vars

\* As long as requests do not overlap, no request on users leaves the panel
\* without an active super admin, whichever way the wildcard was held and
\* whichever half of a replacement fails.
LastSuperAdminKept ==
    [][\A w \in Workers :
         Writes(w) /\ "user" \in DOMAIN req[w] /\ ActiveSupers # {}
           => ActiveSupers' # {}]_vars
=============================================================================
