----------------------------- MODULE RbacProofs -----------------------------
(***************************************************************************)
(* Theorems of Rbac, for every number of users, roles and requests in      *)
(* flight and every catalog that gives the super-admin role the wildcard.  *)
(***************************************************************************)
EXTENDS Rbac, TLAPS

RolesTyped == roles \in [DOMAIN roles -> RoleRow] /\ DOMAIN roles \subseteq Roles

Named(r) == r \in DOMAIN roles /\ roles[r].name = SuperAdminRole

\* What the checks of a request established about the super-admin role is still
\* true when it writes: the role it deletes or strips is not that role, a rename
\* leaves that role its name, and that role has not left the table.
StillHolds(r) ==
    /\ r.op \in {"UserCreate", "UserUpdate", "SetRoles"} =>
         /\ r.seen \in [DOMAIN r.seen -> RoleRow] /\ DOMAIN r.seen \subseteq Roles
         /\ \A q \in DOMAIN r.seen : r.seen[q].name = SuperAdminRole => Named(q)
    /\ r.op \in {"RoleCreate", "RoleUpdate"} => r.role \in Roles /\ r.row \in RoleRow
    /\ r.op = "RoleUpdate" /\ Named(r.role) => r.row.name = SuperAdminRole
    /\ r.op \in {"RoleDelete", "RoleSetPermissions"} => ~Named(r.role)
    /\ r.op = "RoleSetPermissions" => r.perms \subseteq Perms

InFlight ==
    /\ DOMAIN req = Workers
    /\ \A w \in Workers : req[w] # Idle => phase = "up" /\ StillHolds(req[w])

RInv == RolesTyped /\ SuperRoleIntact /\ InFlight

-----------------------------------------------------------------------------
(* Writes *)

\* A step of a running process that keeps the super-admin role what it was and
\* names no other role so, while requests only end, preserves the invariant.
LEMMA Harmless ==
    ASSUME RInv, phase = "up", phase' = "up",
           RolesTyped', DOMAIN req' = Workers,
           \A w \in Workers : req'[w] \in {Idle, req[w]},
           \A r \in DOMAIN roles : Named(r) =>
             /\ Named(r)'
             /\ Wildcard \in roles[r].perms => Wildcard \in roles'[r].perms,
           \A r \in DOMAIN roles' : Named(r)' => Named(r)
    PROVE  RInv'
<1>1. SuperRoleIntact'
  <2>1. PICK r \in DOMAIN roles : Named(r) /\ Wildcard \in roles[r].perms
    BY DEF RInv, SuperRoleIntact, Named
  <2> QED BY <2>1 DEF SuperRoleIntact, Named
<1>2. ASSUME NEW w \in Workers, req'[w] # Idle PROVE StillHolds(req[w])'
  <2>1. req'[w] = req[w] /\ StillHolds(req[w])
    BY <1>2 DEF RInv, InFlight
  <2>2. \A r : Named(r)' <=> Named(r)
    BY DEF Named
  <2> QED BY <2>1, <2>2 DEF StillHolds
<1> QED BY <1>1, <1>2 DEF RInv, InFlight

\* Worker w ends its request.
LEMMA Ended ==
    ASSUME RInv, NEW w \in Workers, NEW op, Finish(w, op)
    PROVE  /\ phase = "up" /\ phase' = "up"
           /\ req[w].op = op /\ StillHolds(req[w])
           /\ DOMAIN req' = Workers
           /\ \A v \in Workers : req'[v] \in {Idle, req[v]}
  BY DEF Finish, RInv, InFlight

\* Saving the roles a request was loaded with, with any of their permissions.
LEMMA SavedHarmless ==
    ASSUME RolesTyped, NEW seen, NEW old,
           old \in [DOMAIN old -> RoleRow], DOMAIN old \subseteq Roles,
           \A q \in DOMAIN old : old[q].name = SuperAdminRole => Named(q),
           seen \in [DOMAIN old -> RoleRow],
           \A q \in DOMAIN old : seen[q].name = old[q].name,
           roles' = Saved(seen)
    PROVE  /\ RolesTyped'
           /\ \A r \in DOMAIN roles : Named(r) =>
                /\ Named(r)'
                /\ Wildcard \in roles[r].perms => Wildcard \in roles'[r].perms
           /\ \A r \in DOMAIN roles' : Named(r)' => Named(r)
<1>1. DOMAIN roles' = DOMAIN roles \union DOMAIN old
  BY DEF Saved
<1>2. \A r \in DOMAIN roles \ DOMAIN old : roles'[r] = roles[r]
  BY DEF Saved
<1>3. \A r \in DOMAIN old \ DOMAIN roles : roles'[r] = seen[r]
  BY DEF Saved
<1>4. \A r \in DOMAIN roles \intersect DOMAIN old :
        roles'[r] = [roles[r] EXCEPT !.perms = @ \union seen[r].perms]
  BY DEF Saved
<1>5. \A r \in DOMAIN roles : roles[r] \in RoleRow
  BY DEF RolesTyped
<1>6. \A r \in DOMAIN roles \intersect DOMAIN old :
        /\ roles'[r] \in RoleRow
        /\ roles'[r].name = roles[r].name
        /\ roles[r].perms \subseteq roles'[r].perms
  <2>1. ASSUME NEW r \in DOMAIN roles \intersect DOMAIN old
        PROVE  /\ roles'[r] \in RoleRow
               /\ roles'[r].name = roles[r].name
               /\ roles[r].perms \subseteq roles'[r].perms
    <3> DEFINE more == seen[r].perms
    <3>1. roles[r] \in RoleRow /\ more \subseteq Perms
      BY <1>5 DEF RoleRow
    <3>2. roles'[r] = [roles[r] EXCEPT !.perms = @ \union more]
      BY <1>4
    <3> HIDE DEF more
    <3> QED BY <3>1, <3>2 DEF RoleRow
  <2> QED BY <2>1
<1>7. roles' \in [DOMAIN roles' -> RoleRow]
  <2>1. \A r \in DOMAIN roles' : roles'[r] \in RoleRow
    BY <1>1, <1>2, <1>3, <1>5, <1>6
  <2>2. roles' = [r \in DOMAIN roles' |-> roles'[r]]
    BY DEF Saved
  <2> QED BY <2>1, <2>2
<1>8. RolesTyped'
  BY <1>1, <1>7 DEF RolesTyped
<1> QED BY <1>1, <1>2, <1>3, <1>6, <1>8 DEF Named

\* The writes on users cannot disturb the super-admin role, stale roles included.
LEMMA UserWrites ==
    ASSUME RInv, NEW w \in Workers,
           \/ UserInsert(w)       \/ UserSave(w) \/ UserRemove(w)
           \/ UserReplaceRoles(w) \/ UserReplacePermissions(w)
    PROVE  RInv'
<1>0. RolesTyped
  BY DEF RInv
<1>1. CASE UNCHANGED roles
  <2>1. PICK op : Finish(w, op)
    BY DEF UserInsert, UserSave, UserRemove, UserReplaceRoles, UserReplacePermissions
  <2> QED BY <1>0, <1>1, <2>1, Ended, Harmless DEF Named, RolesTyped
<1>2. ASSUME NEW op \in {"UserCreate", "UserUpdate", "SetRoles"}, Finish(w, op),
             NEW seen, roles' = Saved(seen),
             seen \in [DOMAIN req[w].seen -> RoleRow],
             \A q \in DOMAIN req[w].seen : seen[q].name = req[w].seen[q].name
      PROVE  RInv'
  <2>1. StillHolds(req[w]) /\ req[w].op = op
    BY <1>2, Ended
  <2>2. /\ req[w].seen \in [DOMAIN req[w].seen -> RoleRow]
        /\ DOMAIN req[w].seen \subseteq Roles
        /\ \A q \in DOMAIN req[w].seen :
             req[w].seen[q].name = SuperAdminRole => Named(q)
    BY <2>1, <1>2 DEF StillHolds
  <2> QED BY <1>0, <1>2, <2>2, SavedHarmless, Ended, Harmless
<1>3. CASE UserInsert(w) /\ roles' = Saved(req[w].seen)
  <2>1. Finish(w, "UserCreate") /\ req[w].seen \in [DOMAIN req[w].seen -> RoleRow]
    BY <1>3, Ended DEF UserInsert, StillHolds
  <2> QED BY <1>2, <1>3, <2>1
<1>4. CASE UserSave(w) /\ roles' = Saved(req[w].seen)
  <2>1. Finish(w, "UserUpdate") /\ req[w].seen \in [DOMAIN req[w].seen -> RoleRow]
    BY <1>4, Ended DEF UserSave, StillHolds
  <2> QED BY <1>2, <1>4, <2>1
<1>5. CASE UserReplaceRoles(w) /\ ~UNCHANGED roles
  <2> DEFINE seen == req[w].seen
             bare == [r \in DOMAIN seen |-> [seen[r] EXCEPT !.perms = {}]]
  <2>1. Finish(w, "SetRoles") /\ seen \in [DOMAIN seen -> RoleRow]
    BY <1>5, Ended DEF UserReplaceRoles, StillHolds
  <2>2. roles' = Saved(bare)
    BY <1>5 DEF UserReplaceRoles
  <2>3. /\ bare \in [DOMAIN seen -> RoleRow]
        /\ \A q \in DOMAIN seen : bare[q].name = seen[q].name
    BY <2>1 DEF RoleRow
  <2> QED BY <1>2, <2>1, <2>2, <2>3
<1> QED
  BY <1>1, <1>3, <1>4, <1>5
  DEF UserInsert, UserSave, UserRemove, UserReplaceRoles, UserReplacePermissions

\* The writes on roles spare the super-admin role, as their checks foresaw.
LEMMA RoleWrites ==
    ASSUME RInv, NEW w \in Workers,
           \/ RoleInsert(w) \/ RoleSave(w) \/ RoleRemove(w) \/ RoleReplacePermissions(w)
    PROVE  RInv'
<1> DEFINE r == req[w].role
           row == req[w].row
<1>0. /\ RolesTyped
      /\ \A q \in DOMAIN roles : roles[q] \in RoleRow
      /\ phase = "up" => \E q \in DOMAIN roles : Named(q)
  BY DEF RInv, RolesTyped, SuperRoleIntact, Named
<1>1. CASE UNCHANGED roles
  <2>1. PICK op : Finish(w, op)
    BY DEF RoleInsert, RoleSave, RoleRemove, RoleReplacePermissions
  <2> QED BY <1>0, <1>1, <2>1, Ended, Harmless DEF Named, RolesTyped
<1>2. CASE RoleInsert(w) /\ ~UNCHANGED roles
  <2>1. /\ Finish(w, "RoleCreate") /\ Unnamed(row.name, r)
        /\ r \notin DOMAIN roles /\ roles' = Put(roles, r, row)
    BY <1>2 DEF RoleInsert
  <2>2. phase = "up" /\ r \in Roles /\ row \in RoleRow
    BY <2>1, Ended DEF StillHolds
  <2>3. /\ DOMAIN roles' = DOMAIN roles \union {r}
        /\ \A q \in DOMAIN roles : roles'[q] = roles[q]
        /\ roles'[r] = row
        /\ roles' = [q \in DOMAIN roles' |-> roles'[q]]
    BY <2>1 DEF Put
  <2>4. RolesTyped'
    BY <1>0, <2>2, <2>3 DEF RolesTyped
  <2>5. row.name # SuperAdminRole
    BY <1>0, <2>1, <2>2 DEF Unnamed, Named
  <2> QED BY <2>1, <2>3, <2>4, <2>5, Ended, Harmless DEF Named
<1>3. CASE RoleSave(w) /\ ~UNCHANGED roles
  <2> DEFINE new == IF r \notin DOMAIN roles THEN row
                    ELSE [row EXCEPT !.perms = @ \union roles[r].perms]
  <2>1. /\ Finish(w, "RoleUpdate") /\ Unnamed(row.name, r)
        /\ roles' = Put(roles, r, new)
    BY <1>3 DEF RoleSave
  <2>2. /\ phase = "up" /\ r \in Roles /\ row \in RoleRow
        /\ Named(r) => row.name = SuperAdminRole
    BY <2>1, Ended DEF StillHolds
  <2>3. /\ DOMAIN roles' = DOMAIN roles \union {r}
        /\ \A q \in DOMAIN roles \ {r} : roles'[q] = roles[q]
        /\ roles'[r] = new
        /\ roles' = [q \in DOMAIN roles' |-> roles'[q]]
    BY <2>1 DEF Put
  <2>4. /\ new \in RoleRow /\ new.name = row.name
        /\ r \in DOMAIN roles => roles[r].perms \subseteq new.perms
    BY <1>0, <2>2 DEF RoleRow
  <2>5. RolesTyped'
    BY <1>0, <2>2, <2>3, <2>4 DEF RolesTyped
  <2>6. row.name = SuperAdminRole => Named(r)
    BY <1>0, <2>1, <2>2 DEF Unnamed, Named
  <2> QED BY <2>1, <2>2, <2>3, <2>4, <2>5, <2>6, Ended, Harmless, ZenonT(40) DEF Named
<1>4. CASE RoleRemove(w) /\ ~UNCHANGED roles
  <2>1. /\ Finish(w, "RoleDelete")
        /\ roles' = [q \in DOMAIN roles \ {r} |-> roles[q]]
    BY <1>4 DEF RoleRemove
  <2>2. ~Named(r)
    BY <2>1, Ended DEF StillHolds
  <2>3. RolesTyped'
    BY <1>0, <2>1 DEF RolesTyped
  <2> QED BY <2>1, <2>2, <2>3, Ended, Harmless DEF Named
<1>5. CASE RoleReplacePermissions(w) /\ ~UNCHANGED roles
  <2>1. PICK new \in Outcomes(roles[r].perms, req[w].perms) :
          /\ Finish(w, "RoleSetPermissions") /\ r \in DOMAIN roles
          /\ roles' = [roles EXCEPT ![r].perms = new]
    BY <1>5 DEF RoleReplacePermissions
  <2>2. ~Named(r) /\ req[w].perms \subseteq Perms
    BY <2>1, Ended DEF StillHolds
  <2>3. new \subseteq Perms
    BY <1>0, <2>1, <2>2 DEF Outcomes, RoleRow
  <2>4. /\ DOMAIN roles' = DOMAIN roles
        /\ \A q \in DOMAIN roles \ {r} : roles'[q] = roles[q]
        /\ roles'[r] = [roles[r] EXCEPT !.perms = new]
        /\ roles' = [q \in DOMAIN roles' |-> roles'[q]]
    BY <2>1
  <2>5. roles'[r] \in RoleRow /\ roles'[r].name = roles[r].name
    BY <1>0, <2>1, <2>3, <2>4 DEF RoleRow
  <2>6. RolesTyped'
    BY <1>0, <2>4, <2>5 DEF RolesTyped
  <2> QED BY <2>1, <2>2, <2>4, <2>5, <2>6, Ended, Harmless DEF Named
<1> QED
  BY <1>1, <1>2, <1>3, <1>4, <1>5

-----------------------------------------------------------------------------
(* Checks *)

\* A request is received: the tables stay, and what it carries holds.
LEMMA Received ==
    ASSUME RInv, NEW w \in Workers, phase = "up", UNCHANGED <<roles, phase>>,
           NEW r, Carry(w, r), StillHolds(r)
    PROVE  RInv'
<1>1. RolesTyped' /\ SuperRoleIntact'
  BY DEF RInv, RolesTyped, SuperRoleIntact
<1>2. DOMAIN req' = Workers /\ req'[w] = r /\ \A v \in Workers \ {w} : req'[v] = req[v]
  BY DEF RInv, InFlight, Carry
<1>3. \A q : Named(q)' <=> Named(q)
  BY DEF Named
<1>4. ASSUME NEW v \in Workers, req'[v] # Idle PROVE StillHolds(req[v])'
  <2>1. StillHolds(req'[v])
    BY <1>2, <1>4 DEF RInv, InFlight
  <2> QED BY <1>3, <2>1 DEF StillHolds
<1> QED BY <1>1, <1>2, <1>4 DEF RInv, InFlight

\* Roles loaded for a request are rows, and keep the name they have.
LEMMA Loaded ==
    ASSUME RolesTyped, NEW ids
    PROVE  /\ Load(ids) \in [DOMAIN Load(ids) -> RoleRow]
           /\ DOMAIN Load(ids) \subseteq Roles
           /\ \A q \in DOMAIN Load(ids) :
                Load(ids)[q].name = SuperAdminRole => Named(q)
  BY DEF RolesTyped, Load, Named

\* A user request that passes its checks carries what its write relies on.
LEMMA UserReceives ==
    ASSUME RInv, NEW w \in Workers, NEW a \in Users,
           \/ UserCreate(w, a) \/ UserUpdate(w, a)     \/ UserDelete(w, a)
           \/ SetRoles(w, a)   \/ SetPermissions(w, a)
    PROVE  RInv'
<1>0. RolesTyped
  BY DEF RInv
<1>1. phase = "up" /\ UNCHANGED <<roles, phase>>
  BY DEF UserCreate, UserUpdate, UserDelete, SetRoles, SetPermissions, Begin
<1>2. CASE UserCreate(w, a)
  <2>1. PICK u \in FreshUsers, ids \in RoleChoices, perms \in PermChoices :
          Carry(w, [op |-> "UserCreate", super |-> a \in SuperAdmins, user |-> u,
                    seen |-> Load(ids), perms |-> perms])
    BY <1>2 DEF UserCreate
  <2> QED BY <1>0, <1>1, <2>1, Loaded, Received DEF StillHolds
<1>3. CASE UserUpdate(w, a)
  <2> DEFINE carried(u, on) ==
               [op |-> "UserUpdate", super |-> a \in SuperAdmins, user |-> u,
                row |-> [users[u] EXCEPT !.active = on],
                seen |-> Load(users[u].roles)]
  <2>1. PICK u \in DOMAIN users : \E on : Carry(w, carried(u, on))
    BY <1>3 DEF UserUpdate
  <2>2. PICK on : Carry(w, carried(u, on))
    BY <2>1
  <2> QED BY <1>0, <1>1, <2>2, Loaded, Received DEF StillHolds
<1>4. CASE SetRoles(w, a)
  <2>1. PICK u \in DOMAIN users, ids \in RoleChoices :
          Carry(w, [op |-> "SetRoles", super |-> a \in SuperAdmins, user |-> u,
                    seen |-> Load(ids), perms |-> {}])
    BY <1>4 DEF SetRoles
  <2> QED BY <1>0, <1>1, <2>1, Loaded, Received DEF StillHolds
<1>5. CASE UserDelete(w, a)
  BY <1>1, <1>5, Received DEF UserDelete, StillHolds
<1>6. CASE SetPermissions(w, a)
  BY <1>1, <1>6, Received DEF SetPermissions, StillHolds
<1> QED BY <1>2, <1>3, <1>4, <1>5, <1>6

\* A role request that passes its checks carries what its write relies on.
LEMMA RoleReceives ==
    ASSUME RInv, NEW w \in Workers, NEW a \in Users,
           \/ RoleCreate(w, a) \/ RoleUpdate(w, a)
           \/ RoleDelete(w, a) \/ RoleSetPermissions(w, a)
    PROVE  RInv'
<1>0. /\ DOMAIN roles \subseteq Roles
      /\ \A r \in DOMAIN roles : roles[r] \in RoleRow
  BY DEF RInv, RolesTyped
<1>1. phase = "up" /\ UNCHANGED <<roles, phase>>
  BY DEF RoleCreate, RoleUpdate, RoleDelete, RoleSetPermissions, Begin
<1>2. CASE RoleCreate(w, a)
  <2>1. PICK r \in FreshRoles, n \in Names, perms \in PermChoices :
          Carry(w, [op |-> "RoleCreate", super |-> a \in SuperAdmins, role |-> r,
                    row |-> [name |-> n, perms |-> perms]])
    BY <1>2 DEF RoleCreate
  <2>2. r \in Roles /\ [name |-> n, perms |-> perms] \in RoleRow
    BY RbacAssumption DEF RbacAssumption, FreshRoles, RoleRow
  <2> QED BY <1>1, <2>1, <2>2, Received DEF StillHolds
<1>3. CASE RoleUpdate(w, a)
  <2>1. PICK r \in DOMAIN roles, n \in Names :
          /\ roles[r].name # SuperAdminRole \/ n = SuperAdminRole
          /\ Carry(w, [op |-> "RoleUpdate", super |-> a \in SuperAdmins, role |-> r,
                       row |-> [roles[r] EXCEPT !.name = n]])
    BY <1>3 DEF RoleUpdate, Unprotected
  <2>2. /\ [roles[r] EXCEPT !.name = n] \in RoleRow
        /\ [roles[r] EXCEPT !.name = n].name = n
    BY <1>0 DEF RoleRow
  <2> QED BY <1>0, <1>1, <2>1, <2>2, Received DEF StillHolds, Named
<1>4. CASE RoleDelete(w, a)
  BY <1>1, <1>4, Received DEF RoleDelete, Unprotected, StillHolds, Named
<1>5. CASE RoleSetPermissions(w, a)
  <2>1. PICK r \in DOMAIN roles, perms \in PermChoices :
          /\ roles[r].name # SuperAdminRole
          /\ Carry(w, [op |-> "RoleSetPermissions", super |-> a \in SuperAdmins,
                       role |-> r, perms |-> perms])
    BY <1>5 DEF RoleSetPermissions, Unprotected
  <2>2. perms \subseteq Perms
    BY RbacAssumption DEF RbacAssumption
  <2> QED BY <1>1, <2>1, <2>2, Received DEF StillHolds, Named
<1> QED BY <1>2, <1>3, <1>4, <1>5

-----------------------------------------------------------------------------
(* The process *)

\* No request is in flight while the process is down or seeding.
LEMMA SeedingPreserves ==
    ASSUME RInv, Boot \/ SeedRoles \/ SeedAdmin \/ SeedGrant
    PROVE  RInv'
<1>1. phase # "up" /\ UNCHANGED req
  BY DEF Boot, SeedRoles, SeedAdmin, SeedGrant
<1>2. InFlight'
  BY <1>1 DEF RInv, InFlight
<1>3. CASE Boot \/ SeedAdmin \/ SeedGrant
  <2>1. UNCHANGED roles /\ (phase' = "roles" \/ phase \in {"admin", "grant"})
    BY <1>3 DEF Boot, SeedAdmin, SeedGrant
  <2> QED BY <1>2, <2>1 DEF RInv, RolesTyped, SuperRoleIntact
<1>4. CASE SeedRoles
  <2>1. PICK id \in [DOMAIN Default -> Roles] :
          /\ \A m, n \in DOMAIN Default : id[m] = id[n] => m = n
          /\ roles' = [r \in DOMAIN roles \union {id[n] : n \in DOMAIN Default} |->
                        IF \E n \in DOMAIN Default : id[n] = r
                          THEN LET n == CHOOSE n \in DOMAIN Default : id[n] = r
                               IN  [name |-> n, perms |-> Default[n]]
                          ELSE roles[r]]
    BY <1>4 DEF SeedRoles
  <2> DEFINE of(r) == CHOOSE n \in DOMAIN Default : id[n] = r
             seeded(r) == \E n \in DOMAIN Default : id[n] = r
  <2>2. /\ DOMAIN roles' = DOMAIN roles \union {id[n] : n \in DOMAIN Default}
        /\ \A r \in DOMAIN roles' :
             roles'[r] = IF seeded(r) THEN [name |-> of(r), perms |-> Default[of(r)]]
                                      ELSE roles[r]
        /\ roles' = [r \in DOMAIN roles' |-> roles'[r]]
    BY <2>1
  <2>3. \A r : seeded(r) => of(r) \in DOMAIN Default /\ id[of(r)] = r
    OBVIOUS
  <2>4. ASSUME NEW r \in DOMAIN roles', seeded(r) PROVE roles'[r] \in RoleRow
    <3>1. PICK n \in DOMAIN Default : roles'[r] = [name |-> n, perms |-> Default[n]]
      BY <2>2, <2>3, <2>4
    <3> QED BY <3>1, RbacAssumption DEF RbacAssumption, RoleRow
  <2>5. \A r \in DOMAIN roles' : ~seeded(r) => r \in DOMAIN roles /\ roles'[r] \in RoleRow
    BY <2>2 DEF RInv, RolesTyped
  <2>6. RolesTyped'
    <3>1. DOMAIN roles' \subseteq Roles
      BY <2>2 DEF RInv, RolesTyped
    <3> QED BY <2>2, <2>4, <2>5, <3>1 DEF RolesTyped
  <2>7. SuperRoleIntact'
    <3> DEFINE r == id[SuperAdminRole]
    <3>1. SuperAdminRole \in DOMAIN Default /\ Wildcard \in Default[SuperAdminRole]
      BY RbacAssumption DEF RbacAssumption
    <3>2. r \in DOMAIN roles' /\ seeded(r)
      BY <2>2, <3>1
    <3>3. of(r) \in DOMAIN Default /\ id[of(r)] = id[SuperAdminRole]
      BY <2>3, <3>2
    <3>4. roles'[r] = [name |-> SuperAdminRole, perms |-> Default[SuperAdminRole]]
      <4>1. of(r) = SuperAdminRole
        BY <2>1, <3>1, <3>3
      <4> QED BY <2>2, <3>2, <4>1
    <3> QED BY <3>1, <3>2, <3>4 DEF SuperRoleIntact
  <2> QED BY <1>2, <2>6, <2>7 DEF RInv
<1> QED BY <1>3, <1>4

\* Before the first start nothing is served and nothing is in flight.
LEMMA RInvInit == Init => RInv
  BY DEF Init, RInv, RolesTyped, SuperRoleIntact, InFlight

\* Every check, write, stop and start keeps the invariant.
LEMMA RInvStep == RInv /\ [Next]_vars => RInv'
<1> SUFFICES ASSUME RInv, [Next]_vars PROVE RInv'
  OBVIOUS
<1>1. CASE UNCHANGED vars
  BY <1>1 DEF vars, RInv, RolesTyped, SuperRoleIntact, InFlight, StillHolds, Named
<1>2. CASE Stop
  BY <1>2 DEF Stop, RInv, RolesTyped, SuperRoleIntact, InFlight
<1>3. CASE Boot \/ SeedRoles \/ SeedAdmin \/ SeedGrant
  BY <1>3, SeedingPreserves
<1>4. ASSUME NEW w \in Workers, Write(w) PROVE RInv'
  BY <1>4, UserWrites, RoleWrites DEF Write
<1>5. ASSUME NEW w \in Workers, NEW a \in Users, Receive(w, a) PROVE RInv'
  BY <1>5, UserReceives, RoleReceives DEF Receive
<1> QED BY <1>1, <1>2, <1>3, <1>4, <1>5 DEF Next

\* However many requests overlap, whatever statement fails and wherever the
\* process stops, the seeded role never loses its name, its wildcard or its row.
THEOREM SuperRoleAlwaysIntact == Spec => []SuperRoleIntact
<1>1. RInv => SuperRoleIntact
  BY DEF RInv
<1> QED BY <1>1, RInvInit, RInvStep, PTL DEF Spec

-----------------------------------------------------------------------------
(* Well-formed tables *)

NamesOnce(t) == \A p, q \in DOMAIN t : t[p].name = t[q].name => p = q

UsersSound ==
    /\ IsTable(users, Users, UserRow)
    /\ \A u \in DOMAIN users : users[u].roles \subseteq DOMAIN roles

\* Roles a request was loaded with had different names when they were loaded, and
\* are inserted together: nothing else keeps two of them from one name.
LoadedOnce(r) == r.op \in {"UserCreate", "UserUpdate", "SetRoles"} => NamesOnce(r.seen)

Requests ==
    /\ DOMAIN req = Workers
    /\ \A w \in Workers : req[w] = Idle \/ (Carried(req[w]) /\ LoadedOnce(req[w]))

Phases == phase \in {"down", "roles", "admin", "grant", "up"}

TInv == RInv /\ UsersSound /\ NamesOnce(roles) /\ Requests /\ Phases

\* The tables and requests of TInv are those of TypeOK.
LEMMA TInvTypes == TInv => TypeOK
  BY DEF TInv, RInv, RolesTyped, UsersSound, NamesOnce, Requests, Phases, TypeOK, IsTable

\* Saving loaded roles keeps names unique: a name that another role took meanwhile
\* lets the statement fail.
LEMMA SavedOnce ==
    ASSUME NamesOnce(roles), NEW old, NEW seen, NamesOnce(old),
           DOMAIN seen = DOMAIN old,
           \A q \in DOMAIN old : seen[q].name = old[q].name,
           RolesTyped, old \in [DOMAIN old -> RoleRow],
           Saveable(old), roles' = Saved(seen)
    PROVE  NamesOnce(roles)' /\ DOMAIN roles' = DOMAIN roles \union DOMAIN old
<1>1. DOMAIN roles' = DOMAIN roles \union DOMAIN old
  BY DEF Saved
<1>2. \A r \in DOMAIN old \ DOMAIN roles : roles'[r].name = old[r].name
  BY DEF Saved
<1>3. \A r \in DOMAIN roles \ DOMAIN old : roles'[r].name = roles[r].name
  BY DEF Saved
<1>4. ASSUME NEW r \in DOMAIN roles \intersect DOMAIN old
      PROVE  roles'[r].name = roles[r].name
  <2> DEFINE more == seen[r].perms
  <2>1. roles[r] \in RoleRow
    BY DEF RolesTyped
  <2>2. roles'[r] = [roles[r] EXCEPT !.perms = @ \union more]
    BY DEF Saved
  <2> HIDE DEF more
  <2> QED BY <2>1, <2>2 DEF RoleRow
<1>5. \A r \in DOMAIN roles : roles'[r].name = roles[r].name
  BY <1>3, <1>4
<1>6. ASSUME NEW p \in DOMAIN roles', NEW q \in DOMAIN roles',
             roles'[p].name = roles'[q].name
      PROVE  p = q
  <2>1. CASE p \in DOMAIN roles /\ q \in DOMAIN roles
    BY <1>5, <1>6, <2>1 DEF NamesOnce
  <2>2. CASE p \in DOMAIN roles /\ q \notin DOMAIN roles
    BY <1>1, <1>2, <1>5, <1>6, <2>2 DEF Saveable
  <2>3. CASE p \notin DOMAIN roles /\ q \in DOMAIN roles
    BY <1>1, <1>2, <1>5, <1>6, <2>3 DEF Saveable
  <2>4. CASE p \notin DOMAIN roles /\ q \notin DOMAIN roles
    BY <1>1, <1>2, <1>6, <2>4 DEF NamesOnce
  <2> QED BY <2>1, <2>2, <2>3, <2>4
<1> QED BY <1>1, <1>6 DEF NamesOnce

\* A request ends: the others carry what they carried.
LEMMA RequestsEnd ==
    ASSUME Requests, NEW w \in Workers, NEW op, Finish(w, op)
    PROVE  /\ Requests' /\ phase' = phase /\ req[w].op = op
           /\ Carried(req[w]) /\ LoadedOnce(req[w])
<1>1. req[w] # Idle /\ req[w].op = op /\ phase' = phase
  BY DEF Finish
<1>2. DOMAIN req' = Workers /\ \A v \in Workers : req'[v] = Idle \/ req'[v] = req[v]
  BY DEF Requests, Finish
<1>3. Requests'
  BY <1>2 DEF Requests
<1> QED BY <1>1, <1>3 DEF Requests

\* A row is put into a table of users.
LEMMA UserPut ==
    ASSUME UsersSound, DOMAIN roles \subseteq DOMAIN roles',
           NEW u \in Users, NEW row \in UserRow, row.roles \subseteq DOMAIN roles',
           users' = Put(users, u, row)
    PROVE  UsersSound'
<1>1. /\ DOMAIN users' = DOMAIN users \union {u}
      /\ \A x \in DOMAIN users' : users'[x] = IF x = u THEN row ELSE users[x]
      /\ users' = [x \in DOMAIN users' |-> users'[x]]
  BY DEF Put
<1>2. \A x \in DOMAIN users' :
        users'[x] \in UserRow /\ users'[x].roles \subseteq DOMAIN roles'
  BY <1>1 DEF UsersSound, IsTable
<1>3. DOMAIN users' \subseteq Users
  BY <1>1 DEF UsersSound, IsTable
<1> QED BY <1>1, <1>2, <1>3 DEF UsersSound, IsTable

\* Every join row of a user points at a role that stays.
LEMMA UsersKept ==
    ASSUME UsersSound, UNCHANGED users, DOMAIN roles \subseteq DOMAIN roles'
    PROVE  UsersSound'
  BY DEF UsersSound, IsTable

\* One field of a user's row is replaced.
LEMMA UserChanged ==
    ASSUME UsersSound, DOMAIN roles \subseteq DOMAIN roles',
           NEW u \in DOMAIN users, NEW row \in UserRow, row.roles \subseteq DOMAIN roles',
           users' = [users EXCEPT ![u] = row]
    PROVE  UsersSound'
<1>1. /\ DOMAIN users' = DOMAIN users
      /\ \A x \in DOMAIN users' : users'[x] = IF x = u THEN row ELSE users[x]
      /\ users' = [x \in DOMAIN users' |-> users'[x]]
  BY DEF UsersSound, IsTable
<1>2. \A x \in DOMAIN users' :
        users'[x] \in UserRow /\ users'[x].roles \subseteq DOMAIN roles'
  BY <1>1 DEF UsersSound, IsTable
<1> QED BY <1>1, <1>2 DEF UsersSound, IsTable

\* The writes on users keep the tables well formed.
LEMMA UserWritesTyped ==
    ASSUME TInv, NEW w \in Workers,
           \/ UserInsert(w)       \/ UserSave(w) \/ UserRemove(w)
           \/ UserReplaceRoles(w) \/ UserReplacePermissions(w)
    PROVE  UsersSound' /\ NamesOnce(roles)' /\ Requests' /\ Phases'
<1> DEFINE u == req[w].user
           seen == req[w].seen
<1>1. RolesTyped /\ UsersSound /\ NamesOnce(roles) /\ Requests /\ Phases
  BY DEF TInv, RInv
<1>2. ASSUME NEW op, Finish(w, op)
      PROVE  /\ Requests' /\ Phases' /\ req[w].op = op
             /\ Carried(req[w]) /\ LoadedOnce(req[w])
  BY <1>1, <1>2, RequestsEnd DEF Phases
<1>3. CASE UNCHANGED <<users, roles>>
  <2>1. PICK op : Finish(w, op)
    BY DEF UserInsert, UserSave, UserRemove, UserReplaceRoles, UserReplacePermissions
  <2> QED BY <1>1, <1>2, <1>3, <2>1, UsersKept DEF NamesOnce
<1>4. CASE UserInsert(w) /\ ~UNCHANGED <<users, roles>>
  <2> DEFINE row == [active |-> TRUE, roles |-> DOMAIN seen, perms |-> req[w].perms]
  <2>1. /\ Finish(w, "UserCreate") /\ Saveable(seen) /\ roles' = Saved(seen)
        /\ users' = Put(users, u, row)
    BY <1>4 DEF UserInsert
  <2>2. Requests' /\ Phases' /\ Carried(req[w]) /\ LoadedOnce(req[w]) /\ req[w].op = "UserCreate"
    BY <1>2, <2>1
  <2>3. /\ u \in Users /\ req[w].perms \in SUBSET Perms
        /\ seen \in [DOMAIN seen -> RoleRow] /\ DOMAIN seen \subseteq Roles
        /\ NamesOnce(seen)
    BY <2>2 DEF Carried, IsTable, LoadedOnce
  <2>4. NamesOnce(roles)' /\ DOMAIN roles' = DOMAIN roles \union DOMAIN seen
    BY <1>1, <2>1, <2>3, SavedOnce
  <2>5. row \in UserRow /\ row.roles \subseteq DOMAIN roles'
    BY <2>3, <2>4 DEF UserRow
  <2> QED BY <1>1, <2>1, <2>2, <2>3, <2>4, <2>5, UserPut
<1>5. CASE UserSave(w) /\ ~UNCHANGED <<users, roles>>
  <2> DEFINE row == req[w].row
             both == [active |-> row.active,
                      roles |-> users[u].roles \union row.roles,
                      perms |-> users[u].perms \union row.perms]
  <2>1. /\ Finish(w, "UserUpdate") /\ Saveable(seen) /\ roles' = Saved(seen)
        /\ users' = Put(users, u, IF u \notin DOMAIN users THEN row ELSE both)
    BY <1>5 DEF UserSave
  <2>2. Requests' /\ Phases' /\ Carried(req[w]) /\ LoadedOnce(req[w]) /\ req[w].op = "UserUpdate"
    BY <1>2, <2>1
  <2>3. /\ u \in Users /\ row \in UserRow
        /\ seen \in [DOMAIN seen -> RoleRow] /\ DOMAIN seen \subseteq Roles
        /\ DOMAIN seen = row.roles /\ NamesOnce(seen)
    BY <2>2 DEF Carried, IsTable, LoadedOnce
  <2>4. NamesOnce(roles)' /\ DOMAIN roles' = DOMAIN roles \union DOMAIN seen
    BY <1>1, <2>1, <2>3, SavedOnce
  <2>5. u \in DOMAIN users => both \in UserRow /\ both.roles \subseteq DOMAIN roles'
    BY <1>1, <2>3, <2>4 DEF UserRow, UsersSound, IsTable
  <2>6. row.roles \subseteq DOMAIN roles'
    BY <2>3, <2>4
  <2>7. CASE u \in DOMAIN users
    <3>1. users' = Put(users, u, both)
      BY <2>1, <2>7
    <3> QED BY <1>1, <2>2, <2>3, <2>4, <2>5, <2>7, <3>1, UserPut
  <2>8. CASE u \notin DOMAIN users
    <3>1. users' = Put(users, u, row)
      BY <2>1, <2>8
    <3> QED BY <1>1, <2>2, <2>3, <2>4, <2>6, <3>1, UserPut
  <2> QED BY <2>7, <2>8
<1>6. CASE UserRemove(w) /\ ~UNCHANGED <<users, roles>>
  <2>1. /\ Finish(w, "UserDelete") /\ UNCHANGED roles
        /\ users' = [x \in DOMAIN users \ {u} |-> users[x]]
    BY <1>6 DEF UserRemove
  <2>2. UsersSound'
    BY <1>1, <2>1 DEF UsersSound, IsTable
  <2> QED BY <1>1, <1>2, <2>1, <2>2 DEF NamesOnce
<1>7. CASE UserReplaceRoles(w) /\ ~UNCHANGED <<users, roles>>
  <2> DEFINE bare == [r \in DOMAIN seen |-> [seen[r] EXCEPT !.perms = {}]]
  <2>1. PICK new \in Outcomes(users[u].roles, DOMAIN seen) :
          /\ Finish(w, "SetRoles") /\ u \in DOMAIN users /\ Saveable(seen)
          /\ roles' = Saved(bare)
          /\ users' = [users EXCEPT ![u].roles = new]
    BY <1>7 DEF UserReplaceRoles
  <2>2. Requests' /\ Phases' /\ Carried(req[w]) /\ LoadedOnce(req[w]) /\ req[w].op = "SetRoles"
    BY <1>2, <2>1
  <2>3. /\ seen \in [DOMAIN seen -> RoleRow] /\ DOMAIN seen \subseteq Roles
        /\ NamesOnce(seen)
    BY <2>2 DEF Carried, IsTable, LoadedOnce
  <2>4. DOMAIN bare = DOMAIN seen /\ \A q \in DOMAIN seen : bare[q].name = seen[q].name
    BY <2>3 DEF RoleRow
  <2>5. NamesOnce(roles)' /\ DOMAIN roles' = DOMAIN roles \union DOMAIN seen
    <3> HIDE DEF bare
    <3> QED BY <1>1, <2>1, <2>3, <2>4, SavedOnce
  <2>6. users[u] \in UserRow /\ users[u].roles \subseteq DOMAIN roles
    BY <1>1, <2>1 DEF UsersSound, IsTable
  <2>7. new \subseteq DOMAIN roles \union DOMAIN seen /\ new \subseteq Roles
    BY <2>3, <2>6 DEF Outcomes, UserRow
  <2> DEFINE row == [users[u] EXCEPT !.roles = new]
  <2>8. row \in UserRow /\ row.roles \subseteq DOMAIN roles'
    BY <2>5, <2>6, <2>7 DEF UserRow
  <2>9. users' = [users EXCEPT ![u] = row]
    BY <2>1
  <2>10. UsersSound'
    <3> HIDE DEF row
    <3> QED BY <1>1, <2>1, <2>5, <2>8, <2>9, UserChanged
  <2> QED BY <2>2, <2>5, <2>10
<1>8. CASE UserReplacePermissions(w) /\ ~UNCHANGED <<users, roles>>
  <2>1. PICK new \in Outcomes(users[u].perms, req[w].perms) :
          /\ Finish(w, "SetPermissions") /\ u \in DOMAIN users /\ UNCHANGED roles
          /\ users' = [users EXCEPT ![u].perms = new]
    BY <1>8 DEF UserReplacePermissions
  <2>2. Requests' /\ Phases' /\ Carried(req[w]) /\ req[w].op = "SetPermissions"
    BY <1>2, <2>1
  <2>3. users[u] \in UserRow /\ users[u].roles \subseteq DOMAIN roles
    BY <1>1, <2>1 DEF UsersSound, IsTable
  <2>4. new \subseteq Perms
    BY <2>2, <2>3 DEF Carried, Outcomes, UserRow
  <2> DEFINE row == [users[u] EXCEPT !.perms = new]
  <2>5. row \in UserRow /\ row.roles \subseteq DOMAIN roles'
    BY <2>1, <2>3, <2>4 DEF UserRow
  <2>6. users' = [users EXCEPT ![u] = row]
    BY <2>1
  <2>7. UsersSound'
    <3> HIDE DEF row
    <3> QED BY <1>1, <2>1, <2>5, <2>6, UserChanged
  <2> QED BY <1>1, <2>1, <2>2, <2>7 DEF NamesOnce
<1> QED
  BY <1>3, <1>4, <1>5, <1>6, <1>7, <1>8

\* The writes on roles keep the tables well formed.
LEMMA RoleWritesTyped ==
    ASSUME TInv, NEW w \in Workers,
           \/ RoleInsert(w) \/ RoleSave(w) \/ RoleRemove(w) \/ RoleReplacePermissions(w)
    PROVE  UsersSound' /\ NamesOnce(roles)' /\ Requests' /\ Phases'
<1> DEFINE r == req[w].role
           row == req[w].row
<1>1. RolesTyped /\ UsersSound /\ NamesOnce(roles) /\ Requests /\ Phases
  BY DEF TInv, RInv
<1>2. ASSUME NEW op, Finish(w, op)
      PROVE  /\ Requests' /\ Phases' /\ req[w].op = op /\ Carried(req[w])
  BY <1>1, <1>2, RequestsEnd DEF Phases
<1>3. CASE UNCHANGED <<users, roles>>
  <2>1. PICK op : Finish(w, op)
    BY DEF RoleInsert, RoleSave, RoleRemove, RoleReplacePermissions
  <2> QED BY <1>1, <1>2, <1>3, <2>1, UsersKept DEF NamesOnce
<1>4. CASE RoleInsert(w) /\ ~UNCHANGED roles
  <2>1. /\ Finish(w, "RoleCreate") /\ Unnamed(row.name, r) /\ UNCHANGED users
        /\ r \notin DOMAIN roles /\ roles' = Put(roles, r, row)
    BY <1>4 DEF RoleInsert
  <2>2. /\ DOMAIN roles' = DOMAIN roles \union {r}
        /\ \A q \in DOMAIN roles \ {r} : roles'[q] = roles[q]
        /\ roles'[r] = row
    BY <2>1 DEF Put
  <2>3. NamesOnce(roles)'
    BY <1>1, <2>1, <2>2 DEF NamesOnce, Unnamed
  <2> QED BY <1>1, <1>2, <2>1, <2>2, <2>3, UsersKept
<1>5. CASE RoleSave(w) /\ ~UNCHANGED roles
  <2> DEFINE new == IF r \notin DOMAIN roles THEN row
                    ELSE [row EXCEPT !.perms = @ \union roles[r].perms]
  <2>1. /\ Finish(w, "RoleUpdate") /\ Unnamed(row.name, r) /\ UNCHANGED users
        /\ roles' = Put(roles, r, new)
    BY <1>5 DEF RoleSave
  <2>2. row \in RoleRow
    BY <2>1, Ended DEF TInv, StillHolds
  <2>3. new.name = row.name
    BY <2>2 DEF RoleRow
  <2>4. /\ DOMAIN roles' = DOMAIN roles \union {r}
        /\ \A q \in DOMAIN roles \ {r} : roles'[q] = roles[q]
        /\ roles'[r] = new
    BY <2>1 DEF Put
  <2>5. NamesOnce(roles)'
    <3> HIDE DEF new
    <3> QED BY <1>1, <2>1, <2>3, <2>4 DEF NamesOnce, Unnamed
  <2> QED BY <1>1, <1>2, <2>1, <2>4, <2>5, UsersKept
<1>6. CASE RoleRemove(w) /\ ~UNCHANGED <<users, roles>>
  <2>1. /\ Finish(w, "RoleDelete")
        /\ roles' = [q \in DOMAIN roles \ {r} |-> roles[q]]
        /\ users' = [u \in DOMAIN users |-> [users[u] EXCEPT !.roles = @ \ {r}]]
    BY <1>6 DEF RoleRemove
  <2>2. NamesOnce(roles)'
    BY <1>1, <2>1 DEF NamesOnce
  <2>3. ASSUME NEW u \in DOMAIN users
        PROVE  users'[u] \in UserRow /\ users'[u].roles \subseteq DOMAIN roles \ {r}
    <3>1. users[u] \in UserRow /\ users[u].roles \subseteq DOMAIN roles
      BY <1>1 DEF UsersSound, IsTable
    <3>2. users'[u] = [users[u] EXCEPT !.roles = @ \ {r}]
      BY <2>1
    <3> HIDE DEF r
    <3> QED BY <3>1, <3>2 DEF UserRow
  <2>4. /\ DOMAIN users' = DOMAIN users /\ DOMAIN roles' = DOMAIN roles \ {r}
        /\ users' = [u \in DOMAIN users' |-> users'[u]]
    BY <2>1
  <2>5. UsersSound'
    BY <1>1, <2>3, <2>4 DEF UsersSound, IsTable
  <2> QED BY <1>2, <2>1, <2>2, <2>5
<1>7. CASE RoleReplacePermissions(w) /\ ~UNCHANGED roles
  <2>1. PICK new \in Outcomes(roles[r].perms, req[w].perms) :
          /\ Finish(w, "RoleSetPermissions") /\ r \in DOMAIN roles /\ UNCHANGED users
          /\ roles' = [roles EXCEPT ![r].perms = new]
    BY <1>7 DEF RoleReplacePermissions
  <2>2. roles[r] \in RoleRow
    BY <1>1, <2>1 DEF RolesTyped
  <2>3. /\ DOMAIN roles' = DOMAIN roles
        /\ \A q \in DOMAIN roles \ {r} : roles'[q] = roles[q]
        /\ roles'[r].name = roles[r].name
    BY <2>1, <2>2 DEF RoleRow
  <2>4. NamesOnce(roles)'
    BY <1>1, <2>1, <2>3 DEF NamesOnce
  <2> QED BY <1>1, <1>2, <2>1, <2>3, <2>4, UsersKept
<1> QED
  BY <1>3, <1>4, <1>5, <1>6, <1>7
     DEF RoleInsert, RoleSave, RoleRemove, RoleReplacePermissions

\* A request is received: it carries rows.
LEMMA ReceivedTyped ==
    ASSUME TInv, NEW w \in Workers, UNCHANGED <<users, roles, phase>>,
           NEW r, Carried(r), LoadedOnce(r), Carry(w, r)
    PROVE  UsersSound' /\ NamesOnce(roles)' /\ Requests' /\ Phases'
<1>1. DOMAIN req' = Workers /\ req'[w] = r /\ \A v \in Workers \ {w} : req'[v] = req[v]
  BY DEF TInv, Requests, Carry
<1>2. ASSUME NEW v \in Workers
      PROVE  req'[v] = Idle \/ (Carried(req'[v]) /\ LoadedOnce(req'[v]))
  BY <1>1 DEF TInv, Requests
<1>3. Requests'
  BY <1>1, <1>2 DEF Requests
<1>4. UsersSound'
  BY UsersKept DEF TInv
<1>5. NamesOnce(roles)' /\ Phases'
  BY DEF TInv, NamesOnce, Phases
<1> QED BY <1>3, <1>4, <1>5

\* What is loaded is a table of rows with different names.
LEMMA LoadedTyped ==
    ASSUME RolesTyped, NamesOnce(roles), NEW ids
    PROVE  /\ IsTable(Load(ids), Roles, RoleRow) /\ NamesOnce(Load(ids))
           /\ DOMAIN Load(ids) = ids \intersect DOMAIN roles
           /\ \A q \in DOMAIN Load(ids) : Load(ids)[q] = roles[q]
<1>1. DOMAIN Load(ids) = ids \intersect DOMAIN roles
  BY DEF Load
<1>2. \A q \in DOMAIN Load(ids) : Load(ids)[q] = roles[q]
  BY DEF Load
<1>3. Load(ids) = [q \in DOMAIN Load(ids) |-> Load(ids)[q]]
  BY DEF Load
<1>4. \A q \in DOMAIN Load(ids) : Load(ids)[q] \in RoleRow
  BY <1>1, <1>2 DEF RolesTyped
<1> HIDE DEF Load
<1> QED BY <1>1, <1>2, <1>3, <1>4 DEF IsTable, NamesOnce, RolesTyped

\* A user request carries what the database returned and its body asked for.
LEMMA UserReceivesTyped ==
    ASSUME TInv, NEW w \in Workers, NEW a \in Users,
           \/ UserCreate(w, a) \/ UserUpdate(w, a)     \/ UserDelete(w, a)
           \/ SetRoles(w, a)   \/ SetPermissions(w, a)
    PROVE  UsersSound' /\ NamesOnce(roles)' /\ Requests' /\ Phases'
<1>0. /\ RolesTyped /\ NamesOnce(roles)
      /\ DOMAIN users \subseteq Users /\ \A u \in DOMAIN users :
           users[u] \in UserRow /\ users[u].roles \subseteq DOMAIN roles
  BY DEF TInv, RInv, UsersSound, IsTable
<1>1. UNCHANGED <<users, roles, phase>>
  BY DEF UserCreate, UserUpdate, UserDelete, SetRoles, SetPermissions, Begin
<1>2. CASE UserCreate(w, a)
  <2>1. PICK u \in FreshUsers, ids \in RoleChoices, perms \in PermChoices :
          Carry(w, [op |-> "UserCreate", super |-> a \in SuperAdmins, user |-> u,
                    seen |-> Load(ids), perms |-> perms])
    BY <1>2 DEF UserCreate
  <2> DEFINE seen == Load(ids)
             r == [op |-> "UserCreate", super |-> a \in SuperAdmins, user |-> u,
                   seen |-> seen, perms |-> perms]
  <2>2. IsTable(seen, Roles, RoleRow) /\ NamesOnce(seen)
    BY <1>0, LoadedTyped
  <2>3. u \in Users /\ perms \in SUBSET Perms
    BY RbacAssumption DEF RbacAssumption, FreshUsers
  <2>4. Carry(w, r)
    BY <2>1
  <2> HIDE DEF seen
  <2>5. Carried(r) /\ LoadedOnce(r)
    BY <2>2, <2>3 DEF Carried, LoadedOnce
  <2> HIDE DEF r
  <2> QED BY <1>1, <2>4, <2>5, ReceivedTyped
<1>3. CASE UserUpdate(w, a)
  <2> DEFINE carried(u, on) ==
               [op |-> "UserUpdate", super |-> a \in SuperAdmins, user |-> u,
                row |-> [users[u] EXCEPT !.active = on],
                seen |-> Load(users[u].roles)]
  <2>1. PICK u \in DOMAIN users : \E on \in BOOLEAN : Carry(w, carried(u, on))
    <3>1. PICK u \in DOMAIN users, asked \in {{}, {FALSE}, {TRUE}} :
            \E on \in IF asked = {} THEN {users[u].active} ELSE asked :
              Carry(w, carried(u, on))
      BY <1>3 DEF UserUpdate
    <3>2. users[u].active \in BOOLEAN
      BY <1>0 DEF UserRow
    <3> QED BY <3>1, <3>2
  <2>2. PICK on \in BOOLEAN : Carry(w, carried(u, on))
    BY <2>1
  <2> DEFINE seen == Load(users[u].roles)
             row == [users[u] EXCEPT !.active = on]
             r == [op |-> "UserUpdate", super |-> a \in SuperAdmins, user |-> u,
                   row |-> row, seen |-> seen]
  <2>3. /\ IsTable(seen, Roles, RoleRow) /\ NamesOnce(seen)
        /\ DOMAIN seen = users[u].roles \intersect DOMAIN roles
    BY <1>0, LoadedTyped
  <2>4. u \in Users /\ row \in UserRow /\ row.roles = users[u].roles
    BY <1>0 DEF UserRow
  <2>5. DOMAIN seen = row.roles
    BY <1>0, <2>3, <2>4
  <2>6. Carry(w, r)
    BY <2>2
  <2> HIDE DEF seen, row
  <2>7. Carried(r) /\ LoadedOnce(r)
    BY <2>3, <2>4, <2>5 DEF Carried, LoadedOnce
  <2> HIDE DEF r
  <2> QED BY <1>1, <2>6, <2>7, ReceivedTyped
<1>4. CASE SetRoles(w, a)
  <2>1. PICK u \in DOMAIN users, ids \in RoleChoices :
          Carry(w, [op |-> "SetRoles", super |-> a \in SuperAdmins, user |-> u,
                    seen |-> Load(ids), perms |-> {}])
    BY <1>4 DEF SetRoles
  <2> DEFINE seen == Load(ids)
             r == [op |-> "SetRoles", super |-> a \in SuperAdmins, user |-> u,
                   seen |-> seen, perms |-> {}]
  <2>2. IsTable(seen, Roles, RoleRow) /\ NamesOnce(seen)
    BY <1>0, LoadedTyped
  <2>3. Carry(w, r)
    BY <2>1
  <2> HIDE DEF seen
  <2>4. Carried(r) /\ LoadedOnce(r)
    BY <1>0, <2>2 DEF Carried, LoadedOnce
  <2> HIDE DEF r
  <2> QED BY <1>1, <2>3, <2>4, ReceivedTyped
<1>5. CASE UserDelete(w, a)
  <2>1. PICK u \in DOMAIN users :
          Carry(w, [op |-> "UserDelete", super |-> a \in SuperAdmins, user |-> u,
                    perms |-> {}])
    BY <1>5 DEF UserDelete
  <2> DEFINE r == [op |-> "UserDelete", super |-> a \in SuperAdmins, user |-> u,
                   perms |-> {}]
  <2>2. Carried(r) /\ LoadedOnce(r) /\ Carry(w, r)
    BY <1>0, <2>1 DEF Carried, LoadedOnce
  <2> HIDE DEF r
  <2> QED BY <1>1, <2>2, ReceivedTyped
<1>6. CASE SetPermissions(w, a)
  <2>1. PICK u \in DOMAIN users, perms \in PermChoices :
          Carry(w, [op |-> "SetPermissions", super |-> a \in SuperAdmins, user |-> u,
                    perms |-> perms])
    BY <1>6 DEF SetPermissions
  <2> DEFINE r == [op |-> "SetPermissions", super |-> a \in SuperAdmins, user |-> u,
                   perms |-> perms]
  <2>2. Carried(r) /\ LoadedOnce(r) /\ Carry(w, r)
    BY <1>0, <2>1, RbacAssumption DEF RbacAssumption, Carried, LoadedOnce
  <2> HIDE DEF r
  <2> QED BY <1>1, <2>2, ReceivedTyped
<1> QED BY <1>2, <1>3, <1>4, <1>5, <1>6

\* A role request carries the row it found, or the one it is to insert.
LEMMA RoleReceivesTyped ==
    ASSUME TInv, NEW w \in Workers, NEW a \in Users,
           \/ RoleCreate(w, a) \/ RoleUpdate(w, a)
           \/ RoleDelete(w, a) \/ RoleSetPermissions(w, a)
    PROVE  UsersSound' /\ NamesOnce(roles)' /\ Requests' /\ Phases'
<1>0. DOMAIN roles \subseteq Roles /\ \A r \in DOMAIN roles : roles[r] \in RoleRow
  BY DEF TInv, RInv, RolesTyped
<1>1. UNCHANGED <<users, roles, phase>>
  BY DEF RoleCreate, RoleUpdate, RoleDelete, RoleSetPermissions, Begin
<1>2. ASSUME NEW op \in {"RoleCreate", "RoleUpdate"}, NEW id \in Roles, NEW row \in RoleRow,
             Carry(w, [op |-> op, super |-> a \in SuperAdmins, role |-> id, row |-> row])
      PROVE  UsersSound' /\ NamesOnce(roles)' /\ Requests' /\ Phases'
  <2> DEFINE r == [op |-> op, super |-> a \in SuperAdmins, role |-> id, row |-> row]
  <2>1. /\ r.op = "RoleCreate" \/ r.op = "RoleUpdate"
        /\ r.super \in BOOLEAN /\ r.role \in Roles /\ r.row \in RoleRow
    OBVIOUS
  <2>2. Carry(w, r)
    BY <1>2
  <2> HIDE DEF r
  <2>3. Carried(r)
    <3>1. CASE r.op = "RoleCreate"
      BY <2>1, <3>1 DEF Carried
    <3>2. CASE r.op = "RoleUpdate"
      BY <2>1, <3>2 DEF Carried
    <3> QED BY <2>1, <3>1, <3>2
  <2>4. LoadedOnce(r)
    BY <2>1 DEF LoadedOnce
  <2> QED BY <1>1, <2>2, <2>3, <2>4, ReceivedTyped
<1>3. ASSUME NEW op \in {"RoleDelete", "RoleSetPermissions"}, NEW id \in Roles,
             NEW perms \in SUBSET Perms,
             Carry(w, [op |-> op, super |-> a \in SuperAdmins, role |-> id, perms |-> perms])
      PROVE  UsersSound' /\ NamesOnce(roles)' /\ Requests' /\ Phases'
  <2> DEFINE r == [op |-> op, super |-> a \in SuperAdmins, role |-> id, perms |-> perms]
  <2>1. /\ r.op = "RoleDelete" \/ r.op = "RoleSetPermissions"
        /\ r.super \in BOOLEAN /\ r.role \in Roles /\ r.perms \in SUBSET Perms
    OBVIOUS
  <2>2. Carry(w, r)
    BY <1>3
  <2> HIDE DEF r
  <2>3. Carried(r)
    <3>1. CASE r.op = "RoleDelete"
      BY <2>1, <3>1 DEF Carried
    <3>2. CASE r.op = "RoleSetPermissions"
      BY <2>1, <3>2 DEF Carried
    <3> QED BY <2>1, <3>1, <3>2
  <2>4. LoadedOnce(r)
    BY <2>1 DEF LoadedOnce
  <2> QED BY <1>1, <2>2, <2>3, <2>4, ReceivedTyped
<1>4. CASE RoleCreate(w, a)
  <2>1. PICK r \in FreshRoles, n \in Names, perms \in PermChoices :
          Carry(w, [op |-> "RoleCreate", super |-> a \in SuperAdmins, role |-> r,
                    row |-> [name |-> n, perms |-> perms]])
    BY <1>4 DEF RoleCreate
  <2>2. r \in Roles /\ [name |-> n, perms |-> perms] \in RoleRow
    BY RbacAssumption DEF RbacAssumption, FreshRoles, RoleRow
  <2> QED BY <1>2, <2>1, <2>2
<1>5. CASE RoleUpdate(w, a)
  <2>1. PICK r \in DOMAIN roles, n \in Names :
          Carry(w, [op |-> "RoleUpdate", super |-> a \in SuperAdmins, role |-> r,
                    row |-> [roles[r] EXCEPT !.name = n]])
    BY <1>5 DEF RoleUpdate
  <2>2. r \in Roles /\ [roles[r] EXCEPT !.name = n] \in RoleRow
    BY <1>0 DEF RoleRow
  <2> QED BY <1>2, <2>1, <2>2
<1>6. CASE RoleDelete(w, a)
  <2>1. PICK r \in DOMAIN roles :
          Carry(w, [op |-> "RoleDelete", super |-> a \in SuperAdmins, role |-> r,
                    perms |-> {}])
    BY <1>6 DEF RoleDelete
  <2> QED BY <1>0, <1>3, <2>1
<1>7. CASE RoleSetPermissions(w, a)
  <2>1. PICK r \in DOMAIN roles, perms \in PermChoices :
          Carry(w, [op |-> "RoleSetPermissions", super |-> a \in SuperAdmins, role |-> r,
                    perms |-> perms])
    BY <1>7 DEF RoleSetPermissions
  <2>2. r \in Roles /\ perms \in SUBSET Perms
    BY <1>0, RbacAssumption DEF RbacAssumption
  <2> QED BY <1>3, <2>1, <2>2
<1> QED BY <1>4, <1>5, <1>6, <1>7

\* What the seeding does to the table of roles: a default role is found by its
\* name or takes a new row, every other row is left alone.
LEMMA RolesSeeded ==
    ASSUME RolesTyped, SeedRoles
    PROVE  \E id \in [DOMAIN Default -> Roles] :
             /\ DOMAIN roles' = DOMAIN roles \union {id[n] : n \in DOMAIN Default}
             /\ \A n \in DOMAIN Default :
                  /\ roles'[id[n]] = [name |-> n, perms |-> Default[n]]
                  /\ id[n] \in DOMAIN roles => roles[id[n]].name = n
                  /\ \A r \in DOMAIN roles : roles[r].name = n =>
                      id[n] \in DOMAIN roles
             /\ \A r \in DOMAIN roles' :
                  (\A n \in DOMAIN Default : id[n] # r) =>
                    r \in DOMAIN roles /\ roles'[r] = roles[r]
<1>1. PICK id \in [DOMAIN Default -> Roles] :
        /\ \A n \in DOMAIN Default :
             IF \E r \in DOMAIN roles : roles[r].name = n
               THEN id[n] \in DOMAIN roles /\ roles[id[n]].name = n
               ELSE id[n] \in FreshRoles
        /\ \A m, n \in DOMAIN Default : id[m] = id[n] => m = n
        /\ roles' = [r \in DOMAIN roles \union {id[n] : n \in DOMAIN Default} |->
                      IF \E n \in DOMAIN Default : id[n] = r
                        THEN LET n == CHOOSE n \in DOMAIN Default : id[n] = r
                             IN  [name |-> n, perms |-> Default[n]]
                        ELSE roles[r]]
  BY DEF SeedRoles
<1> DEFINE of(r) == CHOOSE n \in DOMAIN Default : id[n] = r
           seeded(r) == \E n \in DOMAIN Default : id[n] = r
<1>2. /\ DOMAIN roles' = DOMAIN roles \union {id[n] : n \in DOMAIN Default}
      /\ \A r \in DOMAIN roles' :
           roles'[r] = IF seeded(r) THEN [name |-> of(r), perms |-> Default[of(r)]]
                                    ELSE roles[r]
  BY <1>1
<1>3. ASSUME NEW n \in DOMAIN Default
      PROVE  /\ roles'[id[n]] = [name |-> n, perms |-> Default[n]]
             /\ id[n] \in DOMAIN roles => roles[id[n]].name = n
             /\ \A r \in DOMAIN roles : roles[r].name = n =>
                      id[n] \in DOMAIN roles
  <2>1. seeded(id[n]) /\ id[n] \in DOMAIN roles'
    BY <1>2
  <2>2. of(id[n]) \in DOMAIN Default /\ id[of(id[n])] = id[n]
    BY <2>1
  <2>3. of(id[n]) = n
    BY <1>1, <2>2
  <2>4. roles'[id[n]] = [name |-> n, perms |-> Default[n]]
    BY <1>2, <2>1, <2>3
  <2>5. id[n] \in DOMAIN roles => roles[id[n]].name = n
    BY <1>1 DEF FreshRoles
  <2>6. \A r \in DOMAIN roles : roles[r].name = n => id[n] \in DOMAIN roles
    BY <1>1
  <2> QED BY <2>4, <2>5, <2>6
<1>4. ASSUME NEW r \in DOMAIN roles', \A n \in DOMAIN Default : id[n] # r
      PROVE  r \in DOMAIN roles /\ roles'[r] = roles[r]
  <2>1. ~seeded(r) /\ r \in DOMAIN roles
    BY <1>2, <1>4
  <2> QED BY <1>2, <2>1
<1> QED BY <1>2, <1>3, <1>4

\* Starting, stopping and seeding keep the tables well formed.
LEMMA SeedingTyped ==
    ASSUME TInv, Stop \/ Boot \/ SeedRoles \/ SeedAdmin \/ SeedGrant
    PROVE  UsersSound' /\ NamesOnce(roles)' /\ Requests' /\ Phases'
<1>1. RolesTyped /\ UsersSound /\ NamesOnce(roles) /\ Requests
  BY DEF TInv, RInv
<1>2. Phases'
  BY DEF TInv, Phases, Stop, Boot, SeedRoles, SeedAdmin, SeedGrant
<1>3. Requests'
  <2>1. CASE UNCHANGED req
    BY <1>1, <2>1 DEF Requests
  <2>2. CASE Stop
    BY <2>2 DEF Stop, Requests
  <2> QED BY <2>1, <2>2 DEF Boot, SeedRoles, SeedAdmin, SeedGrant
<1>4. CASE UNCHANGED <<users, roles>>
  BY <1>1, <1>2, <1>3, <1>4, UsersKept DEF NamesOnce
<1>5. CASE SeedRoles
  <2>1. UNCHANGED users /\ DOMAIN roles \subseteq DOMAIN roles'
    BY <1>1, <1>5, RolesSeeded DEF SeedRoles
  <2>2. PICK id \in [DOMAIN Default -> Roles] :
          /\ \A n \in DOMAIN Default :
               /\ roles'[id[n]] = [name |-> n, perms |-> Default[n]]
               /\ id[n] \in DOMAIN roles => roles[id[n]].name = n
               /\ \A r \in DOMAIN roles : roles[r].name = n =>
                      id[n] \in DOMAIN roles
          /\ \A r \in DOMAIN roles' :
               (\A n \in DOMAIN Default : id[n] # r) =>
                 r \in DOMAIN roles /\ roles'[r] = roles[r]
    BY <1>1, <1>5, RolesSeeded
  <2>6. ASSUME NEW n \in DOMAIN Default PROVE roles'[id[n]].name = n
    <3>1. roles'[id[n]] = [name |-> n, perms |-> Default[n]]
      BY <2>2
    <3> QED BY <3>1
  <2>3. ASSUME NEW n \in DOMAIN Default, NEW q \in DOMAIN roles', roles'[q].name = n
        PROVE  q = id[n]
    <3>1. CASE \E m \in DOMAIN Default : id[m] = q
      BY <2>3, <2>6, <3>1
    <3>2. CASE \A m \in DOMAIN Default : id[m] # q
      <4>1. q \in DOMAIN roles /\ roles[q].name = n
        BY <2>2, <2>3, <3>2
      <4>2. id[n] \in DOMAIN roles /\ roles[id[n]].name = n
        BY <2>2, <4>1
      <4> QED BY <1>1, <4>1, <4>2 DEF NamesOnce
    <3> QED BY <3>1, <3>2
  <2>4. ASSUME NEW p \in DOMAIN roles', NEW q \in DOMAIN roles',
               roles'[p].name = roles'[q].name
        PROVE  p = q
    <3>1. CASE \E n \in DOMAIN Default : id[n] = p \/ id[n] = q
      BY <2>3, <2>4, <2>6, <3>1
    <3>2. CASE \A n \in DOMAIN Default : id[n] # p /\ id[n] # q
      BY <1>1, <2>2, <2>4, <3>2 DEF NamesOnce
    <3> QED BY <3>1, <3>2
  <2>5. NamesOnce(roles)'
    BY <2>4 DEF NamesOnce
  <2> QED BY <1>1, <1>2, <1>3, <2>1, <2>5, UsersKept
<1>6. CASE SeedAdmin /\ ~UNCHANGED <<users, roles>>
  <2> DEFINE row == [active |-> TRUE, roles |-> {}, perms |-> {}]
  <2>1. PICK u \in Users : users' = Put(users, u, row) /\ UNCHANGED roles
    BY <1>6 DEF SeedAdmin
  <2>2. row \in UserRow /\ row.roles \subseteq DOMAIN roles'
    BY DEF UserRow
  <2>3. UsersSound'
    <3> HIDE DEF row
    <3> QED BY <1>1, <2>1, <2>2, UserPut
  <2> QED BY <1>1, <1>2, <1>3, <2>1, <2>3 DEF NamesOnce
<1>7. CASE SeedGrant
  <2>1. PICK r \in DOMAIN roles :
          /\ UNCHANGED roles
          /\ users' = [u \in DOMAIN users |-> [users[u] EXCEPT !.roles = {r}]]
    BY <1>7 DEF SeedGrant
  <2>2. ASSUME NEW u \in DOMAIN users
        PROVE  users'[u] \in UserRow /\ users'[u].roles \subseteq DOMAIN roles'
    <3>1. users[u] \in UserRow /\ r \in Roles
      BY <1>1 DEF UsersSound, IsTable, RolesTyped
    <3>2. users'[u] = [users[u] EXCEPT !.roles = {r}]
      BY <2>1
    <3> QED BY <2>1, <3>1, <3>2 DEF UserRow
  <2>3. DOMAIN users' = DOMAIN users /\ users' = [u \in DOMAIN users' |-> users'[u]]
    BY <2>1
  <2>4. UsersSound'
    BY <1>1, <2>2, <2>3 DEF UsersSound, IsTable
  <2> QED BY <1>1, <1>2, <1>3, <2>1, <2>4 DEF NamesOnce
<1> QED BY <1>4, <1>5, <1>6, <1>7 DEF Stop, Boot

\* The database starts empty.
LEMMA TInvInit == Init => TInv
<1> SUFFICES ASSUME Init PROVE TInv
  OBVIOUS
<1>1. RInv
  BY RInvInit
<1>2. DOMAIN users = {} /\ DOMAIN roles = {} /\ users \in [DOMAIN users -> UserRow]
  BY DEF Init
<1>3. UsersSound /\ NamesOnce(roles)
  BY <1>2 DEF UsersSound, IsTable, NamesOnce
<1>4. Requests /\ Phases
  BY DEF Init, Requests, Phases
<1> QED BY <1>1, <1>3, <1>4 DEF TInv

\* Every step keeps the tables well formed, whatever requests overlap.
LEMMA TInvStep == TInv /\ [Next]_vars => TInv'
<1> SUFFICES ASSUME TInv, [Next]_vars PROVE TInv'
  OBVIOUS
<1>1. RInv'
  BY RInvStep DEF TInv
<1>2. SUFFICES UsersSound' /\ NamesOnce(roles)' /\ Requests' /\ Phases'
  BY <1>1 DEF TInv
<1>3. CASE UNCHANGED vars
  BY <1>3, UsersKept DEF vars, TInv, NamesOnce, Requests, Phases
<1>4. CASE Stop \/ Boot \/ SeedRoles \/ SeedAdmin \/ SeedGrant
  BY <1>4, SeedingTyped
<1>5. ASSUME NEW w \in Workers, Write(w)
      PROVE  UsersSound' /\ NamesOnce(roles)' /\ Requests' /\ Phases'
  BY <1>5, UserWritesTyped, RoleWritesTyped DEF Write
<1>6. ASSUME NEW w \in Workers, NEW a \in Users, Receive(w, a)
      PROVE  UsersSound' /\ NamesOnce(roles)' /\ Requests' /\ Phases'
  BY <1>6, UserReceivesTyped, RoleReceivesTyped DEF Receive
<1> QED BY <1>3, <1>4, <1>5, <1>6 DEF Next

\* However requests overlap and fail, the tables stay tables: join rows point at
\* rows that are there, no two roles have one name, and every request in flight
\* carries what its handler loaded.
THEOREM TypeCorrect == Spec => []TypeOK
<1> QED BY TInvInit, TInvStep, TInvTypes, PTL DEF Spec

-----------------------------------------------------------------------------
(* One request at a time *)

\* No two requests are in flight.
Alone == \A v, w \in Workers : v = w

\* A role that is named super-admin has the wildcard, while nothing is served too.
NamedWild == \A r \in DOMAIN roles : Named(r) => Wildcard \in roles[r].perms

RoleOps == {"RoleCreate", "RoleUpdate", "RoleDelete", "RoleSetPermissions"}

\* What the checks of a request found is still what is in the tables: its roles are
\* as loaded, what a plain administrator hands out has no wildcard, and whoever may
\* lose it leaves another active super admin.
Current(r) ==
    LET u == r.user
    IN  /\ r.op \in {"UserCreate", "UserUpdate", "SetRoles"} =>
             DOMAIN r.seen \subseteq DOMAIN roles /\ \A q \in DOMAIN r.seen : r.seen[q] = roles[q]
        /\ r.op \in {"UserCreate", "SetRoles"} /\ ~r.super =>
             \A q \in DOMAIN r.seen : Wildcard \notin roles[q].perms
        /\ r.op \in {"UserCreate", "SetPermissions", "RoleSetPermissions"} /\ ~r.super =>
             Wildcard \notin r.perms
        /\ r.op = "UserUpdate" =>
             /\ u \in DOMAIN users
             /\ r.row.roles = users[u].roles /\ r.row.perms = users[u].perms
             /\ r.row.active \/ ~users[u].active \/ Guard(u, FALSE)
        /\ r.op = "UserDelete" => Guard(u, FALSE)
        /\ r.op = "SetRoles" =>
             Guard(u, IsSuperAdmin([users[u] EXCEPT !.roles = DOMAIN r.seen]))
        /\ r.op = "SetPermissions" =>
             Guard(u, IsSuperAdmin([users[u] EXCEPT !.perms = r.perms]))
        /\ r.op = "RoleUpdate" => r.role \in DOMAIN roles /\ r.row.perms = roles[r.role].perms
        /\ r.op \in RoleOps => "user" \notin DOMAIN r

AllCurrent == \A w \in Workers : req[w] # Idle => Current(req[w])

SInv == TInv /\ NamedWild /\ AllCurrent

\* When somebody is a super admin, in terms of rows.
HasWildcard(row, t) ==
    Wildcard \in row.perms \/ \E r \in row.roles : Wildcard \in t[r].perms

\* Super admins are those whose rows have the wildcard, before and after a step.
LEMMA SuperMeans ==
    /\ \A row : IsSuperAdmin(row) <=> HasWildcard(row, roles)
    /\ \A u : u \in SuperAdmins <=> u \in DOMAIN users /\ HasWildcard(users[u], roles)
    /\ \A u : u \in SuperAdmins' <=> u \in DOMAIN users' /\ HasWildcard(users'[u], roles')
    /\ \A u : u \in ActiveSupers <=> u \in SuperAdmins /\ users[u].active
    /\ \A u : u \in ActiveSupers' <=> u \in SuperAdmins' /\ users'[u].active
<1>1. \A row : IsSuperAdmin(row) <=> HasWildcard(row, roles)
  BY DEF IsSuperAdmin, Effective, HasWildcard
<1>2. \A row : IsSuperAdmin(row)' <=> HasWildcard(row, roles')
  BY DEF IsSuperAdmin, Effective, HasWildcard
<1>3. \A u : u \in SuperAdmins <=> u \in DOMAIN users /\ HasWildcard(users[u], roles)
  BY <1>1 DEF SuperAdmins
<1>4. \A u : u \in SuperAdmins' <=> u \in DOMAIN users' /\ HasWildcard(users'[u], roles')
  BY DEF SuperAdmins, IsSuperAdmin, Effective, HasWildcard
<1> QED BY <1>1, <1>3, <1>4 DEF ActiveSupers

\* The roles grant what they granted.
SameGrants ==
    DOMAIN roles' = DOMAIN roles /\ \A q \in DOMAIN roles : roles'[q].perms = roles[q].perms

\* Saving roles that are still what they were when loaded grants nothing.
LEMMA SavedSame ==
    ASSUME RolesTyped, NEW seen, DOMAIN seen \subseteq DOMAIN roles,
           \A q \in DOMAIN seen : seen[q].perms \subseteq roles[q].perms,
           roles' = Saved(seen)
    PROVE  SameGrants
<1>1. DOMAIN roles' = DOMAIN roles
  BY DEF Saved
<1>2. ASSUME NEW q \in DOMAIN roles PROVE roles'[q].perms = roles[q].perms
  <2>1. CASE q \notin DOMAIN seen
    BY <2>1 DEF Saved
  <2>2. CASE q \in DOMAIN seen
    <3> DEFINE more == seen[q].perms
    <3>1. roles'[q] = [roles[q] EXCEPT !.perms = @ \union more]
      BY <2>2 DEF Saved
    <3>2. roles[q] \in RoleRow /\ more \subseteq roles[q].perms
      BY <2>2 DEF RolesTyped
    <3> HIDE DEF more
    <3> QED BY <3>1, <3>2 DEF RoleRow
  <2> QED BY <2>1, <2>2
<1> QED BY <1>1, <1>2 DEF SameGrants

\* While the roles grant what they granted, a user whose row stays keeps its rank.
LEMMA SameRank ==
    ASSUME UsersSound, SameGrants, NEW u, u \in DOMAIN users, u \in DOMAIN users',
           users'[u] = users[u]
    PROVE  /\ u \in SuperAdmins' <=> u \in SuperAdmins
           /\ u \in ActiveSupers' <=> u \in ActiveSupers
<1>1. HasWildcard(users'[u], roles') <=> HasWildcard(users[u], roles)
  BY DEF UsersSound, SameGrants, HasWildcard
<1> QED BY <1>1, SuperMeans

\* What a request on the row of one user may do: nothing to the others, no rank for
\* that one but at the word of a super admin, and no loss of the last one.
OneUser(w) ==
    LET u == req[w].user
    IN  /\ SameGrants /\ DOMAIN users' \subseteq DOMAIN users \union {u}
        /\ \A x \in DOMAIN users \ {u} : x \in DOMAIN users' /\ users'[x] = users[x]
        /\ u \in SuperAdmins' => u \in SuperAdmins \/ req[w].super
        /\ u \in ActiveSupers => u \in ActiveSupers' \/ ActiveSupers \ {u} # {}

\* A worker that ends its request was serving it, on what it had found.
LEMMA EndsCurrent ==
    ASSUME SInv, NEW w \in Workers, NEW op, Finish(w, op)
    PROVE  /\ req[w].op = op /\ Carried(req[w]) /\ Current(req[w])
           /\ Writes(w)
           /\ UsersSound /\ RolesTyped
<1>1. req[w] # Idle /\ phase = "up" /\ req[w].op = op /\ phase' = "up"
  BY Ended DEF SInv, TInv, Finish
<1>2. req'[w] = Idle
  BY DEF SInv, TInv, Requests, Finish
<1> QED BY <1>1, <1>2 DEF SInv, TInv, RInv, AllCurrent, Requests, Writes

\* A request that leaves both tables alone.
LEMMA NothingDone ==
    ASSUME UsersSound, NEW w \in Workers, UNCHANGED <<users, roles>>
    PROVE  OneUser(w)
<1>1. SameGrants
  BY DEF SameGrants
<1>2. SuperAdmins' = SuperAdmins /\ ActiveSupers' = ActiveSupers
  BY DEF SuperAdmins, ActiveSupers, IsSuperAdmin, Effective
<1> QED BY <1>1, <1>2 DEF OneUser

\* Every request on users does that much and no more.
LEMMA UserWritesOneUser ==
    ASSUME SInv, NEW w \in Workers,
           \/ UserInsert(w)       \/ UserSave(w) \/ UserRemove(w)
           \/ UserReplaceRoles(w) \/ UserReplacePermissions(w)
    PROVE  OneUser(w)
<1> DEFINE u == req[w].user
           seen == req[w].seen
<1>1. UsersSound /\ RolesTyped
  BY DEF SInv, TInv, RInv
<1>2. CASE UNCHANGED <<users, roles>>
  BY <1>1, <1>2, NothingDone
<1>3. CASE UserInsert(w) /\ ~UNCHANGED <<users, roles>>
  <2> DEFINE row == [active |-> TRUE, roles |-> DOMAIN seen, perms |-> req[w].perms]
  <2>1. /\ Finish(w, "UserCreate") /\ roles' = Saved(seen)
        /\ u \notin DOMAIN users /\ users' = Put(users, u, row)
    BY <1>3 DEF UserInsert
  <2>2. /\ DOMAIN seen \subseteq DOMAIN roles
        /\ \A q \in DOMAIN seen : seen[q] = roles[q]
        /\ ~req[w].super => /\ Wildcard \notin req[w].perms
                            /\ \A q \in DOMAIN seen : Wildcard \notin roles[q].perms
    <3>1. req[w].op = "UserCreate" /\ Current(req[w])
      BY <2>1, EndsCurrent
    <3> QED BY <3>1 DEF Current
  <2>3. SameGrants
    BY <1>1, <2>1, <2>2, SavedSame
  <2>4. /\ DOMAIN users' = DOMAIN users \union {u} /\ users'[u] = row
        /\ \A x \in DOMAIN users \ {u} : users'[x] = users[x]
    BY <2>1 DEF Put
  <2>5. u \in SuperAdmins' => req[w].super
    <3>1. ~req[w].super => ~HasWildcard(row, roles')
      BY <2>2, <2>3 DEF HasWildcard, SameGrants
    <3> QED BY <2>4, <3>1, SuperMeans
  <2>6. u \notin ActiveSupers
    BY <2>1, SuperMeans
  <2> QED BY <2>3, <2>4, <2>5, <2>6 DEF OneUser
<1>4. CASE UserSave(w) /\ ~UNCHANGED <<users, roles>>
  <2> DEFINE row == req[w].row
             both == [active |-> row.active,
                      roles |-> users[u].roles \union row.roles,
                      perms |-> users[u].perms \union row.perms]
  <2>1. /\ Finish(w, "UserUpdate") /\ roles' = Saved(seen)
        /\ users' = Put(users, u, IF u \notin DOMAIN users THEN row ELSE both)
    BY <1>4 DEF UserSave
  <2>2. /\ DOMAIN seen \subseteq DOMAIN roles
        /\ \A q \in DOMAIN seen : seen[q] = roles[q]
        /\ u \in DOMAIN users
        /\ row.roles = users[u].roles /\ row.perms = users[u].perms
        /\ row.active \/ ~users[u].active \/ Guard(u, FALSE)
    BY <2>1, EndsCurrent DEF Current
  <2>3. SameGrants
    BY <1>1, <2>1, <2>2, SavedSame
  <2>4. users' = Put(users, u, both)
    BY <2>1, <2>2
  <2>5. /\ DOMAIN users' = DOMAIN users /\ users'[u] = both
        /\ \A x \in DOMAIN users \ {u} : users'[x] = users[x]
    BY <2>2, <2>4 DEF Put
  <2>6. HasWildcard(both, roles') <=> HasWildcard(users[u], roles)
    BY <1>1, <2>2, <2>3 DEF HasWildcard, SameGrants, UsersSound
  <2>7. u \in SuperAdmins' <=> u \in SuperAdmins
    <3> HIDE DEF both
    <3> QED BY <2>2, <2>5, <2>6, SuperMeans
  <2>8. u \in ActiveSupers => u \in ActiveSupers' \/ ActiveSupers \ {u} # {}
    <3>1. CASE row.active
      BY <2>5, <2>7, <3>1, SuperMeans
    <3>2. CASE ~users[u].active
      BY <3>2, SuperMeans
    <3>3. CASE Guard(u, FALSE)
      BY <3>3, SuperMeans DEF Guard
    <3> QED BY <2>2, <3>1, <3>2, <3>3
  <2> QED BY <2>3, <2>5, <2>7, <2>8 DEF OneUser
<1>5. CASE UserRemove(w) /\ ~UNCHANGED <<users, roles>>
  <2>1. /\ Finish(w, "UserDelete") /\ UNCHANGED roles
        /\ users' = [x \in DOMAIN users \ {u} |-> users[x]]
    BY <1>5 DEF UserRemove
  <2>2. Guard(u, FALSE)
    BY <2>1, EndsCurrent DEF Current
  <2>3. SameGrants /\ u \notin SuperAdmins'
    BY <2>1, SuperMeans DEF SameGrants
  <2>4. u \in ActiveSupers => ActiveSupers \ {u} # {}
    BY <2>2, SuperMeans DEF Guard
  <2> QED BY <2>1, <2>3, <2>4 DEF OneUser
<1>6. CASE UserReplaceRoles(w) /\ ~UNCHANGED <<users, roles>>
  <2> DEFINE bare == [r \in DOMAIN seen |-> [seen[r] EXCEPT !.perms = {}]]
  <2>1. PICK new \in Outcomes(users[u].roles, DOMAIN seen) :
          /\ Finish(w, "SetRoles") /\ u \in DOMAIN users /\ roles' = Saved(bare)
          /\ users' = [users EXCEPT ![u].roles = new]
    BY <1>6 DEF UserReplaceRoles
  <2>2. /\ DOMAIN seen \subseteq DOMAIN roles
        /\ \A q \in DOMAIN seen : seen[q] = roles[q]
        /\ ~req[w].super => \A q \in DOMAIN seen : Wildcard \notin roles[q].perms
        /\ Guard(u, IsSuperAdmin([users[u] EXCEPT !.roles = DOMAIN seen]))
    BY <2>1, EndsCurrent DEF Current
  <2>3. SameGrants
    <3>1. ASSUME NEW q \in DOMAIN seen PROVE bare[q].perms = {}
      <4>1. seen[q] \in RoleRow /\ bare[q] = [seen[q] EXCEPT !.perms = {}]
        BY <1>1, <2>2 DEF RolesTyped
      <4> QED BY <4>1 DEF RoleRow
    <3>2. DOMAIN bare = DOMAIN seen
      OBVIOUS
    <3> HIDE DEF bare
    <3> QED BY <1>1, <2>1, <2>2, <3>1, <3>2, SavedSame
  <2>4. users[u] \in UserRow /\ users[u].roles \subseteq DOMAIN roles
    BY <1>1, <2>1 DEF UsersSound, IsTable
  <2>5. /\ DOMAIN users' = DOMAIN users
        /\ users'[u] = [users[u] EXCEPT !.roles = new]
        /\ \A x \in DOMAIN users \ {u} : users'[x] = users[x]
    BY <2>1
  <2>6. /\ users'[u].roles = new /\ users'[u].perms = users[u].perms
        /\ users'[u].active = users[u].active
    BY <2>4, <2>5 DEF UserRow
  <2>7. \/ new = users[u].roles \/ new = users[u].roles \union DOMAIN seen
        \/ new = DOMAIN seen
    BY <2>1 DEF Outcomes
  <2>8. u \in SuperAdmins' => u \in SuperAdmins \/ req[w].super
    <3>1. HasWildcard(users'[u], roles') => HasWildcard(users[u], roles) \/ req[w].super
      BY <2>2, <2>3, <2>4, <2>6, <2>7 DEF HasWildcard, SameGrants
    <3> QED BY <2>1, <3>1, SuperMeans
  <2>9. u \in ActiveSupers => u \in ActiveSupers' \/ ActiveSupers \ {u} # {}
    <3> SUFFICES ASSUME u \in ActiveSupers, ActiveSupers \ {u} = {}
                 PROVE  u \in ActiveSupers'
      OBVIOUS
    <3>1. u \in SuperAdmins /\ users[u].active /\ HasWildcard(users[u], roles)
      BY SuperMeans
    <3> DEFINE after == [users[u] EXCEPT !.roles = DOMAIN seen]
    <3>2. after.roles = DOMAIN seen /\ after.perms = users[u].perms
      BY <2>4 DEF UserRow
    <3>3. HasWildcard(after, roles)
      <4>1. IsSuperAdmin(after)
        BY <2>2, <3>1 DEF Guard
      <4> HIDE DEF after
      <4> QED BY <4>1, SuperMeans
    <3>4. HasWildcard(users'[u], roles')
      <4> HIDE DEF after
      <4> QED BY <2>2, <2>3, <2>4, <2>6, <2>7, <3>1, <3>2, <3>3 DEF HasWildcard, SameGrants
    <3> QED BY <2>1, <2>5, <2>6, <3>1, <3>4, SuperMeans
  <2> QED BY <2>3, <2>5, <2>8, <2>9 DEF OneUser
<1>7. CASE UserReplacePermissions(w) /\ ~UNCHANGED <<users, roles>>
  <2>1. PICK new \in Outcomes(users[u].perms, req[w].perms) :
          /\ Finish(w, "SetPermissions") /\ u \in DOMAIN users /\ UNCHANGED roles
          /\ users' = [users EXCEPT ![u].perms = new]
    BY <1>7 DEF UserReplacePermissions
  <2>2. /\ ~req[w].super => Wildcard \notin req[w].perms
        /\ Guard(u, IsSuperAdmin([users[u] EXCEPT !.perms = req[w].perms]))
    BY <2>1, EndsCurrent DEF Current
  <2>3. SameGrants
    BY <2>1 DEF SameGrants
  <2>4. users[u] \in UserRow
    BY <1>1, <2>1 DEF UsersSound, IsTable
  <2>5. /\ DOMAIN users' = DOMAIN users
        /\ users'[u] = [users[u] EXCEPT !.perms = new]
        /\ \A x \in DOMAIN users \ {u} : users'[x] = users[x]
    BY <2>1
  <2>6. /\ users'[u].roles = users[u].roles /\ users'[u].perms = new
        /\ users'[u].active = users[u].active
    BY <2>4, <2>5 DEF UserRow
  <2>7. \/ new = users[u].perms \/ new = users[u].perms \union req[w].perms
        \/ new = req[w].perms
    BY <2>1 DEF Outcomes
  <2>8. u \in SuperAdmins' => u \in SuperAdmins \/ req[w].super
    <3>1. HasWildcard(users'[u], roles') => HasWildcard(users[u], roles) \/ req[w].super
      BY <2>1, <2>2, <2>6, <2>7 DEF HasWildcard
    <3> QED BY <2>1, <3>1, SuperMeans
  <2>9. u \in ActiveSupers => u \in ActiveSupers' \/ ActiveSupers \ {u} # {}
    <3> SUFFICES ASSUME u \in ActiveSupers, ActiveSupers \ {u} = {}
                 PROVE  u \in ActiveSupers'
      OBVIOUS
    <3>1. u \in SuperAdmins /\ users[u].active /\ HasWildcard(users[u], roles)
      BY SuperMeans
    <3> DEFINE after == [users[u] EXCEPT !.perms = req[w].perms]
    <3>2. after.roles = users[u].roles /\ after.perms = req[w].perms
      BY <2>4 DEF UserRow
    <3>3. HasWildcard(after, roles)
      <4>1. IsSuperAdmin(after)
        BY <2>2, <3>1 DEF Guard
      <4> HIDE DEF after
      <4> QED BY <4>1, SuperMeans
    <3>4. HasWildcard(users'[u], roles')
      <4> HIDE DEF after
      <4> QED BY <2>1, <2>6, <2>7, <3>1, <3>2, <3>3 DEF HasWildcard
    <3> QED BY <2>1, <2>5, <2>6, <3>1, <3>4, SuperMeans
  <2> QED BY <2>3, <2>5, <2>8, <2>9 DEF OneUser
<1> QED
  BY <1>2, <1>3, <1>4, <1>5, <1>6, <1>7

\* Nobody gains the wildcard by this step.
NoneRaised == \A u : u \in SuperAdmins' => u \in SuperAdmins

\* A step that takes rows, roles or permissions away and adds none of the wildcard
\* raises nobody.
LEMMA OnlyTaken ==
    ASSUME UsersSound, DOMAIN users' \subseteq DOMAIN users,
           \A u \in DOMAIN users' :
             /\ users'[u].perms \subseteq users[u].perms
             /\ users'[u].roles \subseteq users[u].roles,
           \A u \in DOMAIN users' : \A r \in users'[u].roles :
             Wildcard \in roles'[r].perms => Wildcard \in roles[r].perms
    PROVE  NoneRaised
<1>1. ASSUME NEW u \in DOMAIN users', HasWildcard(users'[u], roles')
      PROVE  HasWildcard(users[u], roles)
  BY <1>1 DEF HasWildcard
<1> QED BY <1>1, SuperMeans DEF NoneRaised

\* No request on roles raises anybody but a super admin's.
LEMMA RoleWritesRaise ==
    ASSUME SInv, NEW w \in Workers,
           \/ RoleInsert(w) \/ RoleSave(w) \/ RoleRemove(w) \/ RoleReplacePermissions(w)
    PROVE  NoneRaised \/ req[w].super
<1> DEFINE r == req[w].role
           row == req[w].row
<1>1. /\ UsersSound /\ RolesTyped
      /\ \A u \in DOMAIN users : users[u].roles \subseteq DOMAIN roles
  BY DEF SInv, TInv, RInv, UsersSound
<1>2. CASE UNCHANGED <<users, roles>>
  BY <1>1, <1>2, OnlyTaken
<1>3. CASE RoleInsert(w) /\ ~UNCHANGED <<users, roles>>
  <2>1. UNCHANGED users /\ r \notin DOMAIN roles /\ roles' = Put(roles, r, row)
    BY <1>3 DEF RoleInsert
  <2>2. \A q \in DOMAIN roles : roles'[q] = roles[q]
    BY <2>1 DEF Put
  <2> QED BY <1>1, <2>1, <2>2, OnlyTaken
<1>4. CASE RoleSave(w) /\ ~UNCHANGED <<users, roles>>
  <2> DEFINE new == [row EXCEPT !.perms = @ \union roles[r].perms]
  <2>1. /\ Finish(w, "RoleUpdate") /\ UNCHANGED users
        /\ roles' = Put(roles, r, IF r \notin DOMAIN roles THEN row ELSE new)
    BY <1>4 DEF RoleSave
  <2>2. /\ r \in DOMAIN roles /\ row.perms = roles[r].perms /\ row \in RoleRow
    BY <2>1, EndsCurrent, Ended DEF Current, SInv, TInv, StillHolds
  <2>3. new.perms = roles[r].perms
    BY <2>2 DEF RoleRow
  <2>4. \A q \in DOMAIN roles : roles'[q].perms = roles[q].perms
    <3>1. \A q \in DOMAIN roles : roles'[q] = IF q = r THEN new ELSE roles[q]
      BY <2>1, <2>2 DEF Put
    <3> HIDE DEF new
    <3> QED BY <2>3, <3>1
  <2> QED BY <1>1, <2>1, <2>4, OnlyTaken
<1>5. CASE RoleRemove(w) /\ ~UNCHANGED <<users, roles>>
  <2>1. /\ roles' = [q \in DOMAIN roles \ {r} |-> roles[q]]
        /\ users' = [u \in DOMAIN users |-> [users[u] EXCEPT !.roles = @ \ {r}]]
    BY <1>5 DEF RoleRemove
  <2>2. ASSUME NEW u \in DOMAIN users'
        PROVE  /\ users'[u].perms \subseteq users[u].perms
               /\ users'[u].roles \subseteq users[u].roles
               /\ users'[u].roles \subseteq DOMAIN roles \ {r}
    <3>1. u \in DOMAIN users /\ users'[u] = [users[u] EXCEPT !.roles = @ \ {r}]
      BY <2>1
    <3>2. users[u] \in UserRow
      BY <1>1, <3>1 DEF UsersSound, IsTable
    <3> HIDE DEF r
    <3> QED BY <1>1, <3>1, <3>2 DEF UserRow
  <2>3. \A q \in DOMAIN roles \ {r} : roles'[q] = roles[q]
    BY <2>1
  <2>4. DOMAIN users' = DOMAIN users
    BY <2>1
  <2> QED BY <1>1, <2>2, <2>3, <2>4, OnlyTaken
<1>6. CASE RoleReplacePermissions(w) /\ ~UNCHANGED <<users, roles>>
  <2>1. PICK new \in Outcomes(roles[r].perms, req[w].perms) :
          /\ Finish(w, "RoleSetPermissions") /\ r \in DOMAIN roles /\ UNCHANGED users
          /\ roles' = [roles EXCEPT ![r].perms = new]
    BY <1>6 DEF RoleReplacePermissions
  <2>2. ~req[w].super => Wildcard \notin req[w].perms
    BY <2>1, EndsCurrent DEF Current
  <2>3. roles[r] \in RoleRow
    BY <1>1, <2>1 DEF RolesTyped
  <2>4. /\ \A q \in DOMAIN roles \ {r} : roles'[q] = roles[q]
        /\ roles'[r].perms = new
    BY <2>1, <2>3 DEF RoleRow
  <2>5. ~req[w].super =>
          \A q \in DOMAIN roles : Wildcard \in roles'[q].perms => Wildcard \in roles[q].perms
    BY <2>1, <2>2, <2>4 DEF Outcomes
  <2> QED BY <1>1, <2>1, <2>5, OnlyTaken
<1> QED BY <1>2, <1>3, <1>4, <1>5, <1>6

\* The catalog gives the wildcard to the super-admin role alone (catalog.go:101).
OneWildcard == \A n \in DOMAIN Default \ {SuperAdminRole} : Wildcard \notin Default[n]

\* No start and no seeding but the grant to the first user raises anybody.
LEMMA SeedingRaises ==
    ASSUME SInv, OneWildcard, Stop \/ Boot \/ SeedRoles \/ SeedAdmin \/ SeedGrant
    PROVE  NoneRaised \/ phase = "grant"
<1>1. /\ UsersSound /\ RolesTyped
      /\ \A u \in DOMAIN users : users[u].roles \subseteq DOMAIN roles
  BY DEF SInv, TInv, RInv, UsersSound
<1>2. CASE UNCHANGED <<users, roles>>
  BY <1>1, <1>2, OnlyTaken
<1>3. CASE SeedRoles
  <2>1. PICK id \in [DOMAIN Default -> Roles] :
          /\ \A n \in DOMAIN Default :
               /\ roles'[id[n]] = [name |-> n, perms |-> Default[n]]
               /\ id[n] \in DOMAIN roles => roles[id[n]].name = n
          /\ \A r \in DOMAIN roles' :
               (\A n \in DOMAIN Default : id[n] # r) =>
                 r \in DOMAIN roles /\ roles'[r] = roles[r]
          /\ DOMAIN roles' = DOMAIN roles \union {id[n] : n \in DOMAIN Default}
    BY <1>1, <1>3, RolesSeeded, ZenonT(40)
  <2>2. ASSUME NEW r \in DOMAIN roles, Wildcard \in roles'[r].perms
        PROVE  Wildcard \in roles[r].perms
    <3>1. CASE \A n \in DOMAIN Default : id[n] # r
      BY <2>1, <2>2, <3>1
    <3>2. ASSUME NEW n \in DOMAIN Default, id[n] = r
          PROVE  Wildcard \in roles[r].perms
      <4>1. roles'[r] = [name |-> n, perms |-> Default[n]] /\ roles[r].name = n
        BY <2>1, <3>2
      <4>2. n = SuperAdminRole
        BY <2>2, <4>1 DEF OneWildcard
      <4> QED BY <4>1, <4>2 DEF SInv, NamedWild, Named
    <3> QED BY <3>1, <3>2
  <2>3. UNCHANGED users
    BY <1>3 DEF SeedRoles
  <2> QED BY <1>1, <2>2, <2>3, OnlyTaken
<1>4. CASE SeedAdmin /\ ~UNCHANGED <<users, roles>>
  <2> DEFINE row == [active |-> TRUE, roles |-> {}, perms |-> {}]
  <2>1. PICK u \in Users : users' = Put(users, u, row) /\ UNCHANGED roles
    BY <1>4 DEF SeedAdmin
  <2>2. users = <<>>
    BY <1>4 DEF SeedAdmin
  <2>3. \A x \in DOMAIN users' : users'[x] = row
    BY <2>1, <2>2 DEF Put
  <2>4. ~HasWildcard(row, roles')
    BY DEF HasWildcard
  <2> QED
    <3> HIDE DEF row
    <3> QED BY <2>3, <2>4, SuperMeans DEF NoneRaised
<1>5. CASE SeedGrant
  BY <1>5 DEF SeedGrant
<1> QED BY <1>2, <1>3, <1>4, <1>5 DEF Stop, Boot

\* While the tables stay, what a request found stays true.
LEMMA CurrentKept ==
    ASSUME NEW r, Current(r), UNCHANGED <<users, roles>>
    PROVE  Current(r)'
<1>1. SuperAdmins' = SuperAdmins /\ ActiveSupers' = ActiveSupers
  BY DEF SuperAdmins, ActiveSupers, IsSuperAdmin, Effective
<1>2. ASSUME NEW u, NEW still PROVE Guard(u, still)' <=> Guard(u, still)
  BY <1>1 DEF Guard
<1>3. ASSUME NEW row PROVE IsSuperAdmin(row)' <=> IsSuperAdmin(row)
  BY DEF IsSuperAdmin, Effective
<1> QED BY <1>1 DEF Current, Guard, IsSuperAdmin, Effective

\* What the checks of a request on users find.
LEMMA UserReceivesCurrent ==
    ASSUME SInv, NEW w \in Workers, NEW a \in Users,
           \/ UserCreate(w, a) \/ UserUpdate(w, a)     \/ UserDelete(w, a)
           \/ SetRoles(w, a)   \/ SetPermissions(w, a)
    PROVE  \E r : Carry(w, r) /\ Current(r)
<1>1. /\ RolesTyped /\ NamesOnce(roles)
      /\ \A u \in DOMAIN users :
           users[u] \in UserRow /\ users[u].roles \subseteq DOMAIN roles
  BY DEF SInv, TInv, RInv, UsersSound, IsTable
<1>2. ASSUME NEW ids, NEW perms, Resolves(a \in SuperAdmins, ids, perms)
      PROVE  /\ DOMAIN Load(ids) = ids
             /\ \A q \in ids : q \in DOMAIN roles /\ Load(ids)[q] = roles[q]
             /\ ~(a \in SuperAdmins) =>
                  Wildcard \notin perms /\ \A q \in ids : Wildcard \notin roles[q].perms
  <2>1. DOMAIN Load(ids) = ids /\ \A q \in ids : q \in DOMAIN roles /\ Load(ids)[q] = roles[q]
    BY <1>2 DEF Resolves, Load
  <2> QED BY <1>2, <2>1 DEF Resolves, Effective
<1>3. CASE UserCreate(w, a)
  <2>1. PICK u \in FreshUsers, ids \in RoleChoices, perms \in PermChoices :
          /\ Resolves(a \in SuperAdmins, ids, perms)
          /\ Carry(w, [op |-> "UserCreate", super |-> a \in SuperAdmins, user |-> u,
                       seen |-> Load(ids), perms |-> perms])
    BY <1>3 DEF UserCreate
  <2> DEFINE seen == Load(ids)
             r == [op |-> "UserCreate", super |-> a \in SuperAdmins, user |-> u,
                   seen |-> seen, perms |-> perms]
  <2>2. /\ DOMAIN seen = ids /\ \A q \in ids : q \in DOMAIN roles /\ seen[q] = roles[q]
        /\ ~(a \in SuperAdmins) =>
             Wildcard \notin perms /\ \A q \in ids : Wildcard \notin roles[q].perms
    BY <1>2, <2>1
  <2>3. Carry(w, r)
    BY <2>1
  <2> HIDE DEF seen
  <2>4. Current(r)
    BY <2>2 DEF Current, RoleOps
  <2> QED BY <2>3, <2>4
<1>4. CASE UserUpdate(w, a)
  <2> DEFINE carried(u, on) ==
               [op |-> "UserUpdate", super |-> a \in SuperAdmins, user |-> u,
                row |-> [users[u] EXCEPT !.active = on],
                seen |-> Load(users[u].roles)]
  <2>1. PICK u \in DOMAIN users : \E on \in BOOLEAN :
          /\ on \/ ~users[u].active \/ Guard(u, FALSE)
          /\ Carry(w, carried(u, on))
    <3>1. PICK u \in DOMAIN users, asked \in {{}, {FALSE}, {TRUE}} :
            /\ asked = {FALSE} => Guard(u, FALSE)
            /\ \E on \in IF asked = {} THEN {users[u].active} ELSE asked :
                 Carry(w, carried(u, on))
      BY <1>4 DEF UserUpdate
    <3>2. users[u].active \in BOOLEAN
      BY <1>1 DEF UserRow
    <3>3. PICK on \in IF asked = {} THEN {users[u].active} ELSE asked :
            Carry(w, carried(u, on))
      BY <3>1
    <3>4. on \in BOOLEAN /\ (on \/ ~users[u].active \/ Guard(u, FALSE))
      BY <3>1, <3>2
    <3> QED BY <3>3, <3>4
  <2>2. PICK on \in BOOLEAN :
          /\ on \/ ~users[u].active \/ Guard(u, FALSE)
          /\ Carry(w, carried(u, on))
    BY <2>1
  <2> DEFINE seen == Load(users[u].roles)
             row == [users[u] EXCEPT !.active = on]
             r == [op |-> "UserUpdate", super |-> a \in SuperAdmins, user |-> u,
                   row |-> row, seen |-> seen]
  <2>3. /\ row.roles = users[u].roles /\ row.perms = users[u].perms /\ row.active = on
    BY <1>1 DEF UserRow
  <2>4. DOMAIN seen \subseteq DOMAIN roles /\ \A q \in DOMAIN seen : seen[q] = roles[q]
    BY DEF Load
  <2>5. Carry(w, r)
    BY <2>2
  <2> HIDE DEF seen, row
  <2>6. Current(r)
    BY <2>2, <2>3, <2>4 DEF Current, RoleOps
  <2> QED BY <2>5, <2>6
<1>5. CASE SetRoles(w, a)
  <2>1. PICK u \in DOMAIN users, ids \in RoleChoices :
          /\ Resolves(a \in SuperAdmins, ids, {})
          /\ Guard(u, IsSuperAdmin([users[u] EXCEPT !.roles = ids]))
          /\ Carry(w, [op |-> "SetRoles", super |-> a \in SuperAdmins, user |-> u,
                       seen |-> Load(ids), perms |-> {}])
    BY <1>5 DEF SetRoles
  <2> DEFINE seen == Load(ids)
             r == [op |-> "SetRoles", super |-> a \in SuperAdmins, user |-> u,
                   seen |-> seen, perms |-> {}]
  <2>2. /\ DOMAIN seen = ids /\ \A q \in ids : q \in DOMAIN roles /\ seen[q] = roles[q]
        /\ ~(a \in SuperAdmins) => \A q \in ids : Wildcard \notin roles[q].perms
    BY <1>2, <2>1
  <2>3. Carry(w, r) /\ Guard(u, IsSuperAdmin([users[u] EXCEPT !.roles = DOMAIN seen]))
    BY <2>1, <2>2
  <2> HIDE DEF seen
  <2>4. Current(r)
    BY <2>2, <2>3 DEF Current, RoleOps
  <2> QED BY <2>3, <2>4
<1>6. CASE UserDelete(w, a)
  <2>1. PICK u \in DOMAIN users :
          /\ Guard(u, FALSE)
          /\ Carry(w, [op |-> "UserDelete", super |-> a \in SuperAdmins, user |-> u,
                       perms |-> {}])
    BY <1>6 DEF UserDelete
  <2> DEFINE r == [op |-> "UserDelete", super |-> a \in SuperAdmins, user |-> u,
                   perms |-> {}]
  <2>2. Current(r)
    BY <2>1 DEF Current, RoleOps
  <2> QED BY <2>1, <2>2
<1>7. CASE SetPermissions(w, a)
  <2>1. PICK u \in DOMAIN users, perms \in PermChoices :
          /\ Resolves(a \in SuperAdmins, {}, perms)
          /\ Guard(u, IsSuperAdmin([users[u] EXCEPT !.perms = perms]))
          /\ Carry(w, [op |-> "SetPermissions", super |-> a \in SuperAdmins, user |-> u,
                       perms |-> perms])
    BY <1>7 DEF SetPermissions
  <2> DEFINE r == [op |-> "SetPermissions", super |-> a \in SuperAdmins, user |-> u,
                   perms |-> perms]
  <2>2. ~(a \in SuperAdmins) => Wildcard \notin perms
    BY <1>2, <2>1
  <2>3. Current(r)
    BY <2>1, <2>2 DEF Current, RoleOps
  <2> QED BY <2>1, <2>3
<1> QED BY <1>3, <1>4, <1>5, <1>6, <1>7

\* What the checks of a request on roles find.
LEMMA RoleReceivesCurrent ==
    ASSUME SInv, NEW w \in Workers, NEW a \in Users,
           \/ RoleCreate(w, a) \/ RoleUpdate(w, a)
           \/ RoleDelete(w, a) \/ RoleSetPermissions(w, a)
    PROVE  \E r : Carry(w, r) /\ Current(r)
<1>1. \A r \in DOMAIN roles : roles[r] \in RoleRow
  BY DEF SInv, TInv, RInv, RolesTyped
<1>2. CASE RoleCreate(w, a)
  <2>1. PICK id \in FreshRoles, n \in Names, perms \in PermChoices :
          Carry(w, [op |-> "RoleCreate", super |-> a \in SuperAdmins, role |-> id,
                    row |-> [name |-> n, perms |-> perms]])
    BY <1>2 DEF RoleCreate
  <2> DEFINE r == [op |-> "RoleCreate", super |-> a \in SuperAdmins, role |-> id,
                   row |-> [name |-> n, perms |-> perms]]
  <2>2. Current(r)
    BY DEF Current, RoleOps
  <2> QED BY <2>1, <2>2
<1>3. CASE RoleUpdate(w, a)
  <2>1. PICK id \in DOMAIN roles, n \in Names :
          Carry(w, [op |-> "RoleUpdate", super |-> a \in SuperAdmins, role |-> id,
                    row |-> [roles[id] EXCEPT !.name = n]])
    BY <1>3 DEF RoleUpdate
  <2> DEFINE row == [roles[id] EXCEPT !.name = n]
             r == [op |-> "RoleUpdate", super |-> a \in SuperAdmins, role |-> id,
                   row |-> row]
  <2>2. Carry(w, r)
    BY <2>1
  <2>3. row.perms = roles[id].perms
    BY <1>1 DEF RoleRow
  <2> HIDE DEF row
  <2>4. Current(r)
    BY <2>3 DEF Current, RoleOps
  <2> QED BY <2>2, <2>4
<1>4. CASE RoleDelete(w, a)
  <2>1. PICK id \in DOMAIN roles :
          Carry(w, [op |-> "RoleDelete", super |-> a \in SuperAdmins, role |-> id,
                    perms |-> {}])
    BY <1>4 DEF RoleDelete
  <2> DEFINE r == [op |-> "RoleDelete", super |-> a \in SuperAdmins, role |-> id,
                   perms |-> {}]
  <2>2. Current(r)
    BY DEF Current, RoleOps
  <2> QED BY <2>1, <2>2
<1>5. CASE RoleSetPermissions(w, a)
  <2>1. PICK id \in DOMAIN roles, perms \in PermChoices :
          /\ Resolves(a \in SuperAdmins, {}, perms)
          /\ Carry(w, [op |-> "RoleSetPermissions", super |-> a \in SuperAdmins,
                       role |-> id, perms |-> perms])
    BY <1>5 DEF RoleSetPermissions
  <2> DEFINE r == [op |-> "RoleSetPermissions", super |-> a \in SuperAdmins,
                   role |-> id, perms |-> perms]
  <2>2. ~(a \in SuperAdmins) => Wildcard \notin perms
    BY <2>1 DEF Resolves, Effective
  <2>3. Current(r)
    BY <2>2 DEF Current, RoleOps
  <2> QED BY <2>1, <2>3
<1> QED BY <1>2, <1>3, <1>4, <1>5

\* Before the first start nothing is in the tables and nothing is in flight.
LEMMA SInvInit == Init => SInv
<1> SUFFICES ASSUME Init PROVE SInv
  OBVIOUS
<1>1. NamedWild /\ AllCurrent
  BY DEF Init, NamedWild, Named, AllCurrent
<1> QED BY <1>1, TInvInit DEF SInv

\* With one request at a time, what its checks found lasts until its write.
LEMMA SInvStep == Alone /\ SInv /\ [Next]_vars => SInv'
<1> SUFFICES ASSUME Alone, SInv, [Next]_vars PROVE SInv'
  OBVIOUS
<1>1. TInv'
  BY TInvStep DEF SInv
<1>2. NamedWild'
  <2>1. CASE phase' \in {"admin", "grant", "up"}
    BY <1>1, <2>1 DEF TInv, RInv, SuperRoleIntact, NamesOnce, NamedWild, Named
  <2>2. CASE UNCHANGED roles
    BY <2>2 DEF SInv, NamedWild, Named
  <2>3. \/ UNCHANGED roles \/ phase' = "admin"
        \/ phase = "up" /\ phase' = "up"
    <3>1. ASSUME NEW w \in Workers, Write(w) PROVE phase = "up" /\ phase' = "up"
      <4>1. PICK op : Finish(w, op)
        BY <3>1 DEF Write, UserInsert, UserSave, UserRemove, UserReplaceRoles,
                    UserReplacePermissions, RoleInsert, RoleSave, RoleRemove,
                    RoleReplacePermissions
      <4> QED BY <4>1, Ended DEF SInv, TInv
    <3>2. ASSUME NEW w \in Workers, NEW a \in Users, Receive(w, a) PROVE UNCHANGED roles
      BY <3>2 DEF Receive, UserCreate, UserUpdate, UserDelete, SetRoles, SetPermissions,
                  RoleCreate, RoleUpdate, RoleDelete, RoleSetPermissions, Begin
    <3> QED BY <3>1, <3>2 DEF Next, vars, Stop, Boot, SeedRoles, SeedAdmin, SeedGrant
  <2> QED BY <2>1, <2>2, <2>3
<1>3. AllCurrent'
  <2>1. ASSUME NEW w \in Workers, NEW a \in Users, Receive(w, a) PROVE AllCurrent'
    <3>1. UNCHANGED <<users, roles>>
      BY <2>1 DEF Receive, UserCreate, UserUpdate, UserDelete, SetRoles, SetPermissions,
                  RoleCreate, RoleUpdate, RoleDelete, RoleSetPermissions, Begin
    <3>2. PICK r : Carry(w, r) /\ Current(r)
      BY <2>1, UserReceivesCurrent, RoleReceivesCurrent DEF Receive
    <3>3. Current(r)' /\ req'[w] = r
      BY <3>1, <3>2, CurrentKept DEF Carry, SInv, TInv, Requests
    <3>4. ASSUME NEW v \in Workers PROVE Current(req[v])'
      <4>1. v = w
        BY DEF Alone
      <4> QED BY <3>3, <4>1
    <3> QED BY <3>4 DEF AllCurrent
  <2>2. CASE \A v \in Workers : req'[v] = Idle
    BY <2>2 DEF AllCurrent
  <2>3. ASSUME NEW w \in Workers, Write(w) PROVE AllCurrent'
    <3>1. PICK op : Finish(w, op)
      BY <2>3 DEF Write, UserInsert, UserSave, UserRemove, UserReplaceRoles,
                  UserReplacePermissions, RoleInsert, RoleSave, RoleRemove,
                  RoleReplacePermissions
    <3>2. \A v \in Workers : req'[v] = Idle
      BY <3>1 DEF Alone, Finish, SInv, TInv, Requests
    <3> QED BY <2>2, <3>2
  <2>4. CASE Stop
    BY <2>2, <2>4 DEF Stop
  <2>5. CASE Boot \/ SeedRoles \/ SeedAdmin \/ SeedGrant
    <3>1. phase # "up" /\ UNCHANGED req
      BY <2>5 DEF Boot, SeedRoles, SeedAdmin, SeedGrant
    <3> QED BY <2>2, <3>1 DEF SInv, TInv, RInv, InFlight
  <2>6. CASE UNCHANGED vars
    <3>1. ASSUME NEW v \in Workers, req'[v] # Idle PROVE Current(req[v])'
      <4>1. Current(req[v]) /\ UNCHANGED <<users, roles>> /\ req'[v] = req[v]
        BY <2>6, <3>1 DEF SInv, AllCurrent, vars
      <4>2. PICK c : c = req[v] /\ Current(c)
        BY <4>1
      <4>3. Current(c)'
        BY <4>1, <4>2, CurrentKept
      <4> QED BY <4>1, <4>2, <4>3
    <3> QED BY <3>1 DEF AllCurrent
  <2> QED BY <2>1, <2>3, <2>4, <2>5, <2>6 DEF Next
<1> QED BY <1>1, <1>2, <1>3 DEF SInv

\* A step of Next that raises somebody is the write of a super admin's request, or
\* the grant to the first user.
LEMMA RaisedBySuper ==
    ASSUME SInv, OneWildcard, Next, ~NoneRaised
    PROVE  phase = "grant" \/ \E w \in Workers : Writes(w) /\ req[w].super
<1>1. CASE Stop \/ Boot \/ SeedRoles \/ SeedAdmin \/ SeedGrant
  BY <1>1, SeedingRaises
<1>2. ASSUME NEW w \in Workers, NEW a \in Users, Receive(w, a) PROVE FALSE
  <2>1. UNCHANGED <<users, roles>>
    BY <1>2 DEF Receive, UserCreate, UserUpdate, UserDelete, SetRoles, SetPermissions,
                RoleCreate, RoleUpdate, RoleDelete, RoleSetPermissions, Begin
  <2> QED BY <2>1, OnlyTaken DEF SInv, TInv
<1>3. ASSUME NEW w \in Workers, Write(w) PROVE Writes(w) /\ req[w].super
  <2>1. PICK op : Finish(w, op)
    BY <1>3 DEF Write, UserInsert, UserSave, UserRemove, UserReplaceRoles,
                UserReplacePermissions, RoleInsert, RoleSave, RoleRemove,
                RoleReplacePermissions
  <2>2. Writes(w) /\ UsersSound
    BY <2>1, EndsCurrent
  <2>3. CASE OneUser(w)
    <3>1. PICK u : u \in SuperAdmins' /\ u \notin SuperAdmins
      BY DEF NoneRaised
    <3>2. u \in DOMAIN users'
      BY <3>1, SuperMeans
    <3>3. CASE u = req[w].user
      BY <2>2, <2>3, <3>1, <3>3 DEF OneUser
    <3>4. CASE u # req[w].user
      <4>1. SameGrants /\ u \in DOMAIN users /\ users'[u] = users[u]
        BY <2>3, <3>2, <3>4 DEF OneUser
      <4> QED BY <2>2, <3>1, <3>2, <4>1, SameRank
    <3> QED BY <3>3, <3>4
  <2>4. CASE \/ RoleInsert(w) \/ RoleSave(w) \/ RoleRemove(w) \/ RoleReplacePermissions(w)
    BY <2>2, <2>4, RoleWritesRaise
  <2> QED BY <1>3, <2>3, <2>4, UserWritesOneUser DEF Write
<1> QED BY <1>1, <1>2, <1>3 DEF Next

\* With one request at a time nobody becomes a super admin but by the request of a
\* super admin or as the bootstrap admin, for every catalog that gives the wildcard
\* to the super-admin role alone.
THEOREM OnlySuperEverMakesSuper ==
    ASSUME Alone, OneWildcard
    PROVE  Spec => OnlySuperMakesSuper
<1> DEFINE A == \A u \in Users : u \notin SuperAdmins /\ u \in SuperAdmins' =>
                  phase = "grant" \/ \E w \in Workers : Writes(w) /\ req[w].super
<1>1. SInv /\ [Next]_vars => [A]_vars
  BY RaisedBySuper DEF NoneRaised
<1>2. SInv /\ [Next]_vars => SInv'
  BY SInvStep
<1> QED BY <1>1, <1>2, SInvInit, PTL DEF Spec, OnlySuperMakesSuper

\* A request that names a user changes what OneUser says.
LEMMA UserOnly ==
    ASSUME SInv, Next, NEW w \in Workers, Writes(w), "user" \in DOMAIN req[w], Alone
    PROVE  OneUser(w)
<1>1. CASE Stop \/ Boot \/ SeedRoles \/ SeedAdmin \/ SeedGrant
  <2>1. phase # "up" \/ phase' = "down"
    BY <1>1 DEF Stop, Boot, SeedRoles, SeedAdmin, SeedGrant
  <2> QED BY <2>1 DEF Writes, SInv, TInv, RInv, InFlight
<1>2. ASSUME NEW v \in Workers, NEW a \in Users, Receive(v, a) PROVE FALSE
  <2>1. req[v] = Idle
    BY <1>2 DEF Receive, UserCreate, UserUpdate, UserDelete, SetRoles, SetPermissions,
                RoleCreate, RoleUpdate, RoleDelete, RoleSetPermissions, Begin
  <2> QED BY <2>1 DEF Alone, Writes
<1>3. ASSUME NEW v \in Workers, Write(v) PROVE OneUser(w)
  <2>1. v = w
    BY DEF Alone
  <2>2. ASSUME RoleInsert(w) \/ RoleSave(w) \/ RoleRemove(w) \/ RoleReplacePermissions(w)
        PROVE  FALSE
    <3>1. PICK op \in RoleOps : Finish(w, op)
      BY <2>2 DEF RoleInsert, RoleSave, RoleRemove, RoleReplacePermissions, RoleOps
    <3>2. req[w].op \in RoleOps /\ Current(req[w])
      BY <3>1, EndsCurrent
    <3>3. "user" \notin DOMAIN req[w]
      BY <3>2 DEF Current
    <3> QED BY <3>3
  <2> QED BY <1>3, <2>1, <2>2, UserWritesOneUser DEF Write
<1> QED BY <1>1, <1>2, <1>3 DEF Next

\* With one request at a time no request on users leaves the panel without an active
\* super admin, whichever half of a replacement fails.
THEOREM LastSuperAdminAlwaysKept ==
    ASSUME Alone
    PROVE  Spec => LastSuperAdminKept
<1> DEFINE A == \A w \in Workers :
                  Writes(w) /\ "user" \in DOMAIN req[w] /\ ActiveSupers # {}
                    => ActiveSupers' # {}
<1>1. ASSUME SInv, Next, NEW w \in Workers, Writes(w), "user" \in DOMAIN req[w],
             ActiveSupers # {}
      PROVE  ActiveSupers' # {}
  <2> DEFINE u == req[w].user
  <2>1. OneUser(w) /\ UsersSound
    BY <1>1, UserOnly DEF SInv, TInv
  <2>2. ASSUME NEW x \in ActiveSupers \ {u} PROVE ActiveSupers' # {}
    <3>1. x \in DOMAIN users
      BY SuperMeans
    <3>2. SameGrants /\ x \in DOMAIN users' /\ users'[x] = users[x]
      BY <2>1, <3>1 DEF OneUser
    <3> QED BY <2>1, <3>1, <3>2, SameRank
  <2>3. CASE ActiveSupers \ {u} # {}
    BY <2>2, <2>3
  <2>4. CASE ActiveSupers \ {u} = {}
    <3>1. u \in ActiveSupers
      BY <1>1, <2>4
    <3> QED BY <2>1, <2>4, <3>1 DEF OneUser
  <2> QED BY <2>3, <2>4
<1>2. SInv /\ [Next]_vars => [A]_vars
  BY <1>1
<1>3. SInv /\ [Next]_vars => SInv'
  BY SInvStep
<1> QED BY <1>2, <1>3, SInvInit, PTL DEF Spec, LastSuperAdminKept
=============================================================================
