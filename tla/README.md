# TLA+ models of vpn-manager

vpn-manager is a panel for a Linux VPN host: a Go backend (`backend/`, gin and
GORM) with an HTTP API, a relational database, and a React frontend. The backend
drives the host directly: WireGuard devices through netlink and wgctrl, firewall
rules through `iptables`, other protocols through configuration files and
`systemctl`. No handler takes a lock and, but for the two OpenVPN drafts, none opens a
transaction, so the rows, the kernel and the firewall are kept in agreement by the
order of the calls alone. That agreement is what these modules are about.

All paths below are relative to `src/`.

## 1. Inventory

| component | code | state it keeps | operations |
|---|---|---|---|
| WireGuard devices | `backend/wg/service.go` | kernel links: address set, key and port, peers | EnsureLink, RemoveLink, ConfigureDevice (replaces peers), ConfigurePeer, RemovePeer |
| NAT and forward rules | `backend/wg/nat.go`, `wg/portforward.go` | iptables rules | SetupNAT, TeardownNAT, ApplyPortForward, RemovePortForward |
| address allocation | `backend/wg/service.go` | none | NextFreeIP, incIP, ValidateIPInCIDR |
| interfaces | `backend/handlers/interface_handler.go` | `wg_interfaces` rows with a trash | Create, Update, Delete, Restore, Purge, Sync |
| peers | `backend/handlers/peer_handler.go` | `peers` rows with a trash | Create, Update, Delete, Restore, Purge |
| port forwards | `backend/handlers/portforward_handler.go` | `port_forwards` rows | Create, Update, Delete, and the cascades of other handlers |
| reconciliation | `backend/handlers/sync.go` | none | reconcile (full apply), applyNAT, syncPeer |
| bootstrap | `portforward_handler.go:433-485`, `main.go:53` | its list of interfaces | BootstrapRuntime, ReapplyAllPortForwards, in a goroutine beside the server |
| ownership | `backend/handlers/ownership.go` | `owner_id` columns | ownsResource, assertPeerOwned |
| RBAC | `backend/handlers/rbac_handler.go`, `rbac/`, `models/rbac.go` | users, roles, join tables | nine handlers; the seeding of every start |
| authentication | `backend/auth`, `middleware`, `handlers/auth_handler.go` | signing secret | login, token validation, loading the user per request, `/auth/me` |
| OpenVPN | `backend/openvpn`, `handlers/openvpn_handler.go` | instances, users, secrets, manifests | drafts, manifest generation, apply |
| runtime executor | `backend/runtimeexec` | host files and services | Apply: files, then commands, stop at the first failure |
| legacy protocols | `backend/vpn`, `handlers/vpn_handler.go` | instances, shared host files | drafts and apply |
| secrets, HTTP plumbing, database connection | `backend/secrets`, `security`, `routes`, `dto`, `database`, `config` | none of their own | encryption, hashing, validation, envelopes |
| frontend | `frontend/src` | the token in localStorage, the session of each tab, cached lists | login, logout, reload, calls; the interceptors and the token effect |

How they interact. A request passes the authentication middleware (which loads the
user and its permissions once, for the whole request), the permission check of its
route, and then its handler. Handlers of interfaces, peers and forwards write their
rows and call `reconcile` or `syncPeer`, which read the rows again and drive the
device; interface and peer handlers also run the forwards' cascades
(`removePortForwardRulesFor...`, `reapplyPortForwardsFor...`, `purgePortForwards...`).
`applyNAT` writes back into the interface row (the detected egress). The bootstrap
runs all of this once more after a start, concurrently with requests. RBAC decides
who may do it and whose rows are seen.

What is hard here:

* *three stores without a transaction*: rows, devices and rules change in separate
  calls, each of which can fail, and several failures are only logged;
* *two ways to the same device*: full applies and one-peer changes must add up;
* *cascades*: forwards follow six handlers of two other resources;
* *stale data*: the rules to remove are computed from the row as it was, with an
  egress that was detected under a default route that may have moved;
* *start-up*: a reboot loses the kernel's state but not the rows, and the bootstrap
  works from a list while requests change what is on it;
* *trash*: rows that are neither there nor gone, with uniqueness checks and lookups
  some of which count them and some of which do not;
* *applies that stop half way*: OpenVPN and the legacy protocols write files and run
  commands one by one, several requests at a time, and legacy instances share their files;
* *checks and writes in separate statements*: guards that count before another
  statement removes, and rows saved as they were read a moment ago;
* *overlapping requests*: nothing serialises two applies of one interface, or the
  check and the append of one rule;
* *a kill between two calls*: half a request is done, and nobody remembers which half;
* *answers out of order*: a refusal, or the answer to `/auth/me`, arrives when its
  session is over; the account, the clock and the key changed on the way.

What makes each part correct: a device serves exactly the enabled peers of the
enabled interface in service that has its name (or a failure was reported); NAT and
forward rules are present when their row asks for them and absent otherwise; no peer
is in service without its interface; an ordinary user's requests stop at that user's
interfaces; the allocator returns the least acceptable address and ends; the
bootstrap ends; the panel keeps a super admin and only super admins make new ones; an
apply that reports success leaves the host serving that instance, a failed one enables
nothing, and with execution turned off the host is not written to; a request killed
half way is no worse than one whose calls failed; no rule is installed twice by one
request at a time; a request is let through or refused on grounds that held while it
was under way, and a tab shows the user of its token.

## 2. Modules

| module | what it is | status |
|---|---|---|
| `WgHost` | the kernel: devices and firewall rules as pure functions of the old state and of a fault pattern | done |
| `WgPanel` | all interface, peer and forward handlers, reconcile, syncPeer, bootstrap, starts, reboots, route changes; the abstract specification of `WgRequests` | done, requests are single steps |
| `MCWgPanel` | small instances and fault patterns of `WgPanel` | done |
| `WgHistory`, `MCWgHistory` | `WgPanel` with the user of the last request, for isolation between owners | done |
| `WgRequests`, `MCWgRequests` | the same handlers call by call, several at once, crashes between calls | done |
| `WgSerial`, `MCWgSerial` | `WgRequests` with the state its request began in: the refinement of `WgPanel`; small instance | done |
| `Iptables`, `MCIptables` | `ensureRule` and `deleteRule` call by call, with copies of rules | done |
| `IpAlloc` | `NextFreeIP` with its byte-wise increment | done |
| `Sessions`, `MCSessions` | tokens, the middleware, `/auth/me` and the session of a browser tab | done |
| `Rbac`, `MCRbac` | users, roles, grants, seeding; requests are two steps (check, write) | done |
| `VpnRuntime` | OpenVPN and legacy instances: drafts, manifests, and applies step by step on the host | done |
| `VpnHistory`, `MCVpnRuntime` | which applies overlapped a conflicting one; small instances | done |
| `WgPanelProofs` | theorems about `WgPanel` and `WgHistory`: types, rows, devices, rules, owners | nine theorems |
| `WgRequestsProofs` | theorems about `WgRequests` | four theorems |
| `WgSerialProofs` | theorem about `WgSerial`: handlers that make their calls one by one implement `WgPanel` | one theorem |
| `RbacProofs` | theorems about `Rbac` | four theorems |
| `VpnRuntimeProofs` | theorems about `VpnRuntime` and `VpnHistory` | five theorems |
| `SessionsProofs` | theorems about `Sessions` | four theorems |
| `IptablesProofs` | theorems about `Iptables` | five theorems |
| `IpAllocProofs` | theorem about `IpAlloc` | one theorem |

### WgHost

`dev[n]` is a record: whether the link exists, its addresses, whose key and which
port it is configured with, its peers. `EnsureLink` adds an address and removes none
(AddrReplace), `ConfigureDevice` replaces the peer set, `ConfigurePeer` and
`RemovePeer` touch one peer. A firewall rule is a triple that starts with its kind:
NAT rules carry the subnet or the device and the egress, forward rules the row id
(the code puts it into the rule's comment) and the target port. Rules are a set, since
`ensureRule` checks before it appends. A fault pattern `F` names the calls that fail
during one handler: netlink and wgctrl calls (`F.host`), kinds of rules that iptables
refuses to add or delete (`F.add`, `F.del`), database statements (`F.db`).
Installation stops at the first refusal, removal does not.

### WgPanel

One variable per table (`ifaces`, `peers`, `pfs`), `dev` and `fw` for the host, `wan`
for the default route, `todo` and `pfTodo` for the bootstrap, and a history variable
`owed`: the names whose last full apply was reported as failed, by a warning in the
response, an error, or a log line. One action per handler, named for it
(`IfaceUpdate` is `InterfaceHandler.Update`), with `u` the user and `F` the failures it
meets; a refused request is a stuttering step. `IfaceUpdate` removes NAT rules twice, before
the save and in `reconcile`, and the first time fails by itself (`stuck`). `ReconcileDev`, `ReconcileFw`,
`Resolved` and `ReconcileOK` are the device, the rules, the row and the result of
`reconcile`; `SyncPeer` is `syncPeer`. A row is `none` before its insert, `active`,
`trashed`, or `purged`; ids are not reused, an interface's name and a peer's interface
do not change after the insert, and one insert drops FALSE on columns whose default is
TRUE (`NewIface`, `PeerCreate`). `Start` is a new process, with or without a
reboot of the host.

A request is atomic here. The bootstrap is not: it takes one step per interface and
requests come between them. `WgRequests` takes the requests apart.

### WgRequests and WgSerial

`jobs[w]` is what worker `w` carries through its handler: the operation, what it has
read (`row`, `kids`, `pf`), what it is going to write (`new`), and the `calls` still
to make. `Script` lists the statements and kernel calls of every handler in their order;
`Load` and `Parent` replace themselves with the calls `reconcile` and `syncPeer`
go on with for the row they have read. There is one action per call, and each call
fails by itself. Lookups and refusals at the start of a handler are one step,
so is a row read with its preloaded peers, and the iptables calls of one helper.
Writes are what GORM does: `Save` of a row that is no longer there inserts it again
(`Upsert`), with its preloaded peers (`WithKids`), and drops FALSE where the column's
default is TRUE; the unique indexes may refuse the insert. `Crash` stops the process
between any two calls; `Restart` brings it back, with or without a reboot.

`verdict` is what the panel would have to report on the device name if the job ended
now, and `solo` says that no conflicting request overlapped it. Peer requests on
different peers do not conflict. From both an ended or cut job determines `owed`, as
in `WgPanel`: whatever overlapped leaves the name owed until an undisturbed full apply.

`WgSerial` remembers the state in which the request in progress began, and shows that
state until the request answers. Under this mapping `WgRequests` with one worker
implements `WgPanel`: a request that is served call by call, fails at any of its
calls or is killed between two of them is one of the atomic handlers of `WgPanel` with
some set of failures (`PanelFaults`; in the run `AllFaults`, the failures injected and those a
crash amounts to).

### Iptables

`count[r]` is how many copies of rule `r` the kernel holds. A job ensures or deletes a
list of rules: `-C`, then `-A`/`-I` or `-D`, rule by rule. A check that fails for
another reason (the xtables lock, a missing binary) reads as "absent"; the first append
refused ends an ensure; a refused or late delete does not stop a delete. `exact` says
that nothing stood in the job's way, `misses` counts the false "absent" answers.
`WgHost` takes such a list for one step on a *set*: `CopiesBounded` with one worker
and no misses is what makes that right.

### Sessions

`users`, `key` and `now` are the server: accounts (there, active, permitted), the
signing key of the process and the clock; without `AUTH_TOKEN_SECRET` every start makes
a new key. `stored` is the browser's localStorage, `tabs` the state of the
`AuthProvider` of each tab, `reqs` the requests under way. `RunEffect` is the React
effect on the token: it cleans up after the one before and asks `/auth/me`.
`ReadAccount`/`Issue` are login, `Authenticate` is the middleware, `Handle` the permission
check and the handler. Answers are received in any order; `ClearSession` is what the
response interceptor does on a 401. `fit` and `unfit` are history: whether at some
moment since it was sent the request deserved to be let through, or refused. `mixed`
are tabs whose storage another tab has written: the code has no storage listener, so
such a tab goes on with its own state until it is loaded again.

### IpAlloc

An address is a sequence of digits; with base 3 and three digits every carry, every
prefix and the wrap at the end of the address space occur. The loop is one action per
turn, the reference is "the least address that `ValidateIPInCIDR` accepts and nobody
has".

### Rbac

Users and roles are partial functions from ids to rows (with their join rows). A
request is two steps: the first is the middleware, the handler's loads and its checks;
the second is its write, made on what was loaded. `req[w]` is what worker `w` carries
between them. The write steps contain what the ORM does beside the update: saving a
loaded row inserts again the roles and join rows it was loaded with (`Saved`), and
replacing an association inserts first and deletes afterwards (`Outcomes`). `Stop`
ends the process anywhere, `SeedRoles`, `SeedAdmin` and `SeedGrant` are the start.

### VpnRuntime

`rows`, `manifests`, `clients` and `vault` are the tables of instances, runtime
manifests, OpenVPN users and encrypted secrets; `files`, `rules` and `running` are the
host; `gate` is VPN_EXECUTION_ENABLED of the process; `job[w]` is the apply worker `w`
is in the middle of. The three draft handlers and the manifest handler are single steps.
`ApplyRuntime` and `ApplyLegacyInstance` are taken apart: `StartApply` loads
and checks, `WriteFile` writes one file of the plan in any order (`FileWrites` is a Go
map), `InstallRules` runs the iptables commands, `RunCommand` one docker or
systemctl command, `Activate` saves the row. Every step may fail, with the
effects the call may have had by then, and ends the request. `RestartPanel` loses
requests, `Reboot` also the rules and services.

What is abstracted. Nothing changes a row but `Activate`, so a text is named by the
instance it was rendered from; `None` is no text and also a file cut short. OpenVPN
files lie under the runtime root, at its default, by instance; legacy files are the
host's own, shared by all instances. The compose project carries the slug of the
instance's name, and names with an empty slug are left out. Rules are counted by presence:
that a repeated apply appends them again is a hazard, not a state. Who may apply is
left out, since any instance has some user who may. The check-then-create
of a manifest is one step: the text is a function of a row that does not change, and the
unique index refuses the second insert. Commands that start nothing are left
out. `enable --now` leaves a running unit as it is; `restart` and `up` load the files.
A container that restarts at boot runs what it ran, a unit reads its files.

## 3. Runs

| run | instance | shows |
|---|---|---|
| `WgDevices` | two rows with one name, two peers, every device and statement failure, reboot, bootstrap | `DeviceInSync`: whatever was not reported as failed is exactly what the kernel serves; `PeersUnderInterface`; `PeerChangesAreIncremental`: a peer request changes no other peer; `BootstrapEnds` (liveness): requests and failures do not keep the bootstrap from its end |
| `WgNat` | two interfaces on their own subnets, one moves between two; explicit and detected egress, two uplinks, a moving default route, failures before, at and after the save | `NatInSync`: no rule missing; `NatNoLeak`: none left behind |
| `WgForwards` | two peers, two forwards, six public and target ports, reboot | `ForwardsInstalled`, `NoOrphanForward`: rules follow rows through every cascade |
| `WgOwners` | an ordinary user and a super admin, an interface each, one peer, one forward | `OwnerIsolation` |
| `IpAlloc` | all servers, prefixes and taken sets of a three-digit space | `LeastFree`, `Terminates` |
| `OpenVpn` | two instances, three names of which two make one project, one client, two applies at a time, failures at every step, restarts, reboots | `AppliedIsServed`: success that met no conflicting apply means the host serves the instance; `RefsAreStored`; `GateKeepsHost`; `EnabledOnlyApplied` |
| `LegacyVpn` | two L2TP/IPsec instances on the same files and units, one apply at a time | the same, on shared files: what earlier applies left, whole or torn, does not show |
| `WgSerial` | one interface with detected egress, one peer, one forward, all sixteen operations, a device that cannot be removed, failing saves and row statements, crashes, restarts, reboots; one request at a time | `RequestsAreAtomic`: `WgRequests` implements `WgPanel`; `NoRuleWithoutRow`: after every request and after a kill between any two calls, no rule outlives its forward |
| `WgOverlap` | one interface, two peers, two workers, crashes and reboots | `QuietInSync`: between requests the device serves the rows, however peer requests interleaved and whatever overlapped before the last undisturbed apply; `DeletedStaysDeleted`: what was removed meanwhile comes back by a restore or an overlapped `Save` only |
| `Iptables` | two lists that share a rule, three workers, failing checks, appends and deletes | `CopiesBounded`, `EnsuredIsThere`, `DeletedIsGone` |
| `Sessions` | two users, one tab, two requests in flight, accounts, clock and key change, connections break | `AnswersAreFair`, `TabShowsItsUser`, `GoodTokenIsKept`; `LoadingEnds` (liveness) |
| `Rbac` | two users, three roles, one request at a time, all failures and stops | `SuperRoleIntact`, `OnlySuperMakesSuper`, `LastSuperAdminKept` |

All runs are expected to pass. Where the code does less than one might hope, the
property is stated as far as it holds and the rest is listed here.

**Bounds.** Sets of ids are the smallest in which the interaction exists: two rows are
enough for a name to be reused and for two owners, two peers for one to disturb the
other, two uplinks for the route to move away, three subnets for an interface to change
its own beside another. Request parameters come from `AddrChoices`, `EgressChoices`,
`MasqChoices`, `PortChoices` (in `Rbac`: `PermChoices`, `RoleChoices`), failures from
`FaultSets`; at most one kind of call fails per handler. Ids run out because the database never hands
one out twice, except in `Rbac`, where an id that is out of every table and every
request stands for a new one. `Rbac` uses symmetry on user and role ids: nothing
orders them, and its properties are invariants and action properties.

`OpenVpn` and `LegacyVpn` take one rule per instance for three: the
iptables commands are one step that stops anywhere, so two rules more add no
interleaving. `LegacyVpn` has one worker because any two legacy applies write
`chap-secrets` and so conflict, and `AppliedIsServed` says nothing about those; it has
the protocol with most files and units, whose steps contain those of the other two. Both use
symmetry on ids, workers and names of one slug, with invariants and action properties
only.

`WgNat` injects no iptables refusal: `SetupNAT` that stops half way under a *detected*
egress does not store the egress, and after a route change the installed part is out of
reach. The shared-subnet case is left out in the same way, since the masquerade
rule names no device. Both are listed as hazards. `BootstrapEnds` says nothing about a
panel that restarts for ever.

`WgSerial` and `WgOverlap` share a specification and split its instance: the first has
every operation and one worker, the second two workers and the operations that touch a
device (`Offered`, `OverlapNext`), without failures of calls, because the overlap is its
question. The default route holds
still while a request is being served (`RouteMoves`): `WgPanel` reads it once per
request. One interface is enough in both, since requests on different names have no
device, row or rule in common but by public ports. `MidwayFaults` has the failure
after which a handler goes on (Delete, Purge) or gives up (reconcile), and two statements
that end their handler; the other calls meet their failures in the runs of `WgPanel`.

`Iptables` lets one check fail falsely (`MaxMisses`); the theorems of section 4 hold for
any number, of workers and rules too. In `Sessions` a TTL of 0 exercises the
default that replaces it, tokens expire at the first tick, and the key changes
once; accounts of one user change, the other's stand. Two requests in flight are
enough for an answer to meet the next session. With one tab `mixed` stays empty; a second
one was explored for the invariants alone and fits no regular run.

### Known disagreements

What the models show the code to do, and no property denies:

* an edit of a forward re-applies its rules even when its interface or peer is in
  the trash (`portforward_handler.go:220`; the comment at `:406` has it otherwise);
* two requests that overlap pass the last-super-admin guard, each counting the
  other's target (`rbac_handler.go:493`);
* the first user and its role are two statements: a start that stops between them
  leaves a panel without an administrator, and no later start repairs it
  (`rbac/seed.go:85`);
* `Save` overlapped by a removal inserts its row again (`interface_handler.go:235`,
  `peer_handler.go`, `portforward_handler.go:219`);
* an insert drops FALSE where the column's default is TRUE
  (`interface_handler.go:145`);
* the check that a public port is not a listen port runs on the forward's side only
  (`portforward_handler.go:44`);
* automatic assignment proposes an address the trash still holds, and the request
  ends in a conflict although others are free (`peer_handler.go:148`);
* a late 401 to a request of the former session drops the new one
  (`frontend/src/lib/api.ts:51`).

**Fairness.** In `WgPanel` only `BootStep` is weakly fair: `main.go:53` starts the bootstrap
in its own goroutine, no step of it waits for a request or a lock, and a panic is
recovered. Requests, starts and route changes are never forced. `IpAlloc` takes weak
fairness of its only action: the loop of a running handler goes on. In `Sessions` what
was sent is worked on or fails, and is received (weak fairness of `Work` and `Receive`:
axios settles every promise, the server serves every connection). The
effect of a tab is strongly fair, since it waits for a free slot, which is a bound
of the model and not of the browser. A user who reloads for ever is excepted in `LoadingEnds`.

## 4. Proofs

Every theorem holds for all values of the constants that satisfy the named assumptions
of its module: any number of users, interfaces, peers, workers, and so on, any fault
patterns. Some have hypotheses beside. Those are named operators, each explained where
it is used below, and the instance of a run that checks the same property satisfies
them; where a hypothesis is dropped, the code does lose the property.

| theorem | statement | hypotheses |
|---|---|---|
| `WgPanelProofs!TypeCorrect` | `Spec => []TypeOK` | |
| `PeersAlwaysUnderInterface` | `Spec => []PeersUnderInterface` | |
| `DevicesAlwaysInSync` | `Spec => []DeviceInSync` | |
| `PeerChangesStayIncremental` | `Spec => PeerChangesAreIncremental` | |
| `NatNeverLeaks` | `Spec => []NatNoLeak` | `NatRemoved`, `EgressKept` |
| `NatAlwaysInSync` | `Spec => []NatInSync` | `SubnetsApart` |
| `NoForwardOrphaned` | `Spec => []NoOrphanForward` | `ForwardsRemoved` |
| `ForwardsAlwaysInstalled` | `Spec => []ForwardsInstalled` | `ForwardsCanBeInstalled`, `UplinkNamed` |
| `OwnersAreIsolated` | `HSpec => OwnerIsolation` | `SubnetsApart` |
| `JobsAlwaysOK` | `RSpec => []JobsOK` | |
| `RulesAlwaysHaveRows` | `RSpec => []NoRuleWithoutRow` | `ForwardsRemoved`, `OneWorker` |
| `DeletedNeverReturns` | `RSpec => DeletedStaysDeleted` | |
| `QuietAlwaysInSync` | `RSpec => []QuietInSync` | |
| `RequestsImplementPanel` | `SSpec => RequestsAreAtomic` | `OneWorker`, `AnyFault` |
| `RbacProofs!TypeCorrect` | `Spec => []TypeOK` | |
| `SuperRoleAlwaysIntact` | `Spec => []SuperRoleIntact` | |
| `OnlySuperEverMakesSuper` | `Spec => OnlySuperMakesSuper` | `Alone`, `OneWildcard` |
| `LastSuperAdminAlwaysKept` | `Spec => LastSuperAdminKept` | `Alone` |
| `VpnRuntimeProofs!TypeCorrect` | `Spec => []TypeOK` | |
| `GateAlwaysKeepsHost` | `Spec => GateKeepsHost` | |
| `EnabledAlwaysApplied` | `Spec => EnabledOnlyApplied` | |
| `RefsAlwaysStored` | `Spec => []RefsAreStored` | |
| `AppliedAlwaysServed` | `HSpec => []AppliedIsServed` | |
| `SessionsProofs!TypeCorrect` | `Spec => []TypeOK` | |
| `AnswersAlwaysFair` | `Spec => []AnswersAreFair` | |
| `TabsShowTheirUsers` | `Spec => []TabShowsItsUser` | |
| `GoodTokenAlwaysKept` | `Spec => GoodTokenIsKept` | |
| `IptablesProofs!TypeCorrect` | `Spec => []TypeOK` | |
| `CopiesAreBounded` | `Spec => []CopiesBounded` | |
| `EnsuredAlwaysThere` | `Spec => []EnsuredIsThere` | |
| `DeletedAlwaysGone` | `Spec => []DeletedIsGone` | |
| `OneAtATime` | no second copy of a rule, ever | one worker, no misses |
| `AllocationSafe` | `Spec => []LeastFree` | |

All follow one scheme: an inductive invariant, one step per action of the next-state
relation, and `PTL` at the end. What is worth knowing of each is why its invariant is
not the property itself.

### WgPanelProofs

`TypeOK` is inductive. `PeersUnderInterface` is inductive with it: each handler that
takes an interface out of service takes its peers first, and each that brings a
peer back asks for its interface. `DeviceInSync` is not inductive. Two facts are missing:
rows in the table have distinct names (`UniqueNames`, the unique index that the trash
counts in), without which an apply of one row could be undone by another; and what
the bootstrap has not reached. `DeviceInSync` excuses names that are still on the
bootstrap's list, but the bootstrap drops an interface that was trashed or purged
meanwhile without touching the device, and from that step on the name is vouched for. So
`Synced` demands more: a device on that list may be out of step only as long as
an interface in service accounts for it. The proof goes action by action: each action
leaves a name alone, or applies it in full, or adds or removes exactly one peer on a
device that was right, or leaves the name owed. `PeerChangesStayIncremental` needs no
invariant but the types: it is about what `syncPeer` does to *any* device.

`StepEffect` sums up what a step does to the rows and the rules of each interface, and
`NatOwned` and `NatKept` are preserved by that summary alone. `NatOwned` ties a NAT rule to
the row that wants it *now*; it needs that the rules a handler removes are computed from a
row that still names the egress they were installed with. That is where the hypotheses
come from: `NatRemoved` (iptables deletes what it is asked to) and `EgressKept` (rows
name their egress, or a set-up that detects it neither stops half way nor fails to store
it; the hazard at `sync.go:47` is what happens otherwise). `NatKept` says of interfaces
off the bootstrap's list what `NatInSync` says of vouched names; `SubnetsApart` is there
because the masquerade rule names a subnet and no device, so removing one interface's
rule would remove the other's (`nat.go:32`).

Forward rules are kept by cascades. `NoForwardOrphaned` carries `RulesOwned` (a rule has
a forward in service with this very target) and `RowsPlaced` (a forward's peer and interface
are there), under `ForwardsRemoved`: the statements that find and delete forwards work.
`ForwardsInstalled` needs in the other direction that nothing on the way to installing
fails (`ForwardsCanBeInstalled`; the removal may fail), since handlers remove the rules,
save the row, and install only after an apply that worked; and `UplinkNamed`, since
without a default route a masqueraded interface with no egress of its own fails to apply.
`ForwardsFit` adds that addresses forwarded to belong to a peer of the forward's interface.

`OwnersAreIsolated` is an action property: each request of an ordinary user is
shown to touch the rows, the device and the rules of one interface, which its guard has
compared with the user. Again only the subnet is shared between devices.

### WgRequestsProofs

Here handlers are taken apart at their calls. `TInv` is the type invariant and
`JobsFit`: what a job has ahead of it is a `Place` of its handler, one of the finitely
many rests of a script with the calls `reconcile` and `syncPeer` put into it, and it carries
what its handler had loaded by then (`Carries`). `NextJob` and `CallMoves` say once what
any call does to its job and to the tables; the later proofs cite them instead of the
thirty actions.

`RulesAlwaysHaveRows`: `NoRuleWithoutRow` is only claimed between requests, and the
invariant says what holds at every moment: `RulesOwned`, and for the request under
way (`PfJobOK`) that between the removal of a forward's rules and its save none is in
(`Bare`), and that what is installed afterwards is what was saved. A crash between two
calls thus leaves rules too few and never too many. `OneWorker` is necessary: a request
that installs the rules of a forward it loaded before another deleted it leaves one.

`DeletedNeverReturns` has no hypotheses. A row can be brought back by an insert, a restore,
a `Save` and the peers that a `Save` was preloaded with, so the invariant says of
every job what it may still write. `Grounded`: what it is about to insert is not there
yet, and what it has read was there; `Undisturbed`: if no conflicting request overlapped
it, the rows it is going to save are still in service; `Housed`: it knows a peer under one
interface only, that of its row; `Abreast`: of two jobs that conflict neither is alone. What makes it
inductive is that peers never change their interface, for which there is no column to
look at once a row is gone: `InOrder(home)` holds for *some* assignment `home` of
peers to interfaces, and each insert extends it (`OrderStays`).

`QuietAlwaysInSync` has no hypotheses either: any number of requests overlap, every call
may fail, and the process may end between any two. `QuietInSync` speaks of names nobody is
working on, so it says nothing about the states its own preservation depends on: those
in which a handler is half way. `SInv` does, in two parts beside `UniqueNames`. `Firm(j)`
says what a request that met no conflicting one relies on at its next call. For an
interface request (`IfaceFirm`): what it has read is what is stored, the device is as far
as its calls have come, and a verdict `settled` means in sync. For a peer request
(`PeerFirm`): the row it is about to apply is the one it has written, and the parent it
ensures is the one stored. `Steady(n)` says of a name with only such peer requests on it
that the device serves the tables except, at most, for the peers whose own call is
still to come (`Late`): peer requests run side by side because each owns one peer of the
difference. `InOrder(home)` is needed again, so that two requests on one peer are known
to be on one device.

The proof follows the calls: `CallsWithin` bounds what any call can reach, `NamesElsewhere`
and `OthersFirm` conclude that other names and other requests keep what they have.
`IfaceCallsLand` and `PeerCallsLand` show for a request that nothing got in the way of that each
call leaves the device right, reported, or where the next call needs it; and one that something
got in the way of relies on nothing and ends reported (`DisturbedSteady`). That last
lemma is why the code's lost updates between overlapping applies do not contradict the theorem: such names are not
vouched for until an apply goes through alone.

### WgSerialProofs

That `WgRequests` with one worker implements `WgPanel` (`RequestsAreAtomic`) is proved for every
request and for the bootstrap. `OneWorker` makes requests follow one another: with more, lost updates
between them show, which `WgPanel` has none of. `AnyFault` lets a handler of `WgPanel` meet every
combination of failures, as the run's `AllFaults` does.

The invariant `SerialInv` says where the request is, in terms of the state it began in:
`Stage` gives for each rest of its calls what rows, device and rules have come to by then
as a function of what is shown, and `Asked` that what the handler found when it began
(its lookups and refusals) is so in what is shown, since nothing else
has moved. It has four parts, for the four ways the handlers are built:

| part | requests | places |
|---|---|---|
| `PfStage` | forwards, and the bootstrap's last step | before and after the old rules, the row, the new rules |
| `PeerStage` | peers | cascade, row, then `syncPeer` on one peer of the device |
| `RecStage` | create, update, restore, apply; the bootstrap of an interface | tables first, then what `reconcile` does: `AtLoad`, `AtHost` (link, configuration, NAT, saving the egress; or teardown and removal), `AtLast` with the cascade |
| `CutStage` | delete and purge of an interface | forwards, NAT, link, peers, row |

`CallsLand` shows that each call leads to the next place, or ends the request in what
one handler of `WgPanel` leaves behind under some combination of failures. The witness is put
together from what the calls met: the rules that were refused, the rows that could not be saved, the
kernel calls that failed. Rule sets come out alike whatever the order of refusals, because
each is the start without what was removed and with what was put in (`Torn`, `Masked`,
`After`). A kill is a handler whose remaining calls all fail
(`KillsLand`): that is why `WgPanel`, which knows no crash inside a handler, still covers it.
So the theorems about `WgPanel` hold of what is shown between the requests of `WgSerial`, as far as
their assumptions admit every failure.

### RbacProofs

The checks of a request are a step before its write, so what must be carried along is that
they still hold: a request that deletes or strips a role carries one that is
not named super-admin *now*; one that renames cannot meet that name; one that
re-inserts stale roles cannot re-insert the seeded one, because it is still there. This
gives `SuperRoleAlwaysIntact` for any number of requests in flight, and with
`UsersSound` and `NamesOnce` the types. The other two theorems hold for one request at a
time only (`Alone`), as the code has it: two requests pass the last-super-admin guard
each counting the other's target, and a `Save` of a user as it was loaded brings back what was
revoked meanwhile. Their invariant `Current` says that what the request has loaded and
counted is still in the tables at its write. `OneWildcard` is what `catalog.go:101` defines:
no default role but super-admin is given the wildcard.

### VpnRuntimeProofs

An apply has looked at the toggle, the row and the manifest before its first step and
does not look again. The invariant `VInv` says that what it saw is still so
(`Underway`): rows and manifests only grow, the toggle changes only with the process, and
a new process has no applies. It also says that an apply past its firewall step has all
its rules, which no other apply takes away and a reboot takes only together with the
apply. `TInv` adds that a job's plan is that of its row. `RefsAlwaysStored` is proved
through `Matched`, references and vault in both directions and by owner, which each
statement of a draft keeps whether the following ones fail or not.

`AppliedAlwaysServed` is about a moment after which anything may go on. `HInv` says, for an
apply that met no conflicting one, that each file it has written and each unit it has started
is in place (`Secured`), and of two applies that write one file or one project that
neither is counted as undisturbed (`Apart`).

### SessionsProofs

`TypeOK` is inductive with the shape of the requests (`Typed`). `Judged` ties the history of
a request to where it is: until it is answered the present moment counts, what was read of its
user was so at a moment of its way, and an answer agrees with one of the moments. `TabSound` relates a tab to the
stored token, to its effect's request and to the answer still to come: an
effect that was cleaned up has no say any more. `Dated` says that no token is signed with a
key to come and that a refusal that ends a session was given to a spent token, which stays
spent: the clock and the keys only go forward, and users do not come back. All four hold for any number of tabs and requests.

### IptablesProofs

The invariant counts, for each rule, its copies together with the
workers that are about to append one: a worker becomes one of those only when it saw no
copy, or with a miss. For the other two it says that jobs which are `exact` share no
rule with a contrary job (`Apart`), and what an exact delete has still ahead of it is
there at most once (`DeleteAhead`). `OneAtATime` is why `WgHost` may keep rules as a set.

### IpAllocProofs

`AllocationSafe` is `LeastFree` for any base, length of addresses, server, prefix and set of
peers. Four facts carry it. Two addresses that differ are ordered by the first digit in which
they do (`Ordered`); `Inc` raises the last digit that is not at its maximum and
clears those behind it (`LastPlace`, `IncDigits`); so no address lies between another one and
its increment (`NothingSkipped`), and none before the address that the very last one wraps to;
an address of the subnet that has another one of it ahead is incremented inside the subnet
(`SubnetConvex`). Hence the invariant `Passed`, that neither the candidate nor anything before it is free:
leaving the subnet means that nothing is, and what the loop hands out comes before
everything else that is. First and last digits come from the library's theorem that a set of
numbers under a well-founded order has a minimal element.

### What is only model-checked

* liveness under fairness: `BootstrapEnds`, `Terminates`, `LoadingEnds`.

The inductive invariants of `WgPanel`, `WgRequests` and `Rbac` were explored with TLC on
small instances before they were proved. No module uses a RECURSIVE operator.

## 5. Not modelled

Reads (lists, status, client configuration, QR codes), key generation, formatting,
validation of request bodies, pagination. Names, descriptions and passwords are not
told apart. Cryptography of secrets, password hashing, the protocol registry and the
database connection keep no state of interest: the connection retries at start-up before
anything else exists. The signature and the encoding of a token are one test. Of the
frontend only the session is modelled; pages render what the API answers and keep
nothing that outlives them. Swagger text (`backend/docs`) is generated. What the
services do once they run, and the bodies of the files they read, are outside. Rules
of OpenVPN instances are appended without a check, so copies pile up with every repeated
apply; `VpnRuntime` counts presence only.

## 6. Plan

Every invariant and action property that a run checks, and the refinement, has its theorem.
What could follow: firewall rules under overlapping requests (`QuietInSync` is about devices),
copies of the rules of OpenVPN instances (`VpnRuntime` counts presence), and the hazards of
`PROJECT.json` that no property covers, each with the reason noted there.
