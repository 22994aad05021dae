----------------------------- MODULE VpnRuntime -----------------------------
(***************************************************************************)
(* The protocols other than WireGuard: OpenVPN in a container, L2TP/IPsec, *)
(* SSTP and PPTP as daemons of the host.  An instance is first a draft in  *)
(* the database; applying it writes configuration files and runs firewall  *)
(* and service commands, one after another, outside any transaction and    *)
(* while other requests do the same.                                       *)
(*                                                                         *)
(* Rows are never changed by anything but an apply and never deleted, so   *)
(* the texts rendered from an instance are named by the instance.          *)
(***************************************************************************)
EXTENDS Naturals, FiniteSets, Sequences

CONSTANTS
    OpenVpnIds,         \* ids of openvpn_instances
    LegacyIds,          \* ids of legacy_vpn_instances
    Clients,            \* ids of openvpn_users
    Names,              \* names an instance may be given
    Slug,               \* Slug[n]: the name as it appears in a project name
    LegacyProtocols,    \* the legacy protocols requests ask for
    InstanceSecrets,    \* the sets of secrets a draft may come with
    RuleCount,          \* firewall rules of one instance: three, for every protocol
    Workers,            \* requests that may be applying at one time
    None                \* no row, no apply, no text or the beginning of one

Ids == OpenVpnIds \union LegacyIds

ASSUME IdsDistinct ==
    /\ OpenVpnIds \intersect LegacyIds = {}
    /\ None \notin Ids
    /\ LegacyProtocols \subseteq {"l2tp_ipsec", "sstp", "pptp"}
    /\ DOMAIN Slug = Names
    /\ RuleCount \in Nat \ {0}

VARIABLES
    rows,       \* id -> its row, or None
    manifests,  \* the OpenVPN instances with a runtime manifest
    clients,    \* OpenVPN client id -> its row, or None
    vault,      \* the references of the encrypted secrets stored
    gate,       \* VPN_EXECUTION_ENABLED of the running process
    files,      \* path -> the instance whose text the host file holds
    rules,      \* id -> how many of its firewall rules are in place
    running,    \* service -> the instances whose texts it runs with, {} if down
    job         \* worker -> the apply it is in the middle of, or None

host == <<files, rules, running>>
vars == <<rows, manifests, clients, vault, gate, host, job>>

-----------------------------------------------------------------------------
(* What an instance is rendered to. *)

ConfigFiles ==
    [l2tp_ipsec |-> {"ipsec.conf", "ipsec.secrets", "xl2tpd.conf",
                     "options.xl2tpd", "chap-secrets"},
     sstp       |-> {"sstpd.conf", "options.sstpd", "chap-secrets"},
     pptp       |-> {"pptpd.conf", "options.pptpd", "chap-secrets"}]

ComposeFiles == {"server.conf", "docker-compose.yml"}

\* The units a legacy protocol enables and restarts, in that order.
Units ==
    [l2tp_ipsec |-> <<"ipsec", "xl2tpd">>,
     sstp       |-> <<"sstpd">>,
     pptp       |-> <<"pptpd">>]

\* What a unit reads when it starts; pppd reads the rest at every call.
ReadBy ==
    [ipsec  |-> {"ipsec.conf", "ipsec.secrets"},
     xl2tpd |-> {"xl2tpd.conf"},
     sstpd  |-> {"sstpd.conf"},
     pptpd  |-> {"pptpd.conf"}]

UnitNames == UNION {{Units[p][k] : k \in DOMAIN Units[p]} : p \in LegacyProtocols}

\* Paths under the runtime root carry the instance id, those under /etc do not.
Paths == (ComposeFiles \X OpenVpnIds)
           \union ((UNION {ConfigFiles[p] : p \in LegacyProtocols}) \X {None})
Services == ({"project"} \X {Slug[n] : n \in Names})
              \union ({"unit"} \X UnitNames)

\* The secrets of a client, and all there are.
ClientSecrets == {"client-cert-pem", "client-key-pem"}
SecretNames == ClientSecrets \union (UNION InstanceSecrets)

Command == {"up", "enable", "restart"} \X Services

Row == [protocol : LegacyProtocols \union {"openvpn"}, name : Names,
        enabled : BOOLEAN, refs : SUBSET (Ids \X SecretNames)]

FilesOf(i) ==
    IF rows[i].protocol = "openvpn" THEN ComposeFiles \X {i}
    ELSE ConfigFiles[rows[i].protocol] \X {None}

Project(i) == <<"project", Slug[rows[i].name]>>

ServicesOf(i) ==
    IF rows[i].protocol = "openvpn" THEN {Project(i)}
    ELSE {<<"unit", Units[rows[i].protocol][k]>> :
            k \in DOMAIN Units[rows[i].protocol]}

\* Seeded fault: the units are enabled and never restarted.
RuntimeCommandsNoRestart(i) ==
    LET units == Units[rows[i].protocol]
    IN  [k \in DOMAIN units |-> <<"enable", <<"unit", units[k]>>>>]

\* The commands after the firewall rules: verb and service.  Those that start
\* nothing (install -d, modprobe) are left out.
RuntimeCommands(i) ==
    IF rows[i].protocol = "openvpn" THEN << <<"up", Project(i)>> >>
    ELSE LET units   == Units[rows[i].protocol]
             Do(verb) == [k \in DOMAIN units |-> <<verb, <<"unit", units[k]>>>>]
         IN  Do("enable") \o Do("restart")

-----------------------------------------------------------------------------
(* Services of the host. *)

\* What service s runs with when it is started on behalf of instance i.
Loaded(s, i) ==
    IF s[1] = "project" THEN {files[f] : f \in ComposeFiles \X {i}}
    ELSE {files[f] : f \in ReadBy[s[2]] \X {None}}

\* Seeded fault: what is running is left alone by every command.
AfterLazy(verb, s, i) ==
    IF running[s] # {} THEN running[s] ELSE Loaded(s, i)

\* enable --now leaves a running unit alone; restart and up do not.
After(verb, s, i) ==
    IF verb = "enable" /\ running[s] # {} THEN running[s] ELSE Loaded(s, i)

-----------------------------------------------------------------------------

Init ==
    /\ rows = [i \in Ids |-> None]
    /\ manifests = {} /\ vault = {}
    /\ clients = [c \in Clients |-> None]
    /\ gate \in BOOLEAN
    /\ files = [f \in Paths |-> None]
    /\ rules = [i \in Ids |-> 0]
    /\ running = [s \in Services |-> {}]
    /\ job = [w \in Workers |-> None]

\* Seeded fault: a secret that cannot be inserted is passed over.
CommittedLoosely(refs) == SUBSET refs

\* A transaction leaves all the secrets it inserts, or it is rolled back and
\* the request has no effect.
Committed(refs) == {refs}

\* The unique indexes on name, one for each of the two tables.
NameFree(n, ids) == \A i \in ids : rows[i] # None => rows[i].name # n

CreateInstanceDraft(i, n) ==
    /\ rows[i] = None /\ NameFree(n, OpenVpnIds)
    /\ \E names \in InstanceSecrets :
         /\ rows' = [rows EXCEPT ![i] =
              [protocol |-> "openvpn", name |-> n, enabled |-> FALSE,
               refs |-> {i} \X names]]
         /\ \E stored \in Committed({i} \X names) :
              vault' = vault \union stored
    /\ UNCHANGED <<manifests, clients, gate, host, job>>

CreateUserDraft(c, i) ==
    /\ clients[c] = None /\ rows[i] # None
    /\ clients' = [clients EXCEPT ![c] =
         [instance |-> i, refs |-> {c} \X ClientSecrets]]
    /\ \E stored \in Committed({c} \X ClientSecrets) :
         vault' = vault \union stored
    /\ UNCHANGED <<rows, manifests, gate, host, job>>

\* Updates the row that is there or inserts one: the same text either way.
GenerateRuntimeManifest(i) ==
    /\ rows[i] # None
    /\ manifests' = manifests \union {i}
    /\ UNCHANGED <<rows, clients, vault, gate, host, job>>

CreateLegacyInstanceDraft(i, p, n) ==
    /\ rows[i] = None /\ NameFree(n, LegacyIds)
    /\ rows' = [rows EXCEPT ![i] =
         [protocol |-> p, name |-> n, enabled |-> FALSE, refs |-> {}]]
    /\ UNCHANGED <<manifests, clients, vault, gate, host, job>>

-----------------------------------------------------------------------------
(* Applying an instance. *)

\* Seeded fault: the toggle is not asked.
MayApplyUngated(i) ==
    /\ rows[i] # None
    /\ rows[i].protocol = "openvpn" => i \in manifests

\* Seeded fault: a missing manifest goes unnoticed.
MayApplyNoManifest(i) == rows[i] # None /\ gate

\* What Apply looks at before it touches the host.
MayApply(i) ==
    /\ rows[i] # None
    /\ rows[i].protocol = "openvpn" => i \in manifests
    /\ gate

StartApply(w, i) ==
    /\ job[w] = None /\ MayApply(i)
    /\ job' = [job EXCEPT ![w] =
         [id |-> i, todo |-> FilesOf(i), firewall |-> TRUE,
          left |-> RuntimeCommands(i)]]
    /\ UNCHANGED <<rows, manifests, clients, vault, gate, host>>

\* Seeded fault: exit codes are ignored.
GoOnAnyway(w, ok, next) == job' = [job EXCEPT ![w] = next]

\* A step of the apply: the request goes on as next, or it is answered with the
\* error and whatever was done so far stays.
GoOn(w, ok, next) == job' = [job EXCEPT ![w] = IF ok THEN next ELSE None]

\* The files come out of a Go map in any order; WriteFile truncates first.
WriteFile(w) ==
    /\ job[w] # None
    /\ \E f \in job[w].todo, ok \in BOOLEAN :
         /\ files' \in {[files EXCEPT ![f] = x] :
                         x \in IF ok THEN {job[w].id} ELSE {files[f], None}}
         /\ GoOn(w, ok, [job[w] EXCEPT !.todo = @ \ {f}])
    /\ UNCHANGED <<rows, manifests, clients, vault, gate, rules, running>>

\* Seeded fault: the rules are counted afresh at every apply.
InstallRulesAgain(w) ==
    /\ job[w] # None /\ job[w].todo = {} /\ job[w].firewall
    /\ rules' = [rules EXCEPT ![job[w].id] = @ + RuleCount]
    /\ GoOn(w, TRUE, [job[w] EXCEPT !.firewall = FALSE])
    /\ UNCHANGED <<rows, manifests, clients, vault, gate, files, running>>

\* The iptables commands, up to the first that fails.  One cut short by its
\* timeout may have added its rule all the same.
InstallRules(w) ==
    /\ job[w] # None /\ job[w].todo = {} /\ job[w].firewall
    /\ \E n \in 0..RuleCount, ok \in BOOLEAN :
         /\ ok => n = RuleCount
         /\ rules' = [rules EXCEPT ![job[w].id] = IF n > @ THEN n ELSE @]
         /\ GoOn(w, ok, [job[w] EXCEPT !.firewall = FALSE])
    /\ UNCHANGED <<rows, manifests, clients, vault, gate, files, running>>

\* One docker or systemctl command.  Failing, it may have done nothing, all of
\* its work, or have stopped the service and not started it.
RunCommand(w) ==
    /\ job[w] # None /\ job[w].todo = {} /\ ~job[w].firewall
    /\ job[w].left # <<>>
    /\ LET verb == Head(job[w].left)[1]
           s    == Head(job[w].left)[2]
           new  == After(verb, s, job[w].id)
       IN  \E ok \in BOOLEAN :
             /\ \E x \in IF ok THEN {new} ELSE {new, running[s], {}} :
                  running' = [running EXCEPT ![s] = x]
             /\ GoOn(w, ok, [job[w] EXCEPT !.left = Tail(@)])
    /\ UNCHANGED <<rows, manifests, clients, vault, gate, files, rules>>

\* Everything on the host has succeeded and the request will say so.
Done(w) ==
    /\ job[w] # None
    /\ job[w].todo = {} /\ ~job[w].firewall /\ job[w].left = <<>>

\* The row is saved as enabled; failing that is a warning of the answer.
Activate(w) ==
    /\ Done(w)
    /\ \E saved \in BOOLEAN :
         rows' = IF saved THEN [rows EXCEPT ![job[w].id].enabled = TRUE]
                 ELSE rows
    /\ job' = [job EXCEPT ![w] = None]
    /\ UNCHANGED <<manifests, clients, vault, gate, host>>

\* The process ends and is started again, its requests lost and its environment
\* read anew.
RestartPanel(g) ==
    /\ gate' = g
    /\ job' = [w \in Workers |-> None]
    /\ UNCHANGED <<rows, manifests, clients, vault, host>>

\* The host reboots as well: the rules are gone, a container is started again
\* as it was, a unit from the files as they are, or either stays down.  The
\* panel applies nothing again.
AtBoot(s) == IF s[1] = "project" THEN running[s] ELSE Loaded(s, None)

Reboot ==
    /\ job' = [w \in Workers |-> None]
    /\ rules' = [i \in Ids |-> 0]
    /\ \E up \in SUBSET Services :
         running' = [s \in Services |->
                       IF s \in up THEN AtBoot(s) ELSE {}]
    /\ UNCHANGED <<rows, manifests, clients, vault, gate, files>>

Request ==
    \/ \E i \in OpenVpnIds, n \in Names : CreateInstanceDraft(i, n)
    \/ \E c \in Clients, i \in OpenVpnIds : CreateUserDraft(c, i)
    \/ \E i \in OpenVpnIds : GenerateRuntimeManifest(i)
    \/ \E i \in LegacyIds, p \in LegacyProtocols, n \in Names :
         CreateLegacyInstanceDraft(i, p, n)

Apply(w) ==
    \/ \E i \in Ids : StartApply(w, i)
    \/ WriteFile(w) \/ InstallRules(w) \/ RunCommand(w) \/ Activate(w)

Next ==
    \/ Request
    \/ \E w \in Workers : Apply(w)
    \/ \E g \in BOOLEAN : RestartPanel(g)
    \/ Reboot

Spec == Init /\ [][Next]_vars

-----------------------------------------------------------------------------
(* Properties. *)

Job == [id : Ids, todo : SUBSET Paths, firewall : BOOLEAN,
        left : Seq(Command)]

TypeOK ==
    /\ rows \in [Ids -> Row \union {None}]
    /\ manifests \subseteq OpenVpnIds
    /\ clients \in [Clients -> [instance : OpenVpnIds,
                                refs : SUBSET (Clients \X ClientSecrets)]
                               \union {None}]
    /\ vault \subseteq (Ids \union Clients) \X SecretNames
    /\ gate \in BOOLEAN
    /\ files \in [Paths -> Ids \union {None}]
    /\ rules \in [Ids -> 0..RuleCount]
    /\ running \in [Services -> SUBSET (Ids \union {None})]
    /\ job \in [Workers -> Job \union {None}]

ASSUME NoneIsNoRecord ==
    None \notin Row \union Job \union [instance : OpenVpnIds,
                                      refs : SUBSET (Clients \X ClientSecrets)]

\* Each reference a row carries names a secret that is stored, and each secret
\* stored is named by a row: CreateInstanceDraft and CreateUserDraft leave no
\* row without its key material and no material without a row.
RefsAreStored ==
    vault = (UNION {rows[i].refs : i \in {j \in Ids : rows[j] # None}})
              \union (UNION {clients[c].refs : c \in {d \in Clients : clients[d] # None}})

\* While VPN_EXECUTION_ENABLED is off no file of the host is written and no
\* rule is added, whatever requests arrive and whatever was under way when it
\* was turned off.
GateKeepsHost ==
    [][~gate => /\ files' = files
                /\ \A i \in Ids : rules'[i] <= rules[i]]_vars

\* An instance turns from draft to enabled only when all its firewall rules are
\* in place, for OpenVPN with a manifest: a failed apply, a restart in the
\* middle of one, or the apply of another instance never enables it.
EnabledOnlyApplied ==
    [][\A i \in Ids :
         /\ rows'[i] # None /\ rows'[i].enabled
         /\ rows[i] = None \/ ~rows[i].enabled
         => /\ rules[i] = RuleCount
            /\ rows'[i].protocol = "openvpn" => i \in manifests]_vars
=============================================================================
