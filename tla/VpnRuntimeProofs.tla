-------------------------- MODULE VpnRuntimeProofs --------------------------
(***************************************************************************)
(* Theorems of VpnRuntime and VpnHistory, for any number of instances,     *)
(* requests and clients, any names and any rendering of them.              *)
(***************************************************************************)
EXTENDS VpnHistory, SequenceTheorems, TLAPS

RowsTyped == rows \in [Ids -> Row \union {None}]
RulesTyped == rules \in [Ids -> 0..RuleCount]

Record(i, t, f, l) == [id |-> i, todo |-> t, firewall |-> f, left |-> l]

\* An apply under way is of an instance that may be applied, in a process whose
\* execution is on, and past its firewall step it has all rules in place.
Underway(j) ==
    /\ j = Record(j.id, j.todo, j.firewall, j.left)
    /\ j.id \in Ids /\ j.firewall \in BOOLEAN
    /\ MayApply(j.id)
    /\ ~j.firewall => rules[j.id] = RuleCount

JobsSound ==
    /\ job = [w \in Workers |-> job[w]]
    /\ \A w \in Workers : job[w] # None => Underway(job[w])

VInv == RowsTyped /\ RulesTyped /\ JobsSound

-----------------------------------------------------------------------------

\* The empty tables and a host without rules satisfy the invariant.
LEMMA InitVInv == Init => VInv
BY IdsDistinct DEF Init, VInv, RowsTyped, RulesTyped, JobsSound

\* A request that only adds rows or manifests disturbs no apply.
LEMMA Grown ==
    ASSUME VInv, RowsTyped',
           \A i \in Ids : rows[i] # None => rows'[i] = rows[i],
           manifests \subseteq manifests',
           UNCHANGED <<gate, rules, job>>
    PROVE  VInv'
BY DEF VInv, RulesTyped, JobsSound, Underway, MayApply

\* The three draft handlers and the manifest handler keep the invariant.
LEMMA RequestVInv == VInv /\ Request => VInv'
<1> SUFFICES ASSUME VInv, Request PROVE VInv'
  OBVIOUS
<1>1. CASE \E i \in OpenVpnIds, n \in Names : CreateInstanceDraft(i, n)
  <2>1. PICK i \in OpenVpnIds, n \in Names : CreateInstanceDraft(i, n)
    BY <1>1
  <2>2. PICK names \in InstanceSecrets : rows' = [rows EXCEPT ![i] =
              [protocol |-> "openvpn", name |-> n, enabled |-> FALSE,
               refs |-> {i} \X names]]
    BY <2>1 DEF CreateInstanceDraft
  <2>3. {i} \X names \in SUBSET (Ids \X SecretNames)
    BY <2>2 DEF Ids, SecretNames
  <2>4. [protocol |-> "openvpn", name |-> n, enabled |-> FALSE,
         refs |-> {i} \X names] \in Row
    BY <2>3 DEF Row
  <2>5. RowsTyped'
    BY <2>2, <2>4 DEF VInv, RowsTyped, Ids
  <2>6. \A k \in Ids : rows[k] # None => rows'[k] = rows[k]
    BY <2>1, <2>2 DEF CreateInstanceDraft, VInv, RowsTyped
  <2> QED BY <2>1, <2>5, <2>6, Grown DEF CreateInstanceDraft, host
<1>2. CASE \E c \in Clients, i \in OpenVpnIds : CreateUserDraft(c, i)
  BY <1>2, Grown DEF CreateUserDraft, host, VInv, RowsTyped
<1>3. CASE \E i \in OpenVpnIds : GenerateRuntimeManifest(i)
  BY <1>3, Grown DEF GenerateRuntimeManifest, host, VInv, RowsTyped
<1>4. CASE \E i \in LegacyIds, p \in LegacyProtocols, n \in Names :
             CreateLegacyInstanceDraft(i, p, n)
  <2>1. PICK i \in LegacyIds, p \in LegacyProtocols, n \in Names :
           CreateLegacyInstanceDraft(i, p, n)
    BY <1>4
  <2>2. [protocol |-> p, name |-> n, enabled |-> FALSE, refs |-> {}] \in Row
    BY DEF Row
  <2>3. RowsTyped'
    BY <2>1, <2>2 DEF CreateLegacyInstanceDraft, VInv, RowsTyped, Ids
  <2>4. \A k \in Ids : rows[k] # None => rows'[k] = rows[k]
    BY <2>1 DEF CreateLegacyInstanceDraft, VInv, RowsTyped
  <2> QED BY <2>1, <2>3, <2>4, Grown DEF CreateLegacyInstanceDraft, host
<1> QED BY <1>1, <1>2, <1>3, <1>4 DEF Request

\* A worker that goes on or ends, while the applies of the others stay sound.
LEMMA Stepped ==
    ASSUME VInv, RowsTyped', RulesTyped', NEW w \in Workers, NEW j,
           job' = [job EXCEPT ![w] = j],
           j # None => Underway(j)',
           \A i \in Ids : MayApply(i) => MayApply(i)',
           \A i \in Ids : rules[i] = RuleCount => rules'[i] = RuleCount
    PROVE  VInv'
<1>1. ASSUME NEW v \in Workers, job'[v] # None PROVE Underway(job[v])'
  <2>1. CASE v = w
    BY <1>1, <2>1 DEF VInv, JobsSound
  <2>2. CASE v # w
    <3>1. job'[v] = job[v] /\ Underway(job[v])
      BY <1>1, <2>2 DEF VInv, JobsSound
    <3> QED BY <3>1 DEF Underway
  <2> QED BY <2>1, <2>2
<1> QED BY <1>1 DEF VInv, JobsSound

\* The fields of an apply after one of them is given a new value.
LEMMA ApplyFields ==
    ASSUME NEW j, j = Record(j.id, j.todo, j.firewall, j.left), NEW x
    PROVE  /\ [j EXCEPT !.todo = x] = Record(j.id, x, j.firewall, j.left)
           /\ [j EXCEPT !.left = x] = Record(j.id, j.todo, j.firewall, x)
           /\ [j EXCEPT !.firewall = x] = Record(j.id, j.todo, x, j.left)
<1> SUFFICES ASSUME NEW i, NEW t, NEW f, NEW l, j = Record(i, t, f, l)
             PROVE  /\ [j EXCEPT !.todo = x] = Record(i, x, f, l)
                    /\ [j EXCEPT !.left = x] = Record(i, t, f, x)
                    /\ [j EXCEPT !.firewall = x] = Record(i, t, x, l)
  OBVIOUS
<1>1. [j EXCEPT !.todo = x] = Record(i, x, f, l)
  BY DEF Record
<1>2. [j EXCEPT !.left = x] = Record(i, t, f, x)
  BY DEF Record
<1>3. [j EXCEPT !.firewall = x] = Record(i, t, x, l)
  BY DEF Record
<1> QED BY <1>1, <1>2, <1>3

\* The fields of an apply are what it was built from.
LEMMA RecordFields ==
    ASSUME NEW i, NEW t, NEW f, NEW l
    PROVE  /\ Record(i, t, f, l).id = i
           /\ Record(i, t, f, l).todo = t
           /\ Record(i, t, f, l).firewall = f
           /\ Record(i, t, f, l).left = l
BY DEF Record

\* What a file or a command leaves of an apply is an apply as sound as before.
LEMMA SameApply ==
    ASSUME NEW j, Underway(j), NEW x
    PROVE  /\ Underway([j EXCEPT !.todo = x])
           /\ Underway([j EXCEPT !.left = x])
<1>1. Underway(Record(j.id, x, j.firewall, j.left))
  BY RecordFields DEF Underway
<1>2. Underway(Record(j.id, j.todo, j.firewall, x))
  BY RecordFields DEF Underway
<1> QED BY <1>1, <1>2, ApplyFields DEF Underway

\* Saving an instance as enabled changes nothing else of any row.
LEMMA Enabled ==
    ASSUME RowsTyped, NEW i \in Ids, rows[i] # None,
           \/ rows' = [rows EXCEPT ![i].enabled = TRUE]
           \/ rows' = rows
    PROVE  /\ RowsTyped'
           /\ \A k \in Ids : rows[k] # None =>
                /\ rows'[k] # None /\ rows'[k].protocol = rows[k].protocol
                /\ rows'[k].name = rows[k].name /\ rows'[k].refs = rows[k].refs
<1>1. CASE rows' = [rows EXCEPT ![i].enabled = TRUE]
  <2>1. rows[i] \in Row
    BY DEF RowsTyped
  <2>2. /\ [rows[i] EXCEPT !.enabled = TRUE] \in Row
        /\ [rows[i] EXCEPT !.enabled = TRUE].protocol = rows[i].protocol
        /\ [rows[i] EXCEPT !.enabled = TRUE].name = rows[i].name
        /\ [rows[i] EXCEPT !.enabled = TRUE].refs = rows[i].refs
    BY <2>1 DEF Row
  <2>3. rows' = [rows EXCEPT ![i] = [rows[i] EXCEPT !.enabled = TRUE]]
    BY <1>1
  <2> QED BY <2>2, <2>3, NoneIsNoRecord DEF RowsTyped
<1>2. CASE rows' = rows
  BY <1>2 DEF RowsTyped
<1> QED BY <1>1, <1>2

\* Every step of ApplyRuntime and ApplyLegacyInstance keeps the invariant.
LEMMA ApplyVInv == ASSUME NEW w \in Workers PROVE VInv /\ Apply(w) => VInv'
<1> SUFFICES ASSUME VInv, Apply(w) PROVE VInv'
  OBVIOUS
<1>1. ASSUME NEW i \in Ids, StartApply(w, i) PROVE VInv'
  <2>1. PICK j : /\ j = Record(i, FilesOf(i), TRUE, RuntimeCommands(i))
                 /\ job' = [job EXCEPT ![w] = j]
    BY <1>1 DEF StartApply, Record
  <2>2. MayApply(i) /\ UNCHANGED <<rows, manifests, gate, rules>>
    BY <1>1 DEF StartApply, host
  <2>3. \A k \in Ids : MayApply(k) => MayApply(k)'
    BY <2>2 DEF MayApply
  <2>4. j.id = i /\ j.firewall = TRUE /\ j = Record(j.id, j.todo, j.firewall, j.left)
    BY <2>1 DEF Record
  <2>5. Underway(j)'
    BY <2>2, <2>3, <2>4 DEF Underway
  <2> QED BY <2>1, <2>2, <2>3, <2>5, Stepped DEF VInv, RowsTyped, RulesTyped
<1>2. CASE WriteFile(w)
  <2>1. PICK f \in job[w].todo, ok \in BOOLEAN :
           GoOn(w, ok, [job[w] EXCEPT !.todo = @ \ {f}])
    BY <1>2 DEF WriteFile
  <2>2. job[w] # None /\ UNCHANGED <<rows, manifests, gate, rules>>
    BY <1>2 DEF WriteFile
  <2>3. Underway(job[w])
    BY <2>2 DEF VInv, JobsSound
  <2>4. Underway([job[w] EXCEPT !.todo = @ \ {f}])
    BY <2>3, SameApply
  <2>5. \A j : Underway(j) => Underway(j)'
    BY <2>2 DEF Underway, MayApply
  <2>6. \A k \in Ids : MayApply(k) => MayApply(k)'
    BY <2>2 DEF MayApply
  <2>7. CASE ok
    <3>1. job' = [job EXCEPT ![w] = [job[w] EXCEPT !.todo = @ \ {f}]]
      BY <2>1, <2>7 DEF GoOn
    <3> QED BY <3>1, <2>2, <2>4, <2>5, <2>6, Stepped DEF VInv, RowsTyped, RulesTyped
  <2>8. CASE ~ok
    <3>1. job' = [job EXCEPT ![w] = None]
      BY <2>1, <2>8 DEF GoOn
    <3> QED BY <3>1, <2>2, <2>6, Stepped DEF VInv, RowsTyped, RulesTyped
  <2> QED BY <2>7, <2>8
<1>3. CASE InstallRules(w)
  <2>1. PICK n \in 0..RuleCount, ok \in BOOLEAN :
           /\ ok => n = RuleCount
           /\ rules' = [rules EXCEPT ![job[w].id] = IF n > @ THEN n ELSE @]
           /\ GoOn(w, ok, [job[w] EXCEPT !.firewall = FALSE])
    BY <1>3 DEF InstallRules
  <2>2. job[w] # None /\ UNCHANGED <<rows, manifests, gate>>
    BY <1>3 DEF InstallRules
  <2>3. Underway(job[w])
    BY <2>2 DEF VInv, JobsSound
  <2>4. /\ RulesTyped'
        /\ \A k \in Ids : rules[k] = RuleCount => rules'[k] = RuleCount
        /\ ok => rules'[job[w].id] = RuleCount
    BY <2>1, <2>3, IdsDistinct DEF VInv, RulesTyped, Underway
  <2>5. \A k \in Ids : MayApply(k) => MayApply(k)'
    BY <2>2 DEF MayApply
  <2>6. CASE ok
    <3>1. PICK j : j = [job[w] EXCEPT !.firewall = FALSE]
      OBVIOUS
    <3>2. j.id = job[w].id /\ j = Record(j.id, j.todo, j.firewall, j.left)
            /\ j.firewall = FALSE
      <4>1. j = Record(job[w].id, job[w].todo, FALSE, job[w].left)
        BY <2>3, <3>1, ApplyFields DEF Underway
      <4>2. /\ j.id = job[w].id /\ j.todo = job[w].todo
            /\ j.firewall = FALSE /\ j.left = job[w].left
        BY <4>1 DEF Record
      <4> QED BY <4>1, <4>2
    <3>3. Underway(j)'
      BY <2>3, <2>4, <2>5, <2>6, <3>2 DEF Underway
    <3>4. job' = [job EXCEPT ![w] = j]
      BY <2>1, <2>6, <3>1 DEF GoOn
    <3> QED BY <3>3, <3>4, <2>2, <2>4, <2>5, Stepped DEF VInv, RowsTyped
  <2>7. CASE ~ok
    <3>1. job' = [job EXCEPT ![w] = None]
      BY <2>1, <2>7 DEF GoOn
    <3> QED BY <3>1, <2>2, <2>4, <2>5, Stepped DEF VInv, RowsTyped
  <2> QED BY <2>6, <2>7
<1>4. CASE RunCommand(w)
  <2>1. PICK ok \in BOOLEAN : GoOn(w, ok, [job[w] EXCEPT !.left = Tail(@)])
    BY <1>4 DEF RunCommand
  <2>2. job[w] # None /\ UNCHANGED <<rows, manifests, gate, rules>>
    BY <1>4 DEF RunCommand
  <2>3. Underway(job[w])
    BY <2>2 DEF VInv, JobsSound
  <2>4. Underway([job[w] EXCEPT !.left = Tail(@)])
    BY <2>3, SameApply
  <2>5. \A j : Underway(j) => Underway(j)'
    BY <2>2 DEF Underway, MayApply
  <2>6. \A k \in Ids : MayApply(k) => MayApply(k)'
    BY <2>2 DEF MayApply
  <2>7. CASE ok
    <3>1. job' = [job EXCEPT ![w] = [job[w] EXCEPT !.left = Tail(@)]]
      BY <2>1, <2>7 DEF GoOn
    <3> QED BY <3>1, <2>2, <2>4, <2>5, <2>6, Stepped DEF VInv, RowsTyped, RulesTyped
  <2>8. CASE ~ok
    <3>1. job' = [job EXCEPT ![w] = None]
      BY <2>1, <2>8 DEF GoOn
    <3> QED BY <3>1, <2>2, <2>6, Stepped DEF VInv, RowsTyped, RulesTyped
  <2> QED BY <2>7, <2>8
<1>5. CASE Activate(w)
  <2>1. /\ job[w] # None /\ job' = [job EXCEPT ![w] = None]
        /\ \/ rows' = [rows EXCEPT ![job[w].id].enabled = TRUE]
           \/ rows' = rows
        /\ UNCHANGED <<manifests, gate, rules>>
    BY <1>5 DEF Activate, Done, host
  <2>2. job[w].id \in Ids /\ rows[job[w].id] # None
    BY <2>1 DEF VInv, JobsSound, Underway, MayApply
  <2>3. RowsTyped' /\ \A k \in Ids : rows[k] # None =>
          rows'[k] # None /\ rows'[k].protocol = rows[k].protocol
    BY <2>1, <2>2, Enabled DEF VInv
  <2>4. \A k \in Ids : MayApply(k) => MayApply(k)'
    BY <2>1, <2>3 DEF MayApply
  <2> QED BY <2>1, <2>3, <2>4, Stepped DEF VInv, RulesTyped
<1> QED BY <1>1, <1>2, <1>3, <1>4, <1>5 DEF Apply

\* At all times what an apply in flight has checked is still so, and past its
\* firewall step it has all its rules.
THEOREM VInvHolds == Spec => []VInv
<1>1. VInv /\ [Next]_vars => VInv'
  <2> SUFFICES ASSUME VInv, [Next]_vars PROVE VInv'
    OBVIOUS
  <2>1. ASSUME NEW w \in Workers, Apply(w) PROVE VInv'
    BY <2>1, ApplyVInv
  <2>2. ASSUME NEW g \in BOOLEAN, RestartPanel(g) PROVE VInv'
    BY <2>2 DEF RestartPanel, host, VInv, RowsTyped, RulesTyped, JobsSound
  <2>3. CASE Reboot
    BY <2>3, IdsDistinct DEF Reboot, VInv, RowsTyped, RulesTyped, JobsSound
  <2>4. CASE UNCHANGED vars
    BY <2>4 DEF vars, host, VInv, RowsTyped, RulesTyped, JobsSound, Underway,
                MayApply
  <2> QED BY <2>1, <2>2, <2>3, <2>4, RequestVInv DEF Next
<1> QED BY <1>1, InitVInv, PTL DEF Spec

-----------------------------------------------------------------------------

\* While VPN_EXECUTION_ENABLED is off no file of the host is written and no rule
\* is added: what is under way was started with it on, by the same process.
THEOREM GateAlwaysKeepsHost == Spec => GateKeepsHost
<1> DEFINE A == ~gate => /\ files' = files
                         /\ \A i \in Ids : rules'[i] <= rules[i]
<1>1. VInv /\ [Next]_vars => [A]_vars
  <2> SUFFICES ASSUME VInv, Next, ~gate PROVE A
    BY DEF VInv
  <2>1. \A w \in Workers : job[w] = None
    BY DEF VInv, JobsSound, Underway, MayApply
  <2>2. \A i \in Ids : rules[i] \in Nat /\ rules[i] <= rules[i] /\ 0 <= rules[i]
    BY IdsDistinct DEF VInv, RulesTyped
  <2>3. ASSUME NEW w \in Workers, Apply(w) PROVE A
    BY <2>1, <2>2, <2>3 DEF Apply, StartApply, MayApply, WriteFile, InstallRules,
                            RunCommand, Activate, Done
  <2>4. CASE Request
    BY <2>2, <2>4 DEF Request, CreateInstanceDraft, CreateUserDraft,
                      GenerateRuntimeManifest, CreateLegacyInstanceDraft, host
  <2>5. ASSUME NEW g \in BOOLEAN, RestartPanel(g) PROVE A
    BY <2>2, <2>5 DEF RestartPanel, host
  <2>6. CASE Reboot
    BY <2>2, <2>6 DEF Reboot
  <2> QED BY <2>3, <2>4, <2>5, <2>6 DEF Next
<1> QED BY <1>1, VInvHolds, PTL DEF Spec, GateKeepsHost

\* A draft becomes enabled only with all its firewall rules in place and, for
\* OpenVPN, a manifest to apply: no failure, restart or other apply enables it.
THEOREM EnabledAlwaysApplied == Spec => EnabledOnlyApplied
<1> DEFINE A == \A i \in Ids :
         /\ rows'[i] # None /\ rows'[i].enabled
         /\ rows[i] = None \/ ~rows[i].enabled
         => /\ rules[i] = RuleCount
            /\ rows'[i].protocol = "openvpn" => i \in manifests
<1>1. VInv /\ [Next]_vars => [A]_vars
  <2> SUFFICES ASSUME VInv, Next PROVE A
    OBVIOUS
  <2>1. CASE rows' = rows
    BY <2>1
  <2>2. CASE \E i \in Ids : \E r : ~r.enabled /\ rows' = [rows EXCEPT ![i] = r]
    BY <2>2 DEF VInv, RowsTyped
  <2>3. ASSUME NEW w \in Workers, Activate(w) PROVE A
    <3>1. job[w] # None /\ ~job[w].firewall
      BY <2>3 DEF Activate, Done
    <3>2. /\ job[w].id \in Ids /\ rules[job[w].id] = RuleCount
          /\ rows[job[w].id] # None
          /\ rows[job[w].id].protocol = "openvpn" => job[w].id \in manifests
      BY <3>1 DEF VInv, JobsSound, Underway, MayApply
    <3>3. \/ rows' = [rows EXCEPT ![job[w].id].enabled = TRUE]
          \/ rows' = rows
      BY <2>3 DEF Activate
    <3>4. rows'[job[w].id].protocol = rows[job[w].id].protocol
      BY <3>2, <3>3, Enabled DEF VInv
    <3>5. \A i \in Ids \ {job[w].id} : rows'[i] = rows[i]
      BY <3>3 DEF VInv, RowsTyped
    <3> QED BY <3>2, <3>4, <3>5
  <2>4. CASE Request
    <3>1. ASSUME NEW i \in OpenVpnIds, NEW n \in Names, CreateInstanceDraft(i, n)
          PROVE  A
      BY <2>2, <3>1 DEF CreateInstanceDraft, Ids
    <3>2. ASSUME NEW i \in LegacyIds, NEW p \in LegacyProtocols, NEW n \in Names,
                 CreateLegacyInstanceDraft(i, p, n)
          PROVE  A
      BY <2>2, <3>2 DEF CreateLegacyInstanceDraft, Ids
    <3> QED BY <2>1, <2>4, <3>1, <3>2
            DEF Request, CreateUserDraft, GenerateRuntimeManifest
  <2> QED BY <2>1, <2>3, <2>4 DEF Next, Apply, StartApply, WriteFile,
                                  InstallRules, RunCommand, RestartPanel, Reboot
<1> QED BY <1>1, VInvHolds, PTL DEF Spec, EnabledOnlyApplied
-----------------------------------------------------------------------------
(* What an apply is made of *)

\* A function on 1 to n is a sequence of length n.
LEMMA Listed ==
    ASSUME NEW S, NEW n \in Nat, NEW f \in [1..n -> S]
    PROVE  f \in Seq(S) /\ Len(f) = n
  OBVIOUS

\* So are one element or two of a set.
LEMMA Short ==
    ASSUME NEW S, NEW x \in S
    PROVE  <<x>> \in Seq(S) /\ \A y \in S : <<x, y>> \in Seq(S)
  OBVIOUS

\* Two sequences of the same length, one after the other.
LEMMA Joined ==
    ASSUME NEW S, NEW n \in Nat, NEW a \in Seq(S), NEW b \in Seq(S), Len(a) = n, Len(b) = n
    PROVE  /\ a \o b \in Seq(S) /\ Len(a \o b) = n + n
           /\ \A k \in 1..n : (a \o b)[k] = a[k]
           /\ \A k \in 1..n : (a \o b)[n + k] = b[k]
<1>1. \A k \in 1..n : k \in 1..(n + n) /\ n + k \in 1..(n + n) /\ ~(n + k <= n) /\ (n + k) - n = k
  OBVIOUS
<1> QED BY <1>1, ConcatProperties

\* The units of a protocol: one for each command that is due.
LEMMA UnitsOf ==
    ASSUME NEW p \in LegacyProtocols
    PROVE  /\ Units[p] \in Seq(UnitNames)
           /\ \A k \in DOMAIN Units[p] :
                Units[p][k] \in DOMAIN ReadBy /\ ReadBy[Units[p][k]] \subseteq ConfigFiles[p]
           /\ \A k \in DOMAIN Units[p] : ReadBy[Units[p][k]] # {}
<1>1. p \in {"l2tp_ipsec", "sstp", "pptp"}
  BY IdsDistinct
<1>2. Units[p] \in {<<"ipsec", "xl2tpd">>, <<"sstpd">>, <<"pptpd">>}
  BY <1>1 DEF Units
<1>3. \A k \in DOMAIN Units[p] : Units[p][k] \in UnitNames
  BY DEF UnitNames
<1>4. Units[p] \in Seq(UnitNames)
  <2> DEFINE u == Units[p]
  <2>1. PICK x, y : u = <<x, y>> \/ u = <<x>>
    BY <1>2
  <2>2. CASE u = <<x, y>>
    <3>1. x = u[1] /\ y = u[2] /\ 1 \in DOMAIN u /\ 2 \in DOMAIN u
      BY <2>2
    <3> QED BY <1>3, <2>2, <3>1, Short
  <2>3. CASE u = <<x>>
    <3>1. x = u[1] /\ 1 \in DOMAIN u
      BY <2>3
    <3> QED BY <1>3, <2>3, <3>1, Short
  <2> QED BY <2>1, <2>2, <2>3
<1>5. \A k \in DOMAIN Units[p] :
        /\ Units[p][k] \in DOMAIN ReadBy /\ ReadBy[Units[p][k]] \subseteq ConfigFiles[p]
        /\ ReadBy[Units[p][k]] # {}
  <2>1. CASE p = "l2tp_ipsec"
    BY <2>1 DEF Units, ReadBy, ConfigFiles
  <2>2. CASE p = "sstp"
    BY <2>2 DEF Units, ReadBy, ConfigFiles
  <2>3. CASE p = "pptp"
    BY <2>3 DEF Units, ReadBy, ConfigFiles
  <2> QED BY <1>1, <2>1, <2>2, <2>3
<1> QED BY <1>4, <1>5

\* What a service is started on behalf of: every command is about a service of the
\* instance, and every service of it is brought up or restarted.
LEMMA CommandsOf ==
    ASSUME RowsTyped, NEW i \in Ids, rows[i] # None
    PROVE  LET c == RuntimeCommands(i)
           IN  /\ c \in Seq(Command)
               /\ \A k \in 1..Len(c) : c[k][2] \in ServicesOf(i)
               /\ \A s \in ServicesOf(i) : \E k \in 1..Len(c) : c[k][1] # "enable" /\ c[k][2] = s
<1> DEFINE p == rows[i].protocol
<1>1. p \in LegacyProtocols \union {"openvpn"} /\ rows[i].name \in Names
  BY DEF RowsTyped, Row
<1>2. CASE p = "openvpn"
  <2>1. Project(i) \in Services
    BY <1>1 DEF Project, Services
  <2>2. RuntimeCommands(i) = << <<"up", Project(i)>> >> /\ ServicesOf(i) = {Project(i)}
    BY <1>2 DEF RuntimeCommands, ServicesOf
  <2>3. <<"up", Project(i)>> \in Command
    BY <2>1 DEF Command
  <2> HIDE DEF Project
  <2> QED BY <2>2, <2>3
<1>3. CASE p # "openvpn"
  <2> DEFINE units == Units[p]
             Do(verb) == [k \in DOMAIN units |-> <<verb, <<"unit", units[k]>>>>]
             n == Len(units)
  <2>1. /\ units \in Seq(UnitNames) /\ n \in Nat
        /\ DOMAIN units = 1..n /\ \A k \in 1..n : units[k] \in UnitNames
    BY <1>1, <1>3, UnitsOf
  <2>2. RuntimeCommands(i) = Do("enable") \o Do("restart")
    BY <1>3 DEF RuntimeCommands
  <2>3. ServicesOf(i) = {<<"unit", units[k]>> : k \in 1..n}
    BY <1>3, <2>1 DEF ServicesOf
  <2>4. \A k \in 1..n : <<"unit", units[k]>> \in Services
    BY <2>1 DEF Services
  <2>5. \A verb \in {"enable", "restart"} :
          /\ Do(verb) \in Seq(Command) /\ Len(Do(verb)) = n
          /\ \A k \in 1..n : Do(verb)[k] = <<verb, <<"unit", units[k]>>>>
    <3>1. ASSUME NEW verb \in {"enable", "restart"}
          PROVE  /\ Do(verb) \in [1..n -> Command]
                 /\ \A k \in 1..n : Do(verb)[k] = <<verb, <<"unit", units[k]>>>>
      BY <2>1, <2>4 DEF Command
    <3> HIDE DEF Do, n
    <3> QED BY <2>1, <3>1, Listed
  <2> DEFINE a == Do("enable")
             b == Do("restart")
             c == a \o b
  <2>11. RuntimeCommands(i) = c
    BY <2>2
  <2>6. /\ a \in Seq(Command) /\ Len(a) = n /\ b \in Seq(Command) /\ Len(b) = n
        /\ \A k \in 1..n : a[k] = <<"enable", <<"unit", units[k]>>>>
        /\ \A k \in 1..n : b[k] = <<"restart", <<"unit", units[k]>>>>
    BY <2>5
  <2> HIDE DEF a, b
  <2>7. /\ c \in Seq(Command) /\ Len(c) = n + n
        /\ \A k \in 1..n : c[k] = a[k] /\ c[n + k] = b[k]
    <3> HIDE DEF n, units
    <3>1. n \in Nat /\ a \in Seq(Command) /\ b \in Seq(Command) /\ Len(a) = n /\ Len(b) = n
      BY <2>1, <2>6
    <3> QED BY <3>1, Joined
  <2> HIDE DEF c, n
  <2>8. \A k \in 1..(n + n) : k \in 1..n \/ \E m \in 1..n : k = n + m
    <3>1. \A k \in 1..(n + n) : k \in 1..n \/ (k - n \in 1..n /\ k = n + (k - n))
      BY <2>1
    <3> QED BY <3>1
  <2>9. \A k \in 1..Len(c) : c[k][2] \in ServicesOf(i)
    <3>1. ASSUME NEW m \in 1..n
          PROVE  c[m][2] \in ServicesOf(i) /\ c[n + m][2] \in ServicesOf(i)
      <4> DEFINE s == <<"unit", units[m]>>
      <4>1. s \in ServicesOf(i)
        BY <2>3
      <4>2. c[m] = <<"enable", s>> /\ c[n + m] = <<"restart", s>>
        BY <2>6, <2>7
      <4> HIDE DEF s
      <4> QED BY <4>1, <4>2
    <3> QED BY <2>7, <2>8, <3>1
  <2>10. \A s \in ServicesOf(i) : \E k \in 1..Len(c) : c[k][1] # "enable" /\ c[k][2] = s
    <3>1. \A m \in 1..n : n + m \in 1..(n + n)
      BY <2>1
    <3>2. \A m \in 1..n : c[n + m] = <<"restart", <<"unit", units[m]>>>>
      BY <2>6, <2>7
    <3> QED BY <2>3, <2>7, <3>1, <3>2
  <2> QED BY <2>9, <2>10, <2>11, <2>7
<1> QED BY <1>2, <1>3
-----------------------------------------------------------------------------
(* Type correctness *)

HostTyped ==
    /\ manifests \subseteq OpenVpnIds
    /\ clients \in [Clients -> [instance : OpenVpnIds,
                                refs : SUBSET (Clients \X ClientSecrets)]
                               \union {None}]
    /\ vault \subseteq (Ids \union Clients) \X SecretNames
    /\ gate \in BOOLEAN
    /\ files \in [Paths -> Ids \union {None}]
    /\ running \in [Services -> SUBSET (Ids \union {None})]

\* An apply writes files of its instance and handles services of it, no others.
Planned(j) ==
    /\ j.todo \subseteq FilesOf(j.id)
    /\ j.left \in Seq(Command)
    /\ \A k \in 1..Len(j.left) : j.left[k][2] \in ServicesOf(j.id)

JobsPlanned == \A w \in Workers : job[w] # None => Planned(job[w])

TInv == HostTyped /\ JobsPlanned

\* No step changes what an instance is rendered to.
LEMMA RowsKept ==
    ASSUME VInv, Next, NEW i \in Ids, rows[i] # None
    PROVE  /\ rows'[i] # None /\ rows'[i].protocol = rows[i].protocol
           /\ rows'[i].name = rows[i].name
           /\ FilesOf(i)' = FilesOf(i) /\ ServicesOf(i)' = ServicesOf(i)
<1>1. /\ rows'[i] # None /\ rows'[i].protocol = rows[i].protocol
      /\ rows'[i].name = rows[i].name
  <2>1. CASE rows' = rows
    BY <2>1
  <2>2. CASE \E k \in Ids : rows[k] = None /\ \E r : rows' = [rows EXCEPT ![k] = r]
    BY <2>2 DEF VInv, RowsTyped
  <2>3. ASSUME NEW w \in Workers, Activate(w)
        PROVE  /\ rows'[i] # None /\ rows'[i].protocol = rows[i].protocol
               /\ rows'[i].name = rows[i].name
    <3>1. job[w] # None
      BY <2>3 DEF Activate, Done
    <3>2. job[w].id \in Ids /\ rows[job[w].id] # None
      BY <3>1 DEF VInv, JobsSound, Underway, MayApply
    <3>3. \/ rows' = [rows EXCEPT ![job[w].id].enabled = TRUE]
          \/ rows' = rows
      BY <2>3 DEF Activate
    <3> QED BY <3>2, <3>3, Enabled DEF VInv
  <2>4. CASE Request
    <3>1. CASE \E k \in OpenVpnIds, n \in Names : CreateInstanceDraft(k, n)
      BY <2>2, <3>1 DEF CreateInstanceDraft, Ids
    <3>2. CASE \E k \in LegacyIds, p \in LegacyProtocols, n \in Names :
                 CreateLegacyInstanceDraft(k, p, n)
      BY <2>2, <3>2 DEF CreateLegacyInstanceDraft, Ids
    <3> QED BY <2>1, <2>4, <3>1, <3>2
            DEF Request, CreateUserDraft, GenerateRuntimeManifest
  <2> QED BY <2>1, <2>3, <2>4 DEF Next, Apply, StartApply, WriteFile,
                                  InstallRules, RunCommand, RestartPanel, Reboot
<1> QED BY <1>1 DEF FilesOf, ServicesOf, Project

\* The files of an instance that may be applied have their paths.
LEMMA FilesHavePaths ==
    ASSUME RowsTyped, HostTyped, NEW i \in Ids, MayApply(i)
    PROVE  FilesOf(i) \subseteq Paths
<1>1. rows[i].protocol \in LegacyProtocols \union {"openvpn"}
  BY DEF RowsTyped, MayApply, Row
<1>2. rows[i].protocol = "openvpn" => i \in OpenVpnIds
  BY DEF MayApply, HostTyped
<1> QED BY <1>1, <1>2 DEF FilesOf, Paths

\* A service of an instance is known, and loads what the files of the instance hold.
LEMMA LoadsItsFiles ==
    ASSUME RowsTyped, NEW i \in Ids, rows[i] # None, NEW s \in ServicesOf(i)
    PROVE  /\ s \in Services
           /\ \E F \in SUBSET FilesOf(i) : F # {} /\ Loaded(s, i) = {files[f] : f \in F}
<1>1. rows[i].protocol \in LegacyProtocols \union {"openvpn"} /\ rows[i].name \in Names
  BY DEF RowsTyped, Row
<1>2. CASE rows[i].protocol = "openvpn"
  <2>1. s = Project(i)
    BY <1>2 DEF ServicesOf
  <2>2. s \in Services /\ s[1] = "project"
    BY <1>1, <2>1 DEF Project, Services
  <2>3. Loaded(s, i) = {files[f] : f \in ComposeFiles \X {i}}
    BY <2>2 DEF Loaded
  <2>4. ComposeFiles \X {i} \in SUBSET FilesOf(i)
    BY <1>2 DEF FilesOf
  <2>5. <<"server.conf", i>> \in ComposeFiles \X {i}
    BY DEF ComposeFiles
  <2> QED BY <2>2, <2>3, <2>4, <2>5
<1>3. CASE rows[i].protocol # "openvpn"
  <2> DEFINE p == rows[i].protocol
  <2>1. PICK k \in DOMAIN Units[p] : s = <<"unit", Units[p][k]>>
    BY <1>3 DEF ServicesOf
  <2> DEFINE u == Units[p][k]
  <2>2. /\ u \in UnitNames
        /\ ReadBy[u] \subseteq ConfigFiles[p] /\ ReadBy[u] # {}
    <3>1. p \in LegacyProtocols
      BY <1>1, <1>3
    <3> HIDE DEF p
    <3>2. u \in UnitNames
      BY <3>1 DEF UnitNames
    <3> QED BY <3>1, <3>2, UnitsOf
  <2> HIDE DEF u
  <2>3. s = <<"unit", u>> /\ s[1] = "unit" /\ s[2] = u
    BY <2>1 DEF u
  <2>4. s \in Services
    BY <2>2, <2>3 DEF Services
  <2>5. Loaded(s, i) = {files[f] : f \in ReadBy[u] \X {None}}
    BY <2>3 DEF Loaded
  <2>6. FilesOf(i) = ConfigFiles[p] \X {None}
    BY <1>3 DEF FilesOf
  <2>7. ReadBy[u] \X {None} \subseteq FilesOf(i)
    BY <2>2, <2>6
  <2>8. PICK x : x \in ReadBy[u]
    BY <2>2
  <2>9. <<x, None>> \in ReadBy[u] \X {None}
    BY <2>8
  <2> QED BY <2>4, <2>5, <2>7, <2>9
<1> QED BY <1>2, <1>3

\* What is left of an apply after one of its steps is planned as it was.
LEMMA StillPlanned ==
    ASSUME NEW j, Underway(j), Planned(j)
    PROVE  /\ \A f : Planned([j EXCEPT !.todo = @ \ {f}])
           /\ Planned([j EXCEPT !.firewall = FALSE])
           /\ j.left # <<>> => Planned([j EXCEPT !.left = Tail(@)])
<1>1. ASSUME NEW i, NEW t, NEW f, NEW l, t \subseteq FilesOf(i), l \in Seq(Command),
             \A k \in 1..Len(l) : l[k][2] \in ServicesOf(i)
      PROVE  Planned(Record(i, t, f, l))
  <2>1. PICK r : r = Record(i, t, f, l)
    OBVIOUS
  <2>2. r.id = i /\ r.todo = t /\ r.left = l
    BY <2>1, RecordFields
  <2> QED BY <1>1, <2>1, <2>2 DEF Planned
<1>2. \A f : Planned([j EXCEPT !.todo = @ \ {f}])
  BY <1>1, ApplyFields DEF Underway, Planned
<1>3. Planned([j EXCEPT !.firewall = FALSE])
  BY <1>1, ApplyFields DEF Underway, Planned
<1>4. ASSUME j.left # <<>> PROVE Planned([j EXCEPT !.left = Tail(@)])
  <2> DEFINE l == j.left
             t == Tail(j.left)
             n == Len(l)
  <2>1. l \in Seq(Command) /\ n \in Nat
    BY DEF Planned
  <2>2. /\ t \in Seq(Command) /\ Len(t) = n - 1
        /\ \A k \in 1..(n - 1) : t[k] = l[k + 1] /\ k + 1 \in 1..n
    BY <1>4, <2>1, HeadTailProperties
  <2> HIDE DEF t, n
  <2>3. \A k \in 1..Len(t) : t[k][2] \in ServicesOf(j.id)
    BY <2>2 DEF Planned, n
  <2>4. [j EXCEPT !.left = t] = Record(j.id, j.todo, j.firewall, t)
    BY ApplyFields DEF Underway
  <2>5. Planned(Record(j.id, j.todo, j.firewall, t))
    BY <1>1, <2>2, <2>3 DEF Planned
  <2> QED BY <2>4, <2>5 DEF t
<1> QED BY <1>2, <1>3, <1>4
\* The steps of an apply that go on.
Wrote(w) ==
    /\ job[w] # None
    /\ \E f \in job[w].todo :
         /\ job'[w] = [job[w] EXCEPT !.todo = @ \ {f}]
         /\ files' = [files EXCEPT ![f] = job[w].id]
    /\ UNCHANGED <<rules, running>>

Installed(w) ==
    /\ job[w] # None /\ job[w].todo = {}
    /\ job'[w] = [job[w] EXCEPT !.firewall = FALSE]
    /\ UNCHANGED <<files, running>>

Ran(w) ==
    /\ job[w] # None /\ job[w].todo = {} /\ ~job[w].firewall /\ job[w].left # <<>>
    /\ job'[w] = [job[w] EXCEPT !.left = Tail(@)]
    /\ LET c == Head(job[w].left)
       IN  running' = [running EXCEPT ![c[2]] = After(c[1], c[2], job[w].id)]
    /\ UNCHANGED <<files, rules>>

\* The host changes for nobody, or for another worker.
LeftAlone(w) == UNCHANGED <<files, running>> \/ \E v \in Workers \ {w} : Apply(v)

\* What a step makes of an apply that is under way after it.
LEMMA JobSteps ==
    ASSUME VInv, Next, NEW w \in Workers, job'[w] # None
    PROVE  \/ job'[w] = job[w] /\ LeftAlone(w)
           \/ \E i \in Ids : StartApply(w, i)
           \/ Wrote(w) \/ Installed(w) \/ Ran(w)
<1> DEFINE Goal == \/ job'[w] = job[w] /\ LeftAlone(w)
                   \/ \E i \in Ids : StartApply(w, i)
                   \/ Wrote(w) \/ Installed(w) \/ Ran(w)
<1>1. job = [v \in Workers |-> job[v]]
  BY DEF VInv, JobsSound
<1>2. ASSUME NEW v \in Workers, Apply(v), v # w PROVE Goal
  <2>1. \E j : job' = [job EXCEPT ![v] = j]
    BY <1>2 DEF Apply, StartApply, WriteFile, InstallRules, RunCommand, Activate, GoOn
  <2> QED BY <1>1, <1>2, <2>1 DEF LeftAlone
<1>3. CASE WriteFile(w)
  <2>1. PICK f \in job[w].todo, ok \in BOOLEAN :
          /\ files' \in {[files EXCEPT ![f] = x] :
                           x \in IF ok THEN {job[w].id} ELSE {files[f], None}}
          /\ GoOn(w, ok, [job[w] EXCEPT !.todo = @ \ {f}])
    BY <1>3 DEF WriteFile
  <2>2. ok /\ job'[w] = [job[w] EXCEPT !.todo = @ \ {f}]
    BY <1>1, <2>1 DEF GoOn
  <2> QED BY <1>3, <2>1, <2>2 DEF WriteFile, Wrote
<1>4. CASE InstallRules(w)
  <2>1. PICK ok \in BOOLEAN : GoOn(w, ok, [job[w] EXCEPT !.firewall = FALSE])
    BY <1>4 DEF InstallRules
  <2>2. job'[w] = [job[w] EXCEPT !.firewall = FALSE]
    BY <1>1, <2>1 DEF GoOn
  <2> QED BY <1>4, <2>2 DEF InstallRules, Installed
<1>5. CASE RunCommand(w)
  <2> DEFINE c == Head(job[w].left)
             new == After(c[1], c[2], job[w].id)
  <2>1. PICK ok \in BOOLEAN :
          /\ \E x \in IF ok THEN {new} ELSE {new, running[c[2]], {}} :
               running' = [running EXCEPT ![c[2]] = x]
          /\ GoOn(w, ok, [job[w] EXCEPT !.left = Tail(@)])
    BY <1>5 DEF RunCommand
  <2>2. ok /\ job'[w] = [job[w] EXCEPT !.left = Tail(@)]
    BY <1>1, <2>1 DEF GoOn
  <2>3. running' = [running EXCEPT ![c[2]] = new]
    BY <2>1, <2>2
  <2> QED BY <1>5, <2>2, <2>3 DEF RunCommand, Ran
<1>6. CASE Activate(w)
  BY <1>1, <1>6 DEF Activate
<1>7. CASE Request
  BY <1>7 DEF Request, CreateInstanceDraft, CreateUserDraft, GenerateRuntimeManifest,
              CreateLegacyInstanceDraft, host, LeftAlone
<1>8. CASE Reboot \/ \E g \in BOOLEAN : RestartPanel(g)
  BY <1>8 DEF Reboot, RestartPanel
<1> HIDE DEF Goal
<1>9. Goal
  <2>1. ASSUME NEW v \in Workers, Apply(v) PROVE Goal
    <3>1. CASE v = w
      BY <2>1, <3>1, <1>3, <1>4, <1>5, <1>6 DEF Apply, Goal
    <3> QED BY <1>2, <2>1, <3>1
  <2> QED BY <1>7, <1>8, <2>1 DEF Next, Goal
<1> QED BY <1>9 DEF Goal

\* Every apply under way stays with the files and services of its instance.
LEMMA PlannedStep ==
    ASSUME VInv, JobsPlanned, Next
    PROVE  JobsPlanned'
<1> SUFFICES ASSUME NEW w \in Workers, job'[w] # None PROVE Planned(job[w])'
  BY DEF JobsPlanned
<1>1. ASSUME NEW i \in Ids, rows[i] # None, NEW j, j.id = i, Planned(j)
      PROVE  Planned(j)'
  BY <1>1, RowsKept DEF Planned
<1>2. job[w] # None =>
        /\ Underway(job[w]) /\ Planned(job[w])
        /\ job[w].id \in Ids /\ rows[job[w].id] # None
  BY DEF VInv, JobsSound, JobsPlanned, Underway, MayApply
<1>3. ASSUME NEW j, job'[w] = j, j.id = job[w].id, Planned(j), job[w] # None
      PROVE  Planned(job[w])'
  BY <1>1, <1>2, <1>3 DEF Planned
<1>4. CASE job'[w] = job[w]
  BY <1>2, <1>3, <1>4
<1>5. ASSUME NEW i \in Ids, StartApply(w, i) PROVE Planned(job[w])'
  <2>1. PICK j : /\ j = Record(i, FilesOf(i), TRUE, RuntimeCommands(i))
                 /\ job' = [job EXCEPT ![w] = j]
    BY <1>5 DEF StartApply, Record
  <2>2. j.id = i /\ j.todo = FilesOf(i) /\ j.left = RuntimeCommands(i)
    BY <2>1 DEF Record
  <2>3. rows[i] # None
    BY <1>5 DEF StartApply, MayApply
  <2>4. Planned(j)
    BY <2>2, <2>3, CommandsOf DEF VInv, Planned
  <2>5. Planned(j)'
    BY <1>1, <2>2, <2>3, <2>4
  <2>6. job'[w] = j
    BY <2>1 DEF VInv, JobsSound
  <2> QED BY <2>5, <2>6 DEF Planned
<1>6. CASE Wrote(w)
  <2>1. PICK f : job'[w] = [job[w] EXCEPT !.todo = @ \ {f}]
    BY <1>6 DEF Wrote
  <2>2. job'[w].id = job[w].id
    BY <1>2, <1>6, <2>1, ApplyFields, RecordFields DEF Wrote, Underway
  <2> QED BY <1>2, <1>3, <1>6, <2>1, <2>2, StillPlanned DEF Wrote
<1>7. CASE Installed(w)
  <2>1. job'[w] = [job[w] EXCEPT !.firewall = FALSE]
    BY <1>7 DEF Installed
  <2>2. job'[w].id = job[w].id
    BY <1>2, <1>7, <2>1, ApplyFields, RecordFields DEF Installed, Underway
  <2> QED BY <1>2, <1>3, <1>7, <2>1, <2>2, StillPlanned DEF Installed
<1>8. CASE Ran(w)
  <2>1. job'[w] = [job[w] EXCEPT !.left = Tail(@)] /\ job[w].left # <<>>
    BY <1>8 DEF Ran
  <2>2. job'[w].id = job[w].id
    BY <1>2, <1>8, <2>1, ApplyFields, RecordFields DEF Ran, Underway
  <2> QED BY <1>2, <1>3, <1>8, <2>1, <2>2, StillPlanned DEF Ran
<1> QED BY <1>4, <1>5, <1>6, <1>7, <1>8, JobSteps
\* What requests save keeps its type.
LEMMA RequestTyped ==
    ASSUME HostTyped, Request
    PROVE  HostTyped'
<1>1. CASE \E i \in OpenVpnIds, n \in Names : CreateInstanceDraft(i, n)
  <2>1. PICK i \in OpenVpnIds, n \in Names : CreateInstanceDraft(i, n)
    BY <1>1
  <2>2. PICK names \in InstanceSecrets : vault' = vault \union ({i} \X names)
    BY <2>1 DEF CreateInstanceDraft, Committed
  <2>3. {i} \X names \subseteq (Ids \union Clients) \X SecretNames
    BY <2>2 DEF Ids, SecretNames
  <2> QED BY <2>1, <2>2, <2>3 DEF CreateInstanceDraft, HostTyped, host
<1>2. CASE \E c \in Clients, i \in OpenVpnIds : CreateUserDraft(c, i)
  <2>1. PICK c \in Clients, i \in OpenVpnIds : CreateUserDraft(c, i)
    BY <1>2
  <2> DEFINE R == {c} \X ClientSecrets
  <2>2. R \in SUBSET (Clients \X ClientSecrets) /\ R \subseteq (Ids \union Clients) \X SecretNames
    BY DEF SecretNames
  <2>3. /\ clients' = [clients EXCEPT ![c] = [instance |-> i, refs |-> R]]
        /\ vault' = vault \union R
        /\ UNCHANGED <<manifests, gate, files, running>>
    BY <2>1 DEF CreateUserDraft, Committed, host
  <2> HIDE DEF R
  <2> QED BY <2>2, <2>3 DEF HostTyped
<1>3. CASE \E i \in OpenVpnIds : GenerateRuntimeManifest(i)
  BY <1>3 DEF GenerateRuntimeManifest, HostTyped, host
<1>4. CASE \E i \in LegacyIds, p \in LegacyProtocols, n \in Names :
             CreateLegacyInstanceDraft(i, p, n)
  BY <1>4 DEF CreateLegacyInstanceDraft, HostTyped, host
<1> QED BY <1>1, <1>2, <1>3, <1>4 DEF Request

\* What an apply does to the host keeps its type.
LEMMA ApplyTyped ==
    ASSUME VInv, HostTyped, JobsPlanned, NEW w \in Workers, Apply(w)
    PROVE  HostTyped'
<1> DEFINE i == job[w].id
<1>1. UNCHANGED <<manifests, clients, vault, gate>>
  BY DEF Apply, StartApply, WriteFile, InstallRules, RunCommand, Activate, host
<1>2. job[w] # None =>
        /\ Planned(job[w]) /\ i \in Ids /\ MayApply(i) /\ rows[i] # None
  BY DEF VInv, JobsSound, JobsPlanned, Underway, MayApply
<1>3. CASE WriteFile(w)
  <2>1. PICK f \in job[w].todo :
          \E x \in Ids \union {None, files[f]} : files' = [files EXCEPT ![f] = x]
    BY <1>2, <1>3 DEF WriteFile
  <2>2. f \in Paths
    BY <1>2, <1>3, <2>1, FilesHavePaths DEF WriteFile, Planned, VInv
  <2>3. files[f] \in Ids \union {None}
    BY <2>2 DEF HostTyped
  <2> QED BY <1>1, <1>3, <2>1, <2>2, <2>3 DEF WriteFile, HostTyped
<1>4. CASE RunCommand(w)
  <2> DEFINE c == Head(job[w].left)
             s == c[2]
  <2>1. c = job[w].left[1] /\ 1 \in 1..Len(job[w].left)
    <3>1. job[w].left \in Seq(Command) /\ job[w].left # <<>>
      BY <1>2, <1>4 DEF RunCommand, Planned
    <3> QED BY <3>1
  <2>2. s \in ServicesOf(i)
    BY <1>2, <1>4, <2>1 DEF RunCommand, Planned
  <2>3. s \in Services
    BY <1>2, <1>4, <2>2, LoadsItsFiles DEF RunCommand, VInv
  <2>4. Loaded(s, i) \subseteq Ids \union {None}
    <3>1. PICK F \in SUBSET FilesOf(i) : Loaded(s, i) = {files[f] : f \in F}
      BY <1>2, <1>4, <2>2, LoadsItsFiles DEF RunCommand, VInv
    <3>2. FilesOf(i) \subseteq Paths
      BY <1>2, <1>4, FilesHavePaths DEF RunCommand, VInv
    <3> QED BY <3>1, <3>2 DEF HostTyped
  <2>5. running[s] \subseteq Ids \union {None}
    BY <2>3 DEF HostTyped
  <2>6. PICK x \in {After(c[1], s, i), running[s], {}} : running' = [running EXCEPT ![s] = x]
    BY <1>4 DEF RunCommand
  <2>7. x \subseteq Ids \union {None}
    BY <2>4, <2>5, <2>6 DEF After
  <2> HIDE DEF s
  <2> QED BY <1>1, <1>4, <2>6, <2>7 DEF RunCommand, HostTyped
<1>5. CASE (\E k \in Ids : StartApply(w, k)) \/ InstallRules(w) \/ Activate(w)
  BY <1>1, <1>5 DEF StartApply, InstallRules, Activate, host, HostTyped
<1> QED BY <1>3, <1>4, <1>5 DEF Apply

\* The host, and what applies have left to do, are well formed.
LEMMA TInvHolds == Spec => []TInv
<1>1. Init => TInv
  BY DEF Init, TInv, HostTyped, JobsPlanned
<1>2. VInv /\ TInv /\ [Next]_vars => TInv'
  <2> SUFFICES ASSUME VInv, TInv, [Next]_vars PROVE TInv'
    OBVIOUS
  <2>1. CASE UNCHANGED vars
    <3>1. HostTyped'
      BY <2>1 DEF vars, host, TInv, HostTyped
    <3>2. \A j : Planned(j) => Planned(j)'
      BY <2>1 DEF vars, Planned, FilesOf, ServicesOf, Project
    <3> QED BY <2>1, <3>1, <3>2 DEF vars, TInv, JobsPlanned, Planned
  <2>2. CASE Next
    <3>1. ASSUME NEW g \in BOOLEAN, RestartPanel(g) PROVE HostTyped'
      BY <3>1 DEF RestartPanel, host, TInv, HostTyped
    <3>2. ASSUME Reboot PROVE HostTyped'
      <4>1. ASSUME NEW s \in Services PROVE AtBoot(s) \subseteq Ids \union {None}
        <5>1. CASE s[1] = "project"
          BY <5>1 DEF AtBoot, TInv, HostTyped
        <5>2. CASE s[1] # "project"
          <6>1. PICK p \in LegacyProtocols : \E k \in DOMAIN Units[p] : s[2] = Units[p][k]
            BY <5>2 DEF Services, UnitNames
          <6>2. ReadBy[s[2]] \subseteq ConfigFiles[p]
            BY <6>1, UnitsOf
          <6>3. ReadBy[s[2]] \X {None} \subseteq Paths
            BY <6>2 DEF Paths
          <6> QED BY <5>2, <6>3 DEF AtBoot, Loaded, TInv, HostTyped
        <5> QED BY <5>1, <5>2
      <4>2. running' \in [Services -> SUBSET (Ids \union {None})]
        BY <3>2, <4>1 DEF Reboot
      <4> QED BY <3>2, <4>2 DEF Reboot, TInv, HostTyped
    <3>3. HostTyped'
      BY <2>2, <3>1, <3>2, RequestTyped, ApplyTyped DEF Next, TInv
    <3> QED BY <2>2, <3>3, PlannedStep DEF TInv
  <2> QED BY <2>1, <2>2
<1> QED BY <1>1, <1>2, VInvHolds, PTL DEF Spec

\* Tables, host and applies keep their types, for every number of instances, names,
\* clients and workers.
THEOREM TypeCorrect == Spec => []TypeOK
<1>1. VInv /\ TInv => TypeOK
  <2> SUFFICES ASSUME VInv, TInv PROVE TypeOK
    OBVIOUS
  <2>1. job \in [Workers -> Job \union {None}]
    <3>1. ASSUME NEW w \in Workers, job[w] # None PROVE job[w] \in Job
      <4> DEFINE j == job[w]
      <4>1. Underway(j) /\ Planned(j)
        BY <3>1 DEF VInv, JobsSound, TInv, JobsPlanned
      <4>2. j.todo \subseteq Paths
        BY <4>1, FilesHavePaths DEF Underway, Planned, TInv, VInv
      <4>3. j = [id |-> j.id, todo |-> j.todo, firewall |-> j.firewall, left |-> j.left]
        BY <4>1 DEF Underway, Record
      <4>4. j.id \in Ids /\ j.firewall \in BOOLEAN /\ j.left \in Seq(Command)
        BY <4>1 DEF Underway, Planned
      <4>5. [id |-> j.id, todo |-> j.todo, firewall |-> j.firewall, left |-> j.left] \in Job
        BY <4>2, <4>4 DEF Job
      <4> QED BY <4>3, <4>5
    <3> QED BY <3>1 DEF VInv, JobsSound
  <2> QED BY <2>1 DEF VInv, TInv, RowsTyped, RulesTyped, HostTyped, TypeOK
<1> QED BY <1>1, VInvHolds, TInvHolds, PTL
-----------------------------------------------------------------------------
(* Secrets *)

\* The references that rows carry.
Carried(x) ==
    \/ \E i \in Ids : rows[i] # None /\ x \in rows[i].refs
    \/ \E c \in Clients : clients[c] # None /\ x \in clients[c].refs

Matched == \A x : x \in vault <=> Carried(x)

\* A draft and its secrets are stored together, and nothing else touches either.
LEMMA SecretStep ==
    ASSUME VInv, HostTyped, Matched, [Next]_vars
    PROVE  Matched'
<1>1. rows \in [Ids -> Row \union {None}]
  BY DEF VInv, RowsTyped
<1>2. ASSUME \A i \in Ids : (rows[i] # None <=> rows'[i] # None) /\
                            (rows[i] # None => rows'[i].refs = rows[i].refs),
             UNCHANGED <<clients, vault>>
      PROVE  Matched'
  BY <1>2 DEF Matched, Carried
<1>3. ASSUME UNCHANGED <<rows, clients, vault>> PROVE Matched'
  BY <1>3 DEF Matched, Carried
<1>4. ASSUME NEW i \in Ids, NEW r, NEW R, r.refs = R, r # None, rows[i] = None,
             rows' = [rows EXCEPT ![i] = r], vault' = vault \union R, UNCHANGED clients
      PROVE  Matched'
  <2>1. \A k \in Ids : rows'[k] = IF k = i THEN r ELSE rows[k]
    BY <1>1, <1>4
  <2>2. \A x : Carried(x)' <=> Carried(x) \/ x \in R
    BY <1>4, <2>1 DEF Carried
  <2> QED BY <1>4, <2>2 DEF Matched
<1>5. ASSUME NEW i \in OpenVpnIds, NEW n \in Names, CreateInstanceDraft(i, n) PROVE Matched'
  <2>1. PICK names \in InstanceSecrets :
          /\ rows' = [rows EXCEPT ![i] = [protocol |-> "openvpn", name |-> n,
                                          enabled |-> FALSE, refs |-> {i} \X names]]
          /\ vault' = vault \union ({i} \X names)
    BY <1>5 DEF CreateInstanceDraft, Committed
  <2> DEFINE R == {i} \X names
             r == [protocol |-> "openvpn", name |-> n, enabled |-> FALSE, refs |-> R]
  <2>2. r \in Row /\ r.refs = R
    BY DEF Row, Ids, SecretNames
  <2>3. rows[i] = None /\ UNCHANGED clients /\ i \in Ids
    BY <1>5 DEF CreateInstanceDraft, Ids
  <2> HIDE DEF R, r
  <2> QED BY <1>4, <2>1, <2>2, <2>3, NoneIsNoRecord DEF R, r
<1>6. ASSUME NEW i \in LegacyIds, NEW p \in LegacyProtocols, NEW n \in Names,
             CreateLegacyInstanceDraft(i, p, n)
      PROVE  Matched'
  <2> DEFINE r == [protocol |-> p, name |-> n, enabled |-> FALSE, refs |-> {}]
  <2>1. r \in Row /\ r.refs = {}
    BY DEF Row
  <2>2. /\ rows' = [rows EXCEPT ![i] = r] /\ rows[i] = None /\ UNCHANGED <<clients, vault>>
        /\ i \in Ids
    BY <1>6 DEF CreateLegacyInstanceDraft, Ids
  <2> HIDE DEF r
  <2>3. vault' = vault \union {}
    BY <2>2
  <2> QED BY <1>4, <2>1, <2>2, <2>3, NoneIsNoRecord
<1>7. ASSUME NEW c \in Clients, NEW i \in OpenVpnIds, CreateUserDraft(c, i) PROVE Matched'
  <2> DEFINE R == {c} \X ClientSecrets
             r == [instance |-> i, refs |-> R]
  <2>1. R \in SUBSET (Clients \X ClientSecrets)
    OBVIOUS
  <2>2. /\ clients[c] = None /\ clients' = [clients EXCEPT ![c] = r]
        /\ vault' = vault \union R /\ UNCHANGED rows
    BY <1>7 DEF CreateUserDraft, Committed
  <2> HIDE DEF R
  <2>3. r.refs = R /\ r # None
    BY <2>1, NoneIsNoRecord
  <2> HIDE DEF r
  <2>4. \A k \in Clients : clients'[k] = IF k = c THEN r ELSE clients[k]
    BY <2>2 DEF HostTyped
  <2>5. \A x : Carried(x)' <=> Carried(x) \/ x \in R
    BY <2>2, <2>3, <2>4 DEF Carried
  <2> QED BY <2>2, <2>5 DEF Matched
<1>8. ASSUME NEW w \in Workers, Activate(w) PROVE Matched'
  <2>1. /\ job[w] # None /\ UNCHANGED <<clients, vault>>
        /\ \/ rows' = [rows EXCEPT ![job[w].id].enabled = TRUE]
           \/ rows' = rows
    BY <1>8 DEF Activate, Done
  <2>2. job[w].id \in Ids /\ rows[job[w].id] # None
    BY <2>1 DEF VInv, JobsSound, Underway, MayApply
  <2>3. \A k \in Ids : rows[k] = None => rows'[k] = None
    BY <1>1, <2>1, <2>2
  <2>4. \A k \in Ids : rows[k] # None => rows'[k] # None /\ rows'[k].refs = rows[k].refs
    BY <2>1, <2>2, Enabled DEF VInv
  <2> QED BY <1>2, <2>1, <2>3, <2>4
<1>9. CASE UNCHANGED vars
  BY <1>3, <1>9 DEF vars
<1>10. CASE Next
  BY <1>3, <1>5, <1>6, <1>7, <1>8, <1>10
  DEF Next, Request, GenerateRuntimeManifest, Apply, StartApply, WriteFile,
      InstallRules, RunCommand, RestartPanel, Reboot
<1> QED BY <1>9, <1>10

\* No row is ever without its key material and no key material without its row, for
\* every number of instances and clients and any secrets a draft comes with.
THEOREM RefsAlwaysStored == Spec => []RefsAreStored
<1>1. Init => Matched
  BY DEF Init, Matched, Carried
<1>2. Matched => RefsAreStored
  <2> SUFFICES ASSUME Matched PROVE RefsAreStored
    OBVIOUS
  <2> DEFINE A == UNION {rows[i].refs : i \in {j \in Ids : rows[j] # None}}
             B == UNION {clients[c].refs : c \in {d \in Clients : clients[d] # None}}
  <2>1. \A x : x \in A <=> \E i \in Ids : rows[i] # None /\ x \in rows[i].refs
    OBVIOUS
  <2>2. \A x : x \in B <=> \E c \in Clients : clients[c] # None /\ x \in clients[c].refs
    OBVIOUS
  <2>3. RefsAreStored <=> vault = A \union B
    BY DEF RefsAreStored
  <2> HIDE DEF A, B
  <2> QED BY <2>1, <2>2, <2>3 DEF Matched, Carried
<1>3. TInv => HostTyped
  BY DEF TInv
<1> QED BY <1>1, <1>2, <1>3, SecretStep, VInvHolds, TInvHolds, PTL DEF Spec
-----------------------------------------------------------------------------
(* VpnHistory: what a successful apply has done, however applies           *)
(* interleave, fail and are lost in reboots.                               *)

\* The history variable follows the system and does not restrain it.
LEMMA HistoryOfSpec == HSpec => Spec
<1>1. HInit => Init
  BY DEF HInit
<1>2. [HNext]_hvars => [Next]_vars
  BY DEF HNext, hvars
<1> QED BY <1>1, <1>2, PTL DEF HSpec, Spec

\* An apply that was not crossed has conflicted with no other one under way.
Apart ==
    \A w \in Workers \ crossed, v \in Workers :
      v # w /\ job[w] # None /\ job[v] # None => ~Conflict(job[v].id, job[w].id)

\* What it has written is there, files come before rules and rules before commands,
\* and each of its services runs for it or is still to be started anew.
Secured(j) ==
    /\ \A f \in FilesOf(j.id) \ j.todo : files[f] = j.id
    /\ ~j.firewall => j.todo = {}
    /\ \A s \in ServicesOf(j.id) :
         \/ running[s] = {j.id}
         \/ \E k \in 1..Len(j.left) : j.left[k][1] # "enable" /\ j.left[k][2] = s

HInv ==
    /\ Apart
    /\ \A w \in Workers \ crossed : job[w] # None => Secured(job[w])

-----------------------------------------------------------------------------

\* An apply is of an instance that had its row before the step.
LEMMA AppliesKnown ==
    ASSUME VInv, Next, NEW w \in Workers, job'[w] # None
    PROVE  job'[w].id \in Ids /\ rows[job'[w].id] # None
<1>1. job[w] # None =>
        /\ Underway(job[w]) /\ job[w].id \in Ids /\ rows[job[w].id] # None
  BY DEF VInv, JobsSound, Underway, MayApply
<1>2. ASSUME NEW i \in Ids, StartApply(w, i)
      PROVE  job'[w].id \in Ids /\ rows[job'[w].id] # None
  <2>1. PICK j : /\ j = Record(i, FilesOf(i), TRUE, RuntimeCommands(i))
                 /\ job' = [job EXCEPT ![w] = j]
    BY <1>2 DEF StartApply, Record
  <2>2. j.id = i /\ job'[w] = j
    BY <2>1 DEF Record, VInv, JobsSound
  <2> QED BY <1>2, <2>2 DEF StartApply, MayApply
<1>3. CASE Wrote(w)
  <2>1. PICK f : job'[w] = [job[w] EXCEPT !.todo = @ \ {f}]
    BY <1>3 DEF Wrote
  <2>2. job'[w].id = job[w].id
    BY <1>1, <1>3, <2>1, ApplyFields, RecordFields DEF Wrote, Underway
  <2> QED BY <1>1, <1>3, <2>2 DEF Wrote
<1>4. CASE Installed(w)
  <2>1. job'[w].id = job[w].id
    BY <1>1, <1>4, ApplyFields, RecordFields DEF Installed, Underway
  <2> QED BY <1>1, <1>4, <2>1 DEF Installed
<1>5. CASE Ran(w)
  <2>1. job'[w].id = job[w].id
    BY <1>1, <1>5, ApplyFields, RecordFields DEF Ran, Underway
  <2> QED BY <1>1, <1>5, <2>1 DEF Ran
<1> QED BY <1>1, <1>2, <1>3, <1>4, <1>5, JobSteps

\* Whoever is not crossed is apart from all that are under way.
LEMMA ApartStep ==
    ASSUME VInv, HNext
    PROVE  Apart'
<1> SUFFICES ASSUME NEW w \in Workers, NEW v \in Workers, w \notin crossed', v # w,
                    job'[w] # None, job'[v] # None, Conflict(job[v].id, job[w].id)'
             PROVE  FALSE
  BY DEF Apart
<1>1. Next
  BY DEF HNext
<1>2. ~Conflict(job'[v].id, job'[w].id)
  BY DEF HNext
<1>3. \A i \in {job'[v].id, job'[w].id} :
        FilesOf(i)' = FilesOf(i) /\ ServicesOf(i)' = ServicesOf(i)
  BY <1>1, AppliesKnown, RowsKept
<1> QED BY <1>2, <1>3 DEF Conflict

\* What others do to the host leaves alone what an apply apart from them has done.
LEMMA OthersLeave ==
    ASSUME VInv, TInv, Apart, NEW w \in Workers \ crossed, job[w] # None, LeftAlone(w)
    PROVE  /\ \A f \in FilesOf(job[w].id) : files'[f] = files[f]
           /\ \A s \in ServicesOf(job[w].id) : running'[s] = running[s]
<1> DEFINE i == job[w].id
<1>1. files = [f \in Paths |-> files[f]] /\ running = [s \in Services |-> running[s]]
  BY DEF TInv, HostTyped
<1>2. ASSUME NEW v \in Workers, v # w, Apply(v)
      PROVE  /\ \A f \in FilesOf(i) : files'[f] = files[f]
             /\ \A s \in ServicesOf(i) : running'[s] = running[s]
  <2> DEFINE k == job[v].id
  <2>1. job[v] # None =>
          /\ Planned(job[v])
          /\ FilesOf(k) \intersect FilesOf(i) = {}
          /\ ServicesOf(k) \intersect ServicesOf(i) = {}
    BY <1>2 DEF Apart, Conflict, TInv, JobsPlanned
  <2>2. CASE WriteFile(v)
    <3>1. PICK f \in job[v].todo : \E x : files' = [files EXCEPT ![f] = x]
      BY <2>2 DEF WriteFile
    <3>2. f \notin FilesOf(i)
      BY <2>1, <2>2 DEF WriteFile, Planned
    <3> QED BY <1>1, <2>2, <3>1, <3>2 DEF WriteFile
  <2>3. CASE RunCommand(v)
    <3> DEFINE s == Head(job[v].left)[2]
    <3>1. \E x : running' = [running EXCEPT ![s] = x]
      BY <2>3 DEF RunCommand
    <3>2. Head(job[v].left) = job[v].left[1] /\ 1 \in 1..Len(job[v].left)
      <4>1. job[v].left \in Seq(Command) /\ job[v].left # <<>>
        BY <2>1, <2>3 DEF RunCommand, Planned
      <4> QED BY <4>1
    <3>3. s \notin ServicesOf(i)
      BY <2>1, <2>3, <3>2 DEF RunCommand, Planned
    <3> HIDE DEF s
    <3> QED BY <1>1, <2>3, <3>1, <3>3 DEF RunCommand
  <2>4. CASE (\E m \in Ids : StartApply(v, m)) \/ InstallRules(v) \/ Activate(v)
    BY <2>4 DEF StartApply, InstallRules, Activate, host
  <2> QED BY <1>2, <2>2, <2>3, <2>4 DEF Apply
<1> QED BY <1>2 DEF LeftAlone
\* An apply is secured by what it has done, whatever its rows are called now.
LEMMA SecuredLater ==
    ASSUME VInv, Next, NEW w \in Workers, job'[w] # None,
           LET j == job'[w] IN
             /\ \A f \in FilesOf(j.id) \ j.todo : files'[f] = j.id
             /\ ~j.firewall => j.todo = {}
             /\ \A s \in ServicesOf(j.id) :
                  \/ running'[s] = {j.id}
                  \/ \E k \in 1..Len(j.left) : j.left[k][1] # "enable" /\ j.left[k][2] = s
    PROVE  Secured(job[w])'
<1>1. PICK i \in Ids : i = job'[w].id /\ rows[i] # None
  BY AppliesKnown
<1>2. FilesOf(i)' = FilesOf(i) /\ ServicesOf(i)' = ServicesOf(i)
  BY <1>1, RowsKept
<1> QED BY <1>1, <1>2 DEF Secured

\* A command that succeeds has its service run for the instance, if it is not one
\* that leaves a running service alone and is followed by one that does not.
LEMMA RanSecured ==
    ASSUME VInv, TInv, NEW w \in Workers, Ran(w), Secured(job[w])
    PROVE  LET j == job'[w] IN
             /\ \A f \in FilesOf(j.id) \ j.todo : files'[f] = j.id
             /\ ~j.firewall => j.todo = {}
             /\ \A s \in ServicesOf(j.id) :
                  \/ running'[s] = {j.id}
                  \/ \E k \in 1..Len(j.left) : j.left[k][1] # "enable" /\ j.left[k][2] = s
<1> DEFINE j == job[w]
           l == j.left
           n == Len(l)
           t == Tail(l)
           c == l[1]
<1>1. /\ Underway(j) /\ Planned(j) /\ j.id \in Ids /\ rows[j.id] # None
      /\ j.todo = {} /\ ~j.firewall
  BY DEF Ran, VInv, JobsSound, TInv, JobsPlanned, Underway, MayApply
<1>2. l \in Seq(Command) /\ l # <<>> /\ n \in Nat /\ n # 0 /\ Head(l) = c /\ 1 \in 1..n
  <2>1. l \in Seq(Command) /\ l # <<>>
    BY <1>1 DEF Ran, Planned
  <2> QED BY <2>1
<1>3. /\ t \in Seq(Command) /\ Len(t) = n - 1
      /\ \A k \in 1..(n - 1) : t[k] = l[k + 1]
  BY <1>2, HeadTailProperties
<1>4. /\ job'[w].id = j.id /\ job'[w].todo = {} /\ ~job'[w].firewall /\ job'[w].left = t
  <2>1. job'[w] = [j EXCEPT !.left = t]
    BY DEF Ran
  <2>2. job'[w] = Record(j.id, j.todo, j.firewall, t)
    BY <1>1, <2>1, ApplyFields DEF Underway
  <2> HIDE DEF t
  <2> QED BY <1>1, <2>2, RecordFields
<1>5. \A f \in FilesOf(j.id) : files[f] = j.id /\ files'[f] = j.id
  BY <1>1 DEF Secured, Ran
<1>6. \A s \in ServicesOf(j.id) : s \in Services /\ Loaded(s, j.id) = {j.id}
  <2>1. ASSUME NEW s \in ServicesOf(j.id) PROVE s \in Services /\ Loaded(s, j.id) = {j.id}
    <3>1. s \in Services
      BY <1>1, LoadsItsFiles DEF VInv
    <3>2. PICK F \in SUBSET FilesOf(j.id) : F # {} /\ Loaded(s, j.id) = {files[f] : f \in F}
      BY <1>1, LoadsItsFiles DEF VInv
    <3> QED BY <1>5, <3>1, <3>2
  <2> QED BY <2>1
<1>7. c[2] \in ServicesOf(j.id) /\ running' = [running EXCEPT ![c[2]] = After(c[1], c[2], j.id)]
  BY <1>1, <1>2 DEF Ran, Planned
<1>8. \A s \in Services : running'[s] = IF s = c[2] THEN After(c[1], s, j.id) ELSE running[s]
  BY <1>7 DEF TInv, HostTyped
<1>9. ASSUME NEW s \in ServicesOf(j.id)
      PROVE  \/ running'[s] = {j.id}
             \/ \E k \in 1..Len(t) : t[k][1] # "enable" /\ t[k][2] = s
  <2>1. CASE running[s] = {j.id}
    BY <1>6, <1>8, <2>1 DEF After
  <2>2. CASE s = c[2] /\ c[1] # "enable"
    BY <1>6, <1>8, <2>2 DEF After
  <2>3. CASE running[s] # {j.id} /\ ~(s = c[2] /\ c[1] # "enable")
    <3>1. PICK k \in 1..n : l[k][1] # "enable" /\ l[k][2] = s
      BY <2>3 DEF Secured
    <3>2. k # 1
      BY <2>3, <3>1
    <3>3. k - 1 \in 1..(n - 1) /\ (k - 1) + 1 = k
      BY <1>2, <3>2
    <3>4. t[k - 1] = l[k]
      BY <1>3, <3>3
    <3> HIDE DEF t, l, n
    <3> QED BY <1>3, <3>1, <3>3, <3>4
  <2> QED BY <2>1, <2>2, <2>3
<1> QED BY <1>1, <1>4, <1>5, <1>9

\* Every step leaves the applies secured that it does not cross.
LEMMA SecuredStep ==
    ASSUME VInv, TInv, HInv, HNext, NEW w \in Workers \ crossed', job'[w] # None
    PROVE  Secured(job[w])'
<1> DEFINE j == job'[w]
           Goal == /\ \A f \in FilesOf(j.id) \ j.todo : files'[f] = j.id
                   /\ ~j.firewall => j.todo = {}
                   /\ \A s \in ServicesOf(j.id) :
                        \/ running'[s] = {j.id}
                        \/ \E k \in 1..Len(j.left) : j.left[k][1] # "enable" /\ j.left[k][2] = s
<1>1. Next /\ w \notin crossed
  BY DEF HNext
<1>2. job[w] # None =>
        /\ Secured(job[w]) /\ Underway(job[w]) /\ Planned(job[w])
        /\ job[w].id \in Ids /\ MayApply(job[w].id)
  BY <1>1 DEF HInv, VInv, JobsSound, TInv, JobsPlanned, Underway
<1>3. CASE job'[w] = job[w] /\ LeftAlone(w)
  <2>1. /\ \A f \in FilesOf(job[w].id) : files'[f] = files[f]
        /\ \A s \in ServicesOf(job[w].id) : running'[s] = running[s]
    BY <1>1, <1>3, OthersLeave DEF HInv
  <2>2. Goal
    BY <1>2, <1>3, <2>1 DEF Secured
  <2> QED BY <1>1, <2>2, SecuredLater
<1>4. ASSUME NEW i \in Ids, StartApply(w, i) PROVE Secured(job[w])'
  <2>1. PICK r : /\ r = Record(i, FilesOf(i), TRUE, RuntimeCommands(i))
                 /\ job' = [job EXCEPT ![w] = r]
    BY <1>4 DEF StartApply, Record
  <2>2. /\ j.id = i /\ j.todo = FilesOf(i) /\ j.firewall = TRUE
        /\ j.left = RuntimeCommands(i)
    BY <2>1 DEF Record, VInv, JobsSound
  <2>3. \A s \in ServicesOf(i) : \E k \in 1..Len(RuntimeCommands(i)) :
          RuntimeCommands(i)[k][1] # "enable" /\ RuntimeCommands(i)[k][2] = s
    BY <1>4, CommandsOf DEF StartApply, MayApply, VInv
  <2>4. Goal
    BY <2>2, <2>3
  <2> QED BY <1>1, <2>4, SecuredLater
<1>5. CASE Wrote(w)
  <2>1. PICK f \in job[w].todo : /\ j = [job[w] EXCEPT !.todo = @ \ {f}]
                                 /\ files' = [files EXCEPT ![f] = job[w].id]
    BY <1>5 DEF Wrote
  <2>2. j = Record(job[w].id, job[w].todo \ {f}, job[w].firewall, job[w].left)
    BY <1>2, <1>5, <2>1, ApplyFields DEF Underway, Wrote
  <2>3. /\ j.id = job[w].id /\ j.todo = job[w].todo \ {f}
        /\ j.firewall = job[w].firewall /\ j.left = job[w].left
    BY <2>2, RecordFields
  <2>4. \A g \in FilesOf(job[w].id) : files'[g] = IF g = f THEN job[w].id ELSE files[g]
    BY <1>2, <1>5, <2>1, FilesHavePaths DEF Wrote, VInv, TInv, HostTyped
  <2>5. Goal
    BY <1>2, <1>5, <2>3, <2>4 DEF Secured, Wrote
  <2> QED BY <1>1, <2>5, SecuredLater
<1>6. CASE Installed(w)
  <2>1. job[w] # None /\ j = Record(job[w].id, job[w].todo, FALSE, job[w].left)
    BY <1>2, <1>6, ApplyFields DEF Underway, Installed
  <2>2. /\ j.id = job[w].id /\ j.todo = job[w].todo /\ j.left = job[w].left
    BY <2>1 DEF Record
  <2>3. Goal
    BY <1>2, <1>6, <2>2 DEF Secured, Installed
  <2> QED BY <1>1, <2>3, SecuredLater
<1>7. CASE Ran(w)
  <2>1. Secured(job[w])
    BY <1>2, <1>7 DEF Ran
  <2> QED BY <1>1, <1>7, <2>1, RanSecured, SecuredLater
<1> QED BY <1>1, <1>3, <1>4, <1>5, <1>6, <1>7, JobSteps

\* An apply answered with success, not crossed by a conflicting one, has the host
\* serve its instance, for any number of instances, names and applies, whatever
\* failed or was lost before.
THEOREM AppliedAlwaysServed == HSpec => []AppliedIsServed
<1>1. HInit => HInv
  BY DEF HInit, Init, HInv, Apart
<1>2. VInv /\ TInv /\ HInv /\ [HNext]_hvars => HInv'
  <2> SUFFICES ASSUME VInv, TInv, HInv, [HNext]_hvars PROVE HInv'
    OBVIOUS
  <2>1. CASE UNCHANGED hvars
    <3>1. UNCHANGED <<rows, files, running, job, crossed>>
      BY <2>1 DEF hvars, vars, host
    <3>2. \A i : FilesOf(i)' = FilesOf(i) /\ ServicesOf(i)' = ServicesOf(i)
      BY <3>1 DEF FilesOf, ServicesOf, Project
    <3>3. Apart'
      BY <3>1, <3>2 DEF HInv, Apart, Conflict
    <3>4. \A w \in Workers \ crossed' : job'[w] # None => Secured(job[w])'
      BY <3>1, <3>2 DEF HInv, Secured
    <3> QED BY <3>3, <3>4 DEF HInv
  <2>2. CASE HNext
    BY <2>2, ApartStep, SecuredStep DEF HInv
  <2> QED BY <2>1, <2>2
<1>3. VInv /\ TInv /\ HInv => AppliedIsServed
  <2> SUFFICES ASSUME VInv, TInv, HInv, NEW w \in Workers \ crossed, Done(w)
               PROVE  Serves(job[w].id)
    BY DEF AppliedIsServed
  <2> DEFINE j == job[w]
  <2>1. /\ j # None /\ j.todo = {} /\ ~j.firewall /\ j.left = <<>>
    BY DEF Done
  <2>2. Secured(j) /\ Underway(j)
    BY <2>1 DEF HInv, VInv, JobsSound
  <2>3. \A s \in ServicesOf(j.id) : running[s] = {j.id}
    BY <2>1, <2>2 DEF Secured
  <2> QED BY <2>1, <2>2, <2>3 DEF Secured, Underway, Serves
<1> QED BY <1>1, <1>2, <1>3, HistoryOfSpec, VInvHolds, TInvHolds, PTL DEF HSpec
=============================================================================
