------------------------------ MODULE Iptables ------------------------------
(***************************************************************************)
(* The iptables calls of SetupNAT, ApplyPortForward, TeardownNAT and       *)
(* RemovePortForward, one by one.  A rule is checked with -C and then      *)
(* appended (-A, or -I for a forward's FORWARD rules: the position is left *)
(* out) or deleted (-D, one copy); goroutines that serve requests and the  *)
(* bootstrap do so side by side, and the kernel keeps every copy it is     *)
(* given.  WgHost takes a whole list for one step on a set of rules.       *)
(***************************************************************************)
EXTENDS Naturals, Sequences, FiniteSets

CONSTANTS
    Workers,
    Rules,
    Lists,       \* the rules of one interface or one forward, in their order
    MaxMisses    \* bound: checks that fail although the rule is there

ASSUME IptablesAssumption ==
    /\ IsFiniteSet(Workers) /\ Workers # {}
    /\ Lists \subseteq Seq(Rules) /\ \A l \in Lists : l # <<>>
    /\ MaxMisses \in Nat

VARIABLES
    count,     \* copies of each rule in the kernel
    jobs,      \* what each worker is in the middle of
    misses     \* checks so far that failed although the rule was there (history)

vars == <<count, jobs, misses>>

-----------------------------------------------------------------------------
(* Jobs *)

Ops == {"ensure", "delete"}

\* A job is at rule k of its list, about to check it or to change it.  `exact'
\* says that nothing stood in its way so far: no call of it failed, no job of the
\* other kind on one of its rules overlapped it, and a delete found one copy at most.
Job == [op: Ops, list: Lists, k: Nat \ {0}, step: {"check", "change"}, exact: BOOLEAN]

NoJob == <<>>
Busy == {w \in Workers : jobs[w] # NoJob}

RulesIn(l) == {l[m] : m \in 1..Len(l)}
At(j) == j.list[j.k]

Step(j, k, step, exact) ==
    [op |-> j.op, list |-> j.list, k |-> k, step |-> step, exact |-> exact]

\* Seeded fault: one rule too many.
AdvanceLate(w, exact) ==
    LET j == jobs[w]
    IN  jobs' = [jobs EXCEPT ![w] = IF j.k > Len(j.list) THEN NoJob
                                    ELSE Step(j, j.k + 1, "check", exact)]

\* Past the last rule the job is over.
Advance(w, exact) ==
    LET j == jobs[w]
    IN  jobs' = [jobs EXCEPT ![w] = IF j.k = Len(j.list) THEN NoJob
                                    ELSE Step(j, j.k + 1, "check", exact)]

Contrary(op, l, j) == j.op # op /\ RulesIn(l) \intersect RulesIn(j.list) # {}

Begin(w, op, l) ==
    LET against == {v \in Busy : Contrary(op, l, jobs[v])}
        single  == op = "ensure" \/ \A r \in RulesIn(l) : count[r] <= 1
    IN  /\ jobs[w] = NoJob
        /\ jobs' = [v \in Workers |->
                      IF v = w THEN [op |-> op, list |-> l, k |-> 1, step |-> "check",
                                     exact |-> against = {} /\ single]
                      ELSE IF v \in against THEN [jobs[v] EXCEPT !.exact = FALSE]
                      ELSE jobs[v]]
        /\ UNCHANGED <<count, misses>>

-----------------------------------------------------------------------------
(* Calls *)

\* Seeded fault: a rule is appended without looking.
NeededUnseen(op, present) == op = "ensure" \/ present

\* Seeded fault: the check is read the same way by both.
NeededAlike(op, present) == ~present

\* Whether a rule that -C says is there, or is not, has to be changed.
Needed(op, present) == IF op = "ensure" THEN ~present ELSE present

\* Any failure of -C, also of the xtables lock or of iptables itself, reads as an
\* absent rule.
Check(w, fails) ==
    LET j       == jobs[w]
        there   == count[At(j)] > 0
        present == there /\ ~fails
        missed  == there /\ fails
    IN  /\ w \in Busy /\ j.step = "check"
        /\ missed => misses < MaxMisses
        /\ IF Needed(j.op, present)
             THEN jobs' = [jobs EXCEPT ![w] = Step(j, j.k, "change", j.exact /\ ~missed)]
             ELSE Advance(w, j.exact /\ ~missed)
        /\ misses' = IF missed THEN misses + 1 ELSE misses
        /\ UNCHANGED count

\* Seeded fault: a rule that cannot be installed is passed over.
RefusedGoesOn(w) == Advance(w, jobs[w].exact)

\* The first rule that cannot be installed ends the list.
Refused(w) == jobs' = [jobs EXCEPT ![w] = NoJob]

Install(w, fails) ==
    LET j == jobs[w]
    IN  /\ w \in Busy /\ j.step = "change" /\ j.op = "ensure"
        /\ IF fails THEN Refused(w) /\ UNCHANGED count
           ELSE /\ count' = [count EXCEPT ![At(j)] = @ + 1]
                /\ Advance(w, j.exact)
        /\ UNCHANGED misses

\* A rule that cannot be deleted, or that somebody else has deleted since the
\* check, does not stop the others.
Delete(w, fails) ==
    LET j  == jobs[w]
        ok == count[At(j)] > 0 /\ ~fails
    IN  /\ w \in Busy /\ j.step = "change" /\ j.op = "delete"
        /\ count' = IF ok THEN [count EXCEPT ![At(j)] = @ - 1] ELSE count
        /\ Advance(w, j.exact /\ ~fails)
        /\ UNCHANGED misses

Init ==
    /\ count = [r \in Rules |-> 0]
    /\ jobs = [w \in Workers |-> NoJob]
    /\ misses = 0

Next ==
    \E w \in Workers :
      \/ \E op \in Ops, l \in Lists : Begin(w, op, l)
      \/ \E fails \in BOOLEAN :
           Check(w, fails) \/ Install(w, fails) \/ Delete(w, fails)

Spec == Init /\ [][Next]_vars

-----------------------------------------------------------------------------
(* Properties *)

TypeOK ==
    /\ count \in [Rules -> Nat]
    /\ jobs \in [Workers -> Job \union {NoJob}]
    /\ misses \in Nat
    /\ \A w \in Busy : jobs[w].k <= Len(jobs[w].list)

\* The workers about to append a rule.
Appending(r) ==
    {w \in Busy : /\ jobs[w].op = "ensure" /\ jobs[w].step = "change"
                  /\ At(jobs[w]) = r}

\* "Idempotent" holds up to the workers that run at once and the checks that
\* failed: with one request at a time and a working check there is never a second
\* copy of a rule, which is what lets WgHost count a rule once.
CopiesBounded ==
    \A r \in Rules :
      count[r] + Cardinality(Appending(r)) <= Cardinality(Workers) + misses

\* What a SetupNAT or an ApplyPortForward has got past is in place when it comes
\* to its end, whoever else installs the same rules meanwhile, as long as nobody
\* takes one of them away.
EnsuredIsThere ==
    \A w \in Busy : jobs[w].op = "ensure" /\ jobs[w].exact =>
      \A m \in 1..(jobs[w].k - 1) : count[jobs[w].list[m]] > 0

\* What a TeardownNAT or a RemovePortForward has got past is gone, also when two
\* of them run side by side, unless there were two copies of it.
DeletedIsGone ==
    \A w \in Busy : jobs[w].op = "delete" /\ jobs[w].exact =>
      \A m \in 1..(jobs[w].k - 1) : count[jobs[w].list[m]] = 0
=============================================================================
