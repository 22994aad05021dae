--------------------------- MODULE IptablesProofs ---------------------------
(***************************************************************************)
(* The properties of Iptables for any number of workers and any lists of   *)
(* rules.                                                                  *)
(***************************************************************************)
EXTENDS Iptables, FiniteSetTheorems, TLAPS

\* Jobs of the two kinds that share a rule know of each other.
Apart ==
    \A v, w \in Busy :
      Contrary(jobs[v].op, jobs[v].list, jobs[w]) => ~jobs[v].exact /\ ~jobs[w].exact

\* A delete that nothing stood in the way of has one copy at most ahead of it.
DeleteAhead ==
    \A w \in Busy : jobs[w].op = "delete" /\ jobs[w].exact =>
      \A m \in 1..Len(jobs[w].list) : count[jobs[w].list[m]] <= 1

\* The inductive invariant.
IInv == TypeOK /\ Apart /\ DeleteAhead /\ CopiesBounded /\ EnsuredIsThere /\ DeletedIsGone

-----------------------------------------------------------------------------
(* What a job is, and what becomes of it *)

\* A busy worker is at one of the rules of its list.
LEMMA BusyJob ==
    ASSUME TypeOK, NEW w \in Busy
    PROVE  /\ w \in Workers
           /\ jobs[w] \in Job
           /\ jobs[w].list \in Seq(Rules)
           /\ jobs[w].k \in 1..Len(jobs[w].list)
           /\ At(jobs[w]) \in RulesIn(jobs[w].list)
           /\ At(jobs[w]) \in Rules
<1>1. w \in Workers /\ jobs[w] \in Job
  BY DEF TypeOK, Busy
<1>2. jobs[w].list \in Seq(Rules)
  BY <1>1, IptablesAssumption DEF Job
<1>3. jobs[w].k \in 1..Len(jobs[w].list)
  BY <1>1, <1>2 DEF TypeOK, Job
<1>4. At(jobs[w]) \in RulesIn(jobs[w].list) /\ At(jobs[w]) \in Rules
  BY <1>2, <1>3 DEF At, RulesIn
<1> QED
  BY <1>1, <1>2, <1>3, <1>4

\* A step of a job is a job for the same rules.
LEMMA Stepped ==
    ASSUME NEW j \in Job, NEW k \in Nat \ {0}, NEW s \in {"check", "change"},
           NEW e \in BOOLEAN
    PROVE  /\ Step(j, k, s, e) \in Job
           /\ Step(j, k, s, e).op = j.op /\ Step(j, k, s, e).list = j.list
           /\ Step(j, k, s, e).k = k /\ Step(j, k, s, e).step = s
           /\ Step(j, k, s, e).exact = e
BY DEF Step, Job

\* A job that is moved on has the same rules and is about to check the next one.
LEMMA Advanced ==
    ASSUME TypeOK, NEW w \in Busy, NEW e \in BOOLEAN, Advance(w, e)
    PROVE  /\ jobs' \in [Workers -> Job \union {NoJob}]
           /\ \A v \in Workers \ {w} : jobs'[v] = jobs[v]
           /\ \/ jobs'[w] = NoJob
              \/ /\ jobs'[w] \in Job
                 /\ jobs'[w].op = jobs[w].op /\ jobs'[w].list = jobs[w].list
                 /\ jobs'[w].k = jobs[w].k + 1 /\ jobs'[w].k <= Len(jobs'[w].list)
                 /\ jobs'[w].step = "check" /\ jobs'[w].exact = e
<1> DEFINE j == jobs[w]
           n == Step(j, j.k + 1, "check", e)
<1>1. /\ w \in Workers /\ j \in Job /\ j.k \in 1..Len(j.list) /\ Len(j.list) \in Nat
      /\ jobs \in [Workers -> Job \union {NoJob}]
  BY BusyJob DEF TypeOK
<1>2. /\ n \in Job /\ n.op = j.op /\ n.list = j.list /\ n.k = j.k + 1
      /\ n.step = "check" /\ n.exact = e
  <2>1. j \in Job /\ j.k + 1 \in Nat \ {0} /\ "check" \in {"check", "change"}
    BY <1>1
  <2> HIDE DEF j
  <2> QED
    BY <2>1, Stepped
<1>3. jobs' = [jobs EXCEPT ![w] = IF j.k = Len(j.list) THEN NoJob ELSE n]
  BY DEF Advance
<1>4. n.k <= Len(n.list) \/ j.k = Len(j.list)
  BY <1>1, <1>2
<1> HIDE DEF n
<1> QED
  BY <1>1, <1>2, <1>3, <1>4

\* A job that goes on: the same kind, the same rules, no surer than before.
Persists(v) ==
    /\ v \in Busy
    /\ jobs'[v].op = jobs[v].op /\ jobs'[v].list = jobs[v].list
    /\ jobs'[v].exact => jobs[v].exact

\* A new job tells the jobs in its way, and is told of them.
LEMMA Begun ==
    ASSUME TypeOK, NEW w \in Workers, NEW op \in Ops, NEW l \in Lists, Begin(w, op, l)
    PROVE  /\ TypeOK' /\ count' = count /\ misses' = misses
           /\ w \notin Busy
           /\ jobs'[w].op = op /\ jobs'[w].list = l /\ jobs'[w].k = 1
           /\ jobs'[w].step = "check"
           /\ jobs'[w].exact => /\ \A v \in Busy : ~Contrary(op, l, jobs[v])
                                /\ op = "delete" => \A r \in RulesIn(l) : count[r] <= 1
           /\ \A v \in Busy' \ {w} :
                /\ Persists(v)
                /\ jobs'[v].k = jobs[v].k /\ jobs'[v].step = jobs[v].step
                /\ Contrary(op, l, jobs[v]) => ~jobs'[v].exact
<1> DEFINE against == {v \in Busy : Contrary(op, l, jobs[v])}
           sure == against = {} /\ (op = "ensure" \/ \A r \in RulesIn(l) : count[r] <= 1)
           new == [op |-> op, list |-> l, k |-> 1, step |-> "check", exact |-> sure]
<1>1. /\ jobs[w] = NoJob /\ count' = count /\ misses' = misses
      /\ jobs' = [v \in Workers |-> IF v = w THEN new
                                     ELSE IF v \in against THEN [jobs[v] EXCEPT !.exact = FALSE]
                                     ELSE jobs[v]]
  BY DEF Begin
<1>2. new \in Job /\ new.k <= Len(new.list)
  <2>1. l \in Seq(Rules) /\ l # <<>>
    BY IptablesAssumption
  <2>2. Len(l) \in Nat /\ Len(l) # 0
    BY <2>1
  <2>3. sure \in BOOLEAN
    OBVIOUS
  <2> HIDE DEF sure
  <2> QED
    BY <2>2, <2>3 DEF Job, Ops
<1>3. jobs'[w] = new
  BY <1>1
<1>4. w \notin Busy
  BY <1>1 DEF Busy
<1>5. ASSUME NEW v \in Workers \ {w}
      PROVE  /\ v \in Busy => /\ jobs'[v] \in Job
                              /\ jobs'[v].op = jobs[v].op /\ jobs'[v].list = jobs[v].list
                              /\ jobs'[v].k = jobs[v].k /\ jobs'[v].step = jobs[v].step
                              /\ jobs'[v].exact => jobs[v].exact
                              /\ Contrary(op, l, jobs[v]) => ~jobs'[v].exact
             /\ v \notin Busy => jobs'[v] = NoJob
  <2>1. CASE v \in against
    <3>1. jobs'[v] = [jobs[v] EXCEPT !.exact = FALSE]
      BY <1>1, <2>1
    <3>2. jobs[v] \in Job
      BY <2>1, BusyJob
    <3> QED
      BY <2>1, <3>1, <3>2 DEF Job
  <2>2. CASE v \notin against
    <3>1. jobs'[v] = jobs[v]
      BY <1>1, <2>2
    <3> QED
      BY <2>2, <3>1, BusyJob DEF Busy
  <2> QED
    BY <2>1, <2>2
<1>6. ASSUME NEW v \in Busy', v # w
      PROVE  v \in Workers /\ v \in Busy
  <2>1. v \in Workers /\ jobs'[v] # NoJob
    BY DEF Busy
  <2> QED
    BY <1>5, <1>6, <2>1
<1>7. TypeOK'
  <2>1. jobs' \in [Workers -> Job \union {NoJob}]
    <3>1. \A v \in Workers : jobs'[v] \in Job \union {NoJob}
      BY <1>2, <1>3, <1>5
    <3> QED
      BY <1>1, <3>1
  <2>2. ASSUME NEW v \in Busy'
        PROVE  jobs'[v].k <= Len(jobs'[v].list)
    BY <1>2, <1>3, <1>5, <1>6, BusyJob DEF TypeOK
  <2> QED
    BY <1>1, <2>1, <2>2 DEF TypeOK
<1>8. sure => /\ \A v \in Busy : ~Contrary(op, l, jobs[v])
              /\ op = "delete" => \A r \in RulesIn(l) : count[r] <= 1
  OBVIOUS
<1>9. /\ new.op = op /\ new.list = l /\ new.k = 1 /\ new.step = "check"
      /\ new.exact = sure
  OBVIOUS
<1> HIDE DEF new, sure, against
<1> QED
  BY <1>1, <1>3, <1>4, <1>5, <1>6, <1>7, <1>8, <1>9 DEF Persists

\* A call changes nobody else's job, and its own job persists or ends.
LEMMA Called ==
    ASSUME TypeOK, NEW w \in Workers, NEW fails \in BOOLEAN,
           Check(w, fails) \/ Install(w, fails) \/ Delete(w, fails)
    PROVE  /\ TypeOK' /\ w \in Busy
           /\ \A v \in Workers \ {w} : jobs'[v] = jobs[v]
           /\ \A v \in Busy' : Persists(v)
<1> DEFINE j == jobs[w]
           there == count[At(j)] > 0
           missed == there /\ fails
           present == there /\ ~fails
<1>1. w \in Busy
  BY DEF Check, Install, Delete
<1>2. /\ w \in Workers /\ j \in Job /\ j.k \in 1..Len(j.list) /\ Len(j.list) \in Nat
      /\ At(j) \in Rules /\ j.exact \in BOOLEAN
  BY <1>1, BusyJob DEF Job
<1>3. count' \in [Rules -> Nat] /\ misses' \in Nat
  <2>1. CASE Check(w, fails)
    BY <2>1 DEF Check, TypeOK
  <2>2. CASE Install(w, fails)
    BY <1>2, <2>2 DEF Install, TypeOK
  <2>3. CASE Delete(w, fails)
    BY <1>2, <2>3 DEF Delete, TypeOK
  <2> QED
    BY <2>1, <2>2, <2>3
<1>4. /\ jobs' \in [Workers -> Job \union {NoJob}]
      /\ \A v \in Workers \ {w} : jobs'[v] = jobs[v]
      /\ \/ jobs'[w] = NoJob
         \/ /\ jobs'[w].op = j.op /\ jobs'[w].list = j.list
            /\ jobs'[w].k <= Len(jobs'[w].list)
            /\ jobs'[w].exact => j.exact
  <2>1. CASE \E e \in BOOLEAN : (e => j.exact) /\ Advance(w, e)
    BY <1>1, <2>1, Advanced
  <2>2. CASE \E e \in BOOLEAN :
               (e => j.exact) /\ jobs' = [jobs EXCEPT ![w] = Step(j, j.k, "change", e)]
    <3>1. PICK e \in BOOLEAN :
             (e => j.exact) /\ jobs' = [jobs EXCEPT ![w] = Step(j, j.k, "change", e)]
      BY <2>2
    <3> DEFINE n == Step(j, j.k, "change", e)
    <3>2. j.k \in Nat \ {0} /\ e \in BOOLEAN
      BY <1>2, <3>1
    <3>3. n \in Job /\ n.op = j.op /\ n.list = j.list /\ n.k = j.k /\ n.exact = e
      BY <1>2, <3>2 DEF Step, Job
    <3>4. jobs' = [jobs EXCEPT ![w] = n]
      BY <3>1
    <3> HIDE DEF n
    <3> QED
      BY <1>2, <3>1, <3>3, <3>4 DEF TypeOK
  <2>3. CASE jobs' = [jobs EXCEPT ![w] = NoJob]
    BY <1>2, <2>3 DEF TypeOK
  <2>4. CASE Check(w, fails)
    <3>1. (j.exact /\ ~missed) \in BOOLEAN /\ ((j.exact /\ ~missed) => j.exact)
      BY <1>2
    <3>2. \/ jobs' = [jobs EXCEPT ![w] = Step(j, j.k, "change", j.exact /\ ~missed)]
          \/ Advance(w, j.exact /\ ~missed)
      BY <2>4 DEF Check
    <3> HIDE DEF missed
    <3> QED
      BY <2>1, <2>2, <3>1, <3>2
  <2>5. CASE Install(w, fails)
    <3>1. jobs' = [jobs EXCEPT ![w] = NoJob] \/ Advance(w, j.exact)
      BY <2>5 DEF Install, Refused
    <3> QED
      BY <1>2, <2>1, <2>3, <3>1
  <2>6. CASE Delete(w, fails)
    <3>1. Advance(w, j.exact /\ ~fails)
      BY <2>6 DEF Delete
    <3>2. (j.exact /\ ~fails) \in BOOLEAN /\ ((j.exact /\ ~fails) => j.exact)
      BY <1>2
    <3> QED
      BY <2>1, <3>1, <3>2
  <2> QED
    BY <2>4, <2>5, <2>6
<1>5. ASSUME NEW v \in Busy'
      PROVE  Persists(v) /\ jobs'[v].k <= Len(jobs'[v].list)
  <2>1. v \in Workers /\ jobs'[v] # NoJob
    BY DEF Busy
  <2>2. CASE v = w
    BY <1>1, <1>4, <2>1, <2>2 DEF Persists
  <2>3. CASE v # w
    <3>1. jobs'[v] = jobs[v]
      BY <1>4, <2>1, <2>3
    <3>2. v \in Busy
      BY <2>1, <3>1 DEF Busy
    <3> QED
      BY <3>1, <3>2 DEF Persists, TypeOK
  <2> QED
    BY <2>2, <2>3
<1>6. TypeOK'
  BY <1>3, <1>4, <1>5 DEF TypeOK
<1> QED
  BY <1>1, <1>4, <1>5, <1>6

\* A call changes the copies of the rule it is at, and those in one direction.
LEMMA Counted ==
    ASSUME TypeOK, NEW w \in Workers, NEW fails \in BOOLEAN,
           Check(w, fails) \/ Install(w, fails) \/ Delete(w, fails),
           NEW r \in Rules
    PROVE  /\ count[r] \in Nat
           /\ r # At(jobs[w]) => count'[r] = count[r]
           /\ jobs[w].op = "ensure" => count'[r] >= count[r]
           /\ jobs[w].op = "delete" => count'[r] <= count[r]
<1>1. w \in Busy
  BY DEF Check, Install, Delete
<1>2. At(jobs[w]) \in Rules /\ count \in [Rules -> Nat]
  BY <1>1, BusyJob DEF TypeOK
<1>3. CASE Check(w, fails)
  BY <1>2, <1>3 DEF Check
<1>4. CASE Install(w, fails)
  BY <1>2, <1>4 DEF Install
<1>5. CASE Delete(w, fails)
  BY <1>2, <1>5 DEF Delete
<1> QED
  BY <1>3, <1>4, <1>5

\* A rule is passed when it is as the job wants it, or the job is not sure of it.
LEMMA Passed ==
    ASSUME TypeOK, NEW w \in Workers, NEW fails \in BOOLEAN,
           Check(w, fails) \/ Install(w, fails) \/ Delete(w, fails), w \in Busy'
    PROVE  \/ jobs'[w].k = jobs[w].k
           \/ /\ jobs'[w].k = jobs[w].k + 1
              /\ jobs'[w].exact /\ jobs[w].op = "ensure" => count'[At(jobs[w])] > 0
              /\ jobs'[w].exact /\ jobs[w].op = "delete" /\ count[At(jobs[w])] <= 1
                   => count'[At(jobs[w])] = 0
<1> DEFINE j == jobs[w]
           there == count[At(j)] > 0
           missed == there /\ fails
           present == there /\ ~fails
<1>1. w \in Busy /\ jobs'[w] # NoJob
  BY DEF Check, Install, Delete, Busy
<1>2. /\ j \in Job /\ j.k \in Nat \ {0} /\ j.op \in Ops /\ j.exact \in BOOLEAN
      /\ At(j) \in Rules /\ count \in [Rules -> Nat]
      /\ jobs \in [Workers -> Job \union {NoJob}]
  BY <1>1, BusyJob DEF Job, TypeOK
<1>3. ASSUME NEW e \in BOOLEAN, Advance(w, e)
      PROVE  jobs'[w].k = j.k + 1 /\ jobs'[w].exact = e
  BY <1>1, <1>3, Advanced
<1>4. CASE Check(w, fails)
  <2>1. CASE Needed(j.op, present)
    <3>1. jobs' = [jobs EXCEPT ![w] = Step(j, j.k, "change", j.exact /\ ~missed)]
      BY <1>4, <2>1 DEF Check
    <3> QED
      BY <1>2, <3>1 DEF Step
  <2>2. CASE ~Needed(j.op, present)
    <3>1. Advance(w, j.exact /\ ~missed) /\ count' = count
      BY <1>4, <2>2 DEF Check
    <3>2. (j.exact /\ ~missed) \in BOOLEAN
      BY <1>2
    <3>3. jobs'[w].k = j.k + 1 /\ jobs'[w].exact = (j.exact /\ ~missed)
      BY <1>3, <3>1, <3>2
    <3>4. j.op = "ensure" => there
      BY <2>2 DEF Needed
    <3>5. j.op = "delete" /\ ~missed => ~there
      BY <2>2 DEF Needed
    <3>6. ~there => count[At(j)] = 0
      BY <1>2
    <3> HIDE DEF missed
    <3> QED
      BY <1>2, <3>1, <3>3, <3>4, <3>5, <3>6
  <2> QED
    BY <2>1, <2>2
<1>5. CASE Install(w, fails)
  <2>1. ~fails
    BY <1>1, <1>2, <1>5 DEF Install, Refused
  <2>2. Advance(w, j.exact) /\ count' = [count EXCEPT ![At(j)] = @ + 1] /\ j.op = "ensure"
    BY <1>5, <2>1 DEF Install
  <2> QED
    BY <1>2, <1>3, <2>2
<1>6. CASE Delete(w, fails)
  <2>1. /\ Advance(w, j.exact /\ ~fails) /\ j.op = "delete"
        /\ count' = IF there /\ ~fails THEN [count EXCEPT ![At(j)] = @ - 1] ELSE count
    BY <1>6 DEF Delete
  <2>2. jobs'[w].k = j.k + 1 /\ jobs'[w].exact = (j.exact /\ ~fails)
    BY <1>2, <1>3, <2>1
  <2>3. ~fails /\ count[At(j)] <= 1 => count'[At(j)] = 0
    BY <1>2, <2>1
  <2> QED
    BY <2>1, <2>2, <2>3
<1> QED
  BY <1>4, <1>5, <1>6

-----------------------------------------------------------------------------
(* The invariant *)

\* The first state has no jobs and no rules.
LEMMA InitIInv == Init => IInv
<1> SUFFICES ASSUME Init PROVE IInv
  OBVIOUS
<1>1. Busy = {}
  BY DEF Init, Busy
<1>2. TypeOK
  BY <1>1, IptablesAssumption DEF Init, TypeOK
<1>3. CopiesBounded
  <2>1. \A r \in Rules : Appending(r) = {}
    BY <1>1 DEF Appending
  <2>2. Cardinality({}) = 0 /\ Cardinality(Workers) \in Nat
    BY FS_EmptySet, FS_CardinalityType, IptablesAssumption
  <2>3. misses = 0 /\ \A r \in Rules : count[r] = 0
    BY DEF Init
  <2>4. \A r \in Rules : Cardinality(Appending(r)) = 0
    BY <2>1, <2>2
  <2> QED
    BY <2>2, <2>3, <2>4 DEF CopiesBounded
<1> QED
  BY <1>1, <1>2, <1>3 DEF IInv, Apart, DeleteAhead, EnsuredIsThere, DeletedIsGone

\* Of two jobs in each other's way the later finds the earlier.
LEMMA NextApart == IInv /\ Next => Apart'
<1> SUFFICES ASSUME IInv, Next, NEW v \in Busy', NEW u \in Busy',
                    Contrary(jobs'[v].op, jobs'[v].list, jobs'[u])
             PROVE  ~jobs'[v].exact /\ ~jobs'[u].exact
  BY DEF Apart, Contrary
<1>1. TypeOK /\ Apart
  BY DEF IInv
<1>2. CASE Persists(v) /\ Persists(u)
  BY <1>1, <1>2 DEF Persists, Apart, Contrary
<1>3. ASSUME NEW w \in Workers, NEW op \in Ops, NEW l \in Lists, Begin(w, op, l)
      PROVE  ~jobs'[v].exact /\ ~jobs'[u].exact
  <2>1. CASE v # w /\ u # w
    BY <1>1, <1>2, <1>3, <2>1, Begun
  <2>2. CASE v = w /\ u # w
    <3>1. Contrary(op, l, jobs[u])
      BY <1>1, <1>3, <2>2, Begun DEF Persists, Contrary
    <3> QED
      BY <1>1, <1>3, <2>2, <3>1, Begun DEF Persists
  <2>3. CASE v # w /\ u = w
    <3>1. Contrary(op, l, jobs[v])
      BY <1>1, <1>3, <2>3, Begun DEF Persists, Contrary
    <3> QED
      BY <1>1, <1>3, <2>3, <3>1, Begun DEF Persists
  <2>4. CASE v = w /\ u = w
    BY <2>4 DEF Contrary
  <2> QED
    BY <2>1, <2>2, <2>3, <2>4
<1>4. ASSUME NEW w \in Workers, NEW fails \in BOOLEAN,
             Check(w, fails) \/ Install(w, fails) \/ Delete(w, fails)
      PROVE  ~jobs'[v].exact /\ ~jobs'[u].exact
  BY <1>1, <1>2, <1>4, Called
<1> QED
  BY <1>3, <1>4 DEF Next

\* A rule is only installed where no undisturbed delete of it is under way.
LEMMA NextDeleteAhead == IInv /\ Next => DeleteAhead'
<1> SUFFICES ASSUME IInv, Next, NEW v \in Busy', jobs'[v].op = "delete", jobs'[v].exact,
                    NEW m \in 1..Len(jobs'[v].list)
             PROVE  count'[jobs'[v].list[m]] <= 1
  BY DEF DeleteAhead
<1> DEFINE r == jobs'[v].list[m]
<1>1. TypeOK /\ Apart /\ DeleteAhead
  BY DEF IInv
<1>2. ASSUME Persists(v)
      PROVE  /\ v \in Busy /\ jobs[v].op = "delete" /\ jobs[v].exact
             /\ r \in RulesIn(jobs[v].list) /\ r \in Rules
             /\ count[r] \in Nat /\ count[r] <= 1
  <2>1. /\ v \in Busy /\ jobs[v].op = "delete" /\ jobs[v].exact
        /\ jobs'[v].list = jobs[v].list
    BY <1>2 DEF Persists
  <2>2. jobs[v].list \in Seq(Rules) /\ m \in 1..Len(jobs[v].list)
    BY <1>1, <2>1, BusyJob
  <2> QED
    BY <1>1, <2>1, <2>2 DEF DeleteAhead, RulesIn, TypeOK
<1>3. ASSUME NEW w \in Workers, NEW op \in Ops, NEW l \in Lists, Begin(w, op, l)
      PROVE  count'[r] <= 1
  <2>1. CASE v = w
    <3>1. jobs'[v].list = l /\ op = "delete" /\ count' = count
          /\ \A s \in RulesIn(l) : count[s] <= 1
      BY <1>1, <1>3, <2>1, Begun
    <3> QED
      BY <3>1 DEF RulesIn
  <2>2. CASE v # w
    BY <1>1, <1>2, <1>3, <2>2, Begun
  <2> QED
    BY <2>1, <2>2
<1>4. ASSUME NEW w \in Workers, NEW fails \in BOOLEAN,
             Check(w, fails) \/ Install(w, fails) \/ Delete(w, fails)
      PROVE  count'[r] <= 1
  <2>1. /\ w \in Busy /\ v \in Busy /\ jobs[v].op = "delete" /\ jobs[v].exact
        /\ r \in RulesIn(jobs[v].list) /\ r \in Rules /\ count[r] \in Nat /\ count[r] <= 1
    BY <1>1, <1>2, <1>4, Called
  <2>2. At(jobs[w]) \in RulesIn(jobs[w].list) /\ jobs[w].op \in Ops
    BY <1>1, <2>1, BusyJob DEF Job
  <2> HIDE DEF r
  <2>3. /\ r # At(jobs[w]) => count'[r] = count[r]
        /\ jobs[w].op = "delete" => count'[r] <= count[r]
    BY <1>1, <1>4, <2>1, Counted
  <2>4. CASE jobs[w].op = "ensure"
    <3>1. r # At(jobs[w])
      BY <1>1, <2>1, <2>2, <2>4 DEF Apart, Contrary
    <3> QED
      BY <2>1, <2>3, <3>1
  <2>5. CASE jobs[w].op = "delete"
    <3>1. count'[r] \in Nat
      BY <1>1, <1>4, <2>1, Called DEF TypeOK
    <3> QED
      BY <2>1, <2>3, <2>5, <3>1
  <2> QED
    BY <2>2, <2>4, <2>5 DEF Ops
<1> QED
  BY <1>3, <1>4 DEF Next

\* What an undisturbed ensure is past stays: who takes a rule away is in its way.
LEMMA NextEnsured == IInv /\ Next => EnsuredIsThere'
<1> SUFFICES ASSUME IInv, Next, NEW v \in Busy', jobs'[v].op = "ensure", jobs'[v].exact,
                    NEW m \in 1..(jobs'[v].k - 1)
             PROVE  count'[jobs'[v].list[m]] > 0
  BY DEF EnsuredIsThere
<1> DEFINE r == jobs'[v].list[m]
<1>1. TypeOK /\ Apart /\ EnsuredIsThere /\ m \in Nat /\ m >= 1 /\ m <= jobs'[v].k - 1
  BY DEF IInv
<1>2. ASSUME Persists(v), m <= jobs[v].k
      PROVE  /\ v \in Busy /\ jobs[v].op = "ensure" /\ jobs[v].exact
             /\ r \in RulesIn(jobs[v].list) /\ r \in Rules /\ count[r] \in Nat
             /\ m < jobs[v].k => count[r] > 0
             /\ m = jobs[v].k => r = At(jobs[v])
  <2>1. /\ v \in Busy /\ jobs[v].op = "ensure" /\ jobs[v].exact
        /\ jobs'[v].list = jobs[v].list
    BY <1>2 DEF Persists
  <2>2. /\ jobs[v].list \in Seq(Rules) /\ jobs[v].k \in 1..Len(jobs[v].list)
        /\ Len(jobs[v].list) \in Nat
    BY <1>1, <2>1, BusyJob
  <2>3. m \in 1..Len(jobs[v].list)
    BY <1>1, <1>2, <2>2
  <2>4. r \in RulesIn(jobs[v].list) /\ r \in Rules
    BY <2>1, <2>2, <2>3 DEF RulesIn
  <2>5. m < jobs[v].k => count[r] > 0
    BY <1>1, <2>1, <2>2 DEF EnsuredIsThere
  <2> QED
    BY <1>1, <2>1, <2>4, <2>5 DEF TypeOK, At
<1>3. ASSUME NEW w \in Workers, NEW op \in Ops, NEW l \in Lists, Begin(w, op, l)
      PROVE  count'[r] > 0
  <2>1. v # w
    BY <1>1, <1>3, Begun
  <2>2. Persists(v) /\ jobs'[v].k = jobs[v].k /\ count' = count
    BY <1>1, <1>3, <2>1, Begun
  <2>3. jobs[v].k \in Nat
    BY <1>1, <2>2, BusyJob DEF Persists, Job
  <2> QED
    BY <1>1, <1>2, <2>2, <2>3
<1>4. ASSUME NEW w \in Workers, NEW fails \in BOOLEAN,
             Check(w, fails) \/ Install(w, fails) \/ Delete(w, fails)
      PROVE  count'[r] > 0
  <2>1. w \in Busy /\ Persists(v) /\ v \in Workers /\ (v # w => jobs'[v] = jobs[v])
    BY <1>1, <1>4, Called DEF Busy
  <2>2. jobs[v].k \in Nat
    BY <1>1, <2>1, BusyJob DEF Persists, Job
  <2>3. /\ m <= jobs[v].k
        /\ m = jobs[v].k => v = w /\ count'[At(jobs[w])] > 0
    <3>1. CASE v = w
      BY <1>1, <1>4, <2>1, <2>2, <3>1, Passed DEF Persists
    <3>2. CASE v # w
      BY <1>1, <2>1, <2>2, <3>2
    <3> QED
      BY <3>1, <3>2
  <2>4. /\ v \in Busy /\ jobs[v].op = "ensure" /\ jobs[v].exact
        /\ r \in RulesIn(jobs[v].list) /\ r \in Rules /\ count[r] \in Nat
        /\ m < jobs[v].k => count[r] > 0
        /\ m = jobs[v].k => r = At(jobs[v])
    BY <1>2, <2>1, <2>3
  <2>5. At(jobs[w]) \in RulesIn(jobs[w].list) /\ jobs[w].op \in Ops
    BY <1>1, <2>1, BusyJob DEF Job
  <2> HIDE DEF r
  <2>6. /\ r # At(jobs[w]) => count'[r] = count[r]
        /\ jobs[w].op = "ensure" => count'[r] >= count[r]
    BY <1>1, <1>4, <2>4, Counted
  <2>7. CASE m = jobs[v].k
    BY <2>3, <2>4, <2>7
  <2>8. CASE m < jobs[v].k /\ jobs[w].op = "ensure"
    <3>1. count'[r] \in Nat
      BY <1>1, <1>4, <2>4, Called DEF TypeOK
    <3> QED
      BY <2>4, <2>6, <2>8, <3>1
  <2>9. CASE m < jobs[v].k /\ jobs[w].op = "delete"
    <3>1. r # At(jobs[w])
      BY <1>1, <2>1, <2>4, <2>5, <2>9 DEF Apart, Contrary
    <3> QED
      BY <2>4, <2>6, <2>9, <3>1
  <2> QED
    BY <1>1, <2>2, <2>3, <2>5, <2>7, <2>8, <2>9 DEF Ops
<1> QED
  BY <1>3, <1>4 DEF Next

\* What an undisturbed delete is past stays away: who installs a rule is in its way.
LEMMA NextDeleted == IInv /\ Next => DeletedIsGone'
<1> SUFFICES ASSUME IInv, Next, NEW v \in Busy', jobs'[v].op = "delete", jobs'[v].exact,
                    NEW m \in 1..(jobs'[v].k - 1)
             PROVE  count'[jobs'[v].list[m]] = 0
  BY DEF DeletedIsGone
<1> DEFINE r == jobs'[v].list[m]
<1>1. /\ TypeOK /\ Apart /\ DeletedIsGone /\ DeleteAhead
      /\ m \in Nat /\ m >= 1 /\ m <= jobs'[v].k - 1
  BY DEF IInv
<1>2. ASSUME Persists(v), m <= jobs[v].k
      PROVE  /\ v \in Busy /\ jobs[v].op = "delete" /\ jobs[v].exact
             /\ r \in RulesIn(jobs[v].list) /\ r \in Rules /\ count[r] \in Nat
             /\ count[r] <= 1
             /\ m < jobs[v].k => count[r] = 0
             /\ m = jobs[v].k => r = At(jobs[v])
  <2>1. /\ v \in Busy /\ jobs[v].op = "delete" /\ jobs[v].exact
        /\ jobs'[v].list = jobs[v].list
    BY <1>2 DEF Persists
  <2>2. /\ jobs[v].list \in Seq(Rules) /\ jobs[v].k \in 1..Len(jobs[v].list)
        /\ Len(jobs[v].list) \in Nat
    BY <1>1, <2>1, BusyJob
  <2>3. m \in 1..Len(jobs[v].list)
    BY <1>1, <1>2, <2>2
  <2>4. r \in RulesIn(jobs[v].list) /\ r \in Rules /\ count[r] <= 1
    BY <1>1, <2>1, <2>2, <2>3 DEF RulesIn, DeleteAhead
  <2>5. m < jobs[v].k => count[r] = 0
    BY <1>1, <2>1, <2>2 DEF DeletedIsGone
  <2> QED
    BY <1>1, <2>1, <2>4, <2>5 DEF TypeOK, At
<1>3. ASSUME NEW w \in Workers, NEW op \in Ops, NEW l \in Lists, Begin(w, op, l)
      PROVE  count'[r] = 0
  <2>1. v # w
    BY <1>1, <1>3, Begun
  <2>2. Persists(v) /\ jobs'[v].k = jobs[v].k /\ count' = count
    BY <1>1, <1>3, <2>1, Begun
  <2>3. jobs[v].k \in Nat
    BY <1>1, <2>2, BusyJob DEF Persists, Job
  <2> QED
    BY <1>1, <1>2, <2>2, <2>3
<1>4. ASSUME NEW w \in Workers, NEW fails \in BOOLEAN,
             Check(w, fails) \/ Install(w, fails) \/ Delete(w, fails)
      PROVE  count'[r] = 0
  <2>1. w \in Busy /\ Persists(v) /\ v \in Workers /\ (v # w => jobs'[v] = jobs[v])
    BY <1>1, <1>4, Called DEF Busy
  <2>2. jobs[v].k \in Nat
    BY <1>1, <2>1, BusyJob DEF Persists, Job
  <2>3. m <= jobs[v].k /\ (m = jobs[v].k => v = w)
    <3>1. CASE v = w
      BY <1>1, <1>4, <2>1, <2>2, <3>1, Passed DEF Persists
    <3>2. CASE v # w
      BY <1>1, <2>1, <2>2, <3>2
    <3> QED
      BY <3>1, <3>2
  <2>4. /\ v \in Busy /\ jobs[v].op = "delete" /\ jobs[v].exact
        /\ r \in RulesIn(jobs[v].list) /\ r \in Rules /\ count[r] \in Nat
        /\ count[r] <= 1
        /\ m < jobs[v].k => count[r] = 0
        /\ m = jobs[v].k => r = At(jobs[v])
    BY <1>2, <2>1, <2>3
  <2>5. At(jobs[w]) \in RulesIn(jobs[w].list) /\ jobs[w].op \in Ops
    BY <1>1, <2>1, BusyJob DEF Job
  <2> HIDE DEF r
  <2>6. /\ r # At(jobs[w]) => count'[r] = count[r]
        /\ jobs[w].op = "delete" => count'[r] <= count[r]
    BY <1>1, <1>4, <2>4, Counted
  <2>7. CASE m = jobs[v].k
    <3>1. v = w /\ r = At(jobs[w]) /\ jobs'[w].k # jobs[w].k
      BY <1>1, <2>2, <2>3, <2>4, <2>7
    <3> QED
      BY <1>1, <1>4, <2>4, <3>1, Passed
  <2>8. CASE m < jobs[v].k /\ jobs[w].op = "delete"
    <3>1. count'[r] \in Nat
      BY <1>1, <1>4, <2>4, Called DEF TypeOK
    <3> QED
      BY <2>4, <2>6, <2>8, <3>1
  <2>9. CASE m < jobs[v].k /\ jobs[w].op = "ensure"
    <3>1. r # At(jobs[w])
      BY <1>1, <2>1, <2>4, <2>5, <2>9 DEF Apart, Contrary
    <3> QED
      BY <2>4, <2>6, <2>9, <3>1
  <2> QED
    BY <1>1, <2>2, <2>3, <2>5, <2>7, <2>8, <2>9 DEF Ops
<1> QED
  BY <1>3, <1>4 DEF Next

\* A worker is about to append a rule only if it was not there, or was missed.
LEMMA NextCopies == IInv /\ Next => CopiesBounded'
<1> SUFFICES ASSUME IInv, Next, NEW r \in Rules
             PROVE  count'[r] + Cardinality(Appending(r)') <= Cardinality(Workers) + misses'
  BY DEF CopiesBounded
<1>1. TypeOK /\ CopiesBounded
  BY DEF IInv
<1>2. ASSUME NEW S \in SUBSET Workers
      PROVE  IsFiniteSet(S) /\ Cardinality(S) \in Nat /\ Cardinality(S) <= Cardinality(Workers)
             /\ \A T \in SUBSET S : Cardinality(T) <= Cardinality(S)
  BY FS_Subset, FS_CardinalityType, IptablesAssumption
<1>3. /\ Appending(r) \in SUBSET Workers /\ Appending(r)' \in SUBSET Workers
      /\ Cardinality(Workers) \in Nat
  BY FS_CardinalityType, IptablesAssumption DEF Appending, Busy
<1>4. /\ count[r] \in Nat /\ misses \in Nat
      /\ count[r] + Cardinality(Appending(r)) <= Cardinality(Workers) + misses
  BY <1>1 DEF TypeOK, CopiesBounded
<1>5. ASSUME NEW w \in Workers, NEW op \in Ops, NEW l \in Lists, Begin(w, op, l)
      PROVE  count'[r] + Cardinality(Appending(r)') <= Cardinality(Workers) + misses'
  <2>1. count' = count /\ misses' = misses
    BY <1>1, <1>5, Begun
  <2>2. Appending(r)' \subseteq Appending(r)
    <3> SUFFICES ASSUME NEW v \in Appending(r)' PROVE v \in Appending(r)
      OBVIOUS
    <3>1. /\ v \in Busy' /\ jobs'[v].op = "ensure" /\ jobs'[v].step = "change"
          /\ At(jobs'[v]) = r
      BY DEF Appending
    <3>2. v # w
      BY <1>1, <1>5, <3>1, Begun
    <3>3. Persists(v) /\ jobs'[v].k = jobs[v].k /\ jobs'[v].step = jobs[v].step
      BY <1>1, <1>5, <3>1, <3>2, Begun
    <3> QED
      BY <3>1, <3>3 DEF Appending, Persists, At
  <2> QED
    BY <1>2, <1>3, <1>4, <2>1, <2>2
<1>6. ASSUME NEW w \in Workers, NEW fails \in BOOLEAN,
             Check(w, fails) \/ Install(w, fails) \/ Delete(w, fails)
      PROVE  count'[r] + Cardinality(Appending(r)') <= Cardinality(Workers) + misses'
  <2>1. w \in Busy /\ \A v \in Workers \ {w} : jobs'[v] = jobs[v]
    BY <1>1, <1>6, Called
  <2>2. /\ w \in Workers /\ jobs[w] \in Job /\ At(jobs[w]) \in Rules
        /\ jobs[w].k \in Nat \ {0} /\ jobs[w].exact \in BOOLEAN
        /\ count \in [Rules -> Nat] /\ jobs \in [Workers -> Job \union {NoJob}]
    BY <1>1, <2>1, BusyJob DEF TypeOK, Job
  <2>3. Appending(r)' \subseteq Appending(r) \union {w}
    BY <2>1 DEF Appending, Busy
  <2>4. ASSUME NEW e \in BOOLEAN, Advance(w, e) \/ jobs' = [jobs EXCEPT ![w] = NoJob]
        PROVE  Appending(r)' \subseteq Appending(r) \ {w}
    <3>1. jobs'[w] = NoJob \/ jobs'[w].step = "check"
      BY <1>1, <2>1, <2>2, <2>4, Advanced
    <3>2. w \notin Appending(r)'
      BY <3>1 DEF Appending, Busy
    <3> QED
      BY <2>1, <3>2 DEF Appending, Busy
  <2>5. ASSUME NEW e \in BOOLEAN, Advance(w, e) \/ jobs' = [jobs EXCEPT ![w] = NoJob],
               count'[r] <= count[r], count'[r] \in Nat, misses' \in Nat, misses' >= misses
        PROVE  count'[r] + Cardinality(Appending(r)') <= Cardinality(Workers) + misses'
    <3>1. Appending(r)' \subseteq Appending(r)
      BY <2>4, <2>5
    <3>2. /\ Cardinality(Appending(r)') \in Nat /\ Cardinality(Appending(r)) \in Nat
          /\ Cardinality(Appending(r)') <= Cardinality(Appending(r))
      BY <1>2, <1>3, <3>1
    <3> QED
      BY <1>3, <1>4, <2>5, <3>2
  <2>6. CASE Check(w, fails)
    <3> DEFINE there == count[At(jobs[w])] > 0
               missed == there /\ fails
               e == jobs[w].exact /\ ~missed
    <3>1. /\ count' = count /\ misses' = IF missed THEN misses + 1 ELSE misses
      BY <2>6 DEF Check
    <3>2. CASE Advance(w, e)
      <4>1. e \in BOOLEAN /\ count'[r] = count[r] /\ misses' \in Nat /\ misses' >= misses
        BY <1>4, <2>2, <3>1
      <4> HIDE DEF e
      <4> QED
        BY <1>4, <2>5, <3>2, <4>1
    <3>3. CASE /\ Needed(jobs[w].op, there /\ ~fails)
               /\ jobs' = [jobs EXCEPT ![w] = Step(jobs[w], jobs[w].k, "change", e)]
      <4> DEFINE n == Step(jobs[w], jobs[w].k, "change", e)
      <4>1. n.op = jobs[w].op /\ At(n) = At(jobs[w]) /\ jobs'[w] = n
        BY <2>2, <3>3 DEF Step, At
      <4>2. CASE r # At(jobs[w]) \/ jobs[w].op # "ensure"
        <5>1. Appending(r)' \subseteq Appending(r)
          BY <2>1, <2>3, <4>1, <4>2 DEF Appending
        <5>2. /\ Cardinality(Appending(r)') \in Nat /\ Cardinality(Appending(r)) \in Nat
              /\ Cardinality(Appending(r)') <= Cardinality(Appending(r))
          BY <1>2, <1>3, <5>1
        <5> QED
          BY <1>3, <1>4, <3>1, <5>2
      <4>3. CASE r = At(jobs[w]) /\ ~there
        <5>1. count'[r] = 0 /\ misses' = misses
          BY <1>4, <3>1, <4>3
        <5>2. Cardinality(Appending(r)') \in Nat
              /\ Cardinality(Appending(r)') <= Cardinality(Workers)
          BY <1>2, <1>3
        <5> QED
          BY <1>3, <1>4, <5>1, <5>2
      <4>4. CASE missed
        <5>1. Cardinality(Appending(r) \union {w}) <= Cardinality(Appending(r)) + 1
              /\ Cardinality(Appending(r)) \in Nat
              /\ Cardinality(Appending(r) \union {w}) \in Nat
          BY <1>2, <1>3, FS_AddElement
        <5>2. Appending(r) \union {w} \in SUBSET Workers
          BY <1>3
        <5>3. Cardinality(Appending(r)') \in Nat
              /\ Cardinality(Appending(r)') <= Cardinality(Appending(r) \union {w})
          BY <1>2, <1>3, <2>3, <5>2
        <5> QED
          BY <1>3, <1>4, <3>1, <4>4, <5>1, <5>3
      <4>5. jobs[w].op = "ensure" => ~there \/ missed
        BY <3>3 DEF Needed
      <4> QED
        BY <4>2, <4>3, <4>4, <4>5
    <3>4. Advance(w, e)
          \/ /\ Needed(jobs[w].op, there /\ ~fails)
             /\ jobs' = [jobs EXCEPT ![w] = Step(jobs[w], jobs[w].k, "change", e)]
      BY <2>6 DEF Check
    <3> QED
      BY <3>2, <3>3, <3>4
  <2>7. CASE Install(w, fails)
    <3>1. misses' = misses /\ jobs[w].op = "ensure" /\ jobs[w].step = "change"
      BY <2>7 DEF Install
    <3>2. CASE fails
      <4>1. jobs' = [jobs EXCEPT ![w] = NoJob] /\ count' = count /\ TRUE \in BOOLEAN
        BY <2>7, <3>2 DEF Install, Refused
      <4>2. count'[r] <= count[r] /\ count'[r] \in Nat /\ misses' \in Nat /\ misses' >= misses
        BY <1>4, <3>1, <4>1
      <4> QED
        BY <2>5, <4>1, <4>2
    <3>3. CASE ~fails
      <4>1. Advance(w, jobs[w].exact) /\ count' = [count EXCEPT ![At(jobs[w])] = @ + 1]
        BY <2>7, <3>3 DEF Install
      <4>2. CASE r # At(jobs[w])
        BY <1>4, <2>2, <2>5, <3>1, <4>1, <4>2
      <4>3. CASE r = At(jobs[w])
        <5>1. w \in Appending(r)
          BY <2>1, <3>1, <4>3 DEF Appending
        <5>2. Appending(r)' \subseteq Appending(r) \ {w}
          BY <2>2, <2>4, <4>1
        <5>3. /\ Cardinality(Appending(r) \ {w}) = Cardinality(Appending(r)) - 1
              /\ Cardinality(Appending(r)) \in Nat
          BY <1>2, <1>3, <5>1, FS_RemoveElement
        <5>4. Appending(r) \ {w} \in SUBSET Workers
          BY <1>3
        <5>5. /\ Cardinality(Appending(r)') \in Nat
              /\ Cardinality(Appending(r)') <= Cardinality(Appending(r) \ {w})
          BY <1>2, <1>3, <5>2, <5>4
        <5>6. count'[r] = count[r] + 1
          BY <2>2, <4>1, <4>3
        <5> QED
          BY <1>3, <1>4, <3>1, <5>3, <5>5, <5>6
      <4> QED
        BY <4>2, <4>3
    <3> QED
      BY <3>2, <3>3
  <2>8. CASE Delete(w, fails)
    <3>1. /\ Advance(w, jobs[w].exact /\ ~fails) /\ misses' = misses
          /\ jobs[w].op = "delete"
      BY <2>8 DEF Delete
    <3>2. (jobs[w].exact /\ ~fails) \in BOOLEAN
      BY <2>2
    <3>3. count[r] \in Nat /\ count'[r] <= count[r] /\ count'[r] \in Nat
      BY <1>1, <1>4, <1>6, <3>1, Counted, Called DEF TypeOK
    <3>4. misses' \in Nat /\ misses' >= misses
      BY <1>4, <3>1
    <3> QED
      BY <2>5, <3>1, <3>2, <3>3, <3>4
  <2> QED
    BY <1>6, <2>6, <2>7, <2>8
<1> QED
  BY <1>5, <1>6 DEF Next

\* Types after a step, from the step lemmas of every call.
LEMMA NextTypeOK == IInv /\ Next => TypeOK'
<1> SUFFICES ASSUME IInv, Next PROVE TypeOK'
  OBVIOUS
<1>1. TypeOK
  BY DEF IInv
<1> QED
  BY <1>1, Begun, Called DEF Next

\* Every step keeps the invariant.
LEMMA StepIInv == IInv /\ [Next]_vars => IInv'
<1>1. CASE Next
  BY <1>1, NextTypeOK, NextApart, NextDeleteAhead, NextCopies, NextEnsured, NextDeleted
     DEF IInv
<1>2. CASE UNCHANGED vars
  BY <1>2 DEF vars, IInv, TypeOK, Busy, Apart, DeleteAhead, CopiesBounded, Appending,
              EnsuredIsThere, DeletedIsGone
<1> QED
  BY <1>1, <1>2

\* The invariant holds throughout, whatever the number of workers.
LEMMA Inductive == Spec => []IInv
<1> QED
  BY InitIInv, StepIInv, PTL DEF Spec

-----------------------------------------------------------------------------
(* Theorems *)

\* No job runs past the end of its list and no rule has a negative number of copies.
THEOREM TypeCorrect == Spec => []TypeOK
<1>1. IInv => TypeOK
  BY DEF IInv
<1> QED
  BY <1>1, Inductive, PTL

\* However many goroutines install and delete rules, a rule has at most as many
\* copies as there are goroutines, and checks that failed.
THEOREM CopiesAreBounded == Spec => []CopiesBounded
<1>1. IInv => CopiesBounded
  BY DEF IInv
<1> QED
  BY <1>1, Inductive, PTL

\* What SetupNAT or ApplyPortForward has got past is in place, unless a call failed
\* or a removal of one of its rules overlapped.
THEOREM EnsuredAlwaysThere == Spec => []EnsuredIsThere
<1>1. IInv => EnsuredIsThere
  BY DEF IInv
<1> QED
  BY <1>1, Inductive, PTL

\* What TeardownNAT or RemovePortForward has got past is gone, unless a call failed,
\* two copies were there, or an installation of one of its rules overlapped.
THEOREM DeletedAlwaysGone == Spec => []DeletedIsGone
<1>1. IInv => DeletedIsGone
  BY DEF IInv
<1> QED
  BY <1>1, Inductive, PTL

\* With one goroutine at a time and a check that works there is one copy at most,
\* and WgHost may take the rules for a set.
THEOREM OneAtATime ==
    ASSUME NEW w, Workers = {w}
    PROVE  Spec => [](misses = 0 => \A r \in Rules : count[r] <= 1)
<1>1. IInv /\ misses = 0 => \A r \in Rules : count[r] <= 1
  <2> SUFFICES ASSUME IInv, misses = 0, NEW r \in Rules PROVE count[r] <= 1
    OBVIOUS
  <2>1. Cardinality(Workers) = 1
    BY FS_Singleton
  <2>2. Appending(r) \subseteq Workers
    BY DEF Appending, Busy
  <2>3. Cardinality(Appending(r)) \in Nat
    BY <2>2, FS_Subset, FS_CardinalityType, IptablesAssumption
  <2>4. count[r] \in Nat /\ count[r] + Cardinality(Appending(r)) <= Cardinality(Workers) + misses
    BY DEF IInv, TypeOK, CopiesBounded
  <2> QED
    BY <2>1, <2>3, <2>4
<1>2. IInv => (misses = 0 => \A r \in Rules : count[r] <= 1)
  BY <1>1
<1> QED
  BY <1>2, Inductive, PTL
=============================================================================
