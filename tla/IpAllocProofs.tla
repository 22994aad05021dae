--------------------------- MODULE IpAllocProofs ---------------------------
(***************************************************************************)
(* The address the loop returns, for any number of digits of any base, any *)
(* server, any prefix and any set of taken addresses.                      *)
(***************************************************************************)
EXTENDS IpAlloc, WellFoundedInduction, TLAPS

\* A set of places that is not empty has a first one.
LEMMA FirstPlace ==
    ASSUME NEW S \in SUBSET Nat, S # {}
    PROVE  \E k \in S : \A m \in S : k <= m
<1> DEFINE R == OpToRel(<, Nat)
<1>1. R = {ss \in Nat \X Nat : ss[1] < ss[2]}
  BY DEF OpToRel
<1>2. IsWellFoundedOn(R, Nat)
  BY NatLessThanWellFounded
<1> HIDE DEF R
<1>3. PICK k \in S : \A m \in S : <<m, k>> \notin R
  BY <1>2, WFMin
<1>4. \A m \in S : ~(m < k)
  BY <1>1, <1>3
<1> QED BY <1>4

-----------------------------------------------------------------------------
(* The order of addresses and the successor in it.                         *)

\* Two addresses that differ are ordered: by the first digit in which they do.
LEMMA Ordered ==
    ASSUME NEW a \in Addresses, NEW b \in Addresses, a # b
    PROVE  Before(a, b) \/ Before(b, a)
<1> DEFINE S == {k \in Places : a[k] # b[k]}
<1>1. S # {} /\ S \in SUBSET Nat
  <2>1. S \subseteq Places /\ Places \subseteq Nat
    BY DEF Places
  <2>2. \E k \in Places : a[k] # b[k]
    BY DEF Addresses
  <2> QED BY <2>1, <2>2
<1>2. PICK k \in S : \A m \in S : k <= m
  <2> HIDE DEF S
  <2> QED BY <1>1, FirstPlace
<1>3. \A m \in 1..(k - 1) : a[m] = b[m]
  BY <1>2, IpAssumption DEF Places
<1>4. k \in Places /\ a[k] # b[k] /\ a[k] \in Nat /\ b[k] \in Nat
  BY <1>2, IpAssumption DEF Addresses, Digits
<1>5. a[k] < b[k] \/ b[k] < a[k]
  BY <1>4
<1> QED BY <1>3, <1>4, <1>5 DEF Before

\* The place that goes up.
Up(a) == Max({0} \union {k \in Places : a[k] # Base - 1})

\* It is the last one that is not at its maximum, or 0 when there is none.
LEMMA LastPlace ==
    ASSUME NEW a \in Addresses
    PROVE  /\ Up(a) \in 0..Octets
           /\ \A k \in Places : k > Up(a) => a[k] = Base - 1
           /\ Up(a) # 0 => a[Up(a)] # Base - 1
<1> DEFINE S == {0} \union {k \in Places : a[k] # Base - 1}
           D == {Octets - k : k \in S}
<1>1. Octets \in Nat /\ Places = 1..Octets /\ S \subseteq 0..Octets /\ 0 \in S
  BY IpAssumption DEF Places
<1>2. D \in SUBSET Nat /\ D # {}
  <2> HIDE DEF S
  <2> QED BY <1>1
<1>3. PICK d \in D : \A m \in D : d <= m
  <2> HIDE DEF D
  <2> QED BY <1>2, FirstPlace
<1>4. \E k \in S : \A m \in S : k >= m
  <2> HIDE DEF S
  <2>1. PICK k \in S : d = Octets - k
    OBVIOUS
  <2>2. \A m \in S : Octets - k <= Octets - m
    BY <1>3, <2>1
  <2>3. \A m \in S : k >= m
    BY <1>1, <2>2
  <2> QED BY <2>1, <2>3
<1>5. Up(a) \in S /\ \A m \in S : Up(a) >= m
  BY <1>4 DEF Up, Max
<1>6. \A k \in Places : k > Up(a) => k \notin S
  BY <1>1, <1>5
<1> QED BY <1>1, <1>5, <1>6

\* Inc, digit by digit.
LEMMA IncDigits ==
    ASSUME NEW a \in Addresses
    PROVE  /\ Inc(a) \in Addresses
           /\ \A k \in Places : /\ k < Up(a) => Inc(a)[k] = a[k]
                                /\ k = Up(a) => Inc(a)[k] = a[k] + 1
                                /\ k > Up(a) => Inc(a)[k] = 0
<1>1. Inc(a) = [k \in Places |-> IF k < Up(a) THEN a[k]
                                 ELSE IF k = Up(a) THEN a[k] + 1 ELSE 0]
  BY DEF Inc, Up
<1>2. Up(a) \in 0..Octets /\ (Up(a) # 0 => a[Up(a)] # Base - 1)
  BY LastPlace
<1>3. Up(a) \in Nat /\ Places \subseteq Nat /\ 0 \in Digits /\ a \in [Places -> Digits]
  BY <1>2, IpAssumption DEF Places, Digits, Addresses
<1>4. ASSUME NEW k \in Places, k = Up(a)
      PROVE  a[k] + 1 \in Digits
  <2>1. a[k] \in Digits /\ a[k] # Base - 1
    BY <1>2, <1>3, <1>4, IpAssumption DEF Places
  <2> QED BY <2>1, IpAssumption DEF Digits
<1>5. Inc(a) \in [Places -> Digits]
  BY <1>1, <1>3, <1>4
<1> QED BY <1>1, <1>3, <1>5 DEF Addresses

\* No address lies between another one and its successor; none lies before the
\* address that the last one wraps to.
LEMMA NothingSkipped ==
    ASSUME NEW a \in Addresses, NEW b \in Addresses, Before(b, Inc(a))
    PROVE  b = a \/ Before(b, a)
<1> DEFINE u == Up(a)
           n == Inc(a)
<1>1. PICK k \in Places : b[k] < n[k] /\ \A m \in 1..(k - 1) : b[m] = n[m]
  BY DEF Before
<1>2. u \in 0..Octets /\ Octets \in Nat /\ Places = 1..Octets
  BY LastPlace, IpAssumption DEF Places
<1>3. \A m \in Places : a[m] \in 0..(Base - 1) /\ b[m] \in 0..(Base - 1) /\ Base \in Nat
  BY IpAssumption DEF Addresses, Digits
<1>4. \A m \in Places : /\ m < u => n[m] = a[m]
                        /\ m = u => n[m] = a[m] + 1
                        /\ m > u => n[m] = 0
  BY IncDigits
<1> HIDE DEF u, n
<1>5. k <= u
  BY <1>1, <1>2, <1>3, <1>4
<1>6. \A m \in 1..(k - 1) : b[m] = a[m]
  BY <1>1, <1>2, <1>4, <1>5
<1>7. CASE b[k] < a[k]
  BY <1>6, <1>7 DEF Before
<1>8. CASE ~(b[k] < a[k])
  <2>1. k = u /\ b[k] = a[k]
    BY <1>1, <1>2, <1>3, <1>4, <1>5, <1>8
  <2>2. \A m \in Places : m > u => a[m] = Base - 1
    BY LastPlace DEF u
  <2>3. ASSUME Before(a, b)
        PROVE  FALSE
    <3>1. PICK m \in Places : a[m] < b[m] /\ \A l \in 1..(m - 1) : a[l] = b[l]
      BY <2>3 DEF Before
    <3>2. m > u
      BY <1>2, <1>3, <1>6, <2>1, <3>1
    <3> QED BY <1>3, <2>2, <3>1, <3>2
  <2> QED BY <2>3, Ordered
<1> QED BY <1>7, <1>8

\* Of two addresses of the subnet, the successor of the first is one as well.
LEMMA SubnetConvex ==
    ASSUME NEW a \in Addresses, NEW b \in Addresses, Before(a, b), prefix \in 0..Octets,
           Contains(server, prefix, a), Contains(server, prefix, b)
    PROVE  Contains(server, prefix, Inc(a))
<1>1. PICK k \in Places : a[k] < b[k] /\ \A m \in 1..(k - 1) : a[m] = b[m]
  BY DEF Before
<1>2. Octets \in Nat /\ Places = 1..Octets /\ Base \in Nat
  BY IpAssumption DEF Places
<1>3. a[k] \in 0..(Base - 1) /\ b[k] \in 0..(Base - 1)
  BY DEF Addresses, Digits
<1>4. prefix < k
  BY <1>1, <1>2, <1>3 DEF Contains
<1>5. k <= Up(a)
  <2>1. Up(a) \in 0..Octets /\ (k > Up(a) => a[k] = Base - 1)
    BY LastPlace
  <2> QED BY <1>1, <1>2, <1>3, <2>1
<1>6. \A m \in 1..prefix : Inc(a)[m] = a[m]
  <2>1. Up(a) \in 0..Octets /\ \A m \in Places : m < Up(a) => Inc(a)[m] = a[m]
    BY LastPlace, IncDigits
  <2> QED BY <1>2, <1>4, <1>5, <2>1
<1> QED BY <1>6 DEF Contains

-----------------------------------------------------------------------------

\* Whatever the loop has passed is not free: its candidate and all before it.
Passed ==
    result = NotYet =>
      /\ candidate \in Addresses /\ Contains(server, prefix, candidate)
      /\ \A b \in Subnet : b = candidate \/ Before(b, candidate) => b \notin Free

IInv ==
    /\ server \in Addresses /\ prefix \in 0..Octets
    /\ Passed /\ LeastFree

LEMMA NetworkAddress ==
    ASSUME server \in Addresses, prefix \in 0..Octets
    PROVE  /\ Network(server, prefix) \in Addresses
           /\ Contains(server, prefix, Network(server, prefix))
           /\ Network(server, prefix) \notin Free
           /\ \A b \in Subnet : ~Before(b, Network(server, prefix))
<1> DEFINE n == Network(server, prefix)
<1>1. Octets \in Nat /\ Places = 1..Octets /\ 0 \in Digits /\ Digits \subseteq Nat
  BY IpAssumption DEF Places, Digits
<1>2. n \in Addresses
  BY <1>1 DEF Network, Addresses
<1>3. \A k \in Places : n[k] = IF k <= prefix THEN server[k] ELSE 0
  BY DEF Network
<1>4. Contains(server, prefix, n)
  BY <1>1, <1>3 DEF Contains
<1>5. ASSUME NEW b \in Subnet, Before(b, n)
      PROVE  FALSE
  <2>1. PICK k \in Places : b[k] < n[k]
    BY <1>5 DEF Before
  <2>2. b \in [Places -> Digits] /\ \A m \in 1..prefix : b[m] = server[m]
    BY DEF Subnet, Addresses, Contains
  <2>3. /\ k \in Nat \ {0} /\ b[k] \in Nat
        /\ k <= prefix => b[k] = server[k]
    <3>1. k \in Nat \ {0} /\ prefix \in Nat
      BY <1>1
    <3>2. b[k] \in Nat
      BY <1>1, <2>2
    <3>3. k <= prefix => k \in 1..prefix
      BY <3>1
    <3> QED BY <2>2, <3>1, <3>2, <3>3
  <2>4. server[k] \in Nat
    BY <1>1 DEF Addresses
  <2> QED BY <1>1, <1>3, <2>1, <2>3, <2>4
<1>6. n \notin Free
  BY DEF Free, Acceptable
<1> QED BY <1>2, <1>4, <1>5, <1>6

LEMMA InitIInv == Init => IInv
<1> SUFFICES ASSUME Init PROVE IInv
  OBVIOUS
<1>1. server \in Addresses /\ prefix \in 0..Octets
  BY DEF Init
<1>2. Passed
  BY <1>1, NetworkAddress DEF Init, Passed
<1>3. LeastFree
  BY DEF Init, LeastFree
<1> QED BY <1>1, <1>2, <1>3 DEF IInv

LEMMA NextIInv == IInv /\ [Next]_vars => IInv'
<1> SUFFICES ASSUME IInv, [Next]_vars PROVE IInv'
  OBVIOUS
<1> USE DEF IInv
<1>1. CASE UNCHANGED vars
  BY <1>1 DEF vars, Passed, LeastFree, Free, Acceptable, Subnet
<1>2. CASE Next
  <2> DEFINE next == Inc(candidate)
  <2>1. /\ result = NotYet /\ candidate' = next
        /\ server' = server /\ prefix' = prefix /\ taken' = taken
        /\ result' = IF ~Contains(server, prefix, next) THEN {}
                     ELSE IF next = Network(server, prefix) THEN NotYet
                     ELSE IF next \in Used THEN NotYet
                     ELSE {next}
    BY <1>2 DEF Next, Turn
  <2>2. Free' = Free /\ Subnet' = Subnet
    BY <2>1 DEF Free, Acceptable, Subnet
  <2>3. /\ candidate \in Addresses /\ Contains(server, prefix, candidate)
        /\ \A b \in Subnet : b = candidate \/ Before(b, candidate) => b \notin Free
    BY <2>1 DEF Passed
  <2>4. next \in Addresses
    BY <2>3, IncDigits
  <2>5. \A b \in Subnet : Before(b, next) => b \notin Free
    BY <2>3, NothingSkipped DEF Subnet
  <2> HIDE DEF next
  <2>6. CASE ~Contains(server, prefix, next)
    <3>1. \A b \in Subnet : b = candidate \/ Before(b, candidate)
      BY <2>3, <2>6, Ordered, SubnetConvex DEF Subnet, next
    <3>2. Free = {}
      BY <2>3, <3>1 DEF Free
    <3>3. result' = {} /\ {} # NotYet
      BY <2>1, <2>6 DEF NotYet
    <3> QED BY <2>1, <2>2, <3>2, <3>3 DEF Passed, LeastFree
  <2>7. CASE Contains(server, prefix, next) /\ (next = Network(server, prefix) \/ next \in Used)
    <3>1. result' = NotYet
      BY <2>1, <2>7
    <3>2. next \notin Free
      BY <2>7 DEF Free, Acceptable, Used
    <3>3. Passed'
      BY <2>1, <2>2, <2>4, <2>5, <2>7, <3>2 DEF Passed
    <3> QED BY <2>1, <3>1, <3>3 DEF LeastFree
  <2>8. CASE /\ Contains(server, prefix, next)
             /\ next # Network(server, prefix) /\ next \notin Used
    <3>1. result' = {next}
      BY <2>1, <2>8
    <3>2. next \in Free
      BY <2>4, <2>8 DEF Free, Subnet, Acceptable, Used
    <3>3. \A b \in Free \ {next} : Before(next, b)
      BY <2>4, <2>5, Ordered DEF Free, Subnet
    <3>4. {next} # NotYet
      <4>1. next # <<>>
        <5>1. DOMAIN next = 1..Octets /\ Octets \in Nat \ {0}
          BY <2>4, IpAssumption DEF Addresses, Places
        <5> QED BY <5>1
      <4> QED BY <4>1 DEF NotYet
    <3>5. LeastFree'
      BY <2>2, <3>1, <3>2, <3>3 DEF LeastFree
    <3> QED BY <2>1, <3>1, <3>4, <3>5 DEF Passed
  <2> QED BY <2>6, <2>7, <2>8
<1> QED BY <1>1, <1>2

\* NextFreeIP hands out the least address of the subnet that the handler's own
\* validation accepts and no loaded peer holds, and reports exhaustion only when
\* there is none: for any base, length of address, server, prefix and peers.
THEOREM AllocationSafe == Spec => []LeastFree
<1>1. IInv => LeastFree
  BY DEF IInv
<1> QED BY InitIInv, NextIInv, <1>1, PTL DEF Spec
=============================================================================
