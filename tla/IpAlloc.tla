------------------------------ MODULE IpAlloc ------------------------------
(***************************************************************************)
(* NextFreeIP, the loop that picks a tunnel address for a new peer, with   *)
(* the byte-wise increment it is built on and the validation the handler   *)
(* applies to its result.  An address is a sequence of Octets digits below *)
(* Base, most significant first; a prefix fixes that many leading digits   *)
(* (the code's prefix counts bits; whole digits are the case Base = 2).    *)
(***************************************************************************)
EXTENDS Naturals, FiniteSetsExt

CONSTANTS Base, Octets

ASSUME IpAssumption == Base \in Nat \ {0, 1} /\ Octets \in Nat \ {0}

VARIABLES
    server,      \* the interface's own address
    prefix,      \* the length of its prefix
    taken,       \* the addresses of the peers it was loaded with
    candidate,
    result       \* the outcome, as a set: {} when the subnet is exhausted
                 \* and NotYet while the loop runs

vars == <<server, prefix, taken, candidate, result>>

Places == 1..Octets
Digits == 0..(Base - 1)
Addresses == [Places -> Digits]
NotYet == {<<>>}

\* net.IPNet.Contains and the network address of a CIDR.
Contains(net, len, a) == \A k \in 1..len : a[k] = net[k]
Network(a, len) == [k \in Places |-> IF k <= len THEN a[k] ELSE 0]
Subnet == {a \in Addresses : Contains(server, prefix, a)}

\* Seeded fault: the carry is lost.
IncNoCarry(a) == [a EXCEPT ![Octets] = (@ + 1) % Base]

\* incIP: the last digit that is not at its maximum goes up, all after it wrap
\* to zero; the last address of all wraps to the first.
Inc(a) ==
    LET up == Max({0} \union {k \in Places : a[k] # Base - 1})
    IN  [k \in Places |-> IF k < up THEN a[k] ELSE IF k = up THEN a[k] + 1 ELSE 0]

\* Seeded fault: the interface's own address is not reserved.
UsedByPeers == taken

Used == taken \union {server}

\* ValidateIPInCIDR
Acceptable(a) ==
    Contains(server, prefix, a) /\ a \notin {server, Network(server, prefix)}

-----------------------------------------------------------------------------

Init ==
    /\ server \in Addresses
    /\ prefix \in 0..Octets
    /\ taken \in SUBSET Subnet
    /\ candidate = Network(server, prefix)
    /\ result = NotYet

\* One turn of the loop.
Turn ==
    LET next == Inc(candidate)
    IN  /\ result = NotYet
        /\ candidate' = next
        /\ result' = IF ~Contains(server, prefix, next) THEN {}
                     ELSE IF next = Network(server, prefix) THEN NotYet
                     ELSE IF next \in Used THEN NotYet
                     ELSE {next}
        /\ UNCHANGED <<server, prefix, taken>>

Next == Turn
Spec == Init /\ [][Next]_vars /\ WF_vars(Turn)

-----------------------------------------------------------------------------

\* The order of addresses, as numbers.
Before(a, b) == \E k \in Places : a[k] < b[k] /\ \A m \in 1..(k - 1) : a[m] = b[m]

\* The reference: the addresses the handler's own validation accepts and no
\* loaded peer holds.
Free == {a \in Subnet : Acceptable(a)} \ taken

\* The loop returns the least acceptable free address, and reports exhaustion
\* only when there is none: its carries, its skips and the wrap at the end of
\* the address space neither miss an address nor hand out a reserved one.
LeastFree ==
    result # NotYet =>
      IF result = {} THEN Free = {}
      ELSE \E a \in Free : result = {a} /\ \A b \in Free \ {a} : Before(a, b)

\* The loop ends, unless the subnet is the whole address space and is full: then
\* the increment wraps inside the subnet for ever.
Terminates == (prefix = 0 /\ Free = {}) \/ <>(result # NotYet)
=============================================================================
