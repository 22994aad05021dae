----------------------------- MODULE MCWgSerial -----------------------------
(***************************************************************************)
(* A small instance of WgSerial for TLC, and the fault patterns by which   *)
(* WgPanel's handlers account for failing calls and crashes.               *)
(***************************************************************************)
EXTENDS MCWgRequests, WgSerial

\* What a crash makes of a request: the calls it did not reach have failed, from
\* one statement on, from one kernel call on, or all of a Delete's or Purge's.
CrashFaults ==
    {NoFault}
      \union {[NoFault EXCEPT !.db = {b}] :
                b \in {"save", "peers", "row", "load", "egress", "pfload"}}
      \union {[NoFault EXCEPT !.host = {h}] : h \in {"rmlink", "device", "peer", "forwarding"}}
      \union {[NoFault EXCEPT !.del = NatKinds, !.db = {"pfload"}],
              [NoFault EXCEPT !.host = {"rmlink"}, !.db = {"peers"}],
              [NoFault EXCEPT !.host = {"rmlink"}, !.del = NatKinds, !.db = {"peers"}]}

\* What failed at one call of a request or another, and what a crash added; no more
\* than one statement, since the handler ends there.
AllFaults ==
    LET Some(field) == SUBSET UNION {F[field] : F \in FaultSets}
        Failures == CrashFaults \union FaultSets
    IN  {[host |-> h \union C.host, add |-> a, del |-> d \union C.del, db |-> C.db] :
           h \in Some("host"), a \in Some("add"), d \in Some("del"), C \in Failures}
=============================================================================
