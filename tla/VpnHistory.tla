----------------------------- MODULE VpnHistory -----------------------------
(***************************************************************************)
(* VpnRuntime with a history variable: which applies under way have met    *)
(* another one that writes the same files or handles the same services.    *)
(***************************************************************************)
EXTENDS VpnRuntime

VARIABLE crossed    \* workers whose apply has overlapped a conflicting one

hvars == <<vars, crossed>>

Conflict(i, j) ==
    \/ FilesOf(i) \intersect FilesOf(j) # {}
    \/ ServicesOf(i) \intersect ServicesOf(j) # {}

HInit == Init /\ crossed = {}

HNext ==
    /\ Next
    /\ crossed' = {w \in Workers :
         /\ job'[w] # None
         /\ \/ w \in crossed
            \/ \E v \in Workers \ {w} :
                 job'[v] # None /\ Conflict(job'[v].id, job'[w].id)}

HSpec == HInit /\ [][HNext]_hvars

-----------------------------------------------------------------------------

\* The host works for instance i and for nobody else in its place.
Serves(i) ==
    /\ \A f \in FilesOf(i) : files[f] = i
    /\ rules[i] = RuleCount
    /\ \A s \in ServicesOf(i) : running[s] = {i}

\* An apply that is about to be answered with success, and that no conflicting
\* apply overlapped, has the host serve its instance: all files its own, all
\* rules in place, every service started from its files alone.  Whatever came
\* before does not matter: applies of other instances, failures half way, torn
\* files, restarts, reboots.
AppliedIsServed ==
    \A w \in Workers \ crossed : Done(w) => Serves(job[w].id)
=============================================================================
