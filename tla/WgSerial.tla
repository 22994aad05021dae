------------------------------ MODULE WgSerial ------------------------------
(***************************************************************************)
(* WgRequests against WgPanel: requests that do not overlap are one step,  *)
(* also when a crash cuts them short.  The panel's state shown between two *)
(* requests is the state the request in progress began in.                 *)
(***************************************************************************)
EXTENDS WgRequests

CONSTANT PanelFaults    \* the fault patterns one handler of the panel may meet

VARIABLE before    \* the state the current request began in (history)

svars == <<rvars, before>>

Now == [ifaces |-> ifaces, peers |-> peers, pfs |-> pfs, dev |-> dev, fw |-> fw,
        todo |-> todo, pfTodo |-> pfTodo, owed |-> owed]

SInit == RInit /\ before = <<>>

\* The history is kept from the first call of a request to its answer.
SNext ==
    /\ RNext
    /\ before' = IF Busy' = {} THEN <<>> ELSE IF Busy = {} THEN Now ELSE before

SSpec == SInit /\ [][SNext]_svars

Shown == IF Busy = {} THEN Now ELSE before

Panel == INSTANCE WgPanel WITH
    FaultSets <- PanelFaults,
    ifaces <- Shown.ifaces, peers <- Shown.peers, pfs <- Shown.pfs,
    dev <- Shown.dev, fw <- Shown.fw, wan <- wan,
    todo <- Shown.todo, pfTodo <- Shown.pfTodo, owed <- Shown.owed

-----------------------------------------------------------------------------

\* With one request at a time, handlers that make one call after another and can
\* be killed between any two of them implement the handlers that are one step:
\* whatever WgPanel promises under failing calls holds for them too.
RequestsAreAtomic == Panel!Spec
=============================================================================
