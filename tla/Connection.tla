------------------------------ MODULE Connection ------------------------------
(***************************************************************************)
(* What HttpConnection promises to the HubConnection above it: start()     *)
(* succeeds or fails, a start that stop() overtakes fails, and onclose is  *)
(* called, in the steps Closed, once for every start that has succeeded.   *)
(***************************************************************************)

VARIABLE phase

(* A start that has been stopped is "cancelled".                           *)
Phases == {"down", "starting", "cancelled", "up", "closing"}

Init == phase = "down"

(* start() is called.                                                      *)
Open == phase = "down" /\ phase' = "starting"

(* start() resolves.                                                       *)
Opened == phase = "starting" /\ phase' = "up"

(* start() is rejected.                                                    *)
Failed == phase \in {"starting", "cancelled"} /\ phase' = "down"

(* stop() is called; in the other phases it is ignored.                    *)
Close ==
    \/ phase = "starting" /\ phase' = "cancelled"
    \/ phase = "up" /\ phase' = "closing"

(* onclose is called, after stop() or because the transport has ended.     *)
Closed == phase \in {"up", "closing"} /\ phase' = "down"

Next ==
    \/ Open
    \/ Opened
    \/ Failed
    \/ Close
    \/ Closed
=============================================================================
