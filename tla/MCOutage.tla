------------------------------ MODULE MCOutage ------------------------------
(***************************************************************************)
(* An instance of DeviceOutage with two kinds of run: a steady outage, in  *)
(* which the loop may make every request of the code and wait for long,    *)
(* and WiFi that comes and goes, with the requests that differ in kind.    *)
(***************************************************************************)
EXTENDS MCDevice, DeviceOutage

\* The time-outs of the code are long enough for what is proved of an outage.
ASSUME Timeouts == EnoughTime

\* Requests that differ from the others only in where they are made.
Alike == {"executed", "applied", "rejected", "missing", "publish", "safety",
          "fault", "stale", "changes"}

RunNext ==
    /\ OutageNext
    /\ asked' \in IF ~outage /\ site \in Alike THEN {FALSE} ELSE BOOLEAN
    /\ idle' \in IF outage THEN Nat ELSE {0, 1}

RunSpec == OutageInit /\ [][RunNext]_<<vars, outage>>
RunView == <<DeviceView, outage>>
=============================================================================
