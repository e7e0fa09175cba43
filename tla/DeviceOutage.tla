---------------------------- MODULE DeviceOutage ----------------------------
(***************************************************************************)
(* DeviceCycle with or without an outage: WiFi is down from a boot on and  *)
(* stays so, or it comes and goes as it likes.                             *)
(***************************************************************************)
EXTENDS DeviceCycle

VARIABLE outage     \* WiFi is down from the boot on, and stays so

OutageInit == Init /\ outage = ~wifi

OutageNext == Next /\ outage' = outage /\ (outage => ~wifi')

OutageSpec == OutageInit /\ [][OutageNext]_<<vars, outage>>

\* The watchdog outlasts four deadlines in a row, and every idle wait.
EnoughTime ==
    /\ NETWORK_QUEUE_LENGTH > 0
    /\ NETWORK_REQUEST_TIMEOUT > 0
    /\ 4 * NETWORK_REQUEST_TIMEOUT < WDT_TIMEOUT
    /\ \A i \in IdleTimes : i < WDT_TIMEOUT

-----------------------------------------------------------------------------
(* Properties *)

\* A steady outage, in which every POST costs its caller the whole deadline,
\* does not make the watchdog reboot the device (loop, networkTaskLoop).
FedInOutage == outage => FedInTime
=============================================================================
