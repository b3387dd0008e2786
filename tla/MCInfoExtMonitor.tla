-------------------------- MODULE MCInfoExtMonitor --------------------------
(* Bounds for TLC on InfoExtMonitor.                                       *)
EXTENDS InfoExtMonitor

CONSTANTS FirstIdentity, FirstStatus

ASSUME FirstAssumption == FirstIdentity \in Identity /\ FirstStatus \in Status

(* Requests are interchangeable, and so are answers: the first check fixes *)
(* which of them is named first.                                           *)
FirstCheckNames ==
  checks = 1 =>
    /\ disk.failing \in {FirstIdentity, None} /\ disk.status \in {FirstStatus, None}
    /\ queued /= <<>> => /\ queued[1].id = FirstIdentity
                         /\ queued[1].status \in {FirstStatus, None}

(* Three checks or a fault: what the third one adds to the state file      *)
(* meets a fault of the processes as the second one did.                   *)
FaultsBeforeLast == checks = 3 => faults = 0

CheckBound == FirstCheckNames /\ FaultsBeforeLast
=============================================================================
