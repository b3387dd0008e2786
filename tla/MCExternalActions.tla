------------------------- MODULE MCExternalActions -------------------------
EXTENDS ExternalActions, TLC

CONSTANTS hh, v1, app, cv1, cv2, hr

(* A submission with one and with another artifact, one to a receiver of  *)
(* its own without application; a profile update; a hidden vacancy.        *)
Submit == [type |-> "submit", platform |-> hh, vacancy |-> v1, application |-> app,
           artifact |-> cv1, target |-> NoRef]
OtherArtifact == [Submit EXCEPT !.artifact = cv2]
NoApplication == [Submit EXCEPT !.application = NoRef, !.target = hr]
Profile == [NoApplication EXCEPT !.type = "profile", !.vacancy = NoRef, !.target = NoRef]
Hide == [NoApplication EXCEPT !.type = "hide", !.artifact = NoRef]
MCShape == {Submit, OtherArtifact, NoApplication, Profile, Hide}
MCSymmetry == Permutations(Client)
=============================================================================
