--------------------------- MODULE MCReportArtifact ---------------------------
(* Instances of ReportArtifact for TLC; see the configurations.            *)
EXTENDS ReportArtifact
=============================================================================
