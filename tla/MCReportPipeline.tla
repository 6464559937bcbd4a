-------------------------- MODULE MCReportPipeline --------------------------
(* ReportPipeline with small values for TLC. *)
EXTENDS ReportPipeline
=============================================================================
