-------------------------- MODULE MCReportSchedule --------------------------
(* ReportSchedule on small instances. *)
EXTENDS ReportSchedule

CONSTANTS e1, e2

=============================================================================
