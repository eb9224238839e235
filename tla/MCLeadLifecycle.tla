-------------------------- MODULE MCLeadLifecycle --------------------------
(***************************************************************************)
(* A small instance of LeadLifecycle over the whole clock, with what the   *)
(* reports of LeadReports show of it.                                      *)
(***************************************************************************)
EXTENDS LeadReports, TLC

FairReportSpec == ReportSpec /\ Fairness
=============================================================================
