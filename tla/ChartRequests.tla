---------------------------- MODULE ChartRequests ----------------------------
(***************************************************************************)
(* The runs of a chart's query: POST /api/v1/chart/data requests of one    *)
(* browser tab.  A request stands also for its form data, its              *)
(* AbortController, its response and, when it misses the cache, its job.   *)
(***************************************************************************)
CONSTANTS
  Requests,
  NoRequest

ASSUME NoRequestAssumption == NoRequest \notin Requests
=============================================================================
