---------------------------- MODULE MCAsyncCharts ----------------------------
(* AsyncCharts on small instances. *)
EXTENDS AsyncCharts

CONSTANTS r1, r2

Interchangeable == Permutations(Requests)
=============================================================================
