----------------------------- MODULE MCReports ------------------------------
(***************************************************************************)
(* A small instance of Reports for TLC: three tools inspect, one of them   *)
(* goes down.                                                              *)
(***************************************************************************)
EXTENDS Reports, TLC

CONSTANTS i1, i2, i3, null

\* One inspection short of a sample, a sample, and the one that completes it:
\* none, a third or the last of them fail.
Arrivals == {<<9, 0>>, <<9, 3>>, <<10, 0>>, <<1, 1>>}

Interchangeable == Permutations({i2, i3})
=============================================================================
