------------------------------ MODULE MCMonitor ------------------------------
(* One service and a unit that is none.                                     *)
EXTENDS Monitor

CONSTANTS s1, m1
=============================================================================
