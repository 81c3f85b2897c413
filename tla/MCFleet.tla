------------------------------ MODULE MCFleet ------------------------------
(* The instance of Fleet for TLC.                                           *)
EXTENDS Fleet

CONSTANTS m1, m2, t1, t2

\* A manager is replaced, or two tasks compete for a name.
TwoPools == {{m1, m2, t1}, {m1, t1, t2}}
=============================================================================
