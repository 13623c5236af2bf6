------------------------ MODULE MCTimeshiftBuffer ------------------------
(* Small instances of TimeshiftBuffer for TLC. *)
EXTENDS TimeshiftBuffer

CONSTANTS c1, c2, v1, v2, v3, t1, t2, i1, i2, i3

=============================================================================
