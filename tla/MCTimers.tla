----------------------------- MODULE MCTimers -----------------------------
EXTENDS Timers

\* the zone is one unit behind Greenwich, or has summer time and is not
Offsets == {-1, 0}
=============================================================================
