---------------------------- MODULE MCLiveStream ----------------------------
(* Small instances of LiveStream for TLC. *)
EXTENDS LiveStream

\* two instances; in the first the file of segment 0 is reused by segment 4,
\* which on its way to size 2 is as long as segment 0 was
Sizes == << <<1, 2, 1, 2, 2>>, <<2>> >>

\* one short instance, for the liveness runs
FewSizes == << <<1, 1>> >>

=============================================================================
