------------------------ MODULE MCInProgressRecording ------------------------
(* A small instance of InProgressRecording for TLC. *)
EXTENDS InProgressRecording

\* four segments: enough for two to be missed and the count of known ones to
\* point into the middle of what is known
Sizes == <<1, 2, 1, 2>>

=============================================================================
