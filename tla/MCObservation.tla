--------------------------- MODULE MCObservation ---------------------------
(***************************************************************************)
(* Instances of Observation for TLC.                                       *)
(***************************************************************************)
EXTENDS Observation

\* A follower of everything, and one of the ends of the jobs alone.
AllOrEnds == {{}, {"job.ended"}}
=============================================================================
