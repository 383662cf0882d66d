-------------------------- MODULE MCDetectorRounds --------------------------
(* Three agents that can wait in a ring, or two of them on each other. *)
EXTENDS DetectorRounds, TLC

CONSTANTS a1, a2, a3, r1, r2, r3

\* Claims 1 to 3 wait on 4 to 6; with claim 7, a2 can wait on a1 as well.
Owners == <<a1, a2, a3, a2, a3, a1, a2>>
Wants == <<r1, r2, r3, r1, r2, r3, r3>>
Waiting == {"gone", "blocked"}
Holding == {"gone", "held"}
Standings ==
  <<Waiting \union {"held"}, Waiting, Waiting, Holding \union {"challenged"}, Holding, Holding, Waiting>>
=============================================================================
