---------------------------- MODULE MCGeneration ----------------------------
(* A small instance of Generation: a week of one day, a month of two days   *)
(* before one of a single day, a job for two journals, and two requests.   *)
EXTENDS Generation, TLC

CONSTANTS i1, j1, j2, job, g1, g2

MCServes == job :> {j1, j2} @@ g1 :> {i1, j1} @@ g2 :> {i1}

\* Days 1 and 2, then 3, then 4 and 5, and a day a month from then on.
MCFirstDay == [m \in 1..15 |-> IF m = 1 THEN 1 ELSE IF m = 2 THEN 3 ELSE IF m = 3 THEN 4 ELSE m + 2]
=============================================================================
