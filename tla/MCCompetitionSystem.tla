------------------------- MODULE MCCompetitionSystem -------------------------
(* Two ongoing tasks, and two or three agents on three cells.  Task 1 has  *)
(* its two errands at one cell: an agent can finish it while everybody     *)
(* waits.                                                                  *)
EXTENDS CompetitionSystem

MCLocations == {1, 2, 3}
MCTaskFile == << <<1, 2>>, <<3, 3>>, <<2>> >>
=============================================================================
