---------------------------- MODULE MCTaskManager ----------------------------
(* Two agents on three cells; tasks with one and with two errands, the     *)
(* second task with two errands at one cell.                               *)
EXTENDS TaskManagerRefinement

MCLocations == {1, 2, 3}
MCTaskFile == << <<1, 2>>, <<3, 3>>, <<2>> >>
=============================================================================
