------------------------------ MODULE MCKdTree ------------------------------
(***************************************************************************)
(* Both trees on a few coordinates, among them two whose middle is         *)
(* negative and not an integer.                                            *)
(***************************************************************************)
EXTENDS ArrayTree

MCCoords == {-2, 0, 1}
=============================================================================
