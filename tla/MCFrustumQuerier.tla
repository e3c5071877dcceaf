-------------------------- MODULE MCFrustumQuerier --------------------------
(***************************************************************************)
(* Model of FrustumQuerier for TLC: two trees, ten cells, a cache smaller *)
(* than the tree, and a view in which the root level gives too few cells  *)
(* and one refinement step gives more than the budget allows for          *)
(* desired_cell_count 4 but fits 7.                                       *)
(*                                                                         *)
(*   R1 --0--> R1.0 --1--> R1.0.1          R2 --4--> R2.4                  *)
(*      |          \--2--> R1.0.2             \--6--> R2.6                  *)
(*      |--3--> R1.3                                                       *)
(*      \--5--> R1.5 --0--> R1.5.0   (R1.5 and below outside the frustum) *)
(***************************************************************************)
EXTENDS FrustumQuerier

CONSTANTS R1, R2

MCTreesInfo == <<<<R1>>, <<R2>>>>

\* A page showing only the first tree.
MCOneTree == <<<<R1>>>>

MCCells ==
    { <<R1>>, <<R1, 0>>, <<R1, 3>>, <<R1, 5>>, <<R1, 5, 0>>,
      <<R1, 0, 1>>, <<R1, 0, 2>>,
      <<R2>>, <<R2, 4>>, <<R2, 6>> }

\* isInsideFrustum per cell; nested spheres agree (a parent completely
\* outside has children outside, one completely inside has children inside).
MCClassify ==
    [c \in MCCells |->
        CASE c \in {<<R1, 5>>, <<R1, 5, 0>>} -> -1
          [] c \in {<<R1, 3>>, <<R1, 0, 1>>, <<R2, 4>>} -> 1
          [] OTHER -> 0]

\* The roots and R1.0 are small enough from k = 0 on (the leaves never
\* consult Need); so every k >= 0 yields 2 cells and k = -1 yields 8.
MCNeed == [c \in MCCells |-> IF Len(c) <= 2 THEN 0 ELSE -3]

MCGeometryConsistent ==
    \A c \in MCCells, o \in Octants :
        ChildOf(c, o) \in MCCells /\ ~IsRoot(c) =>
            /\ (MCClassify[c] = 1 => MCClassify[ChildOf(c, o)] = 1)
            /\ (MCClassify[c] = -1 => MCClassify[ChildOf(c, o)] = -1)
ASSUME MCGeometryConsistent

\* min_box_size_meters lies between g_m * 1.2^-2 and g_m * 1.2^-1.
MCKFloor == -1
=============================================================================
