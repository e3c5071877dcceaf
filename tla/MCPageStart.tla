----------------------------- MODULE MCPageStart -----------------------------
(***************************************************************************)
(* The page as start() leaves it: the start-up callbacks of PageStart,   *)
(* with resizes, near-plane keys and wheel steps arriving before, during *)
(* and after the shader and metadata answers.                             *)
(***************************************************************************)
EXTENDS PageStart

CONSTANTS T1, T2

MCTreeList == <<T1, T2>>

Line(k, n) == [key |-> k, nr |-> n]

\* A tree file with a default viewpoint, and one with a blank line and an
\* unknown key but none.
MCMetaFiles ==
    { <<Line("version", 1), Line("tree_center_x", 8), Line("tree_size", 8),
        Line("default_camera_distance", 4)>>,
      <<Line("tree_size", 16), Line("", 0), Line("subfolder_depth", 30),
        Line("tree_center_z", -4)>> }

\* Nothing has been answered yet: the state start() leaves behind.
AtStart ==
    /\ reported = <<>> /\ numPending = NumShaders
    /\ (metaReq = Trees \/ supported = "pending")
    /\ userLeft = MaxUser

\* getChild splits the root box of every metadata file the server may
\* send into eight disjoint halves along the X_BIT, Y_BIT, Z_BIT
\* convention, and so again for the children.
RootBoxesSubdivide ==
    AtStart =>
        \A f \in MCMetaFiles :
            \E md \in {MetaData(f)} :
                md.root_size > 0 => Subdivides(GetRootGeom(md), 2)
=============================================================================
