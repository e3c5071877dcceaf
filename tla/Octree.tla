-------------------------------- MODULE Octree --------------------------------
(***************************************************************************)
(* The octree's spatial side: NodeGeometry of geometry.js (an axis-       *)
(* aligned box lo..hi with getCenter and getChild), the metadata.ini      *)
(* parser of metadata.js and getRootGeom of megatree.js, which turns the  *)
(* parsed tree_center and tree_size into the root box.                    *)
(*                                                                         *)
(* Coordinates are integers.  The code halves float boxes; the boxes      *)
(* checked here have sides that are multiples of 2^depth, so every        *)
(* halving is exact, as it is for the dyadic sizes of a real tree (the    *)
(* Float32Array rounding of geometry.js:17 is not modelled).              *)
(***************************************************************************)
EXTENDS Integers, FiniteSets, SequencesExt, Bitwise

\* megatree.js: the bit of an octant index that selects each axis' half.
X_BIT == 2
Y_BIT == 1
Z_BIT == 0

Axes == 0..2
Octants == 0..7

\* new NodeGeometry(lo, hi): level starts at 1.
NodeGeometry(lo, hi) == [level |-> 1, lo |-> lo, hi |-> hi]

Vec(x, y, z) == (0 :> x) @@ (1 :> y) @@ (2 :> z)

\* getCenter(): the midpoint on each axis.
GetCenter(g) == [k \in Axes |-> (g.hi[k] + g.lo[k]) \div 2]

\* getChild(to_child): the three midpoints once, then per axis the lower or
\* the upper half according to one bit of to_child.
AxisBit == Vec(X_BIT, Y_BIT, Z_BIT)

\* Mutation: the x axis' upper bound tests the y bit (a copy-paste slip).
GetChildSwappedBit(g, to_child) ==
    LET mid == GetCenter(g)
        up(k) == (to_child & (2 ^ AxisBit[k])) # 0
        hiBit == Vec(Y_BIT, Y_BIT, Z_BIT)
    IN  [level |-> g.level + 1,
         lo |-> [k \in Axes |-> IF up(k) THEN mid[k] ELSE g.lo[k]],
         hi |-> [k \in Axes |-> IF (to_child & (2 ^ hiBit[k])) # 0
                                THEN g.hi[k] ELSE mid[k]]]

GetChild(g, to_child) ==
    LET mid == GetCenter(g)
        up(k) == (to_child & (2 ^ AxisBit[k])) # 0
    IN  [level |-> g.level + 1,
         lo |-> [k \in Axes |-> IF up(k) THEN mid[k] ELSE g.lo[k]],
         hi |-> [k \in Axes |-> IF up(k) THEN g.hi[k] ELSE mid[k]]]

-----------------------------------------------------------------------------
(* metadata.ini: one "key = value" per line.  A line is a record of its   *)
(* key and parseFloat of its value; an empty line has key "" (a non-empty *)
(* line with an unknown key, or without " = ", is ignored the same way).  *)

DefaultMetaData ==
    [version |-> 0, subtree_width |-> 0, subfolder_depth |-> 0,
     min_cell_size |-> 0, root_size |-> 0, root_center |-> Vec(0, 0, 0),
     camera_origin |-> Vec(0, 0, 0), camera_distance |-> 0,
     camera_yaw |-> 0, camera_pitch |-> 0, with_viewpoint |-> FALSE]

ScalarKeys == {"version", "min_cell_size", "subtree_width", "subfolder_depth"}
TreeCenterAxis ==
    ("tree_center_x" :> 0) @@ ("tree_center_y" :> 1) @@ ("tree_center_z" :> 2)
CameraCenterAxis ==
    ("default_camera_center_x" :> 0) @@ ("default_camera_center_y" :> 1)
      @@ ("default_camera_center_z" :> 2)
CameraScalar ==
    ("default_camera_distance" :> "camera_distance")
      @@ ("default_camera_yaw" :> "camera_yaw")
      @@ ("default_camera_pitch" :> "camera_pitch")

\* One pass of the for loop: the switch on the key.
ParseLine(md, line) ==
    LET k == line.key
        nr == line.nr
    IN  CASE k \in ScalarKeys -> [md EXCEPT ![k] = nr]
          [] k = "tree_size" -> [md EXCEPT !.root_size = nr]
          [] k \in DOMAIN TreeCenterAxis ->
                 [md EXCEPT !.root_center[TreeCenterAxis[k]] = nr]
          [] k \in DOMAIN CameraCenterAxis ->
                 [md EXCEPT !.with_viewpoint = TRUE,
                            !.camera_origin[CameraCenterAxis[k]] = nr]
          [] k \in DOMAIN CameraScalar ->
                 [md EXCEPT !.with_viewpoint = TRUE, ![CameraScalar[k]] = nr]
          [] OTHER -> md

\* new MetaData(data): the defaults, then every line in order.
MetaData(lines) == FoldLeft(ParseLine, DefaultMetaData, lines)

\* getRootGeom(metadata): the cube of side root_size around root_center
\* (TreeInfo always passes a parsed MetaData, never null).
GetRootGeom(md) ==
    LET s == md.root_size \div 2
        c == md.root_center
    IN  NodeGeometry([k \in Axes |-> c[k] - s], [k \in Axes |-> c[k] + s])
-----------------------------------------------------------------------------
Side(g, k) == g.hi[k] - g.lo[k]

Disjoint(a, b) == \E k \in Axes : a.hi[k] <= b.lo[k] \/ b.hi[k] <= a.lo[k]

Within(a, g) == \A k \in Axes : g.lo[k] <= a.lo[k] /\ a.hi[k] <= g.hi[k]

\* Bit b of the octant index o, by arithmetic.
Bit(o, b) == (o \div (2 ^ b)) % 2

\* The eight children of a non-empty box g partition it: each lies in g with
\* half its side on every axis, no two overlap, and child o takes the
\* upper half of axis k exactly when bit AxisBit[k] of o is set, the
\* convention the child mask and the placeholder points are decoded with.
SubdividesExactly(g) ==
    \A o \in Octants :
        \E ch \in {GetChild(g, o)} :
            /\ ch.level = g.level + 1
            /\ Within(ch, g)
            /\ \A k \in Axes :
                  /\ 2 * Side(ch, k) = Side(g, k)
                  /\ (ch.lo[k] > g.lo[k]) = (Bit(o, AxisBit[k]) = 1)
            /\ \A o2 \in Octants \ {o} : Disjoint(ch, GetChild(g, o2))

\* The box and its descendants down to depth d subdivide exactly.
RECURSIVE Subdivides(_, _)
Subdivides(g, d) ==
    d = 0 \/ (SubdividesExactly(g) /\ \A o \in Octants : Subdivides(GetChild(g, o), d - 1))
=============================================================================
