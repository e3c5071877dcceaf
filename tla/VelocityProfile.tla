--------------------------- MODULE VelocityProfile ---------------------------
(***************************************************************************)
(* The velocity profiles OrbitCam.goto builds for one camera move         *)
(* (velocityprofile_trap.js, velocityprofile_mapped.js,                   *)
(* velocityprofile_mapped_double.js, velocityprofile_mapped3d.js and      *)
(* mapping1 of orbitcam.js), as pure operators.  goto makes one profile   *)
(* per coordinate, stretches each with setProfileDuration to the longest  *)
(* duration, and executeProfileIteration samples getPos.                  *)
(*                                                                         *)
(* Numbers are exact rationals [num, den], reduced, den >= 0, extended    *)
(* the way JavaScript division extends them: x/0 is +-Infinity (den 0,    *)
(* num +-1) and 0/0 is NaN (num 0, den 0), and a comparison with NaN is   *)
(* false.  Math.sqrt is the exact root where the argument has one among   *)
(* small rationals; the checked inputs are those where it does.  The      *)
(* origin profile (Mapped3D) is taken on one axis: its direction is the   *)
(* sign of the move.                                                      *)
(***************************************************************************)
EXTENDS Integers

RECURSIVE Gcd(_, _)
Gcd(a, b) == IF b = 0 THEN a ELSE Gcd(b, a % b)

AbsInt(n) == IF n < 0 THEN -n ELSE n

\* The reduced number n/d, Infinity for d = 0, NaN for 0/0.
Q(n, d) ==
    LET sn == IF d < 0 THEN -n ELSE n
        sd == AbsInt(d)
        g  == Gcd(AbsInt(sn), sd)
    IN  IF g = 0 THEN [num |-> 0, den |-> 0]
        ELSE [num |-> sn \div g, den |-> sd \div g]

Num(n) == Q(n, 1)
Zero == Num(0)
IsNaN(p) == p.num = 0 /\ p.den = 0
Finite(p) == p.den # 0

\* Each operation binds its operands to values (x \in {a}) so that a
\* nested expression is evaluated once, not once per use of an operand.
Plus(a, b)  == CHOOSE r \in {Q(p.num * q.den + q.num * p.den, p.den * q.den) : p \in {a}, q \in {b}} : TRUE
Neg(a)      == CHOOSE r \in {Q(-p.num, p.den) : p \in {a}} : TRUE
Minus(p, q) == Plus(p, Neg(q))
Times(a, b) == CHOOSE r \in {Q(p.num * q.num, p.den * q.den) : p \in {a}, q \in {b}} : TRUE
Over(p, q)  == Times(p, CHOOSE r \in {Q(x.den, x.num) : x \in {q}} : TRUE)
Less(a, b)  == \E p \in {a}, q \in {b} : ~IsNaN(p) /\ ~IsNaN(q) /\ p.num * q.den < q.num * p.den
Same(a, b)  == \E p \in {a}, q \in {b} : ~IsNaN(p) /\ ~IsNaN(q) /\ p = q
AtMost(p, q) == Less(p, q) \/ Same(p, q)
Cube(v) == Times(v, Times(v, v))
Square(v) == Times(v, v)

\* Math.sqrt of a reduced p >= 0 whose numerator and denominator are
\* squares (then the root is exact).
IsSquare(n) == \E k \in 0..n : k * k = n
IntRoot(n) == CHOOSE k \in 0..n : k * k = n
HasSqrt(p) == p.den > 0 /\ p.num >= 0 /\ IsSquare(p.num) /\ IsSquare(p.den)
Sqrt(p) == [num |-> IntRoot(p.num), den |-> IntRoot(p.den)]

\* sign of velocityprofile_trap.js: -1 below zero, else 1.
Sign(v) == IF Less(v, Zero) THEN Num(-1) ELSE Num(1)

-----------------------------------------------------------------------------
(* VelocityProfileTrap                                                     *)

\* The square root the constructor takes when the velocity never
\* saturates, and whether it does saturate.
TrapSaturates(pos1, pos2, maxvel, maxacc) ==
    LET t1 == Over(maxvel, maxacc)
        s  == Sign(Minus(pos2, pos1))
        deltax1 == Over(Times(Times(Times(s, maxacc), t1), t1), Num(2))
    IN  Less(Zero, Over(Minus(Minus(pos2, pos1), Times(Num(2), deltax1)), Times(s, maxvel)))
TrapRootArg(pos1, pos2, maxvel, maxacc) ==
    Over(Over(Minus(pos2, pos1), Sign(Minus(pos2, pos1))), maxacc)

\* The first half of the constructor: the direction s and the phase
\* switch times (saturating at maxvel, or a triangle through the root).
TrapTimes(pos1, pos2, maxvel, maxacc) ==
    LET t1 == Over(maxvel, maxacc)
        s  == Sign(Minus(pos2, pos1))
        deltax1 == Over(Times(Times(Times(s, maxacc), t1), t1), Num(2))
        deltaT  == Over(Minus(Minus(pos2, pos1), Times(Num(2), deltax1)), Times(s, maxvel))
        sat  == Less(Zero, deltaT)
        root == Sqrt(TrapRootArg(pos1, pos2, maxvel, maxacc))
        duration == IF sat THEN Plus(Times(Num(2), t1), deltaT) ELSE Times(root, Num(2))
    IN  [s |-> s, time1 |-> IF sat THEN t1 ELSE root, duration |-> duration,
         time2 |-> IF sat THEN Minus(duration, t1) ELSE root]

\* The second half: acceleration, cruise and deceleration phases as the
\* polynomials a, b, c, each continuing the previous one at its switch.
TrapCoefficients(pos1, pos2, maxacc, tm) ==
    LET a3 == Over(Times(tm.s, maxacc), Num(2))
        a2 == Zero
        a1 == pos1
        b3 == Zero
        b2 == Minus(Plus(a2, Times(Times(Num(2), a3), tm.time1)), Times(Times(Num(2), b3), tm.time1))
        b1 == Minus(Plus(a1, Times(tm.time1, Plus(a2, Times(a3, tm.time1)))),
                    Times(tm.time1, Plus(b2, Times(tm.time1, b3))))
        c3 == Neg(Over(Times(tm.s, maxacc), Num(2)))
        c2 == Minus(Plus(b2, Times(Times(Num(2), b3), tm.time2)), Times(Times(Num(2), c3), tm.time2))
        c1 == Minus(Plus(b1, Times(tm.time2, Plus(b2, Times(b3, tm.time2)))),
                    Times(tm.time2, Plus(c2, Times(tm.time2, c3))))
    IN  [startpos |-> pos1, endpos |-> pos2, time1 |-> tm.time1, time2 |-> tm.time2,
         duration |-> tm.duration, a1 |-> a1, a2 |-> a2, a3 |-> a3,
         b1 |-> b1, b2 |-> b2, b3 |-> b3, c1 |-> c1, c2 |-> c2, c3 |-> c3]

\* The constructor VelocityProfileTrap (the times computed once).
Trap(pos1, pos2, maxvel, maxacc) ==
    CHOOSE p \in {TrapCoefficients(pos1, pos2, maxacc, tm) : tm \in {TrapTimes(pos1, pos2, maxvel, maxacc)}} : TRUE

\* setProfileDuration: the profile slowed down by factor duration/new.
SetProfileDuration(p, newduration) ==
    IF Same(newduration, p.duration) THEN p
    ELSE LET f == Over(p.duration, newduration)
         IN  [p EXCEPT !.a2 = Times(@, f), !.a3 = Times(@, Square(f)),
                       !.b2 = Times(@, f), !.b3 = Times(@, Square(f)),
                       !.c2 = Times(@, f), !.c3 = Times(@, Square(f)),
                       !.duration = newduration,
                       !.time1 = Over(@, f), !.time2 = Over(@, f)]

\* The polynomial x1 + t * (x2 + x3 * t) of one phase.
Poly(x1, x2, x3, t) == Plus(x1, Times(t, Plus(x2, Times(x3, t))))

\* getPos.
TrapGetPos(p, time) ==
    IF Less(time, Zero) THEN p.startpos
    ELSE IF Less(time, p.time1) THEN Poly(p.a1, p.a2, p.a3, time)
    ELSE IF Less(time, p.time2) THEN Poly(p.b1, p.b2, p.b3, time)
    ELSE IF AtMost(time, p.duration) THEN Poly(p.c1, p.c2, p.c3, time)
    ELSE p.endpos

-----------------------------------------------------------------------------
(* VelocityProfileMapped, MappedDouble and Mapped3D, with mapping1         *)

\* mapping1(map1, map2, value, 3): eases value in [0, 1] from map1 to map2.
Mapping1(map1, map2, value) ==
    IF Less(map1, map2)
    THEN Over(Times(Cube(value), map2),
              Plus(Minus(Plus(Times(Minus(map2, map1), value), Times(map1, Square(value))), value), Num(1)))
    ELSE LET v == Plus(Neg(value), Num(1))
         IN  Minus(Num(1), Over(Times(Cube(v), map1),
                   Plus(Minus(Plus(Times(Minus(map1, map2), v), Times(map2, Square(v))), v), Num(1))))

\* The constructor: a unit trapezoid when there is a distance to go.
Mapped(pos1, pos2, map1, map2, maxvel, maxacc) ==
    CHOOSE m \in
      {[length |-> length, offset |-> pos1, dir |-> Sign(Minus(pos2, pos1)),
        map1 |-> map1, map2 |-> map2, profile |-> profile,
        duration |-> IF length = Zero THEN Zero ELSE profile.duration] :
          length \in {IF Less(Minus(pos2, pos1), Zero) THEN Neg(Minus(pos2, pos1)) ELSE Minus(pos2, pos1)},
          profile \in {Trap(Zero, Num(1), maxvel, maxacc)}} : TRUE

MappedSetProfileDuration(m, newduration) ==
    [m EXCEPT !.duration = newduration,
              !.profile = IF m.length # Zero THEN SetProfileDuration(@, newduration) ELSE @]

MappedGetPos(m, time) ==
    IF m.length = Zero THEN m.offset
    ELSE CHOOSE r \in {Plus(Times(Times(Mapping1(m.map1, m.map2, value), m.length), m.dir), m.offset) :
                         value \in {TrapGetPos(m.profile, time)}} : TRUE

\* Mapped3D on one axis: Mapped from 0 to the length, along dir.
Mapped3D(pos1, pos2, map1, map2, maxvel, maxacc) ==
    CHOOSE r \in {[m EXCEPT !.profile = Mapped(Zero, m.length, map1, map2, maxvel, maxacc)] :
                      m \in {Mapped(pos1, pos2, map1, map2, maxvel, maxacc)}} : TRUE

Mapped3DSetProfileDuration(m, newduration) ==
    [m EXCEPT !.duration = newduration,
              !.profile = MappedSetProfileDuration(@, newduration)]

Mapped3DGetPos(m, time) ==
    IF m.length = Zero THEN m.offset
    ELSE Plus(Times(m.dir, MappedGetPos(m.profile, time)), m.offset)

\* MappedDouble: pos1 to pos2, then pos2 to pos3, one after the other.
MappedDouble(pos1, pos2, pos3, maxvel, maxacc) ==
    CHOOSE r \in {[profile0 |-> p0, profile1 |-> p1, duration |-> Plus(p0.duration, p1.duration)] :
                      p0 \in {Mapped(pos1, pos2, pos1, pos2, maxvel, maxacc)},
                      p1 \in {Mapped(pos2, pos3, pos2, pos3, maxvel, maxacc)}} : TRUE

\* Mutation: only the second half is stretched to the new duration.
DoubleSetProfileDurationSecondOnly(m, newduration) ==
    LET f == Over(Minus(newduration, m.profile0.duration), m.profile1.duration)
    IN  [profile0 |-> m.profile0,
         profile1 |-> MappedSetProfileDuration(m.profile1, Times(m.profile1.duration, f)),
         duration |-> newduration]

DoubleSetProfileDuration(m, newduration) ==
    LET f == Over(newduration, m.duration)
    IN  [profile0 |-> MappedSetProfileDuration(m.profile0, Times(m.profile0.duration, f)),
         profile1 |-> MappedSetProfileDuration(m.profile1, Times(m.profile1.duration, f)),
         duration |-> newduration]

DoubleGetPos(m, time) ==
    IF Less(time, m.profile0.duration) THEN MappedGetPos(m.profile0, time)
    ELSE MappedGetPos(m.profile1, Minus(time, m.profile0.duration))

-----------------------------------------------------------------------------
(* The profiles goto builds, over small exact inputs                       *)

Nums(S) == {Num(n) : n \in S}
Rates == Nums({1, 2, 4}) \cup {Q(1, 4)}
\* The durations setProfileDuration is given: the profile's own (the
\* longest of goto's profiles) or a longer one.
Stretches(d) == {d, Plus(d, Num(1)), Plus(Times(Num(2), d), Num(1))}
\* Inputs whose square root, if the constructor takes one, is exact.
Exact(pos1, pos2, v, a) ==
    TrapSaturates(pos1, pos2, v, a) \/ HasSqrt(TrapRootArg(pos1, pos2, v, a))

\* Arrival of a stretched trapezoid: the start at time 0, the goal at the
\* new duration and after it, and no jump where getPos switches from the
\* acceleration polynomial to the cruise one or from cruise to braking.
TrapArrives(p, pos1, pos2, nd) ==
    /\ Same(TrapGetPos(p, Zero), pos1)
    /\ Same(TrapGetPos(p, nd), pos2)
    /\ Same(TrapGetPos(p, Plus(nd, Num(1))), pos2)
    /\ Finite(p.time1) /\ ~IsNaN(p.time1) =>
          Same(Poly(p.a1, p.a2, p.a3, p.time1), Poly(p.b1, p.b2, p.b3, p.time1))
    /\ Finite(p.time2) /\ ~IsNaN(p.time2) =>
          Same(Poly(p.b1, p.b2, p.b3, p.time2), Poly(p.c1, p.c2, p.c3, p.time2))

\* Every profile goto builds, stretched by setProfileDuration to the common
\* duration, puts the camera at its start at time 0 and exactly at its goal
\* from the common duration on, so executeProfileIteration's last sample
\* (or the next goto starting from the pose) lands on the goal: the pitch
\* and yaw trapezoids (including a coordinate that does not move, whose
\* stretch divides 0 by 0), the distance profile (Mapped, or MappedDouble
\* through twice the origin distance, which also passes its middle point
\* exactly when the first half's share of the stretched duration is over),
\* and the origin profile (Mapped3D).
GotoProfilesArrive ==
    /\ \A pos1, pos2 \in Nums(-2..2), v, a \in Nums({1, 2}) :
          Exact(pos1, pos2, v, a) =>
             \A p \in {Trap(pos1, pos2, v, a)} : \A nd \in Stretches(p.duration) :
                \A ps \in {SetProfileDuration(p, nd)} : TrapArrives(ps, pos1, pos2, nd)
    /\ \A pos1, pos2 \in Nums({1, 3}), v, a \in Rates :
          Exact(Zero, Num(1), v, a) =>
             \A m \in {Mapped(pos1, pos2, pos1, pos2, v, a)} : \A nd \in Stretches(m.duration) :
                \A ms \in {MappedSetProfileDuration(m, nd)} :
                   Same(MappedGetPos(ms, Zero), pos1) /\ Same(MappedGetPos(ms, nd), pos2)
    /\ \A pos1, pos2 \in Nums({-1, 0, 2}), v, a \in Rates :
          Exact(Zero, Num(1), v, a) =>
             \A m \in {Mapped3D(pos1, pos2, Num(1), Num(2), v, a)} : \A nd \in Stretches(m.duration) :
                \A ms \in {Mapped3DSetProfileDuration(m, nd)} :
                   Same(Mapped3DGetPos(ms, Zero), pos1) /\ Same(Mapped3DGetPos(ms, nd), pos2)
    /\ \A pos1, pos3 \in Nums({1, 2}), pos2 \in Nums({4, 6}), v, a \in Rates :
          Exact(Zero, Num(1), v, a) =>
             \A m \in {MappedDouble(pos1, pos2, pos3, v, a)} : \A nd \in Stretches(m.duration) :
                \A ms \in {DoubleSetProfileDuration(m, nd)} :
                   /\ Same(DoubleGetPos(ms, Zero), pos1)
                   /\ Same(DoubleGetPos(ms, Times(m.profile0.duration, Over(nd, m.duration))), pos2)
                   /\ Same(DoubleGetPos(ms, nd), pos3)
-----------------------------------------------------------------------------
(* angle_diff of orbitcam.js, with angles counted in eighths of a turn    *)
(* (HalfTurn stands for Math.PI): goto hands the profiles                 *)
(* _pitch + angle_diff(goal._pitch, _pitch) and likewise for _yaw.        *)

HalfTurn == 4
Turn == 2 * HalfTurn

\* while (d < -Math.PI) d += 2 PI
RECURSIVE WrapUp(_)
WrapUp(d) == IF d < -HalfTurn THEN WrapUp(d + Turn) ELSE d

\* while (d > Math.PI) d -= 2 PI
RECURSIVE WrapDown(_)
WrapDown(d) == IF d > HalfTurn THEN WrapDown(d - Turn) ELSE d

\* Mutation: each while loop of angle_diff is an if, so a difference of
\* more than one and a half turns is wrapped only once.
AngleDiffOneWrap(a1, a2) ==
    LET d == a1 - a2
        u == IF d < -HalfTurn THEN d + Turn ELSE d
    IN  IF u > HalfTurn THEN u - Turn ELSE u

AngleDiff(a1, a2) == WrapDown(WrapUp(a1 - a2))

\* The turn of d taken the short way: the angle within half a turn that
\* differs from d by whole turns, a half turn keeping the sign of d.
ShortestTurn(d) ==
    CHOOSE r \in -HalfTurn..HalfTurn :
        /\ (d - r) % Turn = 0
        /\ r \in {-HalfTurn, HalfTurn} => (r < 0) = (d < 0)

\* goto turns pitch and yaw the short way: for angles up to two turns
\* apart either way, angle_diff is the shortest turn between them, and at
\* exactly half a turn it keeps the direction of the raw difference.
AngleDiffShortest ==
    \A a1, a2 \in -Turn..Turn : AngleDiff(a1, a2) = ShortestTurn(a1 - a2)
=============================================================================
