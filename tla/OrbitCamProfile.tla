--------------------------- MODULE OrbitCamProfile ---------------------------
(***************************************************************************)
(* Automated camera motion of orbitcam.js: goto computes a profile from   *)
(* the current pose to a goal and executeProfile runs it, one            *)
(* executeProfileIteration every 1/30 s through setTimeout, each guarded  *)
(* by the profile_executor_id it was started with; stopProfile (mouse     *)
(* down, wheel) bumps the id so pending iterations do nothing.            *)
(*                                                                         *)
(* The pose is one coordinate on a line of integer positions and time is  *)
(* counted in iteration ticks.  The trapezoidal profiles are abstracted   *)
(* to one position per tick: getPos(t) moves from the start toward the    *)
(* goal and equals the goal exactly at t = duration, which is |goal -     *)
(* start| ticks.  Goto stands for every caller of goto: the view and job *)
(* buttons and the right click of onMouseDown (whose stopProfile just     *)
(* before it only bumps the id once more).  A mouse press and a wheel     *)
(* step call stopProfile; a drag move sets the pose and stops nothing.    *)
(*                                                                         *)
(* Every pose change goes through the setters (setPitch, setYaw,          *)
(* setDistance, setOrigin), which call the motion callback only when the  *)
(* pose has moved more than a threshold from old_pose, the pose of the    *)
(* last callback, and then make that pose the new old_pose.  The motion   *)
(* callback of initCam is triggerFrustumUpdate: it arms the 15 ms         *)
(* frustum timer unless one is pending, and the timer queries the view    *)
(* from cam.getMatrix() as it is when the timer fires.                    *)
(***************************************************************************)
EXTENDS Integers, FiniteSets

CONSTANTS
    Poses,        \* camera positions
    MaxUser,      \* bound on user actions (goto, drag/wheel)
    Threshold     \* the setters' motion threshold, in pose units

ASSUME Poses \subseteq Nat /\ Poses # {} /\ MaxUser \in Nat /\ Threshold \in Nat

\* goal when no goto is in force (not a position).
NoGoal == -1

VARIABLES
    pose,         \* the camera pose (_pitch, _yaw, distance, origin)
    execId,       \* profile_executor_id
    timers,       \* pending iterations: [id, t, start, goal]
    goal,         \* goal of the last goto, NoGoal after a manual move
    userLeft,     \* user actions still allowed (bound)
    oldPose,      \* old_pitch, old_yaw, old_distance, old_origin
    frustumTimer, \* existing_frustum_trigger is pending
    queried       \* the pose the last getFrustum call was given

vars == <<pose, execId, timers, goal, userLeft, oldPose, frustumTimer, queried>>
viewVars == <<oldPose, frustumTimer, queried>>

Dist(a, b) == IF a > b THEN a - b ELSE b - a
Duration(s, g) == Dist(s, g)

\* Mutation: the profile always moves upward.
GetPosUnsigned(s, g, t) == s + t

\* getPos of the profile from s to g at tick t (t <= duration).
GetPos(s, g, t) == IF s <= g THEN s + t ELSE s - t

\* Mutation: the next iteration repeats the same time.
NextTimersNoAdvance(id, t, s, g) ==
    IF t + 1 < Duration(s, g)
    THEN {[id |-> id, t |-> t, start |-> s, goal |-> g]}
    ELSE {}

\* Mutation: the chain stops one iteration earlier.
NextTimersStopEarly(id, t, s, g) ==
    IF t + 2 < Duration(s, g)
    THEN {[id |-> id, t |-> t + 1, start |-> s, goal |-> g]}
    ELSE {}

\* The tail of executeProfileIteration: the next iteration, at time + 1,
\* is scheduled while next_time < duration.
NextTimers(id, t, s, g) ==
    IF t + 1 < Duration(s, g)
    THEN {[id |-> id, t |-> t + 1, start |-> s, goal |-> g]}
    ELSE {}

\* Mutation: the setters move old_pose but never call the callback.
SetPoseNoCallback(p) ==
    /\ pose' = p
    /\ oldPose' = IF Dist(oldPose, p) > Threshold THEN p ELSE oldPose
    /\ UNCHANGED <<frustumTimer, queried>>

\* The setters: the pose is set; when it has moved more than the threshold
\* from old_pose, old_pose takes it and the motion callback runs
\* triggerFrustumUpdate, which arms the frustum timer if none is pending.
SetPose(p) ==
    /\ pose' = p
    /\ IF Dist(oldPose, p) > Threshold
       THEN oldPose' = p /\ frustumTimer' = TRUE
       ELSE UNCHANGED <<oldPose, frustumTimer>>
    /\ UNCHANGED queried

\* new OrbitCam(config) sets old_pose to the pose, and initCam calls
\* triggerFrustumUpdate once the camera exists.
Init ==
    /\ pose \in Poses
    /\ execId = 0
    /\ timers = {}
    /\ goal = NoGoal
    /\ userLeft = MaxUser
    /\ oldPose = pose
    /\ frustumTimer = TRUE
    /\ queried = NoGoal

\* goto(goal) with executeProfile: a new id, and the iteration at time 0
\* runs at once (it sets the pose to getPos(0), the start).
Goto(g) ==
    /\ userLeft > 0
    /\ userLeft' = userLeft - 1
    /\ execId' = execId + 1
    /\ goal' = g
    /\ SetPose(GetPos(pose, g, 0))
    /\ timers' = timers \cup NextTimers(execId + 1, 0, pose, g)

\* stopProfile: pending iterations become stale.
StopProfile ==
    /\ execId' = execId + 1
    /\ goal' = NoGoal

\* onMouseDown: focus, then stopProfile before any picking.
MouseDown ==
    /\ userLeft > 0
    /\ userLeft' = userLeft - 1
    /\ StopProfile
    /\ UNCHANGED <<pose, timers, viewVars>>

\* mouseScroll: stopProfile, then goCloser moves the camera.
Wheel(p) ==
    /\ userLeft > 0
    /\ userLeft' = userLeft - 1
    /\ StopProfile
    /\ SetPose(p)
    /\ UNCHANGED timers

\* onMouseMove with a button down: yaw/pitch or strafe the camera; no
\* stopProfile (mouseButtonDown may still be set from a press whose
\* release happened outside the canvas).
DragMove(p) ==
    /\ userLeft > 0
    /\ userLeft' = userLeft - 1
    /\ SetPose(p)
    /\ goal' = NoGoal
    /\ UNCHANGED <<execId, timers>>

\* A scheduled executeProfileIteration fires: a superseded one returns at
\* once; otherwise the pose is set to getPos(time) and the next scheduled.
Iteration(tm) ==
    IF tm.id # execId
    THEN /\ timers' = timers \ {tm}
         /\ UNCHANGED <<pose, viewVars>>
    ELSE /\ SetPose(GetPos(tm.start, tm.goal, tm.t))
         /\ timers' = (timers \ {tm}) \cup NextTimers(tm.id, tm.t, tm.start, tm.goal)

Fire(tm) ==
    /\ tm \in timers
    /\ Iteration(tm)
    /\ UNCHANGED <<execId, goal, userLeft>>

\* The frustum timer of triggerFrustumUpdate fires: getFrustum is given
\* the camera's matrix as it is now, and the trigger is cleared.
FrustumTimerFires ==
    /\ frustumTimer
    /\ frustumTimer' = FALSE
    /\ queried' = pose
    /\ UNCHANGED <<pose, execId, timers, goal, userLeft, oldPose>>

Next ==
    \/ FrustumTimerFires
    \/ \E g \in Poses : Goto(g)
    \/ MouseDown
    \/ \E p \in Poses : Wheel(p) \/ DragMove(p)
    \/ \E tm \in timers : Fire(tm)

\* The browser fires every pending timer; the user is never forced to act.
Spec ==
    /\ Init /\ [][Next]_vars
    /\ WF_vars(\E tm \in timers : Fire(tm))
    /\ WF_vars(FrustumTimerFires)

-----------------------------------------------------------------------------
TypeOK ==
    /\ pose \in Poses /\ execId \in 0..MaxUser
    /\ \A tm \in timers : tm.id \in 1..MaxUser /\ tm.t \in Nat
    /\ goal \in Poses \cup {NoGoal} /\ userLeft \in 0..MaxUser
    /\ oldPose \in Poses /\ frustumTimer \in BOOLEAN
    /\ queried \in Poses \cup {NoGoal}

\* The view is never staler than twice the setters' threshold: whenever
\* no frustum update is pending, the pose the last getFrustum call was
\* given is within 2 * Threshold of the camera's pose.  The setters
\* measure a move against old_pose, the pose of the last motion callback,
\* while the query reads the pose when the 15 ms timer fires, so drags,
\* wheel steps and profile iterations in between can leave the view a
\* threshold away from old_pose on both sides.
QueriedViewNearPose ==
    ~frustumTimer /\ queried # NoGoal => Dist(queried, pose) <= 2 * Threshold

\* A goto that is not superseded stops within one iteration's motion of
\* its goal: once no iteration of the current profile is pending, the
\* pose is at most one tick's step from the goal (next_time < duration
\* skips the sample at the profile's end).
SettlesNearGoal ==
    goal # NoGoal /\ (\A tm \in timers : tm.id # execId) => Dist(pose, goal) <= 1

\* Every profile execution ends: eventually no iteration is pending.
EventuallyStill == <>[](timers = {})
=============================================================================
