------------------------- MODULE MCOrbitCamProfile --------------------------
(***************************************************************************)
(* The camera's profile iterations on their 33 ms timers, together with   *)
(* the file server's ServerConnectionChecker polling on its own timer     *)
(* chain from start() on.  They share only the event loop, so every order *)
(* of their callbacks is explored.  (The algorithm server's checker is a  *)
(* second, identical and independent copy, left out.)                     *)
(***************************************************************************)
EXTENDS OrbitCamProfile, VelocityProfile

CONSTANTS t1, t2, t3, TimerIds, NoTimer, MaxClicks

VARIABLES backoff, ccTimers, stored, pings, link, clicks

CC == INSTANCE ConnectionChecker WITH timers <- ccTimers

ccVars == <<backoff, ccTimers, stored, pings, link, clicks>>

CamInit == Init /\ CC!Init

CamNext == (Next /\ UNCHANGED ccVars) \/ (CC!Next /\ UNCHANGED vars)

\* The browser fires every pending timer and the server answers pings.
CamSpec ==
    /\ CamInit /\ [][CamNext]_<<vars, ccVars>>
    /\ WF_vars(\E tm \in timers : Fire(tm))
    /\ WF_ccVars(CC!PingSuccess \/ CC!PingError \/ \E t \in ccTimers : CC!TimerFires(t))

CamTypeOK == TypeOK /\ CC!TypeOK

\* The checker keeps polling while the camera moves (ConnectionChecker's
\* NeverStops): some ping or timer is always pending.
NeverStops == CC!NeverStops

\* Every profile goto can build (GotoProfilesArrive of VelocityProfile)
\* starts at the pose and ends exactly at the goal at the common duration:
\* the abstraction GetPos(s, g, Duration(s, g)) = g of OrbitCamProfile
\* holds of velocityprofile_*.js and setProfileDuration.  The table does
\* not depend on the state, so it is checked in the states before the
\* first user action.
ProfilesReachGoal == userLeft = MaxUser => GotoProfilesArrive

\* goto's angle_diff turns the camera the short way (AngleDiffShortest of
\* VelocityProfile); checked, like the table above, before any action.
AngleDiffCorrect == userLeft = MaxUser => AngleDiffShortest
=============================================================================
