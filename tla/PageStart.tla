------------------------------ MODULE PageStart ------------------------------
(***************************************************************************)
(* The asynchronous start-up of index.js.  start() kicks off getMany for  *)
(* the shader sources and, for each tree named in the URL, getMetaData;   *)
(* with a viewpoint in the URL it creates the camera at once (initCam).   *)
(* Without trees it asks the server for the supported trees instead.      *)
(*                                                                         *)
(* Each answer is one callback run to completion:                         *)
(*   - a shader answer runs getMany's success or error closure, and the   *)
(*     last one calls onProgramLoaded or reports the failure;             *)
(*   - a metadata answer runs new MetaData and addTree: TreeInfo with the *)
(*     root box of getRootGeom, initCam when there is no camera or the    *)
(*     tree brings a viewpoint and the camera is not from the URL,        *)
(*     triggerFrustumUpdate and getViews (whose answer only adds view     *)
(*     buttons, and is left out);                                         *)
(*   - the 15 ms timer of triggerFrustumUpdate calls getFrustum with the  *)
(*     trees_info of that moment.                                         *)
(*                                                                         *)
(* start() installs window.onresize before the shaders load, and initCam  *)
(* the canvas keys and the wheel.  A resize or a near-plane key calls     *)
(* setProjectionMatrix, which throws at currProgram.u until               *)
(* onProgramLoaded has set currProgram, leaving the rest of the handler   *)
(* undone; onProgramLoaded ends with its own onWindowResize.  Sizes are   *)
(* canvas heights in pixels, the near plane is in half metres.            *)
(***************************************************************************)
EXTENDS Integers, Sequences, FiniteSets, Octree

CONSTANTS
    TreeList,     \* the tree names of the URL's tree= parameter, in order
    MetaFiles,    \* metadata.ini contents the file server may answer with
    NumShaders,   \* number of URLs given to getMany (six in start())
    Wins,         \* window.innerHeight values the browser may resize to
    InitCss,      \* canvas heights the style sheet may give before a resize
    InitBuf,      \* canvas element heights before onCanvasResize sets one
    NearMax,      \* largest near plane, in half metres, the keys reach
    MaxUser       \* bound on resize, key and wheel events

Trees == {TreeList[i] : i \in DOMAIN TreeList}

ASSUME NumShaders \in Nat \ {0} /\ Cardinality(Trees) = Len(TreeList)
ASSUME NearMax \in Nat /\ NearMax >= 2 /\ MaxUser \in Nat

VARIABLES
    urlViewpoint,  \* getViewpointFromQuery found a viewpoint in the URL
    shader,        \* per getMany URL: "pending", "ok" or "failed"
    numPending,    \* getMany's numPending
    numFailed,     \* getMany's numFailed
    reported,      \* the getMany callbacks called so far, in order
    program,       \* onProgramLoaded has run
    supported,     \* getSupportedTrees: "none", "pending" or "answered"
    metaReq,       \* trees whose getMetaData request is in flight
    trees_info,    \* the TreeInfo objects: name and root box
    cam,           \* "none", "url", or the tree whose metadata made it
    fromUrl,       \* cam.from_url
    frustumTimer,  \* existing_frustum_trigger is set
    queried,       \* tree names given to the last getFrustum call
    win,           \* window.innerHeight
    css,           \* $("#canvas").height()
    buf,           \* the canvas element's height (its drawing buffer)
    frust,         \* size and near plane of frustumQuerier's planes
    near,          \* near_plane_distance, in half metres
    clip,          \* custom_clipping
    userLeft,      \* resize, key and wheel events still allowed
    viewQueried    \* frustumQuerier's planes when getFrustum last ran

vars == <<urlViewpoint, shader, numPending, numFailed, reported, program,
          supported, metaReq, trees_info, cam, fromUrl, frustumTimer,
          queried, win, css, buf, frust, near, clip, userLeft, viewQueried>>

ShaderVars == <<shader, numPending, numFailed, reported, program>>
TreeVars == <<supported, metaReq, trees_info, cam, fromUrl>>
ViewVars == <<win, css, buf, frust, near, clip, userLeft, viewQueried>>
LoadVars == <<program, frustumTimer, css, buf, frust>>
UserVars == <<win, near, clip, userLeft, viewQueried>>

Names(ti) == {ti[i].name : i \in DOMAIN ti}

\* triggerFrustumUpdate() with the camera cm it finds: nothing without a
\* camera, and no second timer while one is pending.
TriggerFrustumUpdate(cm) == frustumTimer' = (frustumTimer \/ cm # "none")

\* viewQueried before getFrustum has run.
NoView == [size |-> 0, near |-> 0]

Init ==
    /\ urlViewpoint \in BOOLEAN
    /\ shader = [i \in 1..NumShaders |-> "pending"]
    /\ numPending = NumShaders /\ numFailed = 0
    /\ reported = <<>> /\ program = FALSE
    \* "if (config) initCam(config); cam.from_url = true", and initCam's
    \* own triggerFrustumUpdate.
    /\ cam = IF urlViewpoint THEN "url" ELSE "none"
    /\ fromUrl = urlViewpoint
    /\ frustumTimer = urlViewpoint
    \* tree= names the trees, or is missing and getSupportedTrees is asked.
    /\ \/ supported = "none" /\ metaReq = Trees
       \/ supported = "pending" /\ metaReq = {}
    /\ trees_info = <<>> /\ queried = {}
    \* The FrustumQuerier start() builds reads the first projection.
    /\ win \in Wins /\ css \in InitCss /\ buf \in InitBuf
    /\ near = 2 /\ frust = [size |-> css, near |-> 2]
    /\ clip = FALSE /\ userLeft = MaxUser /\ viewQueried = NoView

\* $("#canvas").height(window.innerHeight-20).
CanvasOf(w) == w - 20

\* Mutation: the new planes without the triggerFrustumUpdate call.
SetProjectionMatrixNoTrigger(ld, c, n) ==
    IF ld THEN frust' = [size |-> c, near |-> n] /\ UNCHANGED frustumTimer
    ELSE UNCHANGED <<frust, frustumTimer>>

\* setProjectionMatrix() with the canvas size c and near plane n: with
\* currProgram loaded (ld) it gives frustumQuerier new planes and calls
\* triggerFrustumUpdate; without, currProgram.u throws before either.
SetProjectionMatrix(ld, c, n) ==
    IF ld THEN frust' = [size |-> c, near |-> n] /\ TriggerFrustumUpdate(cam)
    ELSE UNCHANGED <<frust, frustumTimer>>

\* onWindowResize() for window height w: the canvas size, then
\* onCanvasResize: viewport, setProjectionMatrix, and the element's size,
\* which the throw of setProjectionMatrix skips.
OnWindowResize(ld, w) ==
    /\ css' = CanvasOf(w)
    /\ SetProjectionMatrix(ld, CanvasOf(w), near)
    /\ buf' = IF ld THEN CanvasOf(w) ELSE buf

\* Mutation: onProgramLoaded without its closing onWindowResize.
OnProgramLoadedNoResize ==
    /\ program' = TRUE
    /\ TriggerFrustumUpdate(cam)
    /\ UNCHANGED <<css, buf, frust>>

\* onProgramLoaded: currProgram, then onWindowResize with the program in
\* place; its setProjectionMatrix has already set the timer the closing
\* triggerFrustumUpdate would set.
OnProgramLoaded ==
    /\ program' = TRUE
    /\ OnWindowResize(TRUE, win)

\* Mutation: the last answer calls successCallback whatever failed before.
ShaderSuccessIgnoreFailures(i) ==
    /\ shader[i] = "pending"
    /\ shader' = [shader EXCEPT ![i] = "ok"]
    /\ numPending' = numPending - 1
    /\ UNCHANGED numFailed
    /\ IF numPending' = 0
       THEN reported' = Append(reported, "success") /\ OnProgramLoaded
       ELSE UNCHANGED <<reported, LoadVars>>
    /\ UNCHANGED <<urlViewpoint, TreeVars, queried, UserVars>>

\* getMany's $.get success closure for URL i.
ShaderSuccess(i) ==
    /\ shader[i] = "pending"
    /\ shader' = [shader EXCEPT ![i] = "ok"]
    /\ numPending' = numPending - 1
    /\ UNCHANGED numFailed
    /\ IF numPending' = 0
       THEN IF numFailed = 0
            THEN reported' = Append(reported, "success") /\ OnProgramLoaded
            ELSE reported' = Append(reported, "error")
                    /\ UNCHANGED LoadVars
       ELSE UNCHANGED <<reported, LoadVars>>
    /\ UNCHANGED <<urlViewpoint, TreeVars, queried, UserVars>>

\* Mutation: the error closure counts the failure but not the answer.
ShaderErrorKeepPending(i) ==
    /\ shader[i] = "pending"
    /\ shader' = [shader EXCEPT ![i] = "failed"]
    /\ numFailed' = numFailed + 1
    /\ UNCHANGED numPending
    /\ reported' = IF numPending' = 0 THEN Append(reported, "error") ELSE reported
    /\ UNCHANGED <<LoadVars, urlViewpoint, TreeVars, queried, UserVars>>

\* getMany's .error closure for URL i.
ShaderError(i) ==
    /\ shader[i] = "pending"
    /\ shader' = [shader EXCEPT ![i] = "failed"]
    /\ numFailed' = numFailed + 1
    /\ numPending' = numPending - 1
    /\ reported' = IF numPending' = 0 THEN Append(reported, "error") ELSE reported
    /\ UNCHANGED <<LoadVars, urlViewpoint, TreeVars, queried, UserVars>>

\* initCam(config) from a tree's metadata: a new OrbitCam, which has no
\* from_url (its own triggerFrustumUpdate is addTree's next step).
InitCam(t) == cam' = t /\ fromUrl' = FALSE

\* Mutation: only initCam triggers an update; addTree's own call is gone.
AddTreeTriggerOnInit(t, f) ==
    LET md == MetaData(f)
        reinit == cam = "none" \/ (md.with_viewpoint /\ ~fromUrl)
        cm == IF reinit THEN t ELSE cam
    IN  /\ trees_info' = Append(trees_info, [name |-> t, geom |-> GetRootGeom(md)])
        /\ IF reinit THEN InitCam(t) ELSE UNCHANGED <<cam, fromUrl>>
        /\ IF reinit THEN TriggerFrustumUpdate(cm) ELSE UNCHANGED frustumTimer

\* addTree(tree, metadata) for the parsed file f.
AddTree(t, f) ==
    LET md == MetaData(f)
        reinit == cam = "none" \/ (md.with_viewpoint /\ ~fromUrl)
        cm == IF reinit THEN t ELSE cam
    IN  /\ trees_info' = Append(trees_info, [name |-> t, geom |-> GetRootGeom(md)])
        /\ IF reinit THEN InitCam(t) ELSE UNCHANGED <<cam, fromUrl>>
        /\ TriggerFrustumUpdate(cm)

\* getMetaData's onload with status 200: new MetaData, then addTree.
MetaSuccess(t, f) ==
    /\ t \in metaReq
    /\ metaReq' = metaReq \ {t}
    /\ AddTree(t, f)
    /\ UNCHANGED <<urlViewpoint, ShaderVars, supported, queried, ViewVars>>

\* Any other answer: start() passes function() {} as failureCallback.
MetaFailure(t) ==
    /\ t \in metaReq
    /\ metaReq' = metaReq \ {t}
    /\ UNCHANGED <<urlViewpoint, ShaderVars, supported, trees_info, cam,
                   fromUrl, frustumTimer, queried, ViewVars>>

\* The 15 ms timer: getFrustum(trees_info, ...), then the handle is cleared.
FrustumTimerFires ==
    /\ frustumTimer
    /\ queried' = Names(trees_info)
    /\ viewQueried' = frust
    /\ frustumTimer' = FALSE
    /\ UNCHANGED <<urlViewpoint, ShaderVars, TreeVars, win, css, buf, frust,
                   near, clip, userLeft>>

\* getSupportedTrees' answer: a prompt listing the trees, or its failure.
SupportedAnswer ==
    /\ supported = "pending"
    /\ supported' = "answered"
    /\ UNCHANGED <<urlViewpoint, ShaderVars, metaReq, trees_info, cam,
                   fromUrl, frustumTimer, queried, ViewVars>>

-----------------------------------------------------------------------------
(* The user's events.  The canvas keys and the wheel exist once initCam  *)
(* has run setupEventListeners.                                           *)

PageVars == <<urlViewpoint, ShaderVars, TreeVars, queried>>

UserEvent == userLeft > 0 /\ userLeft' = userLeft - 1

CamEvent == cam # "none" /\ UserEvent

\* window.onresize: the browser's new height w, then onWindowResize.
WindowResize(w) ==
    /\ UserEvent
    /\ w # win /\ win' = w
    /\ OnWindowResize(program, w)
    /\ UNCHANGED <<PageVars, near, clip, viewQueried>>

\* Key i: custom_clipping off and near_plane_distance 1, then
\* setProjectionMatrix.
KeyI ==
    /\ CamEvent
    /\ clip' = FALSE /\ near' = 2
    /\ SetProjectionMatrix(program, css, 2)
    /\ UNCHANGED <<PageVars, win, css, buf, viewQueried>>

\* Keys o and p: the near plane half a metre closer (not below 1) or
\* farther, setProjectionMatrix, and then custom_clipping from the new near
\* plane, which the throw skips.
NearKeyDone(n) ==
    /\ near' = n
    /\ SetProjectionMatrix(program, css, n)
    /\ clip' = IF program THEN n > 2 ELSE clip
    /\ UNCHANGED <<PageVars, win, css, buf, viewQueried>>

\* Mutation: key o without Math.max(1.0, ...).
KeyONoClamp ==
    /\ CamEvent
    /\ NearKeyDone(near - 1)

KeyO ==
    /\ CamEvent
    /\ NearKeyDone(IF near > 2 THEN near - 1 ELSE 2)

KeyP ==
    /\ CamEvent
    /\ near < NearMax
    /\ NearKeyDone(near + 1)

\* Key f: triggerFrustumUpdate().
KeyF ==
    /\ CamEvent
    /\ TriggerFrustumUpdate(cam)
    /\ UNCHANGED <<PageVars, win, css, buf, frust, near, clip, viewQueried>>

\* mouseScroll(wheel_delta): with custom_clipping the near plane follows
\* the wheel by d half metres (not below 1) and setProjectionMatrix runs;
\* then goCloser, whose setDistance calls the motion callback (that is
\* triggerFrustumUpdate) when the distance changed by over 5% (moved).
\* Camera profiles (stopProfile) are OrbitCamProfile's.
Wheel(d, moved) ==
    /\ CamEvent
    /\ IF clip
       THEN LET n == IF near - d > 2 THEN near - d ELSE 2
            IN  /\ n <= NearMax /\ near' = n
                /\ SetProjectionMatrix(program, css, n)
       ELSE /\ frustumTimer' = (frustumTimer \/ moved)
            /\ UNCHANGED <<frust, near>>
    /\ UNCHANGED <<PageVars, win, css, buf, clip, viewQueried>>

UserNext ==
    \/ \E w \in Wins : WindowResize(w)
    \/ KeyI \/ KeyO \/ KeyP \/ KeyF
    \/ \E d \in {-1, 1}, moved \in BOOLEAN : Wheel(d, moved)

Next ==
    \/ \E i \in 1..NumShaders : ShaderSuccess(i) \/ ShaderError(i)
    \/ \E t \in Trees : MetaFailure(t) \/ \E f \in MetaFiles : MetaSuccess(t, f)
    \/ FrustumTimerFires
    \/ SupportedAnswer
    \/ UserNext

\* The browser fires timers and every request is eventually answered.
Fairness ==
    /\ WF_vars(\E i \in 1..NumShaders : ShaderSuccess(i) \/ ShaderError(i))
    /\ WF_vars(\E t \in Trees : MetaFailure(t) \/ \E f \in MetaFiles : MetaSuccess(t, f))
    /\ WF_vars(FrustumTimerFires)

Spec == Init /\ [][Next]_vars /\ Fairness

-----------------------------------------------------------------------------
Heights == InitCss \cup InitBuf \cup {CanvasOf(w) : w \in Wins}
View == [size : Heights, near : 2..NearMax]

TypeOK ==
    /\ urlViewpoint \in BOOLEAN
    /\ shader \in [1..NumShaders -> {"pending", "ok", "failed"}]
    /\ numPending \in 0..NumShaders /\ numFailed \in 0..NumShaders
    /\ reported \in Seq({"success", "error"}) /\ program \in BOOLEAN
    /\ supported \in {"none", "pending", "answered"}
    /\ metaReq \subseteq Trees
    /\ cam \in {"none", "url"} \cup Trees /\ fromUrl \in BOOLEAN
    /\ frustumTimer \in BOOLEAN /\ queried \subseteq Trees
    /\ win \in Wins /\ near \in 2..NearMax /\ clip \in BOOLEAN
    /\ css \in Heights /\ buf \in Heights /\ userLeft \in 0..MaxUser
    /\ frust \in View /\ viewQueried \in View \cup {NoView}

\* getMany reports once and truthfully: whatever order the shader answers
\* and failures arrive in, at most one of successCallback and
\* errorCallback is called, success only when every URL succeeded and
\* error only when one failed.
ShadersReportedOnce ==
    /\ Len(reported) <= 1
    /\ reported = <<"success">> => \A i \in 1..NumShaders : shader[i] = "ok"
    /\ reported = <<"error">> => \E i \in 1..NumShaders : shader[i] = "failed"

\* getMany eventually calls one of its callbacks, so the page either
\* loads its program or shows the shader error.
EventuallyShadersReported == <>(Len(reported) = 1)

\* Every tree whose metadata arrives is drawn: after the answers are in,
\* the frustum timer eventually runs getFrustum with all of trees_info and
\* no trigger is left pending, whatever the order of metadata answers,
\* camera creation and program load.
EventuallyAllTreesQueried ==
    <>[](metaReq = {} /\ ~frustumTimer /\ queried = Names(trees_info))

\* Once the program is loaded the canvas buffer and frustumQuerier's planes
\* match the canvas size and the near plane, whatever resizes and
\* near-plane keys were lost to the throw of setProjectionMatrix before.
ViewportSynced ==
    program => buf = css /\ frust = [size |-> css, near |-> near]

\* Every change of frustumQuerier's planes is eventually queried: with a
\* camera, getFrustum finally runs with the planes the page ends with.
EventuallyViewQueried == <>[](cam # "none" => viewQueried = frust)
=============================================================================
