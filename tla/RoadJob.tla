------------------------------ MODULE RoadJob -------------------------------
(***************************************************************************)
(* Road-detection jobs of index.js (start_job click, onRoadButtonClicked, *)
(* serveNewTree, JobInfo.remove) and road_detection.js (detectRoads and   *)
(* its progress and completion polling).  A job goes through the phases   *)
(*   "detect"     detectRoads request in flight                           *)
(*   "progress"   pollRoadDetectionProgress chain (retries every second)  *)
(*   "completion" pollRoadDetectionCompletion chain (retries every second) *)
(*   "serve"      serveNewTree request in flight                          *)
(*   "meta"       getMetaData request of the new tree in flight           *)
(*   "done"       no request or timer left                                *)
(* A poll that answers "not yet" or fails schedules the same poll again,  *)
(* which leaves the state as it is, so only the polls that move on are    *)
(* steps.  The user removes a job with its close button at any time.      *)
(*                                                                         *)
(* A job runs on the region selected on the canvas, so the module also    *)
(* models the selection as the mouse and key handlers of index.js leave   *)
(* it: none, a point (end_selection null) or a box.  Camera motion in the *)
(* same handlers is left to OrbitCamProfile.  A handler that throws (a    *)
(* method called on a null selection) changes nothing after the throw.    *)
(***************************************************************************)
EXTENDS Naturals, Sequences

CONSTANT MaxJobs      \* bound on jobs started

ASSUME MaxJobs \in Nat \ {0}

VARIABLES
    jobs,        \* jobs_info: [phase, finished, failed, removed, named]
    trees,       \* jobs whose result tree is in trees_info
    selection,   \* "none" (null), "point" or "box"
    button,      \* mouseButtonDown: 0, 1, 2, or 4 for a shift-drag selection
    measuring    \* distanceMeasurementStart is set

vars == <<jobs, trees, selection, button, measuring>>
mouse == <<button, measuring>>
jobVars == <<jobs, trees>>

Selections == {"none", "point", "box"}

Phases == {"detect", "progress", "completion", "serve", "meta", "done"}
Job == [phase : Phases, finished : BOOLEAN, failed : BOOLEAN,
        removed : BOOLEAN, named : BOOLEAN]

\* finished || failed || removed: the start guard's idea of a job that
\* no longer runs.
Settled(j) == jobs[j].finished \/ jobs[j].failed \/ jobs[j].removed

InPhase(j, ph) == j \in DOMAIN jobs /\ jobs[j].phase = ph

SetPhase(j, ph) == jobs' = [jobs EXCEPT ![j].phase = ph]

\* new Selection(picked point): begin point only, end_selection null.
NewSelection == selection' = "point"

\* Selection.setEndPoint: the selection becomes a box.
SetEndPoint == selection' = "box"

\* Selection.isPoint: !end_selection.
IsPoint == selection = "point"

\* Selection.lookAt computes the box centre from end_selection, which a
\* point selection leaves null (the null centre is then dereferenced).
LookAtSucceeds == selection = "box"

\* addJob: a new JobInfo (tree_name null, no flag set) pushed onto
\* jobs_info; detectRoads is then called by onRoadButtonClicked.
NewJob == [phase |-> "detect", finished |-> FALSE, failed |-> FALSE,
           removed |-> FALSE, named |-> FALSE]

\* clearSelection: selection = null.
ClearSelection == selection' = "none"

\* addTree: the tree's TreeInfo is pushed onto trees_info.
AddTree(j) == trees' = trees \cup {j}

\* The failure callbacks of detectRoads and serveNewTree: failed = true.
Fail(j) == jobs' = [jobs EXCEPT ![j].phase = "done", ![j].failed = TRUE]

Init ==
    /\ jobs = <<>>
    /\ trees = {}
    /\ selection = "none"
    /\ button = 0
    /\ measuring = FALSE

\* onMouseDown with button which, the shift key, and whether a point was
\* picked under the cursor (pickedPoint is only computed for a shift-left
\* or a right click).  A plain left or middle press starts a camera drag;
\* a shift-left press on a point starts a selection and completes or
\* starts a distance measurement; other presses (a right click re-centres
\* the camera) leave the state of this module as it is.
MouseDown(which, shift, picked) ==
    /\ UNCHANGED jobVars
    /\ \/ /\ which \in {1, 2} /\ ~shift
          /\ button' = which
          /\ UNCHANGED <<selection, measuring>>
       \/ /\ which = 1 /\ shift /\ picked
          /\ button' = 4
          /\ NewSelection
          /\ measuring' = ~measuring

\* onMouseMove during a selection drag: the first move gives the point
\* selection an end point.  A move with a null selection throws in
\* selection.isPoint(); moves of a box or of the camera change no state
\* of this module.
MouseMove ==
    /\ button = 4 /\ IsPoint
    /\ SetEndPoint
    /\ UNCHANGED <<button, measuring, jobs, trees>>

\* onMouseUp: assert(selection) for a selection drag, which throws before
\* mouseButtonDown is reset when the selection is null; otherwise
\* mouseButtonDown = 0.
MouseUp ==
    /\ button # 0
    /\ button = 4 => selection # "none"
    /\ button' = 0
    /\ UNCHANGED <<selection, measuring, jobs, trees>>

\* onKeyDown with Esc: clearSelection.
KeyEsc ==
    /\ ClearSelection
    /\ UNCHANGED <<mouse, jobs, trees>>

\* The start_job click: refused while the last job is still running or no
\* region is selected; otherwise addJob and onRoadButtonClicked.  For a
\* point selection selection.lookAt dereferences the null end_selection
\* before addJob, so only a box selection starts a job.
StartJob ==
    /\ Len(jobs) < MaxJobs /\ selection # "none"
    /\ IF jobs = <<>> THEN TRUE ELSE Settled(Len(jobs))
    /\ LookAtSucceeds
    /\ jobs' = Append(jobs, NewJob)
    /\ UNCHANGED <<trees, selection, mouse>>

\* detectRoads' onload: 200 starts progress polling, anything else fails.
DetectAnswer(j) ==
    /\ InPhase(j, "detect")
    /\ SetPhase(j, "progress") \/ Fail(j)
    /\ UNCHANGED <<trees, selection, mouse>>

\* A progress poll answers progress >= 1: completion polling starts.
ProgressDone(j) ==
    /\ InPhase(j, "progress")
    /\ SetPhase(j, "completion")
    /\ UNCHANGED <<trees, selection, mouse>>

\* A completion poll answers finished: job_info.tree_name is set and the
\* tree is served unless the job was removed.
CompletionDone(j) ==
    /\ InPhase(j, "completion")
    /\ jobs' = [jobs EXCEPT ![j].named = TRUE,
                            ![j].phase = IF jobs[j].removed THEN "done" ELSE "serve"]
    /\ UNCHANGED <<trees, selection, mouse>>

\* serveNewTree's onload: 200 asks for the new tree's metadata.
ServeAnswer(j) ==
    /\ InPhase(j, "serve")
    /\ SetPhase(j, "meta") \/ Fail(j)
    /\ UNCHANGED <<trees, selection, mouse>>

\* serveNewTree's success callback: unless the job was removed, the job
\* is finished and the selection cleared.
ServeSuccess(j) ==
    IF jobs[j].removed
    THEN SetPhase(j, "done") /\ UNCHANGED selection
    ELSE /\ jobs' = [jobs EXCEPT ![j].phase = "done", ![j].finished = TRUE]
         /\ ClearSelection

\* getMetaData's onload: 200 runs addTree, then the success callback;
\* anything else runs the failure callback.
MetaAnswer(j) ==
    /\ InPhase(j, "meta")
    /\ UNCHANGED mouse
    /\ \/ AddTree(j) /\ ServeSuccess(j)
       \/ Fail(j) /\ UNCHANGED <<trees, selection>>

\* The job's close button: JobInfo.remove drops the job's tree from
\* trees_info if tree_name is set, then marks the job removed.
RemoveJob(j) ==
    /\ j \in DOMAIN jobs /\ ~jobs[j].removed
    /\ trees' = IF jobs[j].named THEN trees \ {j} ELSE trees
    /\ jobs' = [jobs EXCEPT ![j].removed = TRUE]
    /\ UNCHANGED <<selection, mouse>>

Next ==
    \/ \E which \in {1, 2, 3}, shift, picked \in BOOLEAN : MouseDown(which, shift, picked)
    \/ MouseMove \/ MouseUp \/ KeyEsc
    \/ StartJob
    \/ \E j \in 1..MaxJobs :
          \/ DetectAnswer(j) \/ ProgressDone(j) \/ CompletionDone(j)
          \/ ServeAnswer(j) \/ MetaAnswer(j) \/ RemoveJob(j)

Spec == Init /\ [][Next]_vars

-----------------------------------------------------------------------------
TypeOK ==
    /\ jobs \in Seq(Job) /\ Len(jobs) <= MaxJobs
    /\ trees \subseteq DOMAIN jobs
    /\ selection \in Selections
    /\ button \in {0, 1, 2, 4} /\ measuring \in BOOLEAN

\* A removed job's result tree is not in trees_info: removal takes the
\* tree away, and a job removed earlier never has its tree added
\* ("only serve tree if job was not removed").
RemovedJobShowsNoTree ==
    \A j \in DOMAIN jobs : jobs[j].removed => j \notin trees

\* The assertion of onMouseUp, assert(selection), and the dereference of
\* onMouseMove: throughout a shift-drag selection the selection exists,
\* whatever key presses and job callbacks run between the press and the
\* release.
DragHasSelection == button = 4 => selection # "none"
=============================================================================
