# TLA+ models of megatree_web

These modules model the browser side of megatree (`src/megatree_web/js`).
The browser streams an octree point cloud from the server. It fetches only
the cells the current view needs, keeps fetched cells in an LRU cache, and
adapts its level of detail so that the number of cells stays near a budget.

## 1. The system: parts, state, operations, interactions

| Part | Source | State it keeps | Operations |
|---|---|---|---|
| Adaptive query engine | `frustum_querier.js` `FrustumQuerier` | `resolution_correction`, `cell_count`, `inFlight`, `completed_full_frustum_query`, `last_frustum_trigger_id`, `queue`, `queue_index`, `isProcessingQueue`, `interrupt_frustum_query`, `process_calls_in_a_row`, `storageRequests` | `getFrustum`, `triggerFrustum`, `cancel`, `processQueue`, `processCell` |
| Cell fetch | `megatree.js` `getCell` | the open XHRs | cache hit: the callback runs synchronously; miss: XHR `onload` puts the cell in the cache and calls the success or failure callback |
| Bounded node cache | `lru_cache.js` `List`, `LRUCache` | doubly linked list, `lookup`, `size` | `put`, `get`, `clear`, `_enforceOverflow` |
| Cell | `cell.js` `Cell` | `children` mask, payload, and the mutable `show_children`, `inside_frustum`, `parent_cell` | `shallowCopy`, `hasChild`, `isLeaf` (in `FrustumQuerier`) |
| Spatial region | `geometry.js` `NodeGeometry`, `getRootGeom` in `megatree.js` | `lo`, `hi`, `level` | `getChild`, `getCenter` |
| Metadata | `metadata.js` `MetaData` | the parsed keys of `metadata.ini` | the constructor's line loop |
| Page start-up | `index.js` `start`, `getMany`, `onProgramLoaded`, `addTree`, `initCam`; `megatree.js` `getMetaData`, `getSupportedTrees` | `numPending`, `numFailed`, `trees_info`, `cam`, `cam.from_url`, `existing_frustum_trigger`, canvas and buffer heights, `near`, `custom_clipping` | the shader answers, the metadata answers, the frustum timer, `onWindowResize`, `setProjectionMatrix`, keys i/o/p/f, the wheel |
| Frustum classifier | `frustum_querier.js` | plane array | `extract_frustum_planes`, `isInsideFrustum` |
| UI glue | `index.js` | `existing_frustum_trigger`, `trees_info[i].enabled`, `desired_cell_count`, `currentCells` | `triggerFrustumUpdate`, `toggleTreeMode`, `onPointCountSliderMove` |
| Connection checker | `index.js` `ServerConnectionChecker` | `backoff`, `timeout` | `check` and its success and error handlers |
| Orbit camera | `orbitcam.js` `OrbitCam` | pose, `old_*`, `profile_executor_id`, the pending frustum trigger | `goto`, `executeProfile`, `stopProfile`, `executeProfileIteration`, setters that call the motion callback |
| Velocity profiles | `velocityprofile_trap.js`, `_mapped.js`, `_mapped_double.js`, `_mapped3d.js`, `mapping1` in `orbitcam.js` | phase times and polynomial coefficients | constructor, `setProfileDuration`, `getPos` |
| Road detection jobs | `road_detection.js`, `index.js` (start_job click, `addJob`, `onRoadButtonClicked`, `serveNewTree`, `addTree`), `megatree.js` (`JobInfo`, `getMetaData`) | `jobs_info`, `trees_info` | start, the detect / progress / completion / serve / metadata chain, `JobInfo.remove` |
| Canvas selection | `index.js` mouse and key handlers, `selection.js` | `selection`, `mouseButtonDown`, `distanceMeasurementStart` | `onMouseDown`, `onMouseMove`, `onMouseUp`, Esc, `clearSelection` |
| Drawing, picking, UTM, legacy code | `cell.js` render, `point_cloud.js`, `measure.js`, `utm.js`, `old_stuff.js`, `load.js`, unused velocity profiles | — | WebGL, float geometry, parsing |

**How the parts interact.** A user action calls `triggerFrustumUpdate`. That
function sets one 15 ms timer (`existing_frustum_trigger`). When the timer
fires it calls `getFrustum`, which resets `last_frustum_trigger_id` and calls
`triggerFrustum(0)`.

`triggerFrustum` does the following:
- cancels the open XHRs;
- adapts `resolution_correction`;
- resets the generation;
- calls `getCell` for every enabled root.

`getCell` calls its callback synchronously on a cache hit. On a miss it opens
an XHR.

Each arrival is appended to `queue`. If `isProcessingQueue` is false, the
arrival starts `processQueue`, which runs `processCell` on the cells in order.
The flag is set only by `triggerFrustum` and cleared at the end of every
`processQueue`, so in a `processQueue` started by an XHR it is false
throughout: a cache hit of a child then calls `processQueue` from inside
`processCell`'s child loop, on the same `queue_index`. The nested call
processes the same cell again, which hits the same child again, and the
recursion ends only when the budget check interrupts. Each nested call then
delivers a snapshot, and every suspended child loop resumes after the
cancel, opening XHRs again. `processCell`
does the following:
- checks the budget;
- resets the cell's `show_children` to its child mask;
- clears the parent's bit for this cell;
- stops at a leaf or at a small-enough cell;
- otherwise requests every child inside the frustum, inheriting
  `inside_frustum = 1`.

After 50 callbacks in a row, `processQueue` yields through `setTimeout(…, 1)`.

When the loop ends:
- if cells are still in flight, `progressCallback` receives a shallow copy of
  the whole queue;
- otherwise the generation is complete, `finishedCallback` receives a shallow
  copy, and if there were too few cells a `triggerFrustum(1)` is scheduled.

If the budget is exceeded, the generation is interrupted, cancelled, and a
`triggerFrustum(-1)` is scheduled. Both callbacks assign `currentCells`, which
the render loop draws.

**What makes it hard.** JavaScript runs one callback at a time. Still, the
following events interleave freely:
- XHR completions;
- 1 ms yield continuations;
- 10 ms retrigger timers;
- 15 ms UI timers.

`show_children` and `inside_frustum` live on the Cell objects shared through
the cache, so one generation overwrites what the previous one left. The
generation guard is the ad hoc `last_frustum_trigger_id` test. Failures,
cancellation and the budget interrupt each cut a generation short in their
own way.

**Other interactions.** The mouse handlers move the camera. A press or a
wheel step calls `stopProfile`; a view or job button, or a right click,
calls `goto`, whose iterations run on 33 ms timers. A shift-click starts a
selection; the start_job button starts a road job on the selected box. The
job's success callback adds the result tree to `trees_info` and clears the
selection. The connection checker polls the server on its own timer chain,
and a "(retry)" link restarts it.

**Start-up.** `start()` asks `getMany` for the six shader sources and, for
each tree of the URL's `tree=` parameter, `getMetaData`; without `tree=` it
asks `getSupportedTrees` instead. A viewpoint in the URL creates the camera
at once, marked `from_url`. The answers arrive in any order. The last
shader answer calls `onProgramLoaded` or reports the failure. Each
metadata answer parses `metadata.ini` and calls `addTree`, which builds the
root box with `getRootGeom`, may create the camera from the tree's
viewpoint, and calls `triggerFrustumUpdate`. The user may resize the
window or press the clipping keys before the shaders load: the
`setProjectionMatrix` they call then throws, and `onProgramLoaded` runs
`onWindowResize` again once the program exists. The connection checker
runs alongside from the first moment.

## 2. Modules and how they correspond to the code

Every JavaScript callback runs to completion, so each handler, timer
callback or XHR callback is one action. Whatever it calls synchronously is
part of that action.

* `LRUCache.tla` is the cache as its callers see it.
  * State: the entry sequence, most recently used first.
  * `PutOp`, `GetOp` and `EnforceOverflow` are `put`, `get` and
    `_enforceOverflow`.
* `LinkedList.tla` has the pointer operations of `List` in `lru_cache.js`
  as operators on a record of `prev`/`next`/`item` functions over node
  names: `push_front`, `pop_front`, `pop_back`, `move_to_front` and `clear`.
  `AsSeq` reads the chain as a sequence. `push_back` and `remove` are never
  called by the application and are left out.
* `LRUList.tla` is `LRUCache` of `lru_cache.js` as the code builds it: the
  list, `lookup` (id to node) and `size`.
  * `Put`, `Get` and `Clear` are `put`, `get` and `clear`. A put that
    overflows runs `_enforceOverflow` inside the same action.
  * `touched` is a history variable: the order in which callers last used
    the ids.
  * `Refines` is `Abs!Spec` with `Abs == INSTANCE LRUCache WITH cache <-
    AsSeq(list)`.
* `FrustumQuerier.tla` is the query engine together with `getCell`, the cache
  (as `LRU == INSTANCE LRUCache`) and the UI trigger.
  * Every field listed above is a variable: `lru` (the cache), `pending` (the
    XHRs), `timers` (pending `setTimeout`s by kind), `show` / `inside` (the
    mutable fields of every cell object), and `result` (the last array given
    to a callback, that is `currentCells`).
  * `stack` is the JavaScript call stack of the running handler: a `"pq"`
    frame is a `processQueue` invocation at the head of its loop, a `"pc"`
    frame a `processCell` whose child loop is suspended inside a cache
    hit's callback, with the octants it has still to visit. While the stack
    is not empty only its top frame can step, which is JavaScript's
    run-to-completion rule; every other event needs an empty stack.
  * `pending` is a bag, since the resumed child loops after a cancel can
    open a second XHR for a cell that already has one.
  * Cell objects are identified by id. A cache hit returns the cached
    object, so this is exact except when a cell is fetched twice: the
    second object then replaces the first in the model.
  * Actions:

    | Action | Code |
    |---|---|
    | `GetFrustum` | the UI timer |
    | `Retrigger(kind)` | the 10 ms timers |
    | `ResumeQueue` | the 1 ms yield |
    | `PQInterrupt` | a loop iteration whose `processCell` hits the budget |
    | `PQStop` | a loop iteration whose cell is a leaf or small enough |
    | `PQExpand` | a loop iteration whose cell requests its children: the child loop runs to the end (`processCell` returns, `queue_index++`, the yield test) or up to the first cache hit that re-enters `processQueue` |
    | `PCResume` | a nested `processQueue` has returned: the suspended child loop continues |
    | `ProcessQueueEnd` | the end of `processQueue`, which pops its frame |
    | `FetchSuccess` / `FetchFailure` | XHR `onload` |
    | `ToggleTree`, `SetDesired` | user actions |

  * A cache hit's callback runs inside the step that calls `getCell`. When
    `isProcessingQueue` is true it only counts in `process_calls_in_a_row`
    (a root's callback does not count). When it is false the step ends
    by pushing the suspended `processCell` and a new `processQueue` frame
    (`RunChildren`, `ReentryIndex`).
  * `IsInsideFrustum` is the loop of `isInsideFrustum` as a RECURSIVE
    operator over the six signed plane distances.
* `MCFrustumQuerier.tla` instantiates the engine with two trees and ten
  cells (`MCOneTree` is a page showing only the first).
* `Octree.tla` holds the pure spatial operators.
  * `GetCenter` and `GetChild` are `NodeGeometry`'s methods over integer
    boxes, with the octant bits tested with `Bitwise`.
  * `MetaData(lines)` is the constructor's loop as a `FoldLeft` of
    `ParseLine` (the `switch` on the key) over the file's lines, each line
    a record of its key and `parseFloat` value. `GetRootGeom` is the cube
    of side `tree_size` around `tree_center`.
* `PageStart.tla` is the start-up of `index.js`.
  * State: one status per shader URL, `getMany`'s `numPending` and
    `numFailed`, the callbacks reported, whether the program is loaded,
    the `getSupportedTrees` request, the metadata requests in flight,
    `trees_info` (name and root box), the camera (none, from the URL, or
    from a tree) with `from_url`, the pending frustum timer, and the trees
    the last `getFrustum` call was given. The viewport: the window
    height, the canvas CSS height and drawing-buffer height, the frustum
    (height and near plane) the planes were last extracted from, `near`
    (in half metres), `custom_clipping`, and the view the last
    `getFrustum` call saw.
  * Actions: `ShaderSuccess(i)` and `ShaderError(i)` (the closures of
    `getMany`; the last one runs `onProgramLoaded` inside the same
    action), `MetaSuccess(t, f)` (`new MetaData` and the whole of
    `addTree`), `MetaFailure(t)`, `FrustumTimerFires` and
    `SupportedAnswer`; the user's `WindowResize(w)` (`onWindowResize`),
    the keys `KeyI`, `KeyO`, `KeyP`, `KeyF` and `Wheel(d, moved)`.
    `setProjectionMatrix` is `SetProjectionMatrix(ld, c, n)`: before the
    program is loaded it throws at `currProgram.u`, so the frustum, the
    trigger and the buffer size are left undone while the CSS size was
    already set. `onProgramLoaded` runs `onWindowResize` in its action.
* `MCPageStart.tla` instantiates `PageStart` with two trees and two
  metadata files and defines the start states and the octree invariants
  checked in the same run.
* `ConnectionChecker.tla` is `ServerConnectionChecker`.
  * State: `backoff`, the pending timers (named from `TimerIds`), the
    stored `this.timeout`, the pings in flight, and whether the retry link
    is shown.
  * Actions: `TimerFires` (`check`), `PingSuccess`, `PingError` (which
    doubles the backoff up to five minutes) and `ClickRetry`.
* `MCOrbitCamProfile.tla` composes `OrbitCamProfile` with
  `ConnectionChecker` (as `CC == INSTANCE ConnectionChecker WITH timers <-
  ccTimers`): a step is a step of one of them, the other unchanged, as
  the browser runs one callback at a time.
* `OrbitCamProfile.tla` is the execution of camera profiles.
  * State: the pose, as one integer coordinate, and `profile_executor_id`.
    Pending iterations are records `[id, t, start, goal]`. `oldPose` is
    the setters' `old_*` pose, `frustumTimer` the pending
    `existing_frustum_trigger`, and `queried` the pose the last
    `getFrustum` call read.
  * Actions: `Goto` (every caller of `goto`), `Fire` (an iteration:
    superseded ones return at once), `MouseDown`, `Wheel` and
    `DragMove` from `index.js`, and `FrustumTimerFires`. Every pose change
    goes through `SetPose`, the setters: a move of more than `Threshold`
    from `oldPose` runs the motion callback of `initCam`, which arms the
    frustum timer.
  * A profile is abstracted to one position per tick that equals the goal
    at `t = duration`.
* `VelocityProfile.tla` justifies that abstraction. It translates the
  profile classes line by line into exact rationals extended with
  Infinity (`x/0`) and NaN (`0/0`) as JavaScript division produces them.
  Square roots are exact on the checked inputs. The origin profile
  (`Mapped3D`) is taken on one axis. `AngleDiff` is `angle_diff` of
  `orbitcam.js` on angles in eighths of a turn, its two wrapping loops as
  RECURSIVE operators.
* `RoadJob.tla` covers road-detection jobs and the canvas selection they
  run on.
  * State: `jobs` (`jobs_info`: phase, finished, failed, removed,
    tree_name set), `trees` (jobs whose tree is in `trees_info`),
    `selection` (none, point or box), `button` (`mouseButtonDown`) and
    `measuring`.
  * Each request callback is an action. A poll that says "not yet" or
    fails schedules the same poll again, so it is a stutter.
  * A handler that throws on a null selection changes nothing after the
    throw.
  * A point selection cannot start a job, because `selection.lookAt`
    dereferences the null `end_selection`.

Geometry of the query engine is abstracted into two constants:
* `Classify[c]` is what `isInsideFrustum` returns for cell `c`.
* `Need[c]` is the least exponent `k` (`resolution_correction = 1.2^k`) at
  which `c` passes the "small enough" test.

The float thresholds of the code become exact integer comparisons:
* `cell_count > 1.32·desired` is `cc·100 > 132·D`;
* `(cell_count+inFlight) > 1.5·desired` is `2(cc+inF) > 3D`;
* `cell_count < desired/1.5` is `3cc < 2D`.

The `min_box_size_meters` clamp becomes the floor `KFloor`. `KMax` bounds `k`.

## 3. Runs

| Run | cfg | Expect | Checks | What it shows |
|---|---|---|---|---|
| safety | `MCFrustumQuerier.cfg` | pass | `TypeOK`, `SnapshotCoherent`, `ReentryDepthBounded`, `FrustumTestCorrect` | Every snapshot of a generation that was not interrupted is coherent: no octant is drawn both by its parent's placeholder and by the child, and no child in the frustum is missing. This holds across arrivals in any order, cache hits, re-entrant `processQueue` calls, yields, failures, retriggers and a user action. The re-entrant recursion of a cache hit stays within 1.5 · `desired_cell_count` + 2 nested `processQueue` calls, and TLC reaches depths within one of that bound; in the browser, with the slider's 100..2000 cells, that is hundreds to thousands of nested calls of four JavaScript frames each. `isInsideFrustum` also agrees with the sphere classification for every six-plane input with distances in -3..3 and radius 1 or 2. |
| liveness | `MCFrustumQuerierLive.cfg` | pass | `EventuallyQuiescent` | With reliable fetches the refine/coarsen loop, and every re-entrant recursion of a cache hit, dies out, and the last generation completes. |
| fetch_failure | `MCFrustumQuerierFail.cfg` | violation | `EventuallyQuiescent` | A failed fetch never decrements `inFlight`, so the generation never completes (finding). |
| interrupted_snapshot | `MCFrustumQuerierInterrupt.cfg` | violation | `AllSnapshotsCoherent` | The final snapshot after a budget interrupt contains unprocessed cells whose parent still shows their octant (finding). |
| loop_guard | `MCFrustumQuerierLoopGuard.cfg` | violation | `EventuallyCompleteResult` | `triggerFrustum(-1)` after `triggerFrustum(1)` is refused, and the interrupted picture stays (finding). |
| disable_all | `MCFrustumQuerierDisable.cfg` | violation | `EventuallyOnlyEnabledTrees` | Disabling every tree calls no callback, so the disabled tree stays drawn (finding). |
| lru_list | `MCLRUList.cfg` | pass | `TypeOK`, `LookupConsistent`, `RetainsMostRecent`, `Refines` | After every sequence of `put`, `get` and `clear`, `lookup`, `size` and the list agree. The cache holds exactly the most recently used ids, and the code implements `LRUCache`. |
| page_start | `MCPageStart.cfg` | pass | `TypeOK`, `ShadersReportedOnce`, `ViewportSynced`, `RootBoxesSubdivide`, `EventuallyShadersReported`, `EventuallyAllTreesQueried`, `EventuallyViewQueried` | Whatever order shader, metadata and timer answers, resizes, keys and wheel steps arrive in: `getMany` reports exactly once and truthfully, once the program is loaded the buffer and the frustum match the canvas and the near plane, every tree whose metadata arrives is eventually queried with no trigger left, and the last view queried is eventually the current frustum. The root box of every metadata file subdivides into eight disjoint halves two levels deep in the octant convention of the bits. |
| conn_dup | `MCConnectionCheckerDup.cfg` | violation | `EventuallySingleChain` | A retry click while a ping is in flight starts a second polling chain that can run for good (finding). TLC fires pending timers in any order. In the browser the chains merge when a timer fires while `this.timeout` names the other chain's timer. The counterexample keeps them apart with a ping still in flight when the other chain's timer fires, that is, with pings slower than the difference of the two backoffs, as on a slow or failing server. |
| orbitcam | `MCOrbitCamProfile.cfg` | pass | `CamTypeOK`, `NeverStops`, `ProfilesReachGoal`, `AngleDiffCorrect`, `QueriedViewNearPose`, `SettlesNearGoal`, `EventuallyStill` | Every profile execution ends. A goto that is not superseded stops within one iteration of its goal (the sample at the end of the profile is skipped), and stays there however the iterations of superseded profiles fire, which only their `profile_executor_id` test ensures. Once the frustum timer has fired, the queried view is within twice the setters' threshold of the pose: the setters measure against the pose of the last callback, the timer reads the pose 15 ms later. With one threshold instead of two TLC finds a three-step counterexample, so the factor is needed. Every profile `goto` builds starts at the pose and ends exactly at the goal once stretched to the common duration. This includes a coordinate that does not move, whose stretch divides 0 by 0, and `MappedDouble`, which also passes its middle point exactly when its first half's share of the stretched duration is over. `angle_diff` returns the shortest signed turn for every pair of angles up to two turns apart either way, which needs its loops to wrap more than once. The connection checker, interleaved with the camera, keeps polling with its backoff on the doubling ladder. |
| selection_drag | `MCRoadJobDrag.cfg` | violation | `DragHasSelection` | Esc or a finishing road job clears the selection during a shift-drag; the next move dereferences null and the release fails its assertion (finding). |
| road_remove | `MCRoadJobRemove.cfg` | violation | `RemovedJobShowsNoTree` | A job removed while its tree is being served still gets its tree added (finding). |

`FrustumTestCorrect`, `ProfilesReachGoal`, `AngleDiffCorrect` and
`RootBoxesSubdivide` are tables of pure functions,
so they do not depend on the state. Each is checked in the states before
the first step (the first query, user action or answer).

Every property of a passing run has a mutant in `PROJECT.json`: a
plausible bug in the mapped code, for which TLC finds the property
violated. For example, a `MappedDouble` that stretches only its second
half, an `if` for each `while` of `angle_diff`, a cell not counted in
`cell_count` (the re-entrant recursion then has no bound), or `min_n`
starting at the radius.

**Bounds.** The query engine model has two trees and ten cells. `R1` has a
partly visible child, a fully inside child, and an outside child with an
outside grandchild. `k ≥ 0` gives 2 cells and `k = -1` gives 8. With
`desired = 4` the first generation refines (2 < 4/1.5), and the refinement
overruns the budget (8 > 6). With `desired = 7` the refinement fits. So
refining, interruption, coarsening, the loop guard and completion all occur.

The other query-engine bounds are chosen so that each mechanism is
exercised:
* `YieldAfter = 1` makes yields happen with three cells.
* `CacheCapacity = 6` makes evictions happen, so later generations find a
  root evicted and its children cached, and the re-entrant `processQueue`
  runs.
* `KFloor = -1` makes the clamp matter.

There is one user action (`MaxUIEvents = 1`). It can land at any point of a
running generation. Two user actions multiply the state space beyond what
TLC explores in minutes.

The liveness run checks a page showing only `R1` (`MCOneTree`) with a
three-entry cache, so that its seven cells do not fit, both slider values
and two user actions. The re-entrant recursion runs there too; with two
trees the liveness check takes more than five minutes.

The other models have these bounds:
* `lru_list`: capacity 2, three ids and three nodes, so puts evict, gets
  reorder, and a re-put moves a node.
* `page_start`: two shader URLs (the code has six; two already give a
  failure before and after a success), two trees, and two metadata files,
  one with a camera distance (a viewpoint) and one without, with an empty
  line and a negative centre. The URL viewpoint and `tree=` are each
  present or absent in the initial states. Two window heights (500, 700),
  two initial CSS heights and one stale buffer height, a near plane of
  1..2 m in half-metre steps, and three user events, so a resize or a
  key can come before and after the shaders load.
* `angle_diff`: every pair of angles in -8..8 eighths, so differences run
  over two turns either way, several wraps are needed, and both half-turn
  cases occur.
* `orbitcam`: four poses and three user actions, so a goto can be
  superseded by a second goto or a stopProfile while its iterations are
  pending, and a drag can move the camera beside a running profile. A press
  stops the profile but a move does not, and `mouseButtonDown` stays set
  after a release outside the canvas, so a move can drag beside a profile
  started later; then a pending iteration then overwrites the dragged pose; the
  code states no rule for which should win, and no property is written
  about it.
  A threshold of 1, so moves of 1 are below it and moves of 2 and 3
  above. The connection checker runs beside it with three timer names
  and one click, so two polling chains can overlap (a click during an
  in-flight ping starts the second).
* The velocity profiles:
  * positions -2..2 with rates 1 and 2, which covers both the saturating
    and the triangular case and a zero move;
  * for the mapped profiles, rates {1/4, 1, 2, 4};
  * stretches to the own duration, duration+1 and 2·duration+1.
* Road jobs: one job, enough for the removal race and for the selection
  race.

**Fairness.**
* Query engine: `WF_vars(SystemStep)`. The browser keeps firing timers and
  delivering XHRs while any are pending, and the server answers.
* Connection checker: weak fairness on ping answers and timers.
* Start-up: weak fairness on the shader answers, the metadata answers and
  the frustum timer; the browser delivers every answer (success or error)
  and fires the timer. `getSupportedTrees` waits on a prompt, so no
  fairness is assumed for it.
* Camera: weak fairness on `Fire` and `FrustumTimerFires`, because a
  pending `setTimeout` fires;
  in `CamSpec` also the checker's fairness.
* The user is never forced to act: no fairness on resize, keys or wheel.

Deadlock checking is off where the idle page waiting for input is a real
end state. The liveness properties check that nothing stops short of it.

## 4. Not modelled, and why

* Float geometry (`extract_frustum_planes`, `NodeGeometry.getChild`, the
  selection's vectors, the camera's matrices): modelled only through its
  results.
* `isPartInsideFrustum` and `distanceToFrustum`: never called.
* `mapping2` (a cosine): not modelled. The unused profiles (cubic,
  slowdown, trap3d, double_cubic, cubic3d) and `getVel`: never called.
* WebGL drawing, picking and `pickValid`, UTM conversion, and
  `DistanceMeasurement`'s rendering: pure computation on floats.
  `pickValid` (`cell.js:132`) tests `(1 << i) & (1 << j)` for distinct
  bits, which is always 0; no run checks it.
* `getViews` and `addView` at start-up: their answer only adds view
  buttons.
* `onSliderMove` and `box_size_px`: the frustum timer's closure captures
  `box_size_meters` when it is armed (`index.js:468`), so a change while
  it is pending is lost. Recorded as a hazard, not checked.
* `custom_clipping` after key p before load (`index.js:612`): `PageStart`
  reaches the state, but no property is written about it.
* The `Float32Array` rounding of `NodeGeometry`: boxes are integers with
  dyadic sides, on which halving is exact.
* The keys c, l and n, `RUN_ON_CACHE_ONLY`: debugging paths.
* `setOrigin`'s threshold is relative to the distance; with one pose
  coordinate the camera model has one absolute threshold. After a zoom-in
  an origin drift can exceed the new threshold without a callback
  (hazard, not checked).
* The number keys after `JobInfo.remove` nulls a `trees_info` slot:
  `toggleTreeMode` dereferences the null slot (hazard, not checked).
* Camera-driven triggers: in the query-engine model the view is fixed, and
  camera motion is one more caller of `triggerFrustumUpdate`; the
  camera's side of that call (the setters' thresholds and the timer) is
  in `OrbitCamProfile`, whose timer stands for the query without running
  it.

## 5. Plan

Done:
1. `LRUCache` and `FrustumQuerier` with `MCFrustumQuerier`, and the frustum
   test.
2. `LinkedList` and `LRUList`, refining `LRUCache`.
3. `ConnectionChecker`.
4. `OrbitCamProfile` and `VelocityProfile`.
5. `RoadJob`: jobs and the canvas selection.
6. `Octree` (geometry, metadata, root box) and `PageStart`,
   `angle_diff`.
7. The window resize handlers, `setProjectionMatrix` and the keys i, o,
   p, f and the wheel in `PageStart`, with the program-not-loaded case;
   `ConnectionChecker` composed with the camera in `MCOrbitCamProfile`.
8. The setters' motion thresholds and the motion callback's frustum
   timer in `OrbitCamProfile`; the shortfall of the last iteration
   (`SettlesNearGoal`).
9. The re-entrant `processQueue` of a cache hit in `FrustumQuerier`, with
   an explicit call stack and a bag of pending XHRs.

Left:
10. `onSliderMove`, to check the stale `box_size_meters` of a pending
   frustum timer.
11. The point-selection start of a job, once the behaviour of the vector
   library on null is pinned down.
