--------------------------- MODULE FrustumQuerier ---------------------------
(***************************************************************************)
(* The adaptive octree query of frustum_querier.js (FrustumQuerier), with  *)
(* the cell fetch of megatree.js (getCell), the LRU cell cache it fills    *)
(* (lru_cache.js) and the user-interface trigger of index.js               *)
(* (triggerFrustumUpdate).                                                 *)
(*                                                                         *)
(* JavaScript runs one callback at a time to completion.  The handler    *)
(* that is running is the call stack `stack`: a "pq" frame is a           *)
(* processQueue invocation at the head of its loop, a "pc" frame a        *)
(* processCell invocation whose child loop is suspended, with the octants *)
(* it still has to visit.  A cache hit in getCell runs the success        *)
(* callback synchronously, and when isProcessingQueue is false that       *)
(* callback calls processQueue re-entrantly: the model pushes the         *)
(* suspended processCell and a new processQueue frame.  Every other event *)
(* (an XHR load, a setTimeout firing, a user action) needs an empty       *)
(* stack.                                                                  *)
(*                                                                         *)
(* Cells are identified by id: the Cell objects of one id (a cache hit     *)
(* returns the cached object) share show_children and inside_frustum.     *)
(*                                                                         *)
(* Geometry is abstracted: Classify[c] is what isInsideFrustum returns for *)
(* cell c's bounding sphere under the current camera and projection, and  *)
(* Need[c] is the least resolution exponent k at which c is "small enough" *)
(* (node_size^2 <= (g_m * 1.2^k)^2 * dist^2); resolution_correction is     *)
(* 1.2^k, so the code's multiply/divide by resolution_step is k+1 / k-1.   *)
(***************************************************************************)
EXTENDS Integers, Sequences, FiniteSets, SequencesExt, BagsExt

CONSTANTS
    TreesInfo,      \* sequence of tree root cell ids, in trees_info order
    Cells,          \* the cells of all trees: <<root, o1, o2, ...>>
    Classify,       \* [Cells -> {-1, 0, 1}]: isInsideFrustum of the cell
    Need,           \* [Cells -> Int]: least k at which the cell is small enough
    DesiredCounts,  \* values the cell count slider can give desired_cell_count
    InitDesired,    \* desired_cell_count when the querier is constructed
    KFloor,         \* least k with g_m * 1.2^k >= min_box_size_meters
    KMax,           \* bound on k (coarsening never needs more in the models)
    CacheCapacity,  \* LRUCache max_size
    YieldAfter,     \* process_calls_in_a_row limit before processQueue yields (50)
    MaxUIEvents,    \* bound on user actions that call triggerFrustumUpdate
    FetchCanFail    \* whether an XHR may complete with an error status

Octants == 0..7
Roots == Range(TreesInfo)

ASSUME
    /\ Roots \subseteq Cells
    /\ Classify \in [Cells -> {-1, 0, 1}]
    /\ Need \in [Cells -> Int]
    /\ DesiredCounts \subseteq Nat \ {0} /\ InitDesired \in DesiredCounts
    /\ KFloor \in Int /\ KMax \in Int /\ KFloor <= 0 /\ 0 <= KMax
    /\ CacheCapacity \in Nat \ {0} /\ YieldAfter \in Nat /\ MaxUIEvents \in Nat
    /\ FetchCanFail \in BOOLEAN

\* The cell id encodes the path: parent_id is the id without its last
\* character, which_child is the last character (Cell constructor).
IsRoot(c)    == c \in Roots
ParentOf(c)  == Front(c)
WhichChild(c) == Last(c)
ChildOf(c, o) == Append(c, o)
\* Cell.children, the child presence mask, as the set of present octants.
Mask(c)      == {o \in Octants : ChildOf(c, o) \in Cells}
IsLeaf(c)    == Mask(c) = {}

\* The frames of the call stack.
PQFrame == [kind |-> "pq"]
PCFrame(c, todo) == [kind |-> "pc", cell |-> c, todo |-> todo]

TimerKinds == {"processQueue", "refine", "coarsen"}
\* The id triggerFrustum receives from each retrigger timer.
TriggerId == [refine |-> 1, coarsen |-> -1]

VARIABLES
    lru,            \* cellCache entries, most recently used first
    enabled,        \* [Roots -> BOOLEAN]: tree_info.enabled
    desired,        \* desired_cell_count (global, set by the slider)
    uiTimer,        \* existing_frustum_trigger is set
    uiLeft,         \* user actions still allowed (bound)
    k,              \* log_1.2 of resolution_correction
    cellCount,      \* cell_count
    inFlight,       \* inFlight
    completed,      \* completed_full_frustum_query
    lastId,         \* last_frustum_trigger_id
    queue,          \* queue (cell ids, in push order; an id may repeat)
    qi,             \* queue_index
    isProcessing,   \* isProcessingQueue
    interrupt,      \* interrupt_frustum_query
    calls,          \* process_calls_in_a_row
    pending,        \* bag of open XHRs: [cell |-> id, inf |-> child_in_frustum]
    timers,         \* [TimerKinds -> Nat]: scheduled setTimeout callbacks
    stack,          \* call stack of the running handler (<<>> when idle)
    show,           \* [Cells -> SUBSET Octants]: show_children of the cell object
    inside,         \* [Cells -> {-1,0,1}]: inside_frustum of the cell object
    result,         \* last snapshot given to a callback: [id -> show_children]
    resultFinal,    \* it came through finishedCallback
    resultInterrupted \* it was produced by an interrupted generation

vars == <<lru, enabled, desired, uiTimer, uiLeft, k, cellCount, inFlight,
          completed, lastId, queue, qi, isProcessing, interrupt, calls,
          pending, timers, stack, show, inside, result, resultFinal,
          resultInterrupted>>

LRU == INSTANCE LRUCache WITH
         Ids <- Cells, Items <- {"cell"}, MaxSize <- CacheCapacity, cache <- lru

Cached == LRU!Keys(lru)

-----------------------------------------------------------------------------
(* Helpers for the synchronous parts of a handler.                         *)

\* A getCell of every id of seq in order: each cache hit is a cellCache.get,
\* which moves the hit to the front of the LRU list.
TouchAll(l, seq) == FoldLeft(LRU!GetOp, l, seq)

\* The elements of the id sequence seq that are (not) in the cache.
HitsOf(seq)   == SelectSeq(seq, LAMBDA c : c \in Cached)
MissesOf(seq) == SelectSeq(seq, LAMBDA c : c \notin Cached)

\* The snapshot processQueue hands to a callback: a shallowCopy of every
\* queued cell, which copies its show_children.
Snapshot == [c \in Range(queue) |-> show[c]]

\* Mutation: the min_box_size_meters clamp is missing.
AdaptKNoClamp ==
    IF cellCount * 100 > 132 * desired /\ k < KMax THEN k + 1
    ELSE IF cellCount * 132 < 100 * desired /\ completed THEN k - 1
         ELSE k

\* Adapting resolution at the start of triggerFrustum.  desired*1.2*1.1 is
\* 1.32*desired and desired/1.2/1.1 is desired/1.32.
AdaptK ==
    IF cellCount * 100 > 132 * desired /\ k < KMax THEN k + 1
    ELSE IF cellCount * 132 < 100 * desired /\ completed
         THEN IF k - 1 < KFloor THEN k ELSE k - 1
         ELSE k

\* The body of triggerFrustum after its guard: pending requests are
\* cancelled, the resolution adapted, the generation state reset and every
\* enabled root requested (hits enqueued synchronously, misses opened as
\* XHRs); processQueue runs at once when a root came from the cache.
StartGeneration(id) ==
    LET rootSeq == SelectSeq(TreesInfo, LAMBDA r : enabled[r])
        hits    == HitsOf(rootSeq)
        misses  == MissesOf(rootSeq)
    IN  /\ lastId' = id
        /\ k' = AdaptK
        /\ completed' = FALSE
        /\ cellCount' = 0
        /\ interrupt' = FALSE
        /\ qi' = 0
        /\ lru' = TouchAll(lru, rootSeq)
        /\ queue' = hits
        /\ pending' = SetToBag({[cell |-> r, inf |-> -1] : r \in Range(misses)})
        /\ inFlight' = Len(misses)
        /\ IF hits # <<>>
           THEN /\ isProcessing' = TRUE
                /\ stack' = <<PQFrame>> /\ calls' = 0
           ELSE /\ isProcessing' = FALSE
                /\ UNCHANGED <<stack, calls>>

\* triggerFrustum(id), where last is last_frustum_trigger_id on entry: the
\* "self-induced loop" guard returns at once when a retrigger arrives whose
\* id differs from the last one.
TriggerFrustum(id, last) ==
    IF last # 0 /\ id # last
    THEN UNCHANGED <<lru, k, cellCount, inFlight, completed, lastId, queue, qi,
                     isProcessing, interrupt, calls, pending, stack>>
    ELSE StartGeneration(id)

-----------------------------------------------------------------------------
(* processCell(cell): the budget check, then the cell's own bookkeeping,  *)
(* then a request for every child that is inside the frustum.             *)

Top == stack[Len(stack)]
Idle == stack = <<>>

OverBudget == (cellCount + inFlight) * 2 > 3 * desired

\* Mutation: cancel aborts the requests but leaves inFlight as it is.
CancelNoReset ==
    /\ pending' = EmptyBag
    /\ UNCHANGED inFlight

\* cancel: every stored XHR is aborted (an aborted XHR never calls onload)
\* and inFlight is reset.
Cancel ==
    /\ pending' = EmptyBag
    /\ inFlight' = 0

\* Budget exceeded: interrupt, count the in-flight cells, cancel every
\* request; the triggerFrustum(-1) timer is added by the caller.
ProcessCellInterrupt ==
    /\ interrupt' = TRUE
    /\ cellCount' = cellCount + inFlight
    /\ Cancel
    /\ UNCHANGED <<lru, queue, show, inside>>

\* Mutation: show_children is not reset to the child mask.
ShowAfterLoadNoReset(c) ==
    IF IsRoot(c) THEN show
    ELSE [show EXCEPT ![ParentOf(c)] = @ \ {WhichChild(c)}]

\* The cell's own update: show_children reset to its child mask, and the
\* parent's bit for this cell cleared.
ShowAfterLoad(c) ==
    IF IsRoot(c) THEN [show EXCEPT ![c] = Mask(c)]
    ELSE [show EXCEPT ![c] = Mask(c),
                      ![ParentOf(c)] = @ \ {WhichChild(c)}]

\* The loop of isInsideFrustum over the planes' signed distances ds to the
\* sphere's centre, from plane i on, min_n the least distance so far: -1
\* as soon as one plane has the sphere wholly outside, else 1 when every
\* distance (and the initial 2 * radius) exceeds the radius, else 0.
RECURSIVE InsideLoop(_, _, _, _)
InsideLoop(ds, r, i, minN) ==
    IF i > Len(ds) THEN (IF minN > r THEN 1 ELSE 0)
    ELSE IF ds[i] < -r THEN -1
    ELSE InsideLoop(ds, r, i + 1, IF ds[i] < minN THEN ds[i] ELSE minN)

\* Mutation: min_n starts at the radius instead of twice the radius.
IsInsideFrustumNoMargin(ds, r) == InsideLoop(ds, r, 1, r)

\* isInsideFrustum(frustum_planes, cell_radius, pnt).
IsInsideFrustum(ds, r) == InsideLoop(ds, r, 1, 2 * r)

\* child_in_frustum of octant o of c: inherited when c is completely inside.
ChildInFrustum(c, o) ==
    IF inside[c] < 1 THEN Classify[ChildOf(c, o)] ELSE inside[c]
Loads(c, o) == inside[c] > 0 \/ ChildInFrustum(c, o) > -1
\* Octant o of c is requested with getCell (present and inside).
Requested(c, o) == o \in Mask(c) /\ Loads(c, o)

\* The request of octant o is a cache hit whose success callback calls
\* processQueue before getCell returns.
Reenters(c, o) == Requested(c, o) /\ ChildOf(c, o) \in Cached /\ ~isProcessing

\* The index in todo of the first octant whose request re-enters, or 0.
ReentryIndex(c, todo) ==
    LET I == {i \in 1..Len(todo) : Reenters(c, todo[i])}
    IN  IF I = {} THEN 0 ELSE Min(I)

\* The child ids getCell is called for while the loop visits chunk.
ReqSeq(c, chunk) ==
    LET os == SelectSeq(chunk, LAMBDA o : Requested(c, o))
    IN  [i \in 1..Len(os) |-> ChildOf(c, os[i])]

\* The child loop of processCell over the octants of chunk, from the
\* show_children sh: absent and outside octants are cleared from c's bits;
\* every requested child is counted in inFlight, a cache hit is enqueued
\* at once by its success callback (inside_frustum set, inFlight back down),
\* a miss opens an XHR.
ChildLoop(sh, c, chunk) ==
    LET req    == ReqSeq(c, chunk)
        hits   == HitsOf(req)
        misses == MissesOf(req)
        hitSet == Range(hits)
    IN  /\ show' = [sh EXCEPT ![c] = @ \ {o \in Range(chunk) : ~Requested(c, o)}]
        /\ lru' = TouchAll(lru, req)
        /\ queue' = queue \o hits
        /\ inside' = [x \in Cells |->
                        IF x \in hitSet THEN ChildInFrustum(c, WhichChild(x))
                        ELSE inside[x]]
        /\ pending' = FoldLeft(LAMBDA B, x :
                          BagAdd(B, [cell |-> x, inf |-> ChildInFrustum(c, WhichChild(x))]),
                          pending, misses)
        /\ inFlight' = inFlight + Len(misses)

\* processCell returns to the processQueue frame on top of below: queue_index++,
\* and the yield through setTimeout when more than YieldAfter callbacks ran
\* in a row (cl is process_calls_in_a_row); coarsen is the triggerFrustum(-1)
\* timer the budget check scheduled.
ReturnToQueue(below, cl, coarsen) ==
    /\ qi' = qi + 1
    /\ calls' = cl
    /\ timers' = [timers EXCEPT !["coarsen"] = @ + coarsen,
                                !["processQueue"] = @ + (IF cl > YieldAfter THEN 1 ELSE 0)]
    /\ stack' = IF cl > YieldAfter THEN Front(below) ELSE below

\* The child loop of c from the octants todo on, below the frames of its
\* caller.  Either it runs to the end and processCell returns (a cache hit
\* is counted in process_calls_in_a_row, since it only happens while
\* isProcessingQueue is true), or a cache hit re-enters processQueue, which
\* resets process_calls_in_a_row.
RunChildren(sh, c, todo, below) ==
    LET j     == ReentryIndex(c, todo)
        chunk == IF j = 0 THEN todo ELSE SubSeq(todo, 1, j)
    IN  /\ ChildLoop(sh, c, chunk)
        /\ IF j = 0
           THEN ReturnToQueue(below, calls + Len(HitsOf(ReqSeq(c, chunk))), 0)
           ELSE /\ stack' = below \o <<PCFrame(c, SubSeq(todo, j + 1, Len(todo))),
                                       PQFrame>>
                /\ calls' = 0
                /\ UNCHANGED <<qi, timers>>

-----------------------------------------------------------------------------
(* Actions.                                                                *)

Init ==
    /\ lru = <<>>
    /\ enabled = [r \in Roots |-> TRUE]
    /\ desired = InitDesired
    /\ uiTimer = TRUE            \* onProgramLoaded calls triggerFrustumUpdate
    /\ uiLeft = MaxUIEvents
    /\ k = 0
    /\ cellCount = InitDesired   \* constructor: cell_count = desired_cell_count
    /\ inFlight = 0
    /\ completed = FALSE
    /\ lastId = 0
    /\ queue = <<>>
    /\ qi = 0
    /\ isProcessing = FALSE
    /\ interrupt = FALSE
    /\ calls = 0
    /\ pending = EmptyBag
    /\ timers = [t \in TimerKinds |-> 0]
    /\ stack = <<>>
    /\ show = [c \in Cells |-> {}]
    /\ inside = [c \in Cells |-> -1]
    /\ result = <<>>
    /\ resultFinal = FALSE
    /\ resultInterrupted = FALSE

UIVars == <<enabled, desired, uiTimer, uiLeft>>
ResultVars == <<result, resultFinal, resultInterrupted>>

\* triggerFrustumUpdate: at most one 15 ms timer is pending.
RequestUpdate ==
    /\ uiLeft' = uiLeft - 1
    /\ uiTimer' = TRUE

\* toggleTreeMode: a number key toggles one tree's enabled flag; with
\* shift it enables the tree (and flips its override colour).
ToggleTree(r, shift) ==
    /\ Idle /\ uiLeft > 0
    /\ enabled' = [enabled EXCEPT ![r] = shift \/ ~@]
    /\ RequestUpdate
    /\ UNCHANGED <<desired>>
    /\ UNCHANGED <<lru, k, cellCount, inFlight, completed, lastId, queue, qi,
                   isProcessing, interrupt, calls, pending, timers, stack,
                   show, inside>> /\ UNCHANGED ResultVars

\* onPointCountSliderMove: a new desired_cell_count.
SetDesired(d) ==
    /\ Idle /\ uiLeft > 0
    /\ desired' = d
    /\ RequestUpdate
    /\ UNCHANGED <<enabled>>
    /\ UNCHANGED <<lru, k, cellCount, inFlight, completed, lastId, queue, qi,
                   isProcessing, interrupt, calls, pending, timers, stack,
                   show, inside>> /\ UNCHANGED ResultVars

\* The 15 ms timer of triggerFrustumUpdate fires: getFrustum resets
\* last_frustum_trigger_id and calls triggerFrustum(0).
GetFrustum ==
    /\ Idle /\ uiTimer
    /\ uiTimer' = FALSE
    /\ TriggerFrustum(0, 0)
    /\ UNCHANGED <<enabled, desired, uiLeft, timers, show, inside>>
    /\ UNCHANGED ResultVars

\* A scheduled retrigger fires: triggerFrustum(1) or triggerFrustum(-1).
Retrigger(kind) ==
    /\ Idle /\ timers[kind] > 0
    /\ timers' = [timers EXCEPT ![kind] = @ - 1]
    /\ TriggerFrustum(TriggerId[kind], lastId)
    /\ UNCHANGED UIVars /\ UNCHANGED <<show, inside>> /\ UNCHANGED ResultVars

\* A yielded processQueue continuation fires (setTimeout(..., 1)).
ResumeQueue ==
    /\ Idle /\ timers["processQueue"] > 0
    /\ timers' = [timers EXCEPT !["processQueue"] = @ - 1]
    /\ stack' = <<PQFrame>> /\ calls' = 0
    /\ UNCHANGED UIVars
    /\ UNCHANGED <<lru, k, cellCount, inFlight, completed, lastId, queue, qi,
                   isProcessing, interrupt, pending, show, inside>>
    /\ UNCHANGED ResultVars

\* The processQueue loop takes its next cell.
NextCell == stack # <<>> /\ Top = PQFrame /\ qi < Len(queue) /\ ~interrupt
Current == queue[qi + 1]

\* processCell of the next cell finds the budget exceeded.
PQInterrupt ==
    /\ NextCell /\ OverBudget
    /\ ProcessCellInterrupt
    /\ ReturnToQueue(stack, calls, 1)
    /\ UNCHANGED UIVars /\ UNCHANGED <<k, completed, lastId, isProcessing>>
    /\ UNCHANGED ResultVars

\* processCell of a leaf, or of a cell small enough at this resolution.
PQStop ==
    /\ NextCell /\ ~OverBudget
    /\ IsLeaf(Current) \/ Need[Current] <= k
    /\ cellCount' = cellCount + 1
    /\ show' = ShowAfterLoad(Current)
    /\ ReturnToQueue(stack, calls, 0)
    /\ UNCHANGED <<lru, queue, inside, pending, inFlight, interrupt>>
    /\ UNCHANGED UIVars /\ UNCHANGED <<k, completed, lastId, isProcessing>>
    /\ UNCHANGED ResultVars

\* Mutation: the cell is not counted in cell_count.
PQExpandNoCount ==
    /\ NextCell /\ ~OverBudget
    /\ ~(IsLeaf(Current) \/ Need[Current] <= k)
    /\ RunChildren(ShowAfterLoad(Current), Current, <<0, 1, 2, 3, 4, 5, 6, 7>>, stack)
    /\ UNCHANGED <<interrupt, cellCount>>
    /\ UNCHANGED UIVars /\ UNCHANGED <<k, completed, lastId, isProcessing>>
    /\ UNCHANGED ResultVars

\* processCell of a cell that is refined: its children are requested.
PQExpand ==
    /\ NextCell /\ ~OverBudget
    /\ ~(IsLeaf(Current) \/ Need[Current] <= k)
    /\ cellCount' = cellCount + 1
    /\ RunChildren(ShowAfterLoad(Current), Current, <<0, 1, 2, 3, 4, 5, 6, 7>>, stack)
    /\ UNCHANGED interrupt
    /\ UNCHANGED UIVars /\ UNCHANGED <<k, completed, lastId, isProcessing>>
    /\ UNCHANGED ResultVars

\* A re-entrant processQueue has returned into the success callback, and
\* from it into getCell and the child loop of the suspended processCell.
PCResume ==
    /\ stack # <<>> /\ Top.kind = "pc"
    /\ RunChildren(show, Top.cell, Top.todo, Front(stack))
    /\ UNCHANGED <<cellCount, interrupt>>
    /\ UNCHANGED UIVars /\ UNCHANGED <<k, completed, lastId, isProcessing>>
    /\ UNCHANGED ResultVars

\* The loop of processQueue ends: a progress snapshot while cells are in
\* flight, otherwise the generation is complete, a refining retrigger is
\* scheduled when too few cells were found, and the final snapshot is given.
ProcessQueueEnd ==
    /\ stack # <<>> /\ Top = PQFrame
    /\ ~(qi < Len(queue) /\ ~interrupt)
    /\ stack' = Front(stack)
    /\ isProcessing' = FALSE
    /\ result' = Snapshot
    /\ resultInterrupted' = interrupt
    /\ IF inFlight > 0
       THEN /\ resultFinal' = FALSE
            /\ UNCHANGED <<completed, timers>>
       ELSE /\ resultFinal' = TRUE
            /\ completed' = TRUE
            /\ IF cellCount * 3 < 2 * desired /\ k > KFloor
               THEN timers' = [timers EXCEPT !["refine"] = @ + 1]
               ELSE UNCHANGED timers
    /\ UNCHANGED UIVars
    /\ UNCHANGED <<lru, k, cellCount, inFlight, lastId, queue, qi, interrupt,
                   calls, pending, show, inside>>

\* The success callback of a cell request: inside_frustum is set, the
\* cell enqueued, and processQueue started unless it is running; only a
\* child's callback counts itself in process_calls_in_a_row.
SuccessCallback(p) ==
    /\ inside' = [inside EXCEPT ![p.cell] = p.inf]
    /\ queue' = Append(queue, p.cell)
    /\ inFlight' = inFlight - 1
    /\ IF ~isProcessing
       THEN stack' = <<PQFrame>> /\ calls' = 0
       ELSE /\ UNCHANGED stack
            /\ calls' = calls + (IF IsRoot(p.cell) THEN 0 ELSE 1)

\* An XHR for a cell loads with status 200: a new Cell object
\* (show_children 0) is put in the cache, then the success callback runs.
FetchSuccess(p) ==
    /\ Idle
    /\ pending' = BagRemove(pending, p)
    /\ lru' = LRU!PutOp(lru, p.cell, "cell")
    /\ show' = [show EXCEPT ![p.cell] = {}]
    /\ SuccessCallback(p)
    /\ UNCHANGED UIVars
    /\ UNCHANGED <<k, cellCount, completed, lastId, qi, isProcessing,
                   interrupt, timers>>
    /\ UNCHANGED ResultVars

\* An XHR for a cell fails: the failure callback only logs.
FetchFailure(p) ==
    /\ FetchCanFail
    /\ Idle
    /\ pending' = BagRemove(pending, p)
    /\ UNCHANGED UIVars
    /\ UNCHANGED <<lru, k, cellCount, inFlight, completed, lastId, queue, qi,
                   isProcessing, interrupt, calls, timers, stack, show, inside>>
    /\ UNCHANGED ResultVars

FetchDone(p) == FetchSuccess(p) \/ FetchFailure(p)

UserAction ==
    \/ \E r \in Roots, shift \in BOOLEAN : ToggleTree(r, shift)
    \/ \E d \in DesiredCounts : SetDesired(d)

\* Everything the browser and the server do on their own.
SystemStep ==
    \/ GetFrustum
    \/ \E kind \in {"refine", "coarsen"} : Retrigger(kind)
    \/ ResumeQueue
    \/ PQInterrupt \/ PQStop \/ PQExpand \/ PCResume
    \/ ProcessQueueEnd
    \/ \E p \in BagToSet(pending) : FetchDone(p)

Next == UserAction \/ SystemStep

\* The browser keeps running timers and handlers and the server keeps
\* answering requests while there is something to do; every pending timer
\* and request is cancelled or runs before the page can be idle, so weak
\* fairness of the whole system step suffices.  The user is never forced
\* to act.
Fairness == WF_vars(SystemStep)

Spec == Init /\ [][Next]_vars /\ Fairness

-----------------------------------------------------------------------------
(* Properties.                                                             *)

TypeOK ==
    /\ LRU!TypeOK
    /\ enabled \in [Roots -> BOOLEAN]
    /\ desired \in DesiredCounts
    /\ uiTimer \in BOOLEAN /\ uiLeft \in 0..MaxUIEvents
    /\ k \in KFloor..KMax
    /\ cellCount \in Nat /\ inFlight \in Nat /\ qi \in 0..Len(queue)
    /\ queue \in Seq(Cells)
    /\ {completed, isProcessing, interrupt, resultFinal,
        resultInterrupted} \subseteq BOOLEAN
    /\ IsABag(pending) /\ BagToSet(pending) \subseteq [cell : Cells, inf : {-1, 0, 1}]
    /\ timers \in [TimerKinds -> Nat]
    /\ stack \in Seq([kind : {"pq"}] \cup [kind : {"pc"}, cell : Cells,
                                             todo : Seq(Octants)])
    /\ show \in [Cells -> SUBSET Octants]
    /\ inside \in [Cells -> {-1, 0, 1}]
    /\ DOMAIN result \subseteq Cells
    /\ \A c \in DOMAIN result : result[c] \subseteq Octants

\* A snapshot is coherent when the placeholder bits of every cell in it
\* agree with the cells beside it: a set show_children bit (the parent
\* still draws its coarse points for that octant) never coexists with that
\* child in the snapshot (drawn twice), and a cleared bit of a present child
\* means the child is in the snapshot or outside the frustum (no hole).
\* This is what processCell's show_children reset and the parent-bit clear
\* achieve across asynchronous arrivals, cache hits and yields.
Coherent(snap) ==
    \A c \in DOMAIN snap, o \in Octants :
        /\ o \in snap[c] => ChildOf(c, o) \notin DOMAIN snap
        /\ (o \in Mask(c) /\ o \notin snap[c])
              => ChildOf(c, o) \in DOMAIN snap \/ Classify[ChildOf(c, o)] = -1

\* Every snapshot of a generation that was not interrupted is coherent.
SnapshotCoherent == ~resultInterrupted => Coherent(result)

\* Every snapshot handed to the renderer is coherent, including the final
\* snapshot of a generation stopped by the budget check.
AllSnapshotsCoherent == Coherent(result)

\* The re-entrant processQueue of a synchronous cache hit reprocesses the
\* same cell, which hits the same child again; only processCell's budget
\* check ends the recursion.  Each nested level counts one more cell
\* before it re-enters, so the number of processQueue invocations on the
\* JavaScript call stack stays within 1.5 * desired_cell_count + 2.
PQDepth == Cardinality({i \in DOMAIN stack : stack[i].kind = "pq"})
ReentryDepthBounded == PQDepth * 2 <= 3 * desired + 4

\* isInsideFrustum classifies a sphere the way the classification of the
\* query (spec section 3) is defined: outside when some plane has it
\* wholly on its outer side, inside when every plane has it wholly on its
\* inner side, intersecting otherwise.  Checked for six planes, integer
\* distances around the radius, radii 1 and 2 (plane order included).
SphereClass(ds, r) ==
    IF \E i \in DOMAIN ds : ds[i] < -r THEN -1
    ELSE IF \A i \in DOMAIN ds : ds[i] > r THEN 1
    ELSE 0
IsInsideFrustumAgrees ==
    \A ds \in [1..6 -> -3..3], r \in {1, 2} : IsInsideFrustum(ds, r) = SphereClass(ds, r)
\* The test processCell applies to every child agrees with the sphere
\* classification (IsInsideFrustumAgrees).  The table does not depend on
\* the state, so it is checked in the states before the first query
\* starts.
FrustumTestCorrect == lastId = 0 /\ queue = <<>> => IsInsideFrustumAgrees

\* Nothing is left to do: no handler running, no timer or XHR pending.
Quiescent ==
    /\ Idle /\ ~uiTimer /\ pending = EmptyBag
    /\ \A t \in TimerKinds : timers[t] = 0

AnyEnabled == \E r \in Roots : enabled[r]

\* The self-retriggering control loop stops: after the user stops acting,
\* refinement and coarsening retriggers die out, and unless every tree is
\* disabled the last generation completes (completed_full_frustum_query).
EventuallyQuiescent == <>[](Quiescent /\ (AnyEnabled => completed))

\* The tree a cell belongs to: the root id is the first character.
RootOf(c) == SubSeq(c, 1, 1)

\* The renderer (currentCells) eventually draws only cells of enabled trees:
\* a tree switched off with toggleTreeMode disappears from the picture.
EventuallyOnlyEnabledTrees ==
    <>[](\A c \in DOMAIN result : enabled[RootOf(c)])

\* What the user is eventually left looking at is the final snapshot of a
\* generation that ran to completion, not one cut off by the budget check.
EventuallyCompleteResult == <>[](resultFinal /\ ~resultInterrupted)
=============================================================================
