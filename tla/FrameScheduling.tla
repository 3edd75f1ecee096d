--------------------------- MODULE FrameScheduling ---------------------------
(***************************************************************************)
(* How the engine schedules frames: Dart code asks the Animator for one,   *)
(* the Animator asks the VsyncWaiter, the vsync thread posts the frame to  *)
(* the UI thread, Dart builds it, the pipeline takes it to the raster      *)
(* thread.  The UI thread runs a task in steps (ui), so that a vsync or    *)
(* the raster thread may come between a lock, a semaphore and a post.      *)
(* Every Dart event loop task waits while a vsync task is pending.         *)
(***************************************************************************)
EXTENDS FramePipeline

CONSTANTS
  Views,      \* the views Dart renders into
  Sources,    \* model bound: the kinds of outside events, out of Events
  MaxQueue,   \* model bound: tasks in the UI queue when such an event comes
  MaxLag,     \* model bound: secondary callbacks the UI thread is behind by when
              \* the display refreshes
  MaxRetries  \* model bound: times in a row the same frame is resubmitted

Events == {"texture", "packet", "dart"}

ASSUME SchedulingAssumption ==
  /\ Views # {} /\ Sources \subseteq Events /\ MaxQueue \in Nat /\ MaxLag \in Nat
  /\ MaxRetries \in Nat

VARIABLES
  uiQueue,    \* the UI task queue, oldest first
  paused,     \* secondary_pause_requests_ of the UI task queue
  ui,         \* what is left of the task the UI thread runs
  requested,  \* pending_frame_semaphore_ is taken
  regenerate, \* regenerate_layer_trees_
  recording,  \* frame_timings_recorder_ is not null
  trees,      \* layer_trees_tasks_: the views rendered
  rendered,   \* RuntimeController::rendered_views_during_frame_
  built,      \* frames built so far
  callback,   \* VsyncWaiter::callback_ is set
  secondary,  \* secondary_callbacks_: "pace" and "trace"
  requests,   \* AwaitVSync calls the platform has not answered
  vsync,      \* FireCallback on the vsync thread: step, callback, secondary
  pacing,     \* is_pointer_data_in_progress_
  packet,     \* pending_packet_ is set
  rasterQueue,\* the raster task queue: "draw" and "last"
  result,     \* of the Rasterizer::Draw that runs
  retries,    \* times in a row its frame was resubmitted
  last,       \* last_successful_task
  shown,      \* the frame on the screen
  overtaken   \* history: the last Draw found no token although a frame was queued

animatorVars == <<requested, regenerate, recording, trees, rendered, built>>
waiterVars == <<callback, secondary, requests>>
pointerVars == <<pacing, packet>>
rasterVars == <<result, retries, last, shown, overtaken>>
vars == <<pipeVars, uiQueue, paused, ui, animatorVars, waiterVars, vsync,
          pointerVars, rasterQueue, rasterVars>>

NotFiring == [step |-> "idle", callback |-> FALSE, secondary |-> {}]

Init ==
  /\ PipeInit
  /\ uiQueue = <<>> /\ paused = 0 /\ ui = <<>>
  /\ requested = FALSE /\ regenerate = FALSE /\ recording = FALSE
  /\ trees = {} /\ rendered = {} /\ built = 0
  /\ callback = FALSE /\ secondary = {} /\ requests = 0
  /\ vsync = NotFiring
  /\ pacing = FALSE /\ packet = FALSE
  /\ rasterQueue = <<>> /\ result = "none" /\ retries = 0
  /\ last = NoFrame /\ shown = NoFrame /\ overtaken = FALSE

-----------------------------------------------------------------------------
(* The UI task queue. *)

\* Top: the oldest task, Dart event loop tasks only while they are not paused.
Runnable(i) == uiQueue[i] # "dart" \/ paused = 0

\* Mutation: Dart event loop tasks run when no other task waits.
TopByGrade(i) ==
  /\ Runnable(i)
  /\ \A j \in DOMAIN uiQueue \ {i}:
       uiQueue[j] # "dart" => uiQueue[i] # "dart" /\ i < j

Top(i) == Runnable(i) /\ \A j \in 1 .. i - 1: ~Runnable(j)

\* The steps of a task.  A vsync task resumes the Dart event loop at its end.
Steps(task) == IF task = "vsync" THEN <<"vsync", "resume">> ELSE <<task>>

RunTask ==
  /\ ui = <<>>
  /\ \E i \in DOMAIN uiQueue:
       /\ Top(i)
       /\ ui' = Steps(uiQueue[i])
       /\ uiQueue' = RemoveAt(uiQueue, i)
  /\ UNCHANGED <<pipeVars, paused, animatorVars, waiterVars, vsync, pointerVars,
                 rasterQueue, rasterVars>>

Now(step) == ui # <<>> /\ Head(ui) = step

\* How many of the tasks are in the queue.
Count(q, tasks) == Cardinality({i \in DOMAIN q : q[i] \in tasks})

\* The step is done and steps come before what was left of the task.
Continue(steps) == ui' = steps \o Tail(ui)

\* What comes from outside: a texture has a new image, the platform has a
\* pointer packet, the Dart event loop has an event.  Model bounds: at
\* most MaxQueue tasks, and one from outside, wait in the UI queue then, and a
\* texture has no new image while the raster thread has yet to draw an old one
\* (its queue of redraws has no limit).
External ==
  /\ \E task \in Sources:
       /\ Len(uiQueue) < MaxQueue /\ ToSet(uiQueue) \cap Events = {}
       /\ task = "texture" => "last" \notin ToSet(rasterQueue)
       /\ uiQueue' = Append(uiQueue, task)
  /\ UNCHANGED <<pipeVars, paused, ui, animatorVars, waiterVars, vsync,
                 pointerVars, rasterQueue, rasterVars>>

-----------------------------------------------------------------------------
(* The Animator asks for a vsync. *)

RequestFrame(again) ==
  /\ regenerate' = (regenerate \/ again)
  /\ requested' = TRUE
  /\ uiQueue' = IF requested THEN uiQueue ELSE Append(uiQueue, "await")

\* Shell::OnPlatformViewMarkTextureFrameAvailable.
TextureAvailable ==
  /\ Now("texture")
  /\ RequestFrame(FALSE)
  /\ Continue(<<>>)
  /\ UNCHANGED <<pipeVars, paused, recording, trees, rendered, built, waiterVars,
                 vsync, pointerVars, rasterQueue, rasterVars>>

\* Mutation: secondary callbacks that wait already are not looked at.
WaitForVsyncAgain ==
  /\ Now("await")
  /\ callback' = TRUE
  /\ Continue(IF callback THEN <<>> ELSE <<"request">>)
  /\ UNCHANGED <<pipeVars, uiQueue, paused, animatorVars, secondary, requests,
                 vsync, pointerVars, rasterQueue, rasterVars>>

\* AsyncWaitForVsync under callback_mutex_.
AsyncWaitForVsync ==
  /\ Now("await")
  /\ callback' = TRUE
  /\ Continue(IF callback \/ secondary # {} THEN <<>> ELSE <<"request">>)
  /\ UNCHANGED <<pipeVars, uiQueue, paused, animatorVars, secondary, requests,
                 vsync, pointerVars, rasterQueue, rasterVars>>

\* ScheduleSecondaryCallback under callback_mutex_.
ScheduleSecondaryCallback ==
  /\ \E id \in {"pace", "trace"}:
       /\ Now(id)
       /\ secondary' = secondary \cup {id}
  /\ Continue(IF callback \/ secondary # {} THEN <<>> ELSE <<"request">>)
  /\ UNCHANGED <<pipeVars, uiQueue, paused, animatorVars, callback, requests,
                 vsync, pointerVars, rasterQueue, rasterVars>>

\* The platform's AwaitVSync, called after the lock is released.
AwaitVSync ==
  /\ Now("request")
  /\ requests' = requests + 1
  /\ Continue(<<>>)
  /\ UNCHANGED <<pipeVars, uiQueue, paused, animatorVars, callback, secondary,
                 vsync, pointerVars, rasterQueue, rasterVars>>

-----------------------------------------------------------------------------
(* FireCallback on the vsync thread. *)

TakeCallbacks ==
  /\ vsync.step = "idle"
  /\ requests > 0
  /\ Count(uiQueue, {"paced", "traced"}) <= MaxLag
  /\ requests' = requests - 1
  /\ vsync' = [step |-> IF callback THEN "pause" ELSE "secondary",
               callback |-> callback, secondary |-> secondary]
  /\ callback' = FALSE
  /\ secondary' = {}
  /\ UNCHANGED <<pipeVars, uiQueue, paused, ui, animatorVars, pointerVars,
                 rasterQueue, rasterVars>>

PauseDartEventLoopTasks ==
  /\ vsync.step = "pause"
  /\ paused' = paused + 1
  /\ vsync' = [vsync EXCEPT !.step = "post"]
  /\ UNCHANGED <<pipeVars, uiQueue, ui, animatorVars, waiterVars, pointerVars,
                 rasterQueue, rasterVars>>

PostVsync ==
  /\ vsync.step = "post"
  /\ uiQueue' = Append(uiQueue, "vsync")
  /\ vsync' = [vsync EXCEPT !.step = "secondary"]
  /\ UNCHANGED <<pipeVars, paused, ui, animatorVars, waiterVars, pointerVars,
                 rasterQueue, rasterVars>>

\* The task of a secondary callback: SmoothPointerDataDispatcher's and the
\* Animator's for trace flows.
Fired(id) == IF id = "pace" THEN "paced" ELSE "traced"

\* The order of the callbacks is that of an unordered map.
PostSecondary ==
  /\ vsync.step = "secondary"
  /\ IF vsync.secondary = {}
     THEN vsync' = NotFiring /\ UNCHANGED uiQueue
     ELSE \E id \in vsync.secondary:
            /\ uiQueue' = Append(uiQueue, Fired(id))
            /\ vsync' = [vsync EXCEPT !.secondary = @ \ {id}]
  /\ UNCHANGED <<pipeVars, paused, ui, animatorVars, waiterVars, pointerVars,
                 rasterQueue, rasterVars>>

-----------------------------------------------------------------------------
(* The vsync task on the UI thread. *)

\* Mutation: a redraw does not give the semaphore back.
RedrawKeepingRequest ==
  /\ Now("vsync")
  /\ ~regenerate
  /\ rasterQueue' = Append(rasterQueue, "last")
  /\ Continue(<<>>)
  /\ UNCHANGED <<pipeVars, uiQueue, paused, animatorVars, waiterVars, vsync,
                 pointerVars, rasterVars>>

DrawLastLayerTrees ==
  /\ Now("vsync")
  /\ ~regenerate
  /\ requested' = FALSE
  /\ rasterQueue' = Append(rasterQueue, "last")
  /\ Continue(<<>>)
  /\ UNCHANGED <<pipeVars, uiQueue, paused, regenerate, recording, trees, rendered,
                 built, waiterVars, vsync, pointerVars, rasterVars>>

\* BeginFrame with a slot in the pipeline, the one of an earlier frame that
\* rendered nothing or a new one; Engine::BeginFrame then calls Dart.
BeginFrame ==
  /\ Now("vsync")
  /\ regenerate
  /\ \/ continuation = "held" /\ UNCHANGED pipeVars
     \/ Produce
  /\ requested' = FALSE
  /\ regenerate' = FALSE
  /\ recording' = TRUE
  /\ trees' = {}
  /\ rendered' = {}
  /\ Continue(<<"dart", "endFrame">>)
  /\ UNCHANGED <<uiQueue, paused, built, waiterVars, vsync, pointerVars,
                 rasterQueue, rasterVars>>

\* Mutation: the semaphore is given back after the new request has taken it.
PipelineFullReleasing ==
  /\ Now("vsync")
  /\ regenerate /\ continuation = "none" /\ empty = 0
  /\ uiQueue' = Append(uiQueue, "await")
  /\ requested' = FALSE
  /\ recording' = FALSE
  /\ trees' = {}
  /\ Continue(<<>>)
  /\ UNCHANGED <<pipeVars, paused, regenerate, rendered, built, waiterVars, vsync,
                 pointerVars, rasterQueue, rasterVars>>

\* BeginFrame with the pipeline full: it signals pending_frame_semaphore_,
\* requests a frame again, and EndFrame has nothing to commit.
PipelineFull ==
  /\ Now("vsync")
  /\ regenerate /\ continuation = "none" /\ empty = 0
  /\ uiQueue' = Append(uiQueue, "await")
  /\ requested' = TRUE
  /\ recording' = FALSE
  /\ trees' = {}
  /\ Continue(<<>>)
  /\ UNCHANGED <<pipeVars, paused, regenerate, rendered, built, waiterVars, vsync,
                 pointerVars, rasterQueue, rasterVars>>

\* EndFrame called a second time, or with nothing rendered, or without a slot
\* (frames rendered outside a vsync task have none of their own).
EndFrameEmpty ==
  /\ Now("endFrame")
  /\ ~recording \/ trees = {} \/ continuation = "none"
  /\ recording' = FALSE
  /\ trees' = IF recording THEN {} ELSE trees
  /\ Continue(<<>>)
  /\ UNCHANGED <<pipeVars, uiQueue, paused, requested, regenerate, rendered, built,
                 waiterVars, vsync, pointerVars, rasterQueue, rasterVars>>

\* EndFrame with its frame: the raster thread is told of the first item only.
EndFrame ==
  /\ Now("endFrame")
  /\ recording /\ trees # {}
  /\ Commit(built + 1)
  /\ built' = built + 1
  /\ recording' = FALSE
  /\ trees' = {}
  /\ Continue(IF queue = <<>> THEN <<"signal", "notify">> ELSE <<"signal">>)
  /\ UNCHANGED <<uiQueue, paused, requested, regenerate, rendered, waiterVars,
                 vsync, pointerVars, rasterQueue, rasterVars>>

SignalFrame ==
  /\ Now("signal")
  /\ SignalCommitted
  /\ Continue(<<>>)
  /\ UNCHANGED <<uiQueue, paused, animatorVars, waiterVars, vsync, pointerVars,
                 rasterQueue, rasterVars>>

\* Shell::OnAnimatorDraw.
OnAnimatorDraw ==
  /\ Now("notify")
  /\ rasterQueue' = Append(rasterQueue, "draw")
  /\ Continue(<<>>)
  /\ UNCHANGED <<pipeVars, uiQueue, paused, animatorVars, waiterVars, vsync,
                 pointerVars, rasterVars>>

\* Mutation: resuming is left to the vsync task of a frame requested meanwhile.
ResumeUnlessRequested ==
  /\ Now("resume")
  /\ paused' = (IF requested THEN paused ELSE paused - 1)
  /\ Continue(<<>>)
  /\ UNCHANGED <<pipeVars, uiQueue, animatorVars, waiterVars, vsync, pointerVars,
                 rasterQueue, rasterVars>>

ResumeDartEventLoopTasks ==
  /\ Now("resume")
  /\ paused' = paused - 1
  /\ Continue(<<>>)
  /\ UNCHANGED <<pipeVars, uiQueue, animatorVars, waiterVars, vsync, pointerVars,
                 rasterQueue, rasterVars>>

-----------------------------------------------------------------------------
(* What Dart code calls, in a frame, in an event or for a warm-up frame. *)

DartRequestsFrame ==
  /\ Now("dart")
  /\ RequestFrame(TRUE)
  /\ UNCHANGED <<pipeVars, paused, ui, recording, trees, rendered, built, waiterVars,
                 vsync, pointerVars, rasterQueue, rasterVars>>

\* RuntimeController::Render, which ends the frame when every view is rendered.
DartRenders ==
  /\ Now("dart")
  /\ built < MaxFrames
  /\ recording' = TRUE
  /\ \E v \in Views:
       /\ trees' = trees \cup {v}
       /\ rendered' = IF rendered \cup {v} = Views THEN {} ELSE rendered \cup {v}
       /\ Continue(IF rendered \cup {v} = Views THEN <<"endFrame", "dart">> ELSE <<"dart">>)
  /\ UNCHANGED <<pipeVars, uiQueue, paused, requested, regenerate, built, waiterVars,
                 vsync, pointerVars, rasterQueue, rasterVars>>

DartEndsWarmUpFrame ==
  /\ Now("dart")
  /\ trees # {}
  /\ Continue(<<"endFrame", "dart">>)
  /\ UNCHANGED <<pipeVars, uiQueue, paused, animatorVars, waiterVars, vsync,
                 pointerVars, rasterQueue, rasterVars>>

DartReturns ==
  /\ Now("dart")
  /\ Continue(<<>>)
  /\ UNCHANGED <<pipeVars, uiQueue, paused, animatorVars, waiterVars, vsync,
                 pointerVars, rasterQueue, rasterVars>>

-----------------------------------------------------------------------------
(* SmoothPointerDataDispatcher: a packet that arrives before the vsync after  *)
(* the previous one waits for it.                                            *)

\* DispatchPacket hands a packet to the Animator, for its trace flow, and to Dart.
Dispatching == <<"trace", "dart">>

DispatchPacket ==
  /\ Now("packet")
  /\ pacing' = TRUE
  /\ packet' = pacing
  /\ Continue(IF ~pacing THEN Dispatching \o <<"pace">>
              ELSE IF packet THEN Dispatching \o <<"pace", "pace">> ELSE <<"pace">>)
  /\ UNCHANGED <<pipeVars, uiQueue, paused, animatorVars, waiterVars, vsync,
                 rasterQueue, rasterVars>>

\* Mutation: the packet is dispatched and no vsync asked for.
PaceOnce ==
  /\ Now("paced")
  /\ pacing' = (pacing /\ packet)
  /\ packet' = FALSE
  /\ Continue(IF pacing /\ packet THEN Dispatching ELSE <<>>)
  /\ UNCHANGED <<pipeVars, uiQueue, paused, animatorVars, waiterVars, vsync,
                 rasterQueue, rasterVars>>

\* The secondary callback at a vsync.
Pace ==
  /\ Now("paced")
  /\ pacing' = (pacing /\ packet)
  /\ packet' = FALSE
  /\ Continue(IF pacing /\ packet THEN Dispatching \o <<"pace">> ELSE <<>>)
  /\ UNCHANGED <<pipeVars, uiQueue, paused, animatorVars, waiterVars, vsync,
                 rasterQueue, rasterVars>>

\* ScheduleMaybeClearTraceFlowIds' callback: trace flows are not modelled.
ClearTraceFlows ==
  /\ Now("traced")
  /\ Continue(<<>>)
  /\ UNCHANGED <<pipeVars, uiQueue, paused, animatorVars, waiterVars, vsync,
                 pointerVars, rasterQueue, rasterVars>>

-----------------------------------------------------------------------------
(* The raster thread. *)

othersThanRaster == <<uiQueue, paused, ui, animatorVars, waiterVars, vsync, pointerVars>>

NextRasterTask(task) ==
  /\ At("idle")
  /\ rasterQueue # <<>> /\ Head(rasterQueue) = task
  /\ rasterQueue' = Tail(rasterQueue)

\* Rasterizer::DrawLastLayerTrees moves the trees out of their records and puts
\* back those it draws; a resubmitted frame is not looked at.
RedrawLast ==
  /\ NextRasterTask("last")
  /\ \/ shown' = (IF last = NoFrame THEN shown ELSE last) /\ UNCHANGED last
     \/ last' = NoFrame /\ UNCHANGED shown
  /\ UNCHANGED <<pipeVars, othersThanRaster, result, retries, overtaken>>

\* Rasterizer::Draw.
StartDraw ==
  /\ NextRasterTask("draw")
  /\ TryConsume
  /\ overtaken' = FALSE
  /\ UNCHANGED <<othersThanRaster, result, retries, last, shown>>

DrawNothing ==
  /\ NextRasterTask("draw")
  /\ available = 0
  /\ overtaken' = (overtaken \/ queue # <<>>)
  /\ UNCHANGED <<pipeVars, othersThanRaster, result, retries, last, shown>>

TakeFrame ==
  /\ Pop
  /\ UNCHANGED <<othersThanRaster, rasterQueue, rasterVars>>

\* DoDraw, by its outcome: drawn; the threads have un-merged (kEnqueuePipeline); to be
\* resubmitted; or failed (no surface, no GPU, trees of a size that has changed,
\* the last also when the threads have un-merged).
DrawFrame ==
  /\ Release
  /\ \E outcome \in {"drawn", "unmerged", "resubmit", "failed"}:
       /\ outcome = "resubmit" => retries < MaxRetries
       /\ result' = outcome
       /\ retries' = IF outcome = "resubmit" THEN retries + 1 ELSE 0
       /\ \/ /\ outcome \in {"drawn", "unmerged"}
             /\ last' = consumer.item /\ shown' = consumer.item
          \/ outcome # "drawn" /\ UNCHANGED <<last, shown>>
  /\ UNCHANGED <<othersThanRaster, rasterQueue, overtaken>>

Resubmit ==
  /\ result = "resubmit"
  /\ \/ ProduceIfEmpty /\ UNCHANGED result
     \/ At("done") /\ empty = 0 /\ result' = "dropped" /\ UNCHANGED pipeVars
  /\ UNCHANGED <<othersThanRaster, rasterQueue, retries, last, shown, overtaken>>

CommitResubmitted ==
  /\ \/ CommitIfEmpty /\ result' = "requeued"
     \/ BailIfNotEmpty /\ result' = "dropped"
  /\ UNCHANGED <<othersThanRaster, rasterQueue, retries, last, shown, overtaken>>

SignalResubmitted ==
  /\ SignalRequeued
  /\ UNCHANGED <<othersThanRaster, rasterQueue, rasterVars>>

\* Mutation: the follow-up of items_count is forgotten.
MoreAvailableIfRequeued == result \in {"requeued", "unmerged"}

MoreAvailable == result \in {"requeued", "unmerged"} \/ consumer.count > 0

\* Rasterizer::Draw posts itself again when there is more.
EndDraw ==
  /\ result # "resubmit"
  /\ Return
  /\ rasterQueue' = IF MoreAvailable THEN Append(rasterQueue, "draw") ELSE rasterQueue
  /\ result' = "none"
  /\ retries' = IF result = "requeued" THEN retries ELSE 0
  /\ UNCHANGED <<othersThanRaster, last, shown, overtaken>>

-----------------------------------------------------------------------------
Dart == DartRequestsFrame \/ DartRenders \/ DartEndsWarmUpFrame \/ DartReturns

UI ==
  \/ RunTask \/ TextureAvailable \/ AsyncWaitForVsync \/ ScheduleSecondaryCallback
  \/ AwaitVSync \/ DrawLastLayerTrees \/ BeginFrame \/ PipelineFull
  \/ EndFrameEmpty \/ EndFrame \/ SignalFrame \/ OnAnimatorDraw
  \/ ResumeDartEventLoopTasks \/ DispatchPacket \/ Pace \/ ClearTraceFlows

FireCallback == TakeCallbacks \/ PauseDartEventLoopTasks \/ PostVsync \/ PostSecondary

Raster ==
  \/ RedrawLast \/ StartDraw \/ DrawNothing \/ TakeFrame \/ DrawFrame
  \/ Resubmit \/ CommitResubmitted \/ SignalResubmitted \/ EndDraw

Next == External \/ UI \/ Dart \/ FireCallback \/ Raster

\* The threads run, the display refreshes, and Dart code returns whatever it calls
\* before (the strong fairness); nothing makes
\* events come from outside or Dart code render.
Fairness ==
  WF_vars(UI) /\ SF_vars(DartReturns) /\ WF_vars(FireCallback) /\ WF_vars(Raster)

Spec == Init /\ [][Next]_vars /\ Fairness

-----------------------------------------------------------------------------
(* Properties. *)

UITasks == {"await", "vsync", "texture", "packet", "dart", "paced", "traced"}
UISteps == UITasks \cup {"request", "pace", "trace", "endFrame", "signal", "notify",
                        "resume"}

\* Type invariant: the values every variable may have.
TypeOK ==
  /\ PipeTypeOK
  /\ uiQueue \in Seq(UITasks) /\ paused \in Nat /\ ui \in Seq(UISteps)
  /\ requested \in BOOLEAN /\ regenerate \in BOOLEAN /\ recording \in BOOLEAN
  /\ trees \subseteq Views /\ rendered \subseteq Views /\ built \in 0 .. MaxFrames
  /\ callback \in BOOLEAN /\ secondary \subseteq {"pace", "trace"}
  /\ requests \in 0 .. 1
  /\ vsync \in [step : {"idle", "pause", "post", "secondary"}, callback : BOOLEAN,
                secondary : SUBSET {"pace", "trace"}]
  /\ pacing \in BOOLEAN /\ packet \in BOOLEAN
  /\ rasterQueue \in Seq({"draw", "last"})
  /\ result \in {"none", "drawn", "unmerged", "resubmit", "requeued", "dropped", "failed"}
  /\ retries \in 0 .. MaxRetries
  /\ last \in Frames \cup {NoFrame} /\ shown \in Frames \cup {NoFrame}
  /\ overtaken \in BOOLEAN

\* The platform is asked for exactly one vsync while a callback waits and for
\* none otherwise, though UI and vsync thread read the callbacks in turn: no
\* callback waits for ever and FireCallback is never called for nothing.
OneVsyncRequest ==
  requests + Count(ui, {"request"}) = One(callback \/ secondary # {})

\* The semaphore of the Animator is taken exactly while its one request is on
\* its way: waiting in the UI queue, at the VsyncWaiter or in a vsync task.
VsyncTasks(q) == Count(q, {"await", "vsync"})

OneRequestInFlight ==
  VsyncTasks(uiQueue) + VsyncTasks(ui) + One(callback)
    + One(vsync.step \in {"pause", "post"}) = One(requested)

\* The Dart event loop is paused once per vsync task that has not ended.
PausedPerVsync ==
  paused = One(vsync.step = "post") + Count(uiQueue, {"vsync"}) + Count(ui, {"resume"})

\* A pointer packet that is held back, or a pace that is kept, waits for a
\* secondary callback that is coming.
PaceIsComing ==
  pacing => \/ "pace" \in secondary \cup vsync.secondary \cup ToSet(ui)
            \/ "paced" \in ToSet(uiQueue) \cup ToSet(ui)

\* A Draw will look at the pipeline again.
DrawIsComing ==
  \/ "draw" \in ToSet(rasterQueue)
  \/ "notify" \in ToSet(ui)
  \/ consumer.step \in {"taken", "requeued"}
  \/ ~At("idle") /\ (MoreAvailable \/ result = "resubmit")

\* A queued frame without a Draw to come is the work of one race only: a Draw
\* that ran between push and signal of a producer.
StrandedOnlyIfOvertaken == queue # <<>> /\ ~overtaken => DrawIsComing

\* The screen never goes back to an older frame, through resubmissions and
\* redraws of the last layer trees.
DrawnInOrder == [][shown' >= shown]_vars

\* A frame that should be resubmitted is dropped only for a newer one.
DroppedForNewer == result = "dropped" => queue # <<>>

\* A requested frame begins: a full pipeline only delays it.
RequestsAnswered == regenerate ~> (~regenerate \/ overtaken)

\* Dart event loop tasks run, however many vsync tasks pause them.
DartTasksRun == "dart" \in ToSet(uiQueue) ~> "dart" \notin ToSet(uiQueue)
=============================================================================
