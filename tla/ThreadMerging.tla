---------------------------- MODULE ThreadMerging ----------------------------
(***************************************************************************)
(* Dynamic thread merging of the engine on Android.  While an engine shows *)
(* platform views, its rasterizer must run on the platform thread: the     *)
(* raster task queue is merged into the platform task queue for a lease    *)
(* that every frame with platform views extends and every other one uses   *)
(* up.  Engines of one group share both threads and the lease book         *)
(* (SharedThreadMerger).  A task runs in steps, so that the other thread   *)
(* may come between its check of the merger and its drawing, and while     *)
(* the platform thread waits on a latch.                                   *)
(***************************************************************************)
EXTENDS TaskQueues, FiniteSets

CONSTANTS
  Engines,  \* the engines of the group
  Viewers,  \* those whose frames may have platform views
  Lease,    \* kDefaultMergedLeaseDuration
  Depth     \* depth of a frame pipeline

ASSUME MergingAssumption ==
  /\ Queues = {"platform", "raster"}
  /\ Work = {"setup", "draw", "teardown"} \X Engines
  /\ Times = {0}
  /\ Viewers \subseteq Engines
  /\ Lease \in Nat \ {0} /\ Depth \in Nat \ {0}

VARIABLES
  lease,    \* lease_term_by_caller_, Absent without an entry
  enabled,  \* enabled_ of the shared merger
  aborted,  \* a FML_CHECK has failed
  merger,   \* the engines whose rasterizer has a raster_thread_merger_
  surface,  \* the engines whose rasterizer has a surface_
  frames,   \* the frame pipeline of an engine: has the frame platform views?
  embedded, \* composition_order_ is not empty: the last frame had platform views
  view,     \* the platform view of an engine: "gone", "created", and in between
            \* "creating" and "destroying", while the platform thread is in the call
  thread,   \* what a thread runs: work, engine, step, frame, more (items_count > 0),
            \* resubmit, unmerged (kUnmergedNow)
  lost      \* history: the engines whose Draw after an un-merge was not posted

mergerVars == <<lease, enabled, aborted>>
rasterVars == <<merger, surface, frames, embedded>>
vars == <<queuesVars, mergerVars, rasterVars, view, thread, lost>>

Absent == -1
Free == [work |-> "none", engine |-> "none", step |-> "none", frame |-> FALSE,
         more |-> FALSE, resubmit |-> FALSE, unmerged |-> FALSE]

Init ==
  /\ QueuesInit
  /\ lease = [e \in Engines |-> Absent] /\ enabled = TRUE /\ aborted = FALSE
  /\ merger = {} /\ surface = {}
  /\ frames = [e \in Engines |-> <<>>]
  /\ embedded = [e \in Engines |-> FALSE]
  /\ view = [e \in Engines |-> "gone"]
  /\ thread = [t \in Queues |-> Free]
  /\ lost = {}

-----------------------------------------------------------------------------
(* SharedThreadMerger.  Definitions whose comment starts with `Mutation' are *)
(* plausible mistakes in the definition after them.                          *)

IsAllLeaseTermsZero(leases) == \A e \in Engines: leases[e] <= 0

IsMerged == ~IsAllLeaseTermsZero(lease)

Owns == "raster" \in ownerOf["platform"]

\* Mutation: the threads are un-merged for one engine, whatever the others hold.
UnMergeAlways(leases) ==
  /\ lease' = leases
  /\ \/ Unmerge("platform", "raster") /\ UNCHANGED aborted
     \/ ~Owns /\ aborted' = TRUE /\ UNCHANGED queuesVars

\* UnMergeNowUnSafe when no lease is left, with its check.
UnMergeIfUnleased(leases) ==
  /\ lease' = leases
  /\ IF ~IsAllLeaseTermsZero(leases)
     THEN UNCHANGED <<queuesVars, aborted>>
     ELSE \/ Unmerge("platform", "raster") /\ UNCHANGED aborted
          \/ ~Owns /\ aborted' = TRUE /\ UNCHANGED queuesVars

\* SharedThreadMerger::DecrementLease, with its check.
DecrementLease(e) ==
  IF lease[e] = 0
  THEN aborted' = TRUE /\ UNCHANGED <<queuesVars, lease>>
  ELSE UnMergeIfUnleased([lease EXCEPT ![e] = IF @ = Absent THEN Absent ELSE @ - 1])

-----------------------------------------------------------------------------
(* The threads. *)

Running(t, work, step) == thread[t].work = work /\ thread[t].step = step
Goto(t, step) == thread' = [thread EXCEPT ![t].step = step]
Finish(t) == thread' = [thread EXCEPT ![t] = Free]

\* A Draw whose check of the merger is behind it, or not made as its engine was
\* never set up, and whose frame is not drawn yet.
PastCheck(t) ==
  /\ thread[t].work = "draw"
  /\ \/ thread[t].step \in {"consume", "preroll", "merge"}
     \/ thread[t].step = "begin" /\ thread[t].engine \notin merger

Drawing(t) == PastCheck(t) /\ thread[t].engine \in surface

\* Model bound: a lease does not run out in the last steps of a Draw on one thread
\* while the other one draws.  It takes Lease frames, ten in the code, within
\* those steps.
NoOverrun == \A t \in Queues: ~PastCheck(t)

PostRaster(work, e) == RegisterTask("raster", 0, <<work, e>>)

Wake(t) ==
  /\ ~aborted /\ thread[t] = Free
  /\ OnEventFired(t)
  /\ UNCHANGED <<mergerVars, rasterVars, view, thread, lost>>

RunTask(t) ==
  /\ ~aborted /\ thread[t] = Free
  /\ \E i \in DOMAIN tasks:
       /\ GetNextTaskToRun(t, i)
       /\ thread' = [thread EXCEPT ![t] =
            [Free EXCEPT !.work = tasks[i].work[1], !.engine = tasks[i].work[2],
                         !.step = "begin"]]
  /\ UNCHANGED <<mergerVars, rasterVars, view, lost>>

Sleep(t) ==
  /\ ~aborted /\ thread[t] = Free
  /\ EndFlush(t)
  /\ UNCHANGED <<mergerVars, rasterVars, view, thread, lost>>

\* The UI thread queues a frame and posts its Draw if it is the first item.
\* FramePipeline and FrameScheduling have the steps of this.  Model bound: MaxTasks,
\* as the Draws that un-merges post may pile up.
CommitFrame(e) ==
  /\ ~aborted
  /\ Len(frames[e]) < Depth /\ Len(tasks) < MaxTasks
  /\ \E views \in BOOLEAN:
       (views => e \in Viewers) /\ frames' = [frames EXCEPT ![e] = Append(@, views)]
  /\ IF frames[e] = <<>> THEN PostRaster("draw", e) ELSE UNCHANGED queuesVars
  /\ UNCHANGED <<mergerVars, merger, surface, embedded, view, thread, lost>>

-----------------------------------------------------------------------------
(* Rasterizer::Draw. *)

\* IsOnRasterizingThread; a rasterizer that was never set up has no merger.
OnRasterizingThread(t, e) == e \notin merger \/ IsMerged = (t = "platform")

Yield(t) ==
  LET e == thread[t].engine IN
  /\ ~aborted /\ Running(t, "draw", "begin")
  /\ ~OnRasterizingThread(t, e)
  /\ Finish(t)
  /\ UNCHANGED <<queuesVars, mergerVars, rasterVars, view, lost>>

\* Mutation: the frame is drawn wherever the task runs.
BeginDrawAnywhere(t) ==
  /\ ~aborted /\ Running(t, "draw", "begin")
  /\ Goto(t, "consume")
  /\ lost' = lost \ {thread[t].engine}
  /\ UNCHANGED <<queuesVars, mergerVars, rasterVars, view>>

BeginDraw(t) ==
  /\ ~aborted /\ Running(t, "draw", "begin")
  /\ OnRasterizingThread(t, thread[t].engine)
  /\ Goto(t, "consume")
  /\ lost' = lost \ {thread[t].engine}
  /\ UNCHANGED <<queuesVars, mergerVars, rasterVars, view>>

ConsumeNothing(t) ==
  /\ ~aborted /\ Running(t, "draw", "consume")
  /\ frames[thread[t].engine] = <<>>
  /\ Finish(t)
  /\ UNCHANGED <<queuesVars, mergerVars, rasterVars, view, lost>>

\* Consume.  Without a surface the frame is dropped and no lease used; with one it
\* may be discarded, as made for another size of the view.
Consume(t) ==
  LET e == thread[t].engine IN
  /\ ~aborted /\ Running(t, "draw", "consume")
  /\ frames[e] # <<>>
  /\ frames' = [frames EXCEPT ![e] = Tail(@)]
  /\ \E step \in IF e \in surface THEN {"preroll", "decrement"} ELSE {"post"}:
       thread' = [thread EXCEPT ![t].step = step, ![t].frame = Head(frames[e]),
                                ![t].more = Len(frames[e]) > 1]
  /\ UNCHANGED <<queuesVars, mergerVars, merger, surface, embedded, view, lost>>

\* AndroidExternalViewEmbedder::PostPrerollAction of a frame that can be drawn,
\* after PrepareFlutterView: to be submitted, or resubmitted if it is the
\* first one with platform views.
Preroll(t) ==
  LET e == thread[t].engine IN
  /\ ~aborted /\ Running(t, "draw", "preroll")
  /\ thread[t].frame => IsMerged
  /\ embedded' = [embedded EXCEPT ![e] = thread[t].frame]
  /\ lease' = IF thread[t].frame /\ enabled THEN [lease EXCEPT ![e] = Lease] ELSE lease
  /\ thread' = [thread EXCEPT ![t].step = "decrement",
       ![t].resubmit = thread[t].frame /\ ~embedded[e]]
  /\ UNCHANGED <<queuesVars, enabled, aborted, merger, surface, frames, view, lost>>

\* PostPrerollAction of a frame with platform views while the threads are not
\* merged: the frame is cancelled and retried.  RasterThreadMerger::MergeWithLease
\* holds the lock of this engine's merger from its check of enabled_ ...
PrerollUnmerged(t) ==
  LET e == thread[t].engine IN
  /\ ~aborted /\ Running(t, "draw", "preroll")
  /\ thread[t].frame /\ ~IsMerged
  /\ embedded' = [embedded EXCEPT ![e] = FALSE]
  /\ thread' = [thread EXCEPT ![t].step = IF enabled THEN "merge" ELSE "decrement",
                              ![t].resubmit = TRUE]
  /\ UNCHANGED <<queuesVars, mergerVars, merger, surface, frames, view, lost>>

\* ... to the merge.
MergeWithLease(t) ==
  LET e == thread[t].engine IN
  /\ ~aborted /\ Running(t, "draw", "merge")
  /\ IF IsMerged
     THEN UNCHANGED <<queuesVars, lease, aborted>>
     ELSE \/ /\ Merge("platform", "raster")
             /\ lease' = [lease EXCEPT ![e] = Lease]
             /\ UNCHANGED aborted
          \/ /\ ~CanMerge("platform", "raster") /\ ~Owns
             /\ aborted' = TRUE
             /\ UNCHANGED <<queuesVars, lease>>
  /\ Goto(t, "decrement")
  /\ UNCHANGED <<enabled, rasterVars, view, lost>>

\* The end of DoDraw: RasterThreadMerger::DecrementLease and, when it un-merges,
\* kEnqueuePipeline.  Another engine whose Draw is about to yield gets no such Draw.
Decrement(t) ==
  LET e == thread[t].engine
      unmerged == IsMerged /\ enabled /\ IsAllLeaseTermsZero(lease') IN
  /\ ~aborted /\ Running(t, "draw", "decrement")
  /\ IF IsMerged /\ enabled
     THEN DecrementLease(e)
     ELSE UNCHANGED <<queuesVars, lease, aborted>>
  /\ unmerged => NoOverrun
  /\ thread' = [thread EXCEPT ![t].step = "post", ![t].unmerged = unmerged]
  /\ lost' = IF unmerged THEN lost \cup {thread[u].engine : u \in
                {u \in Queues: Running(u, "draw", "begin") /\ thread[u].engine # e}}
                         ELSE lost
  /\ UNCHANGED <<enabled, rasterVars, view>>

\* Mutation: nothing is posted for an un-merge.
EndDrawIfMore(t) ==
  LET e == thread[t].engine
      back == thread[t].resubmit /\ frames[e] = <<>> IN
  /\ ~aborted /\ Running(t, "draw", "post")
  /\ frames' = IF back THEN [frames EXCEPT ![e] = <<thread[t].frame>>] ELSE frames
  /\ IF back \/ thread[t].more THEN PostRaster("draw", e) ELSE UNCHANGED queuesVars
  /\ Finish(t)
  /\ UNCHANGED <<mergerVars, merger, surface, embedded, view, lost>>

\* The end of Draw: a frame to be resubmitted is put back if no other one is queued,
\* and Draw posts itself if there is more, or after an un-merge, which is
\* forgotten over a frame that could not be put back.
EndDraw(t) ==
  LET e == thread[t].engine
      back == thread[t].resubmit /\ frames[e] = <<>>
      enqueue == ~thread[t].resubmit /\ thread[t].unmerged IN
  /\ ~aborted /\ Running(t, "draw", "post")
  /\ frames' = IF back THEN [frames EXCEPT ![e] = <<thread[t].frame>>] ELSE frames
  /\ IF back \/ enqueue \/ thread[t].more
     THEN PostRaster("draw", e) /\ UNCHANGED lost
     ELSE /\ UNCHANGED queuesVars
          /\ lost' = IF thread[t].unmerged THEN lost \cup {e} ELSE lost
  /\ Finish(t)
  /\ UNCHANGED <<mergerVars, merger, surface, embedded, view>>

-----------------------------------------------------------------------------
(* The platform thread: Android creates and destroys the surface of an       *)
(* engine between two tasks of the loop.                                     *)

Disable(e) ==
  /\ ~\E t \in Queues: Running(t, "draw", "merge") /\ thread[t].engine = e
  /\ enabled' = (enabled /\ e \notin merger)

\* The caller runs tasks of the raster queue itself.
RunsRasterTasks == Owns

\* Rasterizer::Setup after EnableThreadMergerIfNeeded.
SetUp(e) ==
  /\ enabled' = (enabled \/ e \in merger)
  /\ merger' = merger \cup {e}
  /\ surface' = surface \cup {e}
  /\ UNCHANGED <<lease, aborted, frames, embedded>>

\* Mutation: the merger is left as it is.
TearDownMerged(e) ==
  /\ enabled' = (enabled \/ e \in merger)
  /\ surface' = surface \ {e}
  /\ UNCHANGED <<queuesVars, lease, aborted, merger, frames, embedded>>

\* Rasterizer::Teardown after EnableThreadMergerIfNeeded, with UnMergeNowIfLastOne.
TearDown(e) ==
  /\ enabled' = (enabled \/ e \in merger)
  /\ surface' = surface \ {e}
  /\ IF e \in merger /\ IsMerged
     THEN UnMergeIfUnleased([lease EXCEPT ![e] = Absent])
     ELSE UNCHANGED <<queuesVars, lease, aborted>>
  /\ UNCHANGED <<merger, frames, embedded>>

\* Shell::OnPlatformViewCreated and OnPlatformViewDestroyed disable the merger first.
PlatformCall(e, from, to) ==
  /\ ~aborted /\ thread["platform"] = Free /\ ~flushing["platform"]
  /\ view[e] = from
  /\ view' = [view EXCEPT ![e] = to]
  /\ Disable(e)
  /\ thread' = [thread EXCEPT !["platform"] =
       [Free EXCEPT !.work = to, !.engine = e, !.step = "begin"]]
  /\ UNCHANGED <<queuesVars, lease, aborted, rasterVars, lost>>

OnPlatformViewCreated(e) == PlatformCall(e, "gone", "creating")
OnPlatformViewDestroyed(e) == PlatformCall(e, "created", "destroying")

\* should_post_raster_task: the IO thread posts the set-up and opens the latch.
PostSetup ==
  LET e == thread["platform"].engine IN
  /\ ~aborted /\ Running("platform", "creating", "begin")
  /\ ~RunsRasterTasks
  /\ Goto("platform", "posting")
  /\ UNCHANGED <<queuesVars, mergerVars, rasterVars, view, lost>>

SetupPosted ==
  LET e == thread["platform"].engine IN
  /\ ~aborted /\ Running("platform", "creating", "posting")
  /\ PostRaster("setup", e)
  /\ view' = [view EXCEPT ![e] = "created"]
  /\ Finish("platform")
  /\ UNCHANGED <<mergerVars, rasterVars, lost>>

SetupHere ==
  LET e == thread["platform"].engine IN
  /\ ~aborted /\ Running("platform", "creating", "begin")
  /\ RunsRasterTasks
  /\ SetUp(e)
  /\ view' = [view EXCEPT ![e] = "created"]
  /\ Finish("platform")
  /\ UNCHANGED <<queuesVars, lost>>

RunSetup(t) ==
  /\ ~aborted /\ Running(t, "setup", "begin")
  /\ SetUp(thread[t].engine)
  /\ Finish(t)
  /\ UNCHANGED <<queuesVars, view, lost>>

\* RunNowOrPostTask of the teardown, and the latch.
PostTeardown ==
  /\ ~aborted /\ Running("platform", "destroying", "begin")
  /\ ~RunsRasterTasks
  /\ PostRaster("teardown", thread["platform"].engine)
  /\ Goto("platform", "waiting")
  /\ UNCHANGED <<mergerVars, rasterVars, view, lost>>

TeardownHere ==
  LET e == thread["platform"].engine IN
  /\ ~aborted /\ Running("platform", "destroying", "begin")
  /\ RunsRasterTasks
  /\ TearDown(e)
  /\ view' = [view EXCEPT ![e] = "gone"]
  /\ Finish("platform")
  /\ UNCHANGED lost

RunTeardown(t) ==
  /\ ~aborted /\ Running(t, "teardown", "begin")
  /\ TearDown(thread[t].engine)
  /\ Goto(t, "signal")
  /\ UNCHANGED <<view, lost>>

\* Mutation: a task of the platform thread opens the latch.
SignalFromPlatform(t) ==
  /\ ~aborted /\ Running(t, "teardown", "signal")
  /\ thread["platform"] = Free
  /\ view' = [view EXCEPT ![thread[t].engine] = "gone"]
  /\ Finish(t)
  /\ UNCHANGED <<queuesVars, mergerVars, rasterVars, lost>>

\* The teardown has asked the IO thread to open the latch: the call returns.
Signal(t) ==
  LET e == thread[t].engine IN
  /\ ~aborted /\ Running(t, "teardown", "signal")
  /\ view' = [view EXCEPT ![e] = "gone"]
  /\ thread' = [thread EXCEPT ![t] = Free, !["platform"] = Free]
  /\ UNCHANGED <<queuesVars, mergerVars, rasterVars, lost>>

-----------------------------------------------------------------------------
Draw(t) ==
  \/ Yield(t) \/ BeginDraw(t) \/ ConsumeNothing(t) \/ Consume(t) \/ Preroll(t)
  \/ PrerollUnmerged(t) \/ MergeWithLease(t) \/ Decrement(t) \/ EndDraw(t)

Step(t) ==
  \/ Wake(t) \/ RunTask(t) \/ Sleep(t)
  \/ Draw(t) \/ RunSetup(t) \/ RunTeardown(t) \/ Signal(t)
  \/ t = "platform" /\ (PostSetup \/ SetupPosted \/ SetupHere \/ PostTeardown \/ TeardownHere)

Next ==
  \/ \E t \in Queues: Step(t)
  \/ \E e \in Engines:
       CommitFrame(e) \/ OnPlatformViewCreated(e) \/ OnPlatformViewDestroyed(e)

Fairness == \A t \in Queues: WF_vars(Step(t))

Spec == Init /\ [][Next]_vars /\ Fairness

-----------------------------------------------------------------------------
(* Properties. *)

\* What a thread that is not free may be in.
Busy ==
  [work : {"setup", "draw", "teardown", "creating", "destroying"}, engine : Engines,
   step : {"begin", "consume", "preroll", "merge", "decrement", "post", "signal",
           "posting", "waiting"},
   frame : BOOLEAN, more : BOOLEAN, resubmit : BOOLEAN, unmerged : BOOLEAN]

\* Type invariant: the values every variable may have.
TypeOK ==
  /\ QueuesTypeOK
  /\ lease \in [Engines -> Absent .. Lease]
  /\ enabled \in BOOLEAN /\ aborted \in BOOLEAN
  /\ merger \subseteq Engines /\ surface \subseteq merger
  /\ frames \in [Engines -> Seq(BOOLEAN)]
  /\ embedded \in [Engines -> BOOLEAN]
  /\ view \in [Engines -> {"gone", "creating", "created", "destroying"}]
  /\ thread \in [Queues -> Busy \cup {Free}]
  /\ lost \subseteq Engines

\* The queues are merged exactly while some engine holds a lease, whichever
\* engine or thread merged, renewed, used up or gave up the last one.
MergedIffLeased == ~aborted => (Owns <=> IsMerged)

\* A lease goes with the surface it was taken for: a torn-down engine cannot keep
\* the threads merged.
LeaseNeedsSurface == \A e \in Engines: lease[e] > 0 => e \in surface

\* While the queues are merged and un-merged between the check a Draw makes and its
\* drawing, only one of the two threads draws to surfaces.
OneRasterizer == ~(Drawing("platform") /\ Drawing("raster"))

\* A queued frame has a Draw to come, although Draws yield when they find themselves
\* on the wrong thread, unless the one after an un-merge was left out.
FramesHaveDraw ==
  \A e \in Engines \ lost: frames[e] # <<>> =>
    \/ \E i \in DOMAIN tasks: tasks[i].work = <<"draw", e>>
    \/ \E t \in Queues: thread[t].engine = e /\ thread[t].work = "draw"

Waiting == Running("platform", "destroying", "waiting")

\* The platform thread waits for a task that only it could run.
Deadlocked == Waiting /\ Owns /\ thread["raster"] = Free

\* OnPlatformViewDestroyed returns, whatever is queued before its teardown, unless the
\* queues are merged while it waits.
WaitEnds == Waiting ~> (~Waiting \/ Deadlocked \/ aborted)

\* shared_thread_merger.cc: "lease_term should always be positive when merged".
\* An engine whose own lease is used up may draw while another holds one.
ChecksHold == ~aborted

\* shell.cc prevents "any request to change the thread configuration for raster and
\* platform queues while the platform view is being destroyed", as it "can lead to
\* deadlock"; a set-up still queued enables the merger again.
NoDeadlock == ~Deadlocked
=============================================================================
