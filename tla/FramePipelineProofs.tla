------------------------- MODULE FramePipelineProofs -------------------------
(***************************************************************************)
(* What holds of FramePipeline, and of FrameScheduling around it, for      *)
(* every depth of the pipeline and any number of frames, views and tasks:  *)
(* the pipeline and its refinement, the requests for a vsync, the held     *)
(* pointer packets, the Draws and their order.                             *)
(***************************************************************************)
EXTENDS FrameScheduling, SequenceTheorems, FiniteSetTheorems, TLAPS

(* The inductive invariant.  Both sums are needed at once: a token taken     *)
(* promises an item, so that Pop finds one, and a free slot bounds the rest. *)

\* From the pop on the consumer holds a frame, which it may put back.
ItemHeld == consumer.step \in {"using", "done", "requeue", "requeued"} => consumer.item \in Frames

PipeInv == PipeTypeOK /\ SlotsAddUp /\ TokensAddUp /\ ItemHeld

\* The counters and the queue are numbers and a sequence.
LEMMA PipeTypes ==
  ASSUME PipeInv
  PROVE  /\ empty \in Nat /\ available \in Nat /\ Depth \in Nat
         /\ queue \in Seq(Frames) /\ Len(queue) \in Nat
         /\ Held \in 0 .. 2 /\ Busy \in 0 .. 1
BY PipelineAssumption DEF PipeInv, PipeTypeOK, Held, Busy, One

\* Initially every slot is free.
LEMMA PipeInvInit == PipeInit => PipeInv
<1> SUFFICES ASSUME PipeInit PROVE PipeInv
  OBVIOUS
<1>1. queue \in Seq(Frames) /\ Len(queue) = 0
  BY DEF PipeInit
<1>2. consumer = [step |-> "idle", item |-> NoFrame, count |-> 0]
  BY DEF PipeInit, Idle
<1>3. PipeTypeOK
  BY <1>1, <1>2, PipelineAssumption DEF PipeInit, PipeTypeOK
<1>4. SlotsAddUp /\ TokensAddUp /\ ItemHeld
  BY <1>1, <1>2, PipelineAssumption
     DEF PipeInit, SlotsAddUp, TokensAddUp, ItemHeld, Held, Busy, One, At
<1> QED
  BY <1>3, <1>4 DEF PipeInv

\* The two sums and the ranges of the queue's length and counters they imply make the
\* invariant of the next state.
LEMMA SumsSuffice ==
  ASSUME empty' \in Nat, available' \in Nat, queue' \in Seq(Frames),
         continuation' \in {"none", "held", "pushed"},
         consumer' \in [step : {"idle", "taken", "using", "done", "requeue", "requeued"},
                        item : Frames \cup {NoFrame}, count : 0 .. Depth],
         SlotsAddUp', TokensAddUp', ItemHeld'
  PROVE  PipeInv'
<1>1. Len(queue') \in Nat /\ Held' \in 0 .. 2 /\ Busy' \in 0 .. 1
  BY DEF Held, Busy, One
<1>2. Len(queue') <= Depth /\ empty' <= Depth
  BY <1>1, PipelineAssumption DEF SlotsAddUp
<1>3. available' <= Len(queue')
  BY <1>1 DEF TokensAddUp, One
<1>4. empty' \in 0 .. Depth /\ available' \in 0 .. Depth
  BY <1>1, <1>2, <1>3, PipelineAssumption
<1>5. PipeTypeOK'
  BY <1>4 DEF PipeTypeOK
<1> QED
  BY <1>5 DEF PipeInv

\* The producer's steps.
LEMMA ProducerKeeps ==
  ASSUME PipeInv, Produce \/ SignalCommitted \/ \E f \in Frames : Commit(f)
  PROVE  PipeInv'
<1>1. /\ empty \in Nat /\ available \in Nat /\ Depth \in Nat
      /\ queue \in Seq(Frames) /\ Len(queue) \in Nat
  BY PipeTypes
<1>2. Held \in 0 .. 2 /\ Busy \in 0 .. 1
  BY PipeTypes
<1>3. SlotsAddUp /\ TokensAddUp /\ ItemHeld /\ PipeTypeOK
  BY DEF PipeInv
<1>4. /\ UNCHANGED consumer
      /\ consumer' \in [step : {"idle", "taken", "using", "done", "requeue", "requeued"},
                        item : Frames \cup {NoFrame}, count : 0 .. Depth]
      /\ ItemHeld'
  BY <1>3 DEF Produce, SignalCommitted, Commit, PipeTypeOK, ItemHeld
<1>5. CASE Produce
  <2>1. /\ empty' = empty - 1 /\ empty > 0 /\ UNCHANGED <<available, queue>>
        /\ continuation = "none" /\ continuation' = "held"
    BY <1>5 DEF Produce
  <2>2. At("requeue")' = At("requeue") /\ At("using")' = At("using")
    BY <1>4 DEF At
  <2>3. Held' = Held + 1 /\ Busy' = Busy
    BY <2>1, <2>2 DEF Held, Busy, One
  <2>4. SlotsAddUp'
    BY <1>1, <1>3, <1>2, <2>1, <2>3 DEF SlotsAddUp
  <2>5. TokensAddUp'
    BY <1>1, <1>3, <1>4, <2>1 DEF TokensAddUp, One, At
  <2> QED
    BY <1>1, <1>4, <2>1, <2>4, <2>5, SumsSuffice
<1>6. CASE SignalCommitted
  <2>1. /\ available' = available + 1 /\ UNCHANGED <<empty, queue>>
        /\ continuation = "pushed" /\ continuation' = "none"
    BY <1>6 DEF SignalCommitted
  <2>2. SlotsAddUp'
    BY <1>1, <1>3, <1>4, <2>1 DEF SlotsAddUp, Held, Busy, One, At
  <2>3. TokensAddUp'
    BY <1>1, <1>3, <1>4, <2>1 DEF TokensAddUp, One, At
  <2> QED
    BY <1>1, <1>4, <2>1, <2>2, <2>3, SumsSuffice
<1>7. CASE \E f \in Frames : Commit(f)
  <2>1. /\ queue' \in Seq(Frames) /\ Len(queue') = Len(queue) + 1
        /\ UNCHANGED <<empty, available>>
        /\ continuation = "held" /\ continuation' = "pushed"
    BY <1>1, <1>7 DEF Commit
  <2>2. At("requeue")' = At("requeue") /\ At("using")' = At("using")
    BY <1>4 DEF At
  <2>3. Held' = Held - 1 /\ Busy' = Busy
    BY <2>1, <2>2 DEF Held, Busy, One
  <2>4. SlotsAddUp'
    BY <1>1, <1>3, <1>2, <2>1, <2>3 DEF SlotsAddUp
  <2>5. TokensAddUp'
    BY <1>1, <1>3, <1>4, <2>1 DEF TokensAddUp, One, At
  <2> QED
    BY <1>1, <1>4, <2>1, <2>4, <2>5, SumsSuffice
<1> QED
  BY <1>5, <1>6, <1>7

\* A step that only moves the consumer on, and what is then left to show.
LEMMA ConsumerAt ==
  ASSUME PipeInv, NEW step \in {"idle", "taken", "using", "done", "requeue", "requeued"},
         Goto(step),
         step \in {"using", "done", "requeue", "requeued"} => consumer.item \in Frames
  PROVE  /\ consumer' \in [step : {"idle", "taken", "using", "done", "requeue", "requeued"},
                           item : Frames \cup {NoFrame}, count : 0 .. Depth]
         /\ consumer'.step = step /\ consumer'.item = consumer.item
         /\ ItemHeld'
<1>1. consumer \in [step : {"idle", "taken", "using", "done", "requeue", "requeued"},
                    item : Frames \cup {NoFrame}, count : 0 .. Depth]
  BY DEF PipeInv, PipeTypeOK
<1> QED
  BY <1>1 DEF Goto, ItemHeld

\* The consumer's steps that leave the queue alone.
LEMMA ConsumerKeeps ==
  ASSUME PipeInv,
         TryConsume \/ Release \/ ProduceIfEmpty \/ BailIfNotEmpty \/ SignalRequeued
  PROVE  PipeInv'
<1>1. /\ empty \in Nat /\ available \in Nat /\ Depth \in Nat
      /\ queue \in Seq(Frames) /\ Len(queue) \in Nat
      /\ continuation \in {"none", "held", "pushed"}
  BY PipeTypes DEF PipeInv, PipeTypeOK
<1>2. SlotsAddUp /\ TokensAddUp /\ ItemHeld
  BY DEF PipeInv
<1>3. CASE TryConsume
  <2>1. consumer.step = "idle" /\ Goto("taken")
        /\ available' = available - 1 /\ available > 0 /\ UNCHANGED <<empty, queue, continuation>>
    BY <1>3 DEF TryConsume, At
  <2>2. /\ consumer' \in [step : {"idle", "taken", "using", "done", "requeue", "requeued"},
                          item : Frames \cup {NoFrame}, count : 0 .. Depth]
        /\ consumer'.step = "taken" /\ ItemHeld'
    BY <1>2, <2>1, ConsumerAt DEF ItemHeld
  <2>3. SlotsAddUp'
    BY <1>1, <1>2, <2>1, <2>2 DEF SlotsAddUp, Held, Busy, One, At
  <2>4. TokensAddUp'
    BY <1>1, <1>2, <2>1, <2>2 DEF TokensAddUp, One, At
  <2> QED
    BY <1>1, <2>1, <2>2, <2>3, <2>4, SumsSuffice
<1>4. CASE Release
  <2>1. consumer.step = "using" /\ Goto("done")
        /\ empty' = empty + 1 /\ UNCHANGED <<available, queue, continuation>>
    BY <1>4 DEF Release, At
  <2>2. /\ consumer' \in [step : {"idle", "taken", "using", "done", "requeue", "requeued"},
                          item : Frames \cup {NoFrame}, count : 0 .. Depth]
        /\ consumer'.step = "done" /\ ItemHeld'
    BY <1>2, <2>1, ConsumerAt DEF ItemHeld
  <2>3. SlotsAddUp'
    BY <1>1, <1>2, <2>1, <2>2 DEF SlotsAddUp, Held, Busy, One, At
  <2>4. TokensAddUp'
    BY <1>1, <1>2, <2>1, <2>2 DEF TokensAddUp, One, At
  <2> QED
    BY <1>1, <2>1, <2>2, <2>3, <2>4, SumsSuffice
<1>5. CASE ProduceIfEmpty
  <2>1. consumer.step = "done" /\ Goto("requeue")
        /\ empty' = empty - 1 /\ empty > 0 /\ UNCHANGED <<available, queue, continuation>>
    BY <1>5 DEF ProduceIfEmpty, At
  <2>2. /\ consumer' \in [step : {"idle", "taken", "using", "done", "requeue", "requeued"},
                          item : Frames \cup {NoFrame}, count : 0 .. Depth]
        /\ consumer'.step = "requeue" /\ ItemHeld'
    BY <1>2, <2>1, ConsumerAt DEF ItemHeld
  <2>3. SlotsAddUp'
    BY <1>1, <1>2, <2>1, <2>2 DEF SlotsAddUp, Held, Busy, One, At
  <2>4. TokensAddUp'
    BY <1>1, <1>2, <2>1, <2>2 DEF TokensAddUp, One, At
  <2> QED
    BY <1>1, <2>1, <2>2, <2>3, <2>4, SumsSuffice
<1>6. CASE BailIfNotEmpty
  <2>1. consumer.step = "requeue" /\ Goto("done")
        /\ empty' = empty + 1 /\ UNCHANGED <<available, queue, continuation>>
    BY <1>6 DEF BailIfNotEmpty, At
  <2>2. /\ consumer' \in [step : {"idle", "taken", "using", "done", "requeue", "requeued"},
                          item : Frames \cup {NoFrame}, count : 0 .. Depth]
        /\ consumer'.step = "done" /\ ItemHeld'
    BY <1>2, <2>1, ConsumerAt DEF ItemHeld
  <2>3. SlotsAddUp'
    BY <1>1, <1>2, <2>1, <2>2 DEF SlotsAddUp, Held, Busy, One, At
  <2>4. TokensAddUp'
    BY <1>1, <1>2, <2>1, <2>2 DEF TokensAddUp, One, At
  <2> QED
    BY <1>1, <2>1, <2>2, <2>3, <2>4, SumsSuffice
<1>7. CASE SignalRequeued
  <2>1. consumer.step = "requeued" /\ Goto("done")
        /\ available' = available + 1 /\ UNCHANGED <<empty, queue, continuation>>
    BY <1>7 DEF SignalRequeued, At
  <2>2. /\ consumer' \in [step : {"idle", "taken", "using", "done", "requeue", "requeued"},
                          item : Frames \cup {NoFrame}, count : 0 .. Depth]
        /\ consumer'.step = "done" /\ ItemHeld'
    BY <1>2, <2>1, ConsumerAt DEF ItemHeld
  <2>3. SlotsAddUp'
    BY <1>1, <1>2, <2>1, <2>2 DEF SlotsAddUp, Held, Busy, One, At
  <2>4. TokensAddUp'
    BY <1>1, <1>2, <2>1, <2>2 DEF TokensAddUp, One, At
  <2> QED
    BY <1>1, <2>1, <2>2, <2>3, <2>4, SumsSuffice
<1> QED
  BY <1>3, <1>4, <1>5, <1>6, <1>7

\* Pop: the token taken before promises an item.
LEMMA PopKeeps ==
  ASSUME PipeInv, Pop
  PROVE  PipeInv' /\ queue # <<>>
<1>1. /\ empty \in Nat /\ available \in Nat /\ Depth \in Nat
      /\ queue \in Seq(Frames) /\ Len(queue) \in Nat
      /\ Held \in 0 .. 2 /\ Busy \in 0 .. 1
      /\ continuation \in {"none", "held", "pushed"}
  BY PipeTypes DEF PipeInv, PipeTypeOK
<1>2. SlotsAddUp /\ TokensAddUp /\ consumer.step = "taken"
  BY DEF PipeInv, Pop, At
<1>3. Len(queue) >= 1
  BY <1>1, <1>2 DEF TokensAddUp, One, At
<1>4. Len(queue) <= Depth
  BY <1>1, <1>2 DEF SlotsAddUp
<1>5. /\ queue # <<>> /\ queue' \in Seq(Frames) /\ Len(queue') = Len(queue) - 1
      /\ Head(queue) \in Frames
  BY <1>1, <1>3 DEF Pop
<1>6. /\ consumer' = [step |-> "using", item |-> Head(queue), count |-> Len(queue) - 1]
      /\ UNCHANGED <<empty, available, continuation>>
  BY DEF Pop
<1>7. Len(queue) - 1 \in 0 .. Depth
  BY <1>1, <1>3, <1>4
<1>8. /\ consumer' \in [step : {"idle", "taken", "using", "done", "requeue", "requeued"},
                        item : Frames \cup {NoFrame}, count : 0 .. Depth]
      /\ consumer'.step = "using" /\ ItemHeld'
  BY <1>5, <1>6, <1>7 DEF ItemHeld
<1>9. SlotsAddUp'
  BY <1>1, <1>2, <1>5, <1>6, <1>8 DEF SlotsAddUp, Held, Busy, One, At
<1>10. TokensAddUp'
  BY <1>1, <1>2, <1>5, <1>6, <1>8 DEF TokensAddUp, One, At
<1> QED
  BY <1>1, <1>5, <1>6, <1>8, <1>9, <1>10, SumsSuffice

\* The item goes back to the empty queue.
LEMMA CommitIfEmptyKeeps ==
  ASSUME PipeInv, CommitIfEmpty
  PROVE  PipeInv'
<1>1. /\ empty \in Nat /\ available \in Nat /\ Depth \in Nat
      /\ queue \in Seq(Frames) /\ Len(queue) \in Nat
      /\ continuation \in {"none", "held", "pushed"}
  BY PipeTypes DEF PipeInv, PipeTypeOK
<1>2. /\ SlotsAddUp /\ TokensAddUp /\ ItemHeld
      /\ consumer.step = "requeue" /\ Goto("requeued")
      /\ queue = <<>> /\ queue' = <<consumer.item>>
      /\ UNCHANGED <<empty, available, continuation>>
  BY DEF PipeInv, CommitIfEmpty, At
<1>3. consumer.item \in Frames
  BY <1>2 DEF ItemHeld
<1>4. /\ consumer' \in [step : {"idle", "taken", "using", "done", "requeue", "requeued"},
                        item : Frames \cup {NoFrame}, count : 0 .. Depth]
      /\ consumer'.step = "requeued" /\ ItemHeld'
  BY <1>2, <1>3, ConsumerAt
<1>5. queue' \in Seq(Frames) /\ Len(queue') = 1 /\ Len(queue) = 0
  BY <1>2, <1>3
<1>6. SlotsAddUp'
  BY <1>1, <1>2, <1>4, <1>5 DEF SlotsAddUp, Held, Busy, One, At
<1>7. TokensAddUp'
  BY <1>1, <1>2, <1>4, <1>5 DEF TokensAddUp, One, At
<1> QED
  BY <1>1, <1>2, <1>4, <1>5, <1>6, <1>7, SumsSuffice

\* The call of Consume ends.
LEMMA ReturnKeeps ==
  ASSUME PipeInv, Return
  PROVE  PipeInv'
<1>1. /\ empty \in Nat /\ available \in Nat /\ Depth \in Nat
      /\ queue \in Seq(Frames) /\ Len(queue) \in Nat
      /\ continuation \in {"none", "held", "pushed"}
  BY PipeTypes DEF PipeInv, PipeTypeOK
<1>2. /\ SlotsAddUp /\ TokensAddUp /\ consumer.step = "done" /\ consumer' = Idle
      /\ UNCHANGED <<empty, available, queue, continuation>>
  BY DEF PipeInv, Return, At
<1>3. /\ consumer' \in [step : {"idle", "taken", "using", "done", "requeue", "requeued"},
                        item : Frames \cup {NoFrame}, count : 0 .. Depth]
      /\ consumer'.step = "idle" /\ ItemHeld'
  BY <1>1, <1>2 DEF Idle, ItemHeld
<1>4. SlotsAddUp'
  BY <1>1, <1>2, <1>3 DEF SlotsAddUp, Held, Busy, One, At
<1>5. TokensAddUp'
  BY <1>1, <1>2, <1>3 DEF TokensAddUp, One, At
<1> QED
  BY <1>1, <1>2, <1>3, <1>4, <1>5, SumsSuffice

\* Every step of the pipeline keeps the invariant.
LEMMA PipeInvNext == PipeInv /\ [PipeNext]_pipeVars => PipeInv'
<1> SUFFICES ASSUME PipeInv, [PipeNext]_pipeVars PROVE PipeInv'
  OBVIOUS
<1>1. CASE Produce \/ SignalCommitted \/ \E f \in Frames : Commit(f)
  BY <1>1, ProducerKeeps
<1>2. CASE TryConsume \/ Release \/ ProduceIfEmpty \/ BailIfNotEmpty \/ SignalRequeued
  BY <1>2, ConsumerKeeps
<1>3. CASE Pop \/ CommitIfEmpty \/ Return
  BY <1>3, PopKeeps, CommitIfEmptyKeeps, ReturnKeeps
<1>4. CASE UNCHANGED pipeVars
  BY <1>4 DEF pipeVars, PipeInv, PipeTypeOK, SlotsAddUp, TokensAddUp, ItemHeld, Held, Busy, One, At
<1> QED
  BY <1>1, <1>2, <1>3, <1>4 DEF PipeNext

-----------------------------------------------------------------------------
(* FrameScheduling takes only the pipeline's steps.  Its frames are numbered, *)
(* and none is numbered beyond MaxFrames, Frames being what is queued.        *)

RenderInv == built \in Nat /\ (trees # {} => built < MaxFrames)

\* The threads' first state and every step of them, as the pipeline sees them.
LEMMA SchedulingInit == Init => PipeInit /\ RenderInv
BY DEF Init, RenderInv

\* Every step of the threads is one of the pipeline or leaves it alone.
LEMMA SchedulingStep ==
  ASSUME RenderInv, [Next]_vars
  PROVE  [PipeNext]_pipeVars /\ RenderInv'
<1>1. CASE External
  BY <1>1 DEF External, animatorVars, RenderInv
<1>2. CASE UI
  <2>1. CASE EndFrame
    <3>1. built + 1 \in Frames /\ Commit(built + 1)
      BY <2>1, PipelineAssumption DEF EndFrame, RenderInv, Frames
    <3>2. built' = built + 1 /\ trees' = {}
      BY <2>1 DEF EndFrame
    <3> QED
      BY <3>1, <3>2 DEF PipeNext, RenderInv
  <2>2. CASE BeginFrame
    BY <2>2 DEF BeginFrame, PipeNext, RenderInv
  <2>3. CASE SignalFrame
    BY <2>3 DEF SignalFrame, PipeNext, RenderInv, animatorVars
  <2>4. CASE RunTask \/ TextureAvailable \/ AsyncWaitForVsync \/ ScheduleSecondaryCallback
             \/ AwaitVSync \/ DrawLastLayerTrees
    BY <2>4 DEF RunTask, TextureAvailable, AsyncWaitForVsync, ScheduleSecondaryCallback,
                AwaitVSync, DrawLastLayerTrees, animatorVars, RenderInv
  <2>5. CASE PipelineFull \/ EndFrameEmpty \/ OnAnimatorDraw \/ ResumeDartEventLoopTasks
             \/ DispatchPacket \/ Pace \/ ClearTraceFlows
    BY <2>5 DEF PipelineFull, EndFrameEmpty, OnAnimatorDraw, ResumeDartEventLoopTasks,
                DispatchPacket, Pace, ClearTraceFlows, animatorVars, RenderInv
  <2> QED
    BY <1>2, <2>1, <2>2, <2>3, <2>4, <2>5 DEF UI
<1>3. CASE Dart
  BY <1>3 DEF Dart, DartRequestsFrame, DartRenders, DartEndsWarmUpFrame, DartReturns,
              animatorVars, RenderInv
<1>4. CASE FireCallback
  BY <1>4 DEF FireCallback, TakeCallbacks, PauseDartEventLoopTasks, PostVsync,
              PostSecondary, animatorVars, RenderInv
<1>5. CASE Raster
  <2>1. UNCHANGED <<built, trees>>
    BY <1>5 DEF Raster, RedrawLast, StartDraw, DrawNothing, TakeFrame, DrawFrame, Resubmit,
                CommitResubmitted, SignalResubmitted, EndDraw, othersThanRaster, animatorVars
  <2>2. RedrawLast \/ StartDraw \/ DrawNothing \/ TakeFrame \/ DrawFrame
          => [PipeNext]_pipeVars
    BY DEF RedrawLast, StartDraw, DrawNothing, TakeFrame, DrawFrame, PipeNext
  <2>3. Resubmit \/ CommitResubmitted \/ SignalResubmitted \/ EndDraw
          => [PipeNext]_pipeVars
    BY DEF Resubmit, CommitResubmitted, SignalResubmitted, EndDraw, PipeNext
  <2> QED
    BY <1>5, <2>1, <2>2, <2>3 DEF Raster, RenderInv
<1>6. CASE UNCHANGED vars
  BY <1>6 DEF vars, animatorVars, RenderInv
<1> QED
  BY <1>1, <1>2, <1>3, <1>4, <1>5, <1>6 DEF Next

\* The pipeline's invariant always holds.
LEMMA AlwaysPipeInv == Spec => [](PipeInv /\ RenderInv)
<1>1. Init => PipeInv /\ RenderInv
  BY SchedulingInit, PipeInvInit
<1>2. PipeInv /\ RenderInv /\ [Next]_vars => (PipeInv /\ RenderInv)'
  BY SchedulingStep, PipeInvNext
<1> QED
  BY <1>1, <1>2, PTL DEF Spec

\* Whatever the threads interleave, a slot of the pipeline is free, reserved,
\* queued or in use: pipeline.h never loses one and never hands one out twice.
THEOREM AlwaysSlotsAddUp == Spec => []SlotsAddUp
<1>1. PipeInv => SlotsAddUp
  BY DEF PipeInv
<1> QED
  BY <1>1, AlwaysPipeInv, PTL

\* Every queued frame has exactly one token of available_, so that Consume never
\* takes the front of an empty queue.
THEOREM AlwaysTokensAddUp == Spec => []TokensAddUp
<1>1. PipeInv => TokensAddUp
  BY DEF PipeInv
<1> QED
  BY <1>1, AlwaysPipeInv, PTL

-----------------------------------------------------------------------------
(* The refinement: each step of the pipeline is one of BoundedQueue or leaves *)
(* the mapped queue, its reserved and its busy slots alone.                   *)

\* Sums and how the mapped counters move with the threads' steps.
LEMMA Counters ==
  ASSUME PipeInv
  PROVE  /\ Bounded!Slots = Depth - empty
         /\ (continuation = "held" \/ At("requeue")) => Held > 0
         /\ At("using") => Busy > 0
BY PipeTypes DEF Bounded!Slots, PipeInv, SlotsAddUp, Held, Busy, One

\* A step of the pipeline is one of the bounded queue.
LEMMA BoundedStep ==
  ASSUME PipeInv, [PipeNext]_pipeVars
  PROVE  [Bounded!Next]_(Bounded!queueVars)
<1>1. /\ empty \in Nat /\ Depth \in Nat /\ queue \in Seq(Frames)
      /\ Held \in 0 .. 2 /\ Busy \in 0 .. 1
  BY PipeTypes
<1>2. consumer \in [step : {"idle", "taken", "using", "done", "requeue", "requeued"},
                    item : Frames \cup {NoFrame}, count : 0 .. Depth]
  BY DEF PipeInv, PipeTypeOK
<1>3. CASE Produce \/ ProduceIfEmpty
  <2>1. empty > 0 /\ UNCHANGED queue
    BY <1>3 DEF Produce, ProduceIfEmpty
  <2>2. Held' = Held + 1 /\ Busy' = Busy
    BY <1>2, <1>3 DEF Produce, ProduceIfEmpty, Held, Busy, One, At, Goto
  <2>3. Bounded!Slots < Depth
    BY <1>1, <2>1, Counters
  <2> QED
    BY <2>1, <2>2, <2>3 DEF Bounded!Next, Bounded!Reserve
<1>4. ASSUME NEW f \in Frames, Commit(f)
      PROVE  Bounded!Next
  <2>1. Held > 0 /\ queue' = Append(queue, f)
    BY <1>4, Counters DEF Commit
  <2>2. Held' = Held - 1 /\ Busy' = Busy
    BY <1>4 DEF Commit, Held, Busy, One, At
  <2> QED
    BY <2>1, <2>2 DEF Bounded!Next, Bounded!Put
<1>5. CASE CommitIfEmpty
  <2>1. Held > 0 /\ queue' = Append(queue, consumer.item) /\ consumer.item \in Frames
    BY <1>5, Counters DEF CommitIfEmpty, PipeInv, ItemHeld, At
  <2>2. Held' = Held - 1 /\ Busy' = Busy
    BY <1>2, <1>5 DEF CommitIfEmpty, Held, Busy, One, At, Goto
  <2> QED
    BY <2>1, <2>2 DEF Bounded!Next, Bounded!Put
<1>6. CASE BailIfNotEmpty
  <2>1. Held > 0 /\ UNCHANGED queue
    BY <1>6, Counters DEF BailIfNotEmpty
  <2>2. Held' = Held - 1 /\ Busy' = Busy
    BY <1>2, <1>6 DEF BailIfNotEmpty, Held, Busy, One, At, Goto
  <2> QED
    BY <2>1, <2>2 DEF Bounded!Next, Bounded!GiveUp
<1>7. CASE Pop
  <2>1. queue # <<>> /\ queue' = Tail(queue)
    BY <1>7, PopKeeps DEF Pop
  <2>2. Held' = Held /\ Busy' = Busy + 1
    BY <1>2, <1>7 DEF Pop, Held, Busy, One, At
  <2> QED
    BY <2>1, <2>2 DEF Bounded!Next, Bounded!Take
<1>8. CASE Release
  <2>1. Busy > 0 /\ UNCHANGED queue
    BY <1>8, Counters DEF Release
  <2>2. Held' = Held /\ Busy' = Busy - 1
    BY <1>2, <1>8 DEF Release, Held, Busy, One, At, Goto
  <2> QED
    BY <2>1, <2>2 DEF Bounded!Next, Bounded!Release
<1>9. CASE SignalCommitted \/ TryConsume \/ SignalRequeued \/ Return
  <2>1. UNCHANGED <<queue, Held, Busy>>
    BY <1>2, <1>9 DEF SignalCommitted, TryConsume, SignalRequeued, Return, Idle,
                      Held, Busy, One, At, Goto
  <2> QED
    BY <2>1 DEF Bounded!queueVars
<1>10. CASE UNCHANGED pipeVars
  BY <1>10 DEF pipeVars, Bounded!queueVars, Held, Busy, One, At
<1> QED
  BY <1>3, <1>4, <1>5, <1>6, <1>7, <1>8, <1>9, <1>10 DEF PipeNext

\* The pipeline, with the semaphores and the lock it updates one at a time, is
\* the bounded first-in first-out queue that Pipeline promises its two threads.
THEOREM PipelineIsBoundedQueue == Spec => ImplementsBoundedQueue
<1>1. Init => Bounded!Init
  BY SchedulingInit
     DEF Bounded!Init, PipeInit, Idle, Held, Busy, One, At
<1>2. PipeInv /\ RenderInv /\ [Next]_vars => [Bounded!Next]_(Bounded!queueVars)
  BY SchedulingStep, BoundedStep
<1> QED
  BY <1>1, <1>2, AlwaysPipeInv, PTL DEF Spec, Bounded!Spec, ImplementsBoundedQueue

-----------------------------------------------------------------------------
(* Counting tasks in a queue. *)

\* The number of tasks of a kind in a queue is a number.
LEMMA CountType ==
  ASSUME NEW T, NEW q \in Seq(T), NEW tasks
  PROVE  /\ IsFiniteSet({i \in DOMAIN q : q[i] \in tasks})
         /\ Count(q, tasks) \in Nat
<1>1. DOMAIN q = 1 .. Len(q) /\ Len(q) \in Nat
  OBVIOUS
<1>2. IsFiniteSet(1 .. Len(q))
  BY <1>1, FS_Interval
<1>3. IsFiniteSet({i \in DOMAIN q : q[i] \in tasks})
  BY <1>1, <1>2, FS_Subset
<1> QED
  BY <1>3, FS_CardinalityType DEF Count

\* A queue of no task, or of one.
LEMMA CountShort ==
  ASSUME NEW task, NEW tasks
  PROVE  /\ Count(<<>>, tasks) = 0
         /\ Count(<<task>>, tasks) = One(task \in tasks)
<1>1. {i \in DOMAIN <<>> : <<>>[i] \in tasks} = {}
  OBVIOUS
<1>2. {i \in DOMAIN <<task>> : <<task>>[i] \in tasks} = IF task \in tasks THEN {1} ELSE {}
  OBVIOUS
<1> QED
  BY <1>1, <1>2, FS_EmptySet, FS_Singleton DEF Count, One

\* The tasks of two queues add up.
LEMMA CountConcat ==
  ASSUME NEW T, NEW p \in Seq(T), NEW q \in Seq(T), NEW tasks
  PROVE  p \o q \in Seq(T) /\ Count(p \o q, tasks) = Count(p, tasks) + Count(q, tasks)
<1> DEFINE P == {i \in DOMAIN p : p[i] \in tasks}
           Q == {i \in DOMAIN q : q[i] \in tasks}
           R == {i \in DOMAIN (p \o q) : (p \o q)[i] \in tasks}
           Moved == {i \in (Len(p) + 1) .. (Len(p) + Len(q)) : q[i - Len(p)] \in tasks}
           f == [i \in Q |-> i + Len(p)]
<1>1. /\ Len(p) \in Nat /\ Len(q) \in Nat /\ DOMAIN p = 1 .. Len(p) /\ DOMAIN q = 1 .. Len(q)
      /\ p \o q \in Seq(T) /\ DOMAIN (p \o q) = 1 .. (Len(p) + Len(q))
      /\ \A i \in 1 .. Len(p) + Len(q) :
           (p \o q)[i] = IF i <= Len(p) THEN p[i] ELSE q[i - Len(p)]
  BY ConcatProperties, LenProperties
<1>2. R = P \cup Moved
  BY <1>1
<1>3. P \cap Moved = {}
  BY <1>1
<1>4. IsFiniteSet(P) /\ IsFiniteSet(Q)
  BY CountType
<1>5. f \in Bijection(Q, Moved)
  <2>1. f \in [Q -> Moved]
    BY <1>1
  <2>2. \A i, j \in Q : f[i] = f[j] => i = j
    BY <1>1
  <2>3. \A m \in Moved : \E i \in Q : f[i] = m
    <3>1. SUFFICES ASSUME NEW m \in Moved
                   PROVE  m - Len(p) \in Q /\ f[m - Len(p)] = m
      OBVIOUS
    <3> QED
      BY <1>1
  <2> QED
    BY <2>1, <2>2, <2>3 DEF Bijection, Injection, IsInjective, Surjection
<1>6. IsFiniteSet(Moved) /\ Cardinality(Moved) = Cardinality(Q)
  BY <1>4, <1>5, FS_Bijection DEF ExistsBijection
<1>7. Cardinality(P \cup Moved) = Cardinality(P) + Cardinality(Moved) - Cardinality(P \cap Moved)
  BY <1>4, <1>6, FS_Union
<1>8. Cardinality(P \cap Moved) = 0
  BY <1>3, FS_EmptySet
<1>9. Cardinality(P) \in Nat /\ Cardinality(Q) \in Nat
  BY <1>4, FS_CardinalityType
<1>10. /\ Count(p, tasks) = Cardinality(P) /\ Count(q, tasks) = Cardinality(Q)
       /\ Count(p \o q, tasks) = Cardinality(R)
  BY DEF Count
<1> HIDE DEF P, Q, R, Moved
<1> QED
  BY <1>1, <1>2, <1>6, <1>7, <1>8, <1>9, <1>10

\* Posting a task.
LEMMA CountAppend ==
  ASSUME NEW T, NEW q \in Seq(T), NEW task \in T, NEW tasks
  PROVE  /\ Append(q, task) \in Seq(T)
         /\ Count(Append(q, task), tasks) = Count(q, tasks) + One(task \in tasks)
<1> DEFINE new == <<task>>
<1>1. Append(q, task) = q \o new /\ new \in Seq(T)
  BY AppendIsConcat
<1>2. Count(new, tasks) = One(task \in tasks)
  BY CountShort
<1> HIDE DEF new
<1> QED
  BY <1>1, <1>2, CountConcat

\* A task in front of others.
LEMMA CountFront ==
  ASSUME NEW T, NEW q \in Seq(T), NEW task \in T, NEW tasks
  PROVE  /\ <<task>> \o q \in Seq(T)
         /\ Count(<<task>> \o q, tasks) = One(task \in tasks) + Count(q, tasks)
<1> DEFINE first == <<task>>
<1>1. first \in Seq(T) /\ Count(first, tasks) = One(task \in tasks)
  BY CountShort
<1> HIDE DEF first
<1>2. first \o q \in Seq(T) /\ Count(first \o q, tasks) = One(task \in tasks) + Count(q, tasks)
  BY <1>1, CountConcat
<1> QED
  BY <1>2 DEF first

\* Taking the oldest task.
LEMMA CountTail ==
  ASSUME NEW T, NEW q \in Seq(T), q # <<>>, NEW tasks
  PROVE  /\ Tail(q) \in Seq(T) /\ Head(q) \in T
         /\ Count(q, tasks) = One(Head(q) \in tasks) + Count(Tail(q), tasks)
<1>1. q = <<Head(q)>> \o Tail(q) /\ Tail(q) \in Seq(T) /\ Head(q) \in T
  OBVIOUS
<1>2. Count(<<Head(q)>> \o Tail(q), tasks) = One(Head(q) \in tasks) + Count(Tail(q), tasks)
  BY ONLY <1>1, CountFront
<1> QED
  BY <1>1, <1>2

\* A queue is what is before a task, the task and what is after it.
LEMMA SplitAt ==
  ASSUME NEW T, NEW q \in Seq(T), NEW i \in 1 .. Len(q)
  PROVE  /\ SubSeq(q, 1, i - 1) \in Seq(T) /\ SubSeq(q, i + 1, Len(q)) \in Seq(T)
         /\ q = SubSeq(q, 1, i - 1) \o (<<q[i]>> \o SubSeq(q, i + 1, Len(q)))
<1>1. Len(q) \in Nat /\ q[i] \in T
  OBVIOUS
<1>2. SubSeq(q, 1, i - 1) \in Seq(T) /\ SubSeq(q, i + 1, Len(q)) \in Seq(T)
  BY <1>1
<1>3. PICK k \in 0 .. Len(q) : k = i - 1 /\ k + 1 = i
  BY <1>1
<1>4. SubSeq(q, 1, k) \o SubSeq(q, k + 1, Len(q)) = SubSeq(q, 1, Len(q))
  <2>1. 1 \in 1 .. Len(q) + 1 /\ k \in 1 - 1 .. Len(q) /\ Len(q) \in k .. Len(q)
    BY <1>1
  <2> QED
    BY ONLY <2>1, q \in Seq(T), ConcatAdjacentSubSeq
<1>5. SubSeq(q, i, Len(q)) = <<q[i]>> \o SubSeq(q, i + 1, Len(q))
  <2>1. Len(q) \in i .. Len(q)
    BY <1>1
  <2> QED
    BY ONLY <2>1, q \in Seq(T), i \in 1 .. Len(q), SubSeqRecursiveFirst
<1>6. SubSeq(q, 1, Len(q)) = q
  BY SubSeqFull
<1> QED
  BY ONLY <1>2, <1>3, <1>4, <1>5, <1>6

\* Taking a task from the middle of the queue.
LEMMA CountRemove ==
  ASSUME NEW T, NEW q \in Seq(T), NEW i \in 1 .. Len(q), NEW tasks
  PROVE  /\ RemoveAt(q, i) \in Seq(T) /\ q[i] \in T
         /\ Count(q, tasks) = One(q[i] \in tasks) + Count(RemoveAt(q, i), tasks)
<1> DEFINE before == SubSeq(q, 1, i - 1)
           after == SubSeq(q, i + 1, Len(q))
           rest == <<q[i]>> \o after
<1>1. q[i] \in T /\ One(q[i] \in tasks) \in Nat
  BY DEF One
<1>2. before \in Seq(T) /\ after \in Seq(T) /\ q = before \o rest
  BY ONLY SplitAt, q \in Seq(T), i \in 1 .. Len(q)
<1>3. RemoveAt(q, i) = before \o after
  BY DEF RemoveAt
<1> HIDE DEF before, after
<1>4. rest \in Seq(T) /\ Count(rest, tasks) = One(q[i] \in tasks) + Count(after, tasks)
  BY ONLY <1>1, <1>2, CountFront
<1> HIDE DEF rest
<1>5. Count(before \o rest, tasks) = Count(before, tasks) + Count(rest, tasks)
  BY ONLY <1>2, <1>4, CountConcat
<1>6. before \o after \in Seq(T)
      /\ Count(before \o after, tasks) = Count(before, tasks) + Count(after, tasks)
  BY ONLY <1>2, CountConcat
<1>7. Count(before, tasks) \in Nat /\ Count(after, tasks) \in Nat
  BY ONLY <1>2, CountType
<1> QED
  BY <1>1, <1>2, <1>3, <1>4, <1>5, <1>6, <1>7

-----------------------------------------------------------------------------
(* What is in a queue. *)

\* What is in two queues together.
LEMMA TasksConcat ==
  ASSUME NEW T, NEW p \in Seq(T), NEW q \in Seq(T)
  PROVE  ToSet(p \o q) = ToSet(p) \cup ToSet(q)
<1>1. /\ Len(p) \in Nat /\ Len(q) \in Nat /\ DOMAIN p = 1 .. Len(p) /\ DOMAIN q = 1 .. Len(q)
      /\ DOMAIN (p \o q) = 1 .. (Len(p) + Len(q))
      /\ \A i \in 1 .. Len(p) + Len(q) :
           (p \o q)[i] = IF i <= Len(p) THEN p[i] ELSE q[i - Len(p)]
  BY ConcatProperties, LenProperties
<1>2. ToSet(p \o q) \subseteq ToSet(p) \cup ToSet(q)
  BY <1>1 DEF ToSet
<1>3. ToSet(p) \subseteq ToSet(p \o q)
  BY <1>1 DEF ToSet
<1>4. ToSet(q) \subseteq ToSet(p \o q)
  <2>1. SUFFICES ASSUME NEW i \in 1 .. Len(q)
                 PROVE  i + Len(p) \in DOMAIN (p \o q) /\ (p \o q)[i + Len(p)] = q[i]
    BY <1>1 DEF ToSet
  <2> QED
    BY <1>1
<1> QED
  BY <1>2, <1>3, <1>4

\* Posting keeps what is in a queue and adds the task.
LEMMA TasksAppend ==
  ASSUME NEW T, NEW q \in Seq(T), NEW x \in T
  PROVE  ToSet(Append(q, x)) = ToSet(q) \cup {x}
<1>1. /\ Len(q) \in Nat /\ DOMAIN q = 1 .. Len(q) /\ DOMAIN Append(q, x) = 1 .. Len(q) + 1
      /\ \A i \in 1 .. Len(q) : Append(q, x)[i] = q[i]
      /\ Append(q, x)[Len(q) + 1] = x
  OBVIOUS
<1>2. ToSet(Append(q, x)) \subseteq ToSet(q) \cup {x}
  <2>1. SUFFICES ASSUME NEW i \in 1 .. Len(q) + 1
                 PROVE  Append(q, x)[i] \in ToSet(q) \cup {x}
    BY <1>1 DEF ToSet
  <2>2. CASE i = Len(q) + 1
    BY <1>1, <2>2
  <2>3. CASE i \in 1 .. Len(q)
    BY <1>1, <2>3 DEF ToSet
  <2> QED
    BY <1>1, <2>2, <2>3
<1>3. ToSet(q) \subseteq ToSet(Append(q, x))
  <2>1. SUFFICES ASSUME NEW i \in 1 .. Len(q) PROVE q[i] \in ToSet(Append(q, x))
    BY <1>1 DEF ToSet
  <2>2. i \in DOMAIN Append(q, x) /\ Append(q, x)[i] = q[i]
    BY <1>1
  <2> QED
    BY <2>2 DEF ToSet
<1>4. x \in ToSet(Append(q, x))
  <2>1. Len(q) + 1 \in DOMAIN Append(q, x)
    BY <1>1
  <2> QED
    BY <1>1, <2>1 DEF ToSet
<1> QED
  BY <1>2, <1>3, <1>4

\* Taking a task out drops no other one.
LEMMA TasksRemove ==
  ASSUME NEW T, NEW q \in Seq(T), NEW i \in 1 .. Len(q)
  PROVE  ToSet(q) = ToSet(RemoveAt(q, i)) \cup {q[i]}
<1> DEFINE before == SubSeq(q, 1, i - 1)
           after == SubSeq(q, i + 1, Len(q))
           one == <<q[i]>>
           rest == one \o after
<1>1. before \in Seq(T) /\ after \in Seq(T) /\ q = before \o (one \o after)
  BY ONLY SplitAt, q \in Seq(T), i \in 1 .. Len(q)
<1>2. RemoveAt(q, i) = before \o after
  BY DEF RemoveAt
<1>3. one \in Seq(T) /\ ToSet(one) = {q[i]}
  BY DEF ToSet
<1> HIDE DEF before, after, one
<1>4. rest \in Seq(T) /\ ToSet(rest) = {q[i]} \cup ToSet(after)
  BY <1>1, <1>3, TasksConcat, ConcatProperties
<1> HIDE DEF rest
<1>5. ToSet(before \o rest) = ToSet(before) \cup ToSet(rest)
  BY <1>1, <1>4, TasksConcat
<1>6. ToSet(before \o after) = ToSet(before) \cup ToSet(after)
  BY <1>1, TasksConcat
<1> QED
  BY <1>1, <1>2, <1>4, <1>5, <1>6 DEF rest

\* Taking the oldest task drops no other one.
LEMMA TasksTail ==
  ASSUME NEW T, NEW q \in Seq(T), q # <<>>
  PROVE  ToSet(q) = ToSet(Tail(q)) \cup {Head(q)}
<1> DEFINE one == <<Head(q)>>
           rest == Tail(q)
<1>1. one \in Seq(T) /\ rest \in Seq(T) /\ q = one \o rest /\ ToSet(one) = {Head(q)}
  BY DEF ToSet
<1> HIDE DEF one, rest
<1>2. ToSet(one \o rest) = ToSet(one) \cup ToSet(rest)
  BY <1>1, TasksConcat
<1> QED
  BY <1>1, <1>2 DEF rest

-----------------------------------------------------------------------------
(* What the steps do to the queues. *)

\* The values of the variables that a request for a vsync passes through.
QueueTypes ==
  /\ uiQueue \in Seq(UITasks) /\ ui \in Seq(UISteps)
  /\ requested \in BOOLEAN /\ callback \in BOOLEAN
  /\ secondary \subseteq {"pace", "trace"} /\ requests \in Nat /\ paused \in Int
  /\ vsync \in [step : {"idle", "pause", "post", "secondary"}, callback : BOOLEAN,
                secondary : SUBSET {"pace", "trace"}]

\* A step of the task that runs is done, and others may come before the rest.
LEMMA ContinueFacts ==
  ASSUME QueueTypes, NEW step, Now(step), NEW steps \in Seq(UISteps), Continue(steps),
         NEW kinds
  PROVE  /\ ui' \in Seq(UISteps)
         /\ Count(ui', kinds) = Count(steps, kinds) + Count(ui, kinds) - One(step \in kinds)
         /\ Count(ui, kinds) >= One(step \in kinds)
         /\ Count(ui, kinds) \in Nat
<1> DEFINE rest == Tail(ui)
<1>1. ui \in Seq(UISteps) /\ ui # <<>> /\ Head(ui) = step
  BY DEF QueueTypes, Now
<1>2. /\ rest \in Seq(UISteps)
      /\ Count(ui, kinds) = One(step \in kinds) + Count(rest, kinds)
  BY <1>1, CountTail
<1>3. ui' = steps \o rest
  BY DEF Continue
<1> HIDE DEF rest
<1>4. /\ steps \o rest \in Seq(UISteps)
      /\ Count(steps \o rest, kinds) = Count(steps, kinds) + Count(rest, kinds)
  BY <1>2, CountConcat
<1>5. /\ Count(steps, kinds) \in Nat /\ Count(rest, kinds) \in Nat
      /\ One(step \in kinds) \in Nat
  BY <1>2, CountType DEF One
<1> QED
  BY <1>2, <1>3, <1>4, <1>5

\* The steps that actions put before the rest of a task.
LEMMA ShortSteps ==
  ASSUME NEW a \in UISteps, NEW b \in UISteps, NEW kinds
  PROVE  /\ <<>> \in Seq(UISteps) /\ <<a>> \in Seq(UISteps) /\ <<a, b>> \in Seq(UISteps)
         /\ Count(<<>>, kinds) = 0
         /\ Count(<<a>>, kinds) = One(a \in kinds)
         /\ Count(<<a, b>>, kinds) = One(a \in kinds) + One(b \in kinds)
<1> DEFINE first == <<a>>
<1>1. first \in Seq(UISteps) /\ Count(first, kinds) = One(a \in kinds) /\ Count(<<>>, kinds) = 0
  BY CountShort
<1>2. <<a, b>> = Append(first, b)
  OBVIOUS
<1> HIDE DEF first
<1>3. Append(first, b) \in Seq(UISteps)
      /\ Count(Append(first, b), kinds) = Count(first, kinds) + One(b \in kinds)
  BY <1>1, CountAppend
<1>4. <<a, b>> \in Seq(UISteps) /\ Count(<<a, b>>, kinds) = One(a \in kinds) + One(b \in kinds)
  BY <1>1, <1>2, <1>3
<1>5. <<>> \in Seq(UISteps) /\ <<a>> \in Seq(UISteps) /\ Count(<<a>>, kinds) = One(a \in kinds)
  BY CountShort
<1> QED
  BY <1>1, <1>4, <1>5

-----------------------------------------------------------------------------
(* One request at a time.  The equations are inductive together: each step    *)
(* moves the request on from one of their terms to the next.                  *)

\* The invariant of the requests.
RequestInv == QueueTypes /\ OneVsyncRequest /\ OneRequestInFlight /\ PausedPerVsync

\* The counts are numbers.
LEMMA CountsAreNumbers ==
  ASSUME QueueTypes
  PROVE  /\ VsyncTasks(ui) \in Nat /\ VsyncTasks(uiQueue) \in Nat
         /\ Count(ui, {"request"}) \in Nat /\ Count(ui, {"resume"}) \in Nat
         /\ Count(uiQueue, {"vsync"}) \in Nat
BY CountType DEF QueueTypes, VsyncTasks

\* What a step of the UI thread does to the counts of the steps left.
LEMMA UIEffect ==
  ASSUME QueueTypes, NEW step, Now(step), NEW steps \in Seq(UISteps), Continue(steps)
  PROVE  /\ ui' \in Seq(UISteps)
         /\ VsyncTasks(ui)' =
              VsyncTasks(steps) + VsyncTasks(ui) - One(step \in {"await", "vsync"})
         /\ VsyncTasks(ui) >= One(step \in {"await", "vsync"})
         /\ Count(ui, {"request"})' =
              Count(steps, {"request"}) + Count(ui, {"request"}) - One(step = "request")
         /\ Count(ui, {"request"}) >= One(step = "request")
         /\ Count(ui, {"resume"})' =
              Count(steps, {"resume"}) + Count(ui, {"resume"}) - One(step = "resume")
         /\ Count(ui, {"resume"}) >= One(step = "resume")
<1>1. One(step \in {"request"}) = One(step = "request")
      /\ One(step \in {"resume"}) = One(step = "resume")
  BY DEF One
<1>2. /\ ui' \in Seq(UISteps)
      /\ VsyncTasks(ui)' =
           VsyncTasks(steps) + VsyncTasks(ui) - One(step \in {"await", "vsync"})
      /\ VsyncTasks(ui) >= One(step \in {"await", "vsync"})
  BY ContinueFacts DEF VsyncTasks
<1>3. /\ Count(ui, {"request"})' =
           Count(steps, {"request"}) + Count(ui, {"request"}) - One(step \in {"request"})
      /\ Count(ui, {"request"}) >= One(step \in {"request"})
  BY ContinueFacts
<1>4. /\ Count(ui, {"resume"})' =
           Count(steps, {"resume"}) + Count(ui, {"resume"}) - One(step \in {"resume"})
      /\ Count(ui, {"resume"}) >= One(step \in {"resume"})
  BY ContinueFacts
<1> QED
  BY <1>1, <1>2, <1>3, <1>4

\* What a post to the UI task queue does to the counts of its tasks.
LEMMA PostEffect ==
  ASSUME QueueTypes, NEW task \in UITasks, uiQueue' = Append(uiQueue, task)
  PROVE  /\ uiQueue' \in Seq(UITasks)
         /\ VsyncTasks(uiQueue)' = VsyncTasks(uiQueue) + One(task \in {"await", "vsync"})
         /\ Count(uiQueue, {"vsync"})' = Count(uiQueue, {"vsync"}) + One(task = "vsync")
<1>1. One(task \in {"vsync"}) = One(task = "vsync")
  BY DEF One
<1>2. uiQueue \in Seq(UITasks)
  BY DEF QueueTypes
<1> QED
  BY <1>1, <1>2, CountAppend DEF VsyncTasks

\* The steps that are put before the rest of a task, where they are more than one.
LEMMA LongerSteps ==
  /\ <<"dart", "endFrame">> \in Seq(UISteps) /\ ToSet(<<"dart", "endFrame">>) = {"dart", "endFrame"}
  /\ <<"endFrame", "dart">> \in Seq(UISteps) /\ ToSet(<<"endFrame", "dart">>) = {"dart", "endFrame"}
  /\ <<"signal", "notify">> \in Seq(UISteps) /\ ToSet(<<"signal", "notify">>) = {"signal", "notify"}
  /\ Dispatching \in Seq(UISteps) /\ ToSet(Dispatching) = {"trace", "dart"}
  /\ Dispatching \o <<"pace">> \in Seq(UISteps)
  /\ ToSet(Dispatching \o <<"pace">>) = {"trace", "dart", "pace"}
  /\ Dispatching \o <<"pace", "pace">> \in Seq(UISteps)
  /\ ToSet(Dispatching \o <<"pace", "pace">>) = {"trace", "dart", "pace"}
<1> USE DEF UISteps, UITasks
<1>1. /\ <<"dart", "endFrame">> \in Seq(UISteps) /\ <<"endFrame", "dart">> \in Seq(UISteps)
      /\ <<"signal", "notify">> \in Seq(UISteps) /\ <<"trace", "dart">> \in Seq(UISteps)
      /\ <<"pace">> \in Seq(UISteps) /\ <<"pace", "pace">> \in Seq(UISteps)
  OBVIOUS
<1>2. /\ ToSet(<<"dart", "endFrame">>) = {"dart", "endFrame"}
      /\ ToSet(<<"endFrame", "dart">>) = {"dart", "endFrame"}
      /\ ToSet(<<"signal", "notify">>) = {"signal", "notify"}
      /\ ToSet(<<"trace", "dart">>) = {"trace", "dart"}
      /\ ToSet(<<"pace">>) = {"pace"} /\ ToSet(<<"pace", "pace">>) = {"pace"}
  BY DEF ToSet
<1> DEFINE one == <<"pace">>
           two == <<"pace", "pace">>
<1>3. Dispatching \in Seq(UISteps) /\ ToSet(Dispatching) = {"trace", "dart"}
      /\ one \in Seq(UISteps) /\ ToSet(one) = {"pace"}
      /\ two \in Seq(UISteps) /\ ToSet(two) = {"pace"}
  BY <1>1, <1>2 DEF Dispatching
<1> HIDE DEF one, two, UISteps, UITasks
<1>4. /\ ToSet(Dispatching \o one) = ToSet(Dispatching) \cup ToSet(one)
      /\ ToSet(Dispatching \o two) = ToSet(Dispatching) \cup ToSet(two)
  BY <1>3, TasksConcat
<1>5. Dispatching \o one \in Seq(UISteps) /\ Dispatching \o two \in Seq(UISteps)
  BY <1>3, ConcatProperties
<1>6. /\ ToSet(Dispatching \o one) = {"trace", "dart", "pace"}
      /\ ToSet(Dispatching \o two) = {"trace", "dart", "pace"}
  BY <1>3, <1>4
<1> QED
  BY <1>1, <1>2, <1>3, <1>5, <1>6 DEF one, two

\* Nothing is counted in a queue without tasks of the kinds counted.
LEMMA CountNone ==
  ASSUME NEW T, NEW q \in Seq(T), NEW kinds, ToSet(q) \cap kinds = {}
  PROVE  Count(q, kinds) = 0
<1>1. {i \in DOMAIN q : q[i] \in kinds} = {}
  BY DEF ToSet
<1> QED
  BY <1>1, FS_EmptySet DEF Count

\* Steps that neither ask for a vsync nor are asked for one.
Counted == {"await", "vsync", "request", "resume"}

\* A step of the UI thread in which no such step is done or comes up leaves the
\* counts of the steps alone.
LEMMA PlainStep ==
  ASSUME QueueTypes, NEW step, Now(step), step \notin Counted,
         NEW steps \in Seq(UISteps), ToSet(steps) \cap Counted = {}, Continue(steps)
  PROVE  /\ ui' \in Seq(UISteps)
         /\ VsyncTasks(ui)' = VsyncTasks(ui)
         /\ Count(ui, {"request"})' = Count(ui, {"request"})
         /\ Count(ui, {"resume"})' = Count(ui, {"resume"})
<1>1. /\ ToSet(steps) \cap {"await", "vsync"} = {} /\ ToSet(steps) \cap {"request"} = {}
      /\ ToSet(steps) \cap {"resume"} = {}
  BY DEF Counted
<1>2. /\ VsyncTasks(steps) = 0 /\ Count(steps, {"request"}) = 0
      /\ Count(steps, {"resume"}) = 0
  BY <1>1, CountNone DEF VsyncTasks
<1>3. /\ One(step \in {"await", "vsync"}) = 0 /\ One(step = "request") = 0
      /\ One(step = "resume") = 0
  BY DEF Counted, One
<1> QED
  BY <1>2, <1>3, UIEffect, CountsAreNumbers

\* The step leaves the counts of the UI thread's steps and what they are compared
\* with alone.
LEMMA SameCounts ==
  ASSUME RequestInv, UNCHANGED <<uiQueue, paused, requested, waiterVars, vsync>>,
         ui' \in Seq(UISteps), VsyncTasks(ui)' = VsyncTasks(ui),
         Count(ui, {"request"})' = Count(ui, {"request"}),
         Count(ui, {"resume"})' = Count(ui, {"resume"})
  PROVE  RequestInv'
<1>1. /\ VsyncTasks(uiQueue)' = VsyncTasks(uiQueue)
      /\ Count(uiQueue, {"vsync"})' = Count(uiQueue, {"vsync"})
  BY DEF VsyncTasks, Count
<1>2. QueueTypes'
  BY DEF RequestInv, QueueTypes, waiterVars
<1>3. OneVsyncRequest'
  BY DEF RequestInv, OneVsyncRequest, waiterVars
<1>4. OneRequestInFlight'
  BY <1>1 DEF RequestInv, OneRequestInFlight, waiterVars
<1>5. PausedPerVsync'
  BY <1>1 DEF RequestInv, PausedPerVsync
<1> QED
  BY <1>2, <1>3, <1>4, <1>5 DEF RequestInv

\* A step that asks for no vsync and is asked for by none.
LEMMA PlainKeeps ==
  ASSUME RequestInv, NEW step, Now(step), step \notin Counted,
         NEW steps \in Seq(UISteps), ToSet(steps) \cap Counted = {}, Continue(steps),
         UNCHANGED <<uiQueue, paused, requested, waiterVars, vsync>>
  PROVE  RequestInv'
BY PlainStep, SameCounts DEF RequestInv

\* Rendering, signalling, notifying and dispatching ask for no vsync.
LEMMA RenderingKeeps ==
  ASSUME RequestInv,
         \/ EndFrameEmpty \/ EndFrame \/ SignalFrame \/ OnAnimatorDraw \/ DartRenders
         \/ DartEndsWarmUpFrame \/ DartReturns \/ DispatchPacket \/ Pace \/ ClearTraceFlows
  PROVE  RequestInv'
<1> DEFINE signal == <<"signal">>
           dart == <<"dart">>
           pace == <<"pace">>
           frame == <<"endFrame", "dart">>
           notify == <<"signal", "notify">>
           packetOnce == Dispatching \o <<"pace">>
           packetTwice == Dispatching \o <<"pace", "pace">>
<1>1. /\ <<>> \in Seq(UISteps) /\ ToSet(<<>>) \cap Counted = {}
      /\ signal \in Seq(UISteps) /\ ToSet(signal) \cap Counted = {}
      /\ dart \in Seq(UISteps) /\ ToSet(dart) \cap Counted = {}
      /\ pace \in Seq(UISteps) /\ ToSet(pace) \cap Counted = {}
  BY DEF UISteps, UITasks, ToSet, Counted
<1>2. /\ frame \in Seq(UISteps) /\ ToSet(frame) \cap Counted = {}
      /\ notify \in Seq(UISteps) /\ ToSet(notify) \cap Counted = {}
      /\ packetOnce \in Seq(UISteps) /\ ToSet(packetOnce) \cap Counted = {}
      /\ packetTwice \in Seq(UISteps) /\ ToSet(packetTwice) \cap Counted = {}
  BY LongerSteps DEF Counted
<1>3. {"signal", "dart", "notify", "endFrame", "packet", "paced", "traced"} \cap Counted = {}
  BY DEF Counted
<1>4. UNCHANGED <<uiQueue, paused, requested, waiterVars, vsync>>
  BY DEF EndFrameEmpty, EndFrame, SignalFrame, OnAnimatorDraw, DartRenders,
         DartEndsWarmUpFrame, DartReturns, DispatchPacket, Pace, ClearTraceFlows, animatorVars
<1>5. CASE EndFrameEmpty \/ SignalFrame \/ OnAnimatorDraw \/ DartReturns \/ ClearTraceFlows
  BY <1>1, <1>3, <1>4, <1>5, PlainKeeps
     DEF EndFrameEmpty, SignalFrame, OnAnimatorDraw, DartReturns, ClearTraceFlows
<1>6. CASE EndFrame
  <2>1. Now("endFrame") /\ (Continue(notify) \/ Continue(signal))
    BY <1>6 DEF EndFrame
  <2> HIDE DEF notify, signal
  <2> QED
    BY <1>1, <1>2, <1>3, <1>4, <2>1, PlainKeeps
<1>7. CASE DartRenders \/ DartEndsWarmUpFrame
  <2>1. Now("dart") /\ (Continue(frame) \/ Continue(dart))
    BY <1>7 DEF DartRenders, DartEndsWarmUpFrame
  <2> HIDE DEF frame, dart
  <2> QED
    BY <1>1, <1>2, <1>3, <1>4, <2>1, PlainKeeps
<1>8. CASE DispatchPacket
  <2>1. Now("packet") /\ (Continue(packetOnce) \/ Continue(packetTwice) \/ Continue(pace))
    BY <1>8 DEF DispatchPacket
  <2> HIDE DEF packetOnce, packetTwice, pace
  <2> QED
    BY <1>1, <1>2, <1>3, <1>4, <2>1, PlainKeeps
<1>9. CASE Pace
  <2>1. Now("paced") /\ (Continue(packetOnce) \/ Continue(<<>>))
    BY <1>9 DEF Pace
  <2> HIDE DEF packetOnce
  <2> QED
    BY <1>1, <1>2, <1>3, <1>4, <2>1, PlainKeeps
<1> QED
  BY <1>5, <1>6, <1>7, <1>8, <1>9

\* Asking the VsyncWaiter for a vsync, or for a callback at the next one.
LEMMA WaitingKeeps ==
  ASSUME RequestInv, AsyncWaitForVsync \/ ScheduleSecondaryCallback
  PROVE  RequestInv'
<1> DEFINE request == <<"request">>
<1>1. /\ request \in Seq(UISteps) /\ <<>> \in Seq(UISteps)
      /\ VsyncTasks(<<>>) = 0 /\ Count(<<>>, {"request"}) = 0 /\ Count(<<>>, {"resume"}) = 0
      /\ VsyncTasks(request) = 0 /\ Count(request, {"request"}) = 1
      /\ Count(request, {"resume"}) = 0
  BY CountShort DEF VsyncTasks, UISteps, UITasks, One
<1> HIDE DEF request
<1>2. PICK steps \in {<<>>, request} :
        Continue(steps) /\ (steps = <<>> <=> callback \/ secondary # {})
  <2>1. request # <<>>
    BY DEF request
  <2>2. Continue(IF callback \/ secondary # {} THEN <<>> ELSE request)
    BY DEF AsyncWaitForVsync, ScheduleSecondaryCallback, request
  <2> QED
    BY <2>1, <2>2
<1>3. steps \in Seq(UISteps)
  BY <1>1
<1>4. QueueTypes /\ OneVsyncRequest /\ OneRequestInFlight /\ PausedPerVsync
  BY DEF RequestInv
<1>5. /\ VsyncTasks(ui) \in Nat /\ VsyncTasks(uiQueue) \in Nat
      /\ Count(ui, {"request"}) \in Nat /\ Count(ui, {"resume"}) \in Nat
      /\ Count(uiQueue, {"vsync"}) \in Nat /\ requests \in Nat
      /\ requested \in BOOLEAN /\ callback \in BOOLEAN
  BY <1>4, CountsAreNumbers DEF QueueTypes
<1>6. /\ UNCHANGED <<uiQueue, paused, requested, requests, vsync>>
      /\ VsyncTasks(uiQueue)' = VsyncTasks(uiQueue)
      /\ Count(uiQueue, {"vsync"})' = Count(uiQueue, {"vsync"})
  BY DEF AsyncWaitForVsync, ScheduleSecondaryCallback, animatorVars, VsyncTasks, Count
<1>7. /\ Count(steps, {"request"}) = One(~(callback \/ secondary # {}))
      /\ VsyncTasks(steps) = 0 /\ Count(steps, {"resume"}) = 0
  BY <1>1, <1>2 DEF One
<1>8. CASE AsyncWaitForVsync
  <2>1. Now("await") /\ callback' = TRUE /\ UNCHANGED secondary
    BY <1>8 DEF AsyncWaitForVsync
  <2>2. /\ ui' \in Seq(UISteps)
        /\ VsyncTasks(ui)' = VsyncTasks(ui) - 1 /\ VsyncTasks(ui) >= 1
        /\ Count(ui, {"request"})' = Count(steps, {"request"}) + Count(ui, {"request"})
        /\ Count(ui, {"resume"})' = Count(ui, {"resume"})
    <3>1. /\ One("await" \in {"await", "vsync"}) = 1 /\ One("await" = "request") = 0
          /\ One("await" = "resume") = 0
      BY DEF One
    <3>2. /\ ui' \in Seq(UISteps)
          /\ VsyncTasks(ui)' =
               VsyncTasks(steps) + VsyncTasks(ui) - One("await" \in {"await", "vsync"})
          /\ VsyncTasks(ui) >= One("await" \in {"await", "vsync"})
          /\ Count(ui, {"request"})' =
               Count(steps, {"request"}) + Count(ui, {"request"}) - One("await" = "request")
          /\ Count(ui, {"resume"})' =
               Count(steps, {"resume"}) + Count(ui, {"resume"}) - One("await" = "resume")
      BY <1>2, <1>3, <1>4, <2>1, UIEffect
    <3> QED
      BY <3>1, <3>2, <1>5, <1>7 DEF One
  <2>3. QueueTypes'
    BY <1>4, <1>6, <2>1, <2>2 DEF QueueTypes
  <2>4. OneVsyncRequest'
    BY <1>4, <1>5, <1>6, <1>7, <2>1, <2>2 DEF OneVsyncRequest, One
  <2>5. OneRequestInFlight'
    <3>1. One(requested) <= 1 /\ One(callback) \in {0, 1} /\ One(callback') = 1
          /\ One(vsync.step \in {"pause", "post"}) \in Nat
          /\ One(requested) \in Nat
      BY <2>1 DEF One
    <3>2. One(callback) = 0
      BY <1>4, <1>5, <2>2, <3>1 DEF OneRequestInFlight
    <3> QED
      BY <1>4, <1>5, <1>6, <2>2, <3>1, <3>2 DEF OneRequestInFlight
  <2>6. PausedPerVsync'
    BY <1>4, <1>6, <2>2 DEF PausedPerVsync
  <2> QED
    BY <2>3, <2>4, <2>5, <2>6 DEF RequestInv
<1>9. CASE ScheduleSecondaryCallback
  <2>1. PICK id \in {"pace", "trace"} :
          Now(id) /\ secondary' = secondary \cup {id} /\ UNCHANGED callback
    BY <1>9 DEF ScheduleSecondaryCallback
  <2>2. /\ ui' \in Seq(UISteps) /\ VsyncTasks(ui)' = VsyncTasks(ui)
        /\ Count(ui, {"request"})' = Count(steps, {"request"}) + Count(ui, {"request"})
        /\ Count(ui, {"resume"})' = Count(ui, {"resume"})
    <3>1. /\ One(id \in {"await", "vsync"}) = 0 /\ One(id = "request") = 0
          /\ One(id = "resume") = 0
      BY DEF One
    <3>2. /\ ui' \in Seq(UISteps)
          /\ VsyncTasks(ui)' = VsyncTasks(steps) + VsyncTasks(ui) - One(id \in {"await", "vsync"})
          /\ Count(ui, {"request"})' =
               Count(steps, {"request"}) + Count(ui, {"request"}) - One(id = "request")
          /\ Count(ui, {"resume"})' =
               Count(steps, {"resume"}) + Count(ui, {"resume"}) - One(id = "resume")
      BY <1>2, <1>3, <1>4, <2>1, UIEffect
    <3> QED
      BY <3>1, <3>2, <1>5, <1>7 DEF One
  <2>3. QueueTypes'
    BY <1>4, <1>6, <2>1, <2>2 DEF QueueTypes
  <2>4. OneVsyncRequest'
    BY <1>4, <1>5, <1>6, <1>7, <2>1, <2>2 DEF OneVsyncRequest, One
  <2>5. OneRequestInFlight'
    BY <1>4, <1>6, <2>1, <2>2 DEF OneRequestInFlight
  <2>6. PausedPerVsync'
    BY <1>4, <1>6, <2>2 DEF PausedPerVsync
  <2> QED
    BY <2>3, <2>4, <2>5, <2>6 DEF RequestInv
<1> QED
  BY <1>8, <1>9

\* The steps of a task that are done without others coming up.
LEMMA DoneKeepsCounts ==
  ASSUME QueueTypes, NEW step, Now(step), Continue(<<>>)
  PROVE  /\ ui' \in Seq(UISteps)
         /\ VsyncTasks(ui)' = VsyncTasks(ui) - One(step \in {"await", "vsync"})
         /\ VsyncTasks(ui) >= One(step \in {"await", "vsync"})
         /\ Count(ui, {"request"})' = Count(ui, {"request"}) - One(step = "request")
         /\ Count(ui, {"request"}) >= One(step = "request")
         /\ Count(ui, {"resume"})' = Count(ui, {"resume"}) - One(step = "resume")
         /\ Count(ui, {"resume"}) >= One(step = "resume")
<1> DEFINE steps == <<>>
<1>1. /\ Count(steps, {"await", "vsync"}) = 0 /\ Count(steps, {"request"}) = 0
      /\ Count(steps, {"resume"}) = 0
  BY CountShort
<1>2. steps \in Seq(UISteps) /\ Continue(steps) /\ VsyncTasks(steps) = 0
  BY <1>1 DEF VsyncTasks
<1> HIDE DEF steps
<1> QED
  BY <1>1, <1>2, UIEffect, CountsAreNumbers DEF One

\* Calling the platform, and resuming the Dart event loop.
LEMMA CallingKeeps ==
  ASSUME RequestInv, AwaitVSync \/ ResumeDartEventLoopTasks
  PROVE  RequestInv'
<1>1. QueueTypes /\ OneVsyncRequest /\ OneRequestInFlight /\ PausedPerVsync
  BY DEF RequestInv
<1>2. /\ VsyncTasks(ui) \in Nat /\ VsyncTasks(uiQueue) \in Nat
      /\ Count(ui, {"request"}) \in Nat /\ Count(ui, {"resume"}) \in Nat
      /\ Count(uiQueue, {"vsync"}) \in Nat /\ requests \in Nat /\ paused \in Int
  BY <1>1, CountsAreNumbers DEF QueueTypes
<1>3. /\ UNCHANGED <<uiQueue, requested, callback, secondary, vsync>> /\ Continue(<<>>)
      /\ VsyncTasks(uiQueue)' = VsyncTasks(uiQueue)
      /\ Count(uiQueue, {"vsync"})' = Count(uiQueue, {"vsync"})
  BY DEF AwaitVSync, ResumeDartEventLoopTasks, animatorVars, waiterVars, VsyncTasks, Count
<1>4. CASE AwaitVSync
  <2>1. Now("request") /\ requests' = requests + 1 /\ UNCHANGED paused
    BY <1>4 DEF AwaitVSync
  <2>2. /\ ui' \in Seq(UISteps) /\ VsyncTasks(ui)' = VsyncTasks(ui)
        /\ Count(ui, {"request"})' = Count(ui, {"request"}) - 1
        /\ Count(ui, {"resume"})' = Count(ui, {"resume"})
    BY <1>1, <1>2, <1>3, <2>1, DoneKeepsCounts DEF One
  <2>3. QueueTypes'
    BY <1>1, <1>2, <1>3, <2>1, <2>2 DEF QueueTypes
  <2>4. OneVsyncRequest'
    BY <1>1, <1>2, <1>3, <2>1, <2>2 DEF OneVsyncRequest
  <2>5. OneRequestInFlight' /\ PausedPerVsync'
    BY <1>1, <1>3, <2>1, <2>2 DEF OneRequestInFlight, PausedPerVsync
  <2> QED
    BY <2>3, <2>4, <2>5 DEF RequestInv
<1>5. CASE ResumeDartEventLoopTasks
  <2>1. Now("resume") /\ paused' = paused - 1 /\ UNCHANGED requests
    BY <1>5 DEF ResumeDartEventLoopTasks, waiterVars
  <2>2. /\ ui' \in Seq(UISteps) /\ VsyncTasks(ui)' = VsyncTasks(ui)
        /\ Count(ui, {"request"})' = Count(ui, {"request"})
        /\ Count(ui, {"resume"})' = Count(ui, {"resume"}) - 1
    BY <1>1, <1>2, <1>3, <2>1, DoneKeepsCounts DEF One
  <2>3. QueueTypes' /\ OneVsyncRequest'
    BY <1>1, <1>2, <1>3, <2>1, <2>2 DEF QueueTypes, OneVsyncRequest
  <2>4. OneRequestInFlight'
    BY <1>1, <1>3, <2>1, <2>2 DEF OneRequestInFlight
  <2>5. PausedPerVsync'
    <3>1. One(vsync.step = "post") \in Nat /\ One(vsync.step = "post")' = One(vsync.step = "post")
      BY <1>3 DEF One
    <3> QED
      BY <1>1, <1>2, <1>3, <2>1, <2>2, <3>1 DEF PausedPerVsync
  <2> QED
    BY <2>3, <2>4, <2>5 DEF RequestInv
<1> QED
  BY <1>4, <1>5

\* While a vsync task runs it is the one request: none is queued or with the
\* VsyncWaiter, and the task holds the semaphore.
LEMMA OnlyVsyncTask ==
  ASSUME RequestInv, VsyncTasks(ui) >= 1
  PROVE  /\ requested /\ ~callback /\ vsync.step \notin {"pause", "post"}
         /\ VsyncTasks(ui) = 1 /\ VsyncTasks(uiQueue) = 0
<1>1. QueueTypes /\ OneRequestInFlight
  BY DEF RequestInv
<1>2. VsyncTasks(ui) \in Nat /\ VsyncTasks(uiQueue) \in Nat
  BY <1>1, CountsAreNumbers
<1>3. /\ One(callback) \in Nat /\ One(requested) <= 1 /\ One(requested) \in Nat
      /\ One(vsync.step \in {"pause", "post"}) \in Nat
  BY DEF One
<1>4. /\ One(requested) = 1 /\ One(callback) = 0
      /\ One(vsync.step \in {"pause", "post"}) = 0
      /\ VsyncTasks(ui) = 1 /\ VsyncTasks(uiQueue) = 0
  BY <1>1, <1>2, <1>3 DEF OneRequestInFlight
<1> QED
  BY <1>4 DEF One

\* The vsync task gives the semaphore back, or asks again while it has it.
LEMMA VsyncTaskKeeps ==
  ASSUME RequestInv, DrawLastLayerTrees \/ BeginFrame \/ PipelineFull
  PROVE  RequestInv'
<1> DEFINE begin == <<"dart", "endFrame">>
<1>1. QueueTypes /\ OneVsyncRequest /\ OneRequestInFlight /\ PausedPerVsync
  BY DEF RequestInv
<1>2. /\ VsyncTasks(ui) \in Nat /\ VsyncTasks(uiQueue) \in Nat
      /\ Count(ui, {"request"}) \in Nat /\ Count(ui, {"resume"}) \in Nat
      /\ Count(uiQueue, {"vsync"}) \in Nat /\ requests \in Nat
  BY <1>1, CountsAreNumbers DEF QueueTypes
<1>3. begin \in Seq(UISteps) /\ <<>> \in Seq(UISteps)
  BY LongerSteps
<1>4. ToSet(begin) \cap Counted = {} /\ ToSet(<<>>) \cap Counted = {}
  BY LongerSteps DEF Counted, ToSet
<1>5. Now("vsync") /\ (Continue(begin) \/ Continue(<<>>))
  BY DEF DrawLastLayerTrees, BeginFrame, PipelineFull
<1> HIDE DEF begin
<1>6. PICK steps \in Seq(UISteps) : ToSet(steps) \cap Counted = {} /\ Continue(steps)
  BY <1>3, <1>4, <1>5
<1>7. VsyncTasks(steps) = 0 /\ Count(steps, {"request"}) = 0 /\ Count(steps, {"resume"}) = 0
  <2>1. /\ ToSet(steps) \cap {"await", "vsync"} = {} /\ ToSet(steps) \cap {"request"} = {}
        /\ ToSet(steps) \cap {"resume"} = {}
    BY <1>6 DEF Counted
  <2> QED
    BY <2>1, CountNone DEF VsyncTasks
<1>8. /\ ui' \in Seq(UISteps)
      /\ VsyncTasks(ui)' = VsyncTasks(ui) - 1 /\ VsyncTasks(ui) >= 1
      /\ Count(ui, {"request"})' = Count(ui, {"request"})
      /\ Count(ui, {"resume"})' = Count(ui, {"resume"})
  <2>1. /\ ui' \in Seq(UISteps)
        /\ VsyncTasks(ui)' =
             VsyncTasks(steps) + VsyncTasks(ui) - One("vsync" \in {"await", "vsync"})
        /\ VsyncTasks(ui) >= One("vsync" \in {"await", "vsync"})
        /\ Count(ui, {"request"})' =
             Count(steps, {"request"}) + Count(ui, {"request"}) - One("vsync" = "request")
        /\ Count(ui, {"resume"})' =
             Count(steps, {"resume"}) + Count(ui, {"resume"}) - One("vsync" = "resume")
    BY <1>1, <1>5, <1>6, UIEffect
  <2> QED
    BY <1>2, <1>7, <2>1 DEF One
<1>9. /\ ~callback /\ vsync.step \notin {"pause", "post"}
      /\ VsyncTasks(ui) = 1 /\ VsyncTasks(uiQueue) = 0
  BY <1>8, OnlyVsyncTask
<1>10. UNCHANGED <<paused, callback, secondary, requests, vsync>>
  BY DEF DrawLastLayerTrees, BeginFrame, PipelineFull, waiterVars
<1>11. OneVsyncRequest'
  BY <1>1, <1>8, <1>10 DEF OneVsyncRequest
<1>12. CASE DrawLastLayerTrees \/ BeginFrame
  <2>1. requested' = FALSE /\ UNCHANGED uiQueue
    BY <1>12 DEF DrawLastLayerTrees, BeginFrame
  <2>2. /\ VsyncTasks(uiQueue)' = VsyncTasks(uiQueue)
        /\ Count(uiQueue, {"vsync"})' = Count(uiQueue, {"vsync"})
    BY <2>1 DEF VsyncTasks, Count
  <2>3. QueueTypes'
    BY <1>1, <1>8, <1>10, <2>1 DEF QueueTypes
  <2>4. OneRequestInFlight'
    BY <1>8, <1>9, <1>10, <2>1, <2>2 DEF OneRequestInFlight, One
  <2>5. PausedPerVsync'
    BY <1>1, <1>8, <1>10, <2>2 DEF PausedPerVsync
  <2> QED
    BY <1>11, <2>3, <2>4, <2>5 DEF RequestInv
<1>13. CASE PipelineFull
  <2>1. requested' = TRUE /\ uiQueue' = Append(uiQueue, "await") /\ "await" \in UITasks
    BY <1>13 DEF PipelineFull, UITasks
  <2>2. /\ uiQueue' \in Seq(UITasks) /\ VsyncTasks(uiQueue)' = VsyncTasks(uiQueue) + 1
        /\ Count(uiQueue, {"vsync"})' = Count(uiQueue, {"vsync"})
    BY <1>1, <1>2, <2>1, PostEffect DEF One
  <2>3. QueueTypes'
    BY <1>1, <1>8, <1>10, <2>1, <2>2 DEF QueueTypes
  <2>4. OneRequestInFlight'
    BY <1>8, <1>9, <1>10, <2>1, <2>2 DEF OneRequestInFlight, One
  <2>5. PausedPerVsync'
    BY <1>1, <1>8, <1>10, <2>2 DEF PausedPerVsync
  <2> QED
    BY <1>11, <2>3, <2>4, <2>5 DEF RequestInv
<1> QED
  BY <1>12, <1>13

\* A task is posted that is no vsync task, by a step that is none of the counted.
LEMMA PostKeeps ==
  ASSUME RequestInv, NEW task \in UITasks \ {"await", "vsync"}, uiQueue' = Append(uiQueue, task),
         UNCHANGED <<paused, requested, waiterVars, vsync, ui>>
  PROVE  RequestInv'
<1>1. QueueTypes /\ OneVsyncRequest /\ OneRequestInFlight /\ PausedPerVsync
  BY DEF RequestInv
<1>2. /\ VsyncTasks(uiQueue) \in Nat /\ Count(uiQueue, {"vsync"}) \in Nat
  BY <1>1, CountsAreNumbers
<1>3. /\ uiQueue' \in Seq(UITasks) /\ VsyncTasks(uiQueue)' = VsyncTasks(uiQueue)
      /\ Count(uiQueue, {"vsync"})' = Count(uiQueue, {"vsync"})
  BY <1>1, <1>2, PostEffect DEF One
<1>4. /\ VsyncTasks(ui)' = VsyncTasks(ui) /\ Count(ui, {"request"})' = Count(ui, {"request"})
      /\ Count(ui, {"resume"})' = Count(ui, {"resume"})
  BY DEF VsyncTasks, Count
<1>5. QueueTypes'
  BY <1>1, <1>3 DEF QueueTypes, waiterVars
<1>6. OneVsyncRequest' /\ OneRequestInFlight' /\ PausedPerVsync'
  BY <1>1, <1>3, <1>4 DEF OneVsyncRequest, OneRequestInFlight, PausedPerVsync, waiterVars
<1> QED
  BY <1>5, <1>6 DEF RequestInv

\* A frame is requested, by an outside event or by Dart code.
LEMMA RequestKeeps ==
  ASSUME RequestInv, TextureAvailable \/ DartRequestsFrame
  PROVE  RequestInv'
<1>1. QueueTypes /\ OneVsyncRequest /\ OneRequestInFlight /\ PausedPerVsync
  BY DEF RequestInv
<1>2. /\ VsyncTasks(ui) \in Nat /\ VsyncTasks(uiQueue) \in Nat
      /\ Count(uiQueue, {"vsync"}) \in Nat /\ requested \in BOOLEAN
  BY <1>1, CountsAreNumbers DEF QueueTypes
<1>3. PICK again : RequestFrame(again)
  BY DEF TextureAvailable, DartRequestsFrame
<1>4. UNCHANGED <<paused, callback, secondary, requests, vsync>>
  BY DEF TextureAvailable, DartRequestsFrame, waiterVars
<1>5. /\ ui' \in Seq(UISteps) /\ VsyncTasks(ui)' = VsyncTasks(ui)
      /\ Count(ui, {"request"})' = Count(ui, {"request"})
      /\ Count(ui, {"resume"})' = Count(ui, {"resume"})
  <2>1. CASE TextureAvailable
    <3>1. Now("texture") /\ "texture" \notin Counted
      BY <2>1 DEF TextureAvailable, Counted
    <3>2. <<>> \in Seq(UISteps) /\ ToSet(<<>>) \cap Counted = {} /\ Continue(<<>>)
      BY <2>1 DEF TextureAvailable, ToSet
    <3> QED
      BY <1>1, <3>1, <3>2, PlainStep
  <2>2. CASE DartRequestsFrame
    BY <1>1, <2>2 DEF DartRequestsFrame, VsyncTasks, Count, QueueTypes
  <2> QED
    BY <2>1, <2>2
<1>6. /\ requested' = TRUE /\ uiQueue' \in Seq(UITasks)
      /\ VsyncTasks(uiQueue)' = VsyncTasks(uiQueue) + 1 - One(requested)
      /\ Count(uiQueue, {"vsync"})' = Count(uiQueue, {"vsync"})
  <2>1. CASE requested
    BY <1>1, <1>2, <1>3, <2>1 DEF RequestFrame, VsyncTasks, Count, QueueTypes, One
  <2>2. CASE ~requested
    <3>1. uiQueue' = Append(uiQueue, "await") /\ "await" \in UITasks /\ requested' = TRUE
      BY <1>3, <2>2 DEF RequestFrame, UITasks
    <3> QED
      BY <1>1, <1>2, <2>2, <3>1, PostEffect DEF One
  <2> QED
    BY <2>1, <2>2
<1>7. QueueTypes'
  BY <1>1, <1>4, <1>5, <1>6 DEF QueueTypes
<1>8. OneRequestInFlight'
  <2>1. /\ One(callback) \in Nat /\ One(vsync.step \in {"pause", "post"}) \in Nat
        /\ One(requested) \in Nat /\ One(requested)' = 1
        /\ One(callback)' = One(callback)
        /\ One(vsync.step \in {"pause", "post"})' = One(vsync.step \in {"pause", "post"})
    BY <1>4, <1>6 DEF One
  <2>2. /\ VsyncTasks(ui)' = VsyncTasks(ui)
        /\ VsyncTasks(uiQueue)' = VsyncTasks(uiQueue) + 1 - One(requested)
        /\ VsyncTasks(ui) \in Nat /\ VsyncTasks(uiQueue) \in Nat
    BY <1>2, <1>5, <1>6
  <2> QED
    BY ONLY <1>1, <2>1, <2>2 DEF OneRequestInFlight
<1>9. OneVsyncRequest' /\ PausedPerVsync'
  BY <1>1, <1>4, <1>5, <1>6 DEF OneVsyncRequest, PausedPerVsync
<1> QED
  BY <1>7, <1>8, <1>9 DEF RequestInv

\* A task is taken from the queue: a vsync task brings the step that resumes.
LEMMA RunTaskKeeps ==
  ASSUME RequestInv, RunTask
  PROVE  RequestInv'
<1>1. QueueTypes /\ OneVsyncRequest /\ OneRequestInFlight /\ PausedPerVsync
  BY DEF RequestInv
<1>2. ui = <<>> /\ UNCHANGED <<paused, requested, callback, secondary, requests, vsync>>
  BY DEF RunTask, animatorVars, waiterVars
<1>3. PICK i \in DOMAIN uiQueue : ui' = Steps(uiQueue[i]) /\ uiQueue' = RemoveAt(uiQueue, i)
  BY DEF RunTask
<1>4. i \in 1 .. Len(uiQueue) /\ uiQueue \in Seq(UITasks)
  BY <1>1, <1>3 DEF QueueTypes
<1>5. /\ VsyncTasks(ui) = 0 /\ Count(ui, {"request"}) = 0 /\ Count(ui, {"resume"}) = 0
  BY <1>2, CountShort DEF VsyncTasks
<1>6. PICK task \in UITasks : task = uiQueue[i]
  BY <1>4, CountRemove
<1>7. /\ uiQueue' \in Seq(UITasks)
      /\ VsyncTasks(uiQueue) = One(task \in {"await", "vsync"}) + VsyncTasks(uiQueue)'
      /\ Count(uiQueue, {"vsync"}) = One(task = "vsync") + Count(uiQueue, {"vsync"})'
  <2>1. One(task \in {"vsync"}) = One(task = "vsync")
    BY DEF One
  <2> QED
    BY <1>3, <1>4, <1>6, <2>1, CountRemove DEF VsyncTasks
<1>8. /\ ui' \in Seq(UISteps)
      /\ VsyncTasks(ui)' = One(task \in {"await", "vsync"})
      /\ Count(ui, {"request"})' = 0 /\ Count(ui, {"resume"})' = One(task = "vsync")
  <2>1. CASE task = "vsync"
    <3>1. PICK a \in UISteps, b \in UISteps : a = "vsync" /\ b = "resume"
      BY DEF UISteps, UITasks
    <3>2. ui' = <<a, b>>
      BY <1>3, <1>6, <2>1, <3>1 DEF Steps
    <3>3. /\ ui' \in Seq(UISteps)
          /\ Count(ui', {"await", "vsync"}) = One(a \in {"await", "vsync"}) + One(b \in {"await", "vsync"})
          /\ Count(ui', {"request"}) = One(a \in {"request"}) + One(b \in {"request"})
          /\ Count(ui', {"resume"}) = One(a \in {"resume"}) + One(b \in {"resume"})
      BY <3>2, ShortSteps
    <3> QED
      BY <2>1, <3>1, <3>3 DEF VsyncTasks, One
  <2>2. CASE task # "vsync"
    <3>1. ui' = <<task>> /\ task \in UISteps
      BY <1>3, <1>6, <2>2 DEF Steps, UISteps
    <3>2. /\ ui' \in Seq(UISteps)
          /\ Count(ui', {"await", "vsync"}) = One(task \in {"await", "vsync"})
          /\ Count(ui', {"request"}) = One(task \in {"request"})
          /\ Count(ui', {"resume"}) = One(task \in {"resume"})
      BY <3>1, ShortSteps
    <3>3. task # "request" /\ task # "resume"
      BY DEF UITasks
    <3> QED
      BY <2>2, <3>2, <3>3 DEF VsyncTasks, One
  <2> QED
    BY <2>1, <2>2
<1>9. VsyncTasks(uiQueue)' \in Nat /\ Count(uiQueue, {"vsync"})' \in Nat
  BY <1>7, CountType DEF VsyncTasks
<1>10. QueueTypes'
  BY <1>1, <1>2, <1>7, <1>8 DEF QueueTypes
<1>11. OneVsyncRequest'
  BY <1>1, <1>2, <1>5, <1>8 DEF OneVsyncRequest
<1>12. OneRequestInFlight'
  <2>1. /\ One(callback) \in Nat /\ One(vsync.step \in {"pause", "post"}) \in Nat
        /\ One(requested) \in Nat /\ One(task \in {"await", "vsync"}) \in Nat
    BY DEF One
  <2> QED
    BY <1>1, <1>2, <1>5, <1>7, <1>8, <1>9, <2>1 DEF OneRequestInFlight
<1>13. PausedPerVsync'
  <2>1. One(vsync.step = "post") \in Nat /\ One(task = "vsync") \in Nat
    BY DEF One
  <2> QED
    BY <1>1, <1>2, <1>5, <1>7, <1>8, <1>9, <2>1 DEF PausedPerVsync
<1> QED
  BY <1>10, <1>11, <1>12, <1>13 DEF RequestInv

\* The vsync thread: FireCallback takes the callbacks, pauses and posts.
LEMMA FireCallbackKeeps ==
  ASSUME RequestInv, FireCallback
  PROVE  RequestInv'
<1>1. QueueTypes /\ OneVsyncRequest /\ OneRequestInFlight /\ PausedPerVsync
  BY DEF RequestInv
<1>2. /\ VsyncTasks(ui) \in Nat /\ VsyncTasks(uiQueue) \in Nat
      /\ Count(ui, {"request"}) \in Nat /\ Count(ui, {"resume"}) \in Nat
      /\ Count(uiQueue, {"vsync"}) \in Nat /\ requests \in Nat /\ paused \in Int
      /\ callback \in BOOLEAN /\ requested \in BOOLEAN
  BY <1>1, CountsAreNumbers DEF QueueTypes
<1>3. UNCHANGED <<ui, requested>> /\ ui' \in Seq(UISteps) /\ requested' \in BOOLEAN
  BY <1>1 DEF FireCallback, TakeCallbacks, PauseDartEventLoopTasks, PostVsync, PostSecondary,
         animatorVars, QueueTypes
<1>4. /\ VsyncTasks(ui)' = VsyncTasks(ui) /\ Count(ui, {"request"})' = Count(ui, {"request"})
      /\ Count(ui, {"resume"})' = Count(ui, {"resume"})
  BY <1>3 DEF VsyncTasks, Count
<1>5. ASSUME UNCHANGED uiQueue
      PROVE  /\ VsyncTasks(uiQueue)' = VsyncTasks(uiQueue)
             /\ Count(uiQueue, {"vsync"})' = Count(uiQueue, {"vsync"})
             /\ uiQueue' \in Seq(UITasks)
  BY <1>1, <1>5 DEF VsyncTasks, Count, QueueTypes
<1>6. vsync \in [step : {"idle", "pause", "post", "secondary"}, callback : BOOLEAN,
                 secondary : SUBSET {"pace", "trace"}]
  BY <1>1 DEF QueueTypes
<1>7. CASE TakeCallbacks
  <2>1. /\ vsync.step = "idle" /\ requests > 0 /\ requests' = requests - 1
        /\ vsync' = [step |-> IF callback THEN "pause" ELSE "secondary",
                     callback |-> callback, secondary |-> secondary]
        /\ callback' = FALSE /\ secondary' = {} /\ UNCHANGED <<uiQueue, paused>>
    BY <1>7 DEF TakeCallbacks
  <2>2. QueueTypes'
    <3>1. secondary \subseteq {"pace", "trace"}
      BY <1>1 DEF QueueTypes
    <3>2. vsync' \in [step : {"idle", "pause", "post", "secondary"}, callback : BOOLEAN,
                         secondary : SUBSET {"pace", "trace"}]
      BY <1>2, <2>1, <3>1
    <3>3. requests' \in Nat /\ paused' \in Int /\ uiQueue' \in Seq(UITasks)
      BY <1>2, <1>5, <2>1
    <3> QED
      BY <1>3, <2>1, <3>2, <3>3 DEF QueueTypes
  <2>3. OneVsyncRequest'
    <3>1. One(callback \/ secondary # {}) <= 1 /\ One(callback \/ secondary # {}) \in Nat
          /\ One(callback \/ secondary # {})' = 0
      BY <2>1 DEF One
    <3> QED
      BY <1>1, <1>2, <1>4, <2>1, <3>1 DEF OneVsyncRequest
  <2>4. OneRequestInFlight'
    <3>1. /\ One(vsync.step \in {"pause", "post"}) = 0 /\ One(callback)' = 0
          /\ One(vsync.step \in {"pause", "post"})' = One(callback)
          /\ One(callback) \in Nat /\ One(requested)' = One(requested)
      BY <1>2, <1>3, <2>1 DEF One
    <3> QED
      BY <1>1, <1>2, <1>4, <1>5, <2>1, <3>1 DEF OneRequestInFlight
  <2>5. PausedPerVsync'
    <3>1. One(vsync.step = "post") = 0 /\ One(vsync.step = "post")' = 0
      BY <2>1 DEF One
    <3> QED
      BY <1>1, <1>4, <1>5, <2>1, <3>1 DEF PausedPerVsync
  <2> QED
    BY <2>2, <2>3, <2>4, <2>5 DEF RequestInv
<1>8. CASE PauseDartEventLoopTasks
  <2>1. /\ vsync.step = "pause" /\ paused' = paused + 1
        /\ vsync' = [vsync EXCEPT !.step = "post"]
        /\ UNCHANGED <<uiQueue, callback, secondary, requests>>
    BY <1>8 DEF PauseDartEventLoopTasks, waiterVars
  <2>2. /\ vsync'.step = "post"
        /\ vsync' \in [step : {"idle", "pause", "post", "secondary"}, callback : BOOLEAN,
                       secondary : SUBSET {"pace", "trace"}]
    BY <1>6, <2>1
  <2>3. QueueTypes'
    <3>1. paused' \in Int /\ uiQueue' \in Seq(UITasks)
      BY <1>2, <1>5, <2>1
    <3> QED
      BY <1>1, <1>3, <2>1, <2>2, <3>1 DEF QueueTypes
  <2>4. OneVsyncRequest'
    BY <1>1, <1>4, <2>1 DEF OneVsyncRequest
  <2>5. OneRequestInFlight'
    BY <1>1, <1>3, <1>4, <1>5, <2>1, <2>2 DEF OneRequestInFlight, One
  <2>6. PausedPerVsync'
    <3>1. One(vsync.step = "post") = 0 /\ One(vsync.step = "post")' = 1
      BY <2>1, <2>2 DEF One
    <3> QED
      BY <1>1, <1>2, <1>4, <1>5, <2>1, <3>1 DEF PausedPerVsync
  <2> QED
    BY <2>3, <2>4, <2>5, <2>6 DEF RequestInv
<1>9. CASE PostVsync
  <2>1. /\ vsync.step = "post" /\ uiQueue' = Append(uiQueue, "vsync")
        /\ vsync' = [vsync EXCEPT !.step = "secondary"]
        /\ UNCHANGED <<paused, callback, secondary, requests>>
    BY <1>9 DEF PostVsync, waiterVars
  <2>2. /\ vsync'.step = "secondary"
        /\ vsync' \in [step : {"idle", "pause", "post", "secondary"}, callback : BOOLEAN,
                       secondary : SUBSET {"pace", "trace"}]
    BY <1>6, <2>1
  <2>3. /\ uiQueue' \in Seq(UITasks) /\ VsyncTasks(uiQueue)' = VsyncTasks(uiQueue) + 1
        /\ Count(uiQueue, {"vsync"})' = Count(uiQueue, {"vsync"}) + 1
    <3>1. "vsync" \in UITasks
      BY DEF UITasks
    <3> QED
      BY <1>1, <2>1, <3>1, PostEffect DEF One
  <2>4. QueueTypes'
    BY <1>1, <1>2, <1>3, <2>1, <2>2, <2>3 DEF QueueTypes
  <2>5. OneVsyncRequest'
    BY <1>1, <1>4, <2>1 DEF OneVsyncRequest
  <2>6. OneRequestInFlight'
    <3>1. /\ One(vsync.step \in {"pause", "post"}) = 1
          /\ One(vsync.step \in {"pause", "post"})' = 0
          /\ One(callback) \in Nat /\ One(callback)' = One(callback)
          /\ One(requested)' = One(requested)
      BY <1>3, <2>1, <2>2 DEF One
    <3> QED
      BY <1>1, <1>2, <1>4, <2>3, <3>1 DEF OneRequestInFlight
  <2>7. PausedPerVsync'
    <3>1. One(vsync.step = "post") = 1 /\ One(vsync.step = "post")' = 0
      BY <2>1, <2>2 DEF One
    <3> QED
      BY <1>1, <1>2, <1>4, <2>1, <2>3, <3>1 DEF PausedPerVsync
  <2> QED
    BY <2>4, <2>5, <2>6, <2>7 DEF RequestInv
<1>10. CASE PostSecondary
  <2>1. /\ vsync.step = "secondary"
        /\ vsync'.step \in {"idle", "secondary"}
        /\ vsync' \in [step : {"idle", "pause", "post", "secondary"}, callback : BOOLEAN,
                       secondary : SUBSET {"pace", "trace"}]
        /\ UNCHANGED <<paused, callback, secondary, requests>>
    <3>1. vsync.step = "secondary" /\ UNCHANGED <<paused, callback, secondary, requests>>
      BY <1>10 DEF PostSecondary, waiterVars
    <3>2. CASE vsync' = NotFiring
      BY <3>1, <3>2 DEF NotFiring
    <3>3. ASSUME NEW id \in {"pace", "trace"}, vsync' = [vsync EXCEPT !.secondary = @ \ {id}]
          PROVE  /\ vsync'.step \in {"idle", "secondary"}
                 /\ vsync' \in [step : {"idle", "pause", "post", "secondary"}, callback : BOOLEAN,
                         secondary : SUBSET {"pace", "trace"}]
      BY <1>6, <3>1, <3>3
    <3> QED
      BY <1>6, <1>10, <3>1, <3>2, <3>3 DEF PostSecondary
  <2>2. /\ uiQueue' \in Seq(UITasks) /\ VsyncTasks(uiQueue)' = VsyncTasks(uiQueue)
        /\ Count(uiQueue, {"vsync"})' = Count(uiQueue, {"vsync"})
    <3>1. CASE vsync.secondary = {}
      BY <1>5, <1>10, <3>1 DEF PostSecondary
    <3>2. CASE vsync.secondary # {}
      <4>1. PICK task \in {"paced", "traced"} : uiQueue' = Append(uiQueue, task)
        BY <1>10, <3>2 DEF PostSecondary, Fired
      <4>2. task \in UITasks /\ One(task \in {"await", "vsync"}) = 0 /\ One(task = "vsync") = 0
        BY DEF UITasks, One
      <4> QED
        BY <1>1, <1>2, <4>1, <4>2, PostEffect
    <3> QED
      BY <3>1, <3>2
  <2>3. QueueTypes'
    BY <1>1, <1>2, <1>3, <2>1, <2>2 DEF QueueTypes
  <2>4. OneVsyncRequest'
    BY <1>1, <1>4, <2>1 DEF OneVsyncRequest
  <2>5. /\ One(vsync.step \in {"pause", "post"}) = 0
        /\ One(vsync.step \in {"pause", "post"})' = 0
        /\ One(callback)' = One(callback) /\ One(requested)' = One(requested)
        /\ One(vsync.step = "post") = 0 /\ One(vsync.step = "post")' = 0
    BY <1>3, <2>1 DEF One
  <2>6. OneRequestInFlight' /\ PausedPerVsync'
    BY <1>1, <1>4, <2>1, <2>2, <2>5 DEF OneRequestInFlight, PausedPerVsync
  <2> QED
    BY <2>3, <2>4, <2>6 DEF RequestInv
<1> QED
  BY <1>7, <1>8, <1>9, <1>10 DEF FireCallback

\* Every step keeps the three equations.
LEMMA RequestStep ==
  ASSUME RequestInv, [Next]_vars
  PROVE  RequestInv'
<1>1. ASSUME UNCHANGED othersThanRaster
      PROVE  RequestInv'
  <2>1. UNCHANGED <<uiQueue, paused, requested, waiterVars, vsync, ui>>
    BY <1>1 DEF othersThanRaster, animatorVars
  <2>2. /\ ui' \in Seq(UISteps) /\ VsyncTasks(ui)' = VsyncTasks(ui)
        /\ Count(ui, {"request"})' = Count(ui, {"request"})
        /\ Count(ui, {"resume"})' = Count(ui, {"resume"})
    BY <2>1 DEF RequestInv, QueueTypes, VsyncTasks, Count
  <2> QED
    BY <2>1, <2>2, SameCounts
<1>2. CASE External
  <2>1. PICK task \in Sources : uiQueue' = Append(uiQueue, task)
    BY <1>2 DEF External
  <2>2. task \in UITasks \ {"await", "vsync"}
    BY SchedulingAssumption DEF Events, UITasks
  <2>3. UNCHANGED <<paused, requested, waiterVars, vsync, ui>>
    BY <1>2 DEF External, animatorVars
  <2> QED
    BY <2>1, <2>2, <2>3, PostKeeps
<1>3. CASE UI
  BY <1>3, RunTaskKeeps, RequestKeeps, WaitingKeeps, CallingKeeps, VsyncTaskKeeps,
     RenderingKeeps DEF UI
<1>4. CASE Dart
  BY <1>4, RequestKeeps, RenderingKeeps DEF Dart
<1>5. CASE FireCallback
  BY <1>5, FireCallbackKeeps
<1>6. CASE Raster
  BY <1>1, <1>6 DEF Raster, RedrawLast, StartDraw, DrawNothing, TakeFrame, DrawFrame, Resubmit,
                    CommitResubmitted, SignalResubmitted, EndDraw
<1>7. CASE UNCHANGED vars
  BY <1>1, <1>7 DEF vars, othersThanRaster
<1> QED
  BY <1>2, <1>3, <1>4, <1>5, <1>6, <1>7 DEF Next

\* The three equations always hold.
LEMMA AlwaysRequestInv == Spec => []RequestInv
<1>1. Init => RequestInv
  <2> SUFFICES ASSUME Init PROVE RequestInv
    OBVIOUS
  <2>1. /\ uiQueue = <<>> /\ ui = <<>> /\ paused = 0 /\ requested = FALSE /\ callback = FALSE
        /\ secondary = {} /\ requests = 0
        /\ vsync = [step |-> "idle", callback |-> FALSE, secondary |-> {}]
    BY DEF Init, NotFiring
  <2>2. /\ Count(ui, {"request"}) = 0 /\ Count(ui, {"resume"}) = 0
        /\ Count(uiQueue, {"vsync"}) = 0
        /\ VsyncTasks(ui) = 0 /\ VsyncTasks(uiQueue) = 0
    BY <2>1, CountShort DEF VsyncTasks
  <2>3. QueueTypes
    <3>1. uiQueue \in Seq(UITasks) /\ ui \in Seq(UISteps)
      BY <2>1
    <3>2. vsync \in [step : {"idle", "pause", "post", "secondary"}, callback : BOOLEAN,
                     secondary : SUBSET {"pace", "trace"}]
      BY <2>1
    <3>3. requested \in BOOLEAN /\ callback \in BOOLEAN /\ secondary \subseteq {"pace", "trace"}
      BY <2>1
    <3>4. requests \in Nat /\ paused \in Int
      BY <2>1
    <3> QED
      BY ONLY <3>1, <3>2, <3>3, <3>4 DEF QueueTypes
  <2>4. OneVsyncRequest /\ OneRequestInFlight /\ PausedPerVsync
    BY <2>1, <2>2 DEF OneVsyncRequest, OneRequestInFlight, PausedPerVsync, One
  <2> QED
    BY <2>3, <2>4 DEF RequestInv
<1>2. RequestInv /\ [Next]_vars => RequestInv'
  BY RequestStep
<1> QED
  BY <1>1, <1>2, PTL DEF Spec

\* VsyncWaiter: while a callback waits the platform has been asked for exactly
\* one vsync, or is about to be, and for none otherwise.
THEOREM AlwaysOneVsyncRequest == Spec => []OneVsyncRequest
<1>1. RequestInv => OneVsyncRequest
  BY DEF RequestInv
<1> QED
  BY <1>1, AlwaysRequestInv, PTL

\* Animator: pending_frame_semaphore_ is taken exactly while one request is on its
\* way from the UI queue through the VsyncWaiter to a vsync task.
THEOREM AlwaysOneRequestInFlight == Spec => []OneRequestInFlight
<1>1. RequestInv => OneRequestInFlight
  BY DEF RequestInv
<1> QED
  BY <1>1, AlwaysRequestInv, PTL

\* The Dart event loop is paused once for each vsync task that is posted, queued or
\* running, and by nothing else.
THEOREM AlwaysPausedPerVsync == Spec => []PausedPerVsync
<1>1. RequestInv => PausedPerVsync
  BY DEF RequestInv
<1> QED
  BY <1>1, AlwaysRequestInv, PTL

-----------------------------------------------------------------------------
(* Held pointer packets.  A pace moves from the UI thread to the callbacks, to *)
(* the vsync thread, to the UI queue and back to the UI thread.               *)

\* The steps that are left when one is done and others come up.
LEMMA StepsLeft ==
  ASSUME QueueTypes, NEW step, Now(step), NEW steps \in Seq(UISteps), Continue(steps)
  PROVE  /\ ToSet(steps) \subseteq ToSet(ui')
         /\ ToSet(ui) \ {step} \subseteq ToSet(ui')
         /\ step \in ToSet(ui)
         /\ ToSet(ui') \subseteq ToSet(ui) \cup ToSet(steps)
<1> DEFINE rest == Tail(ui)
<1>1. ui \in Seq(UISteps) /\ ui # <<>> /\ Head(ui) = step /\ rest \in Seq(UISteps)
  BY DEF QueueTypes, Now
<1>2. ToSet(ui) = ToSet(rest) \cup {step}
  BY <1>1, TasksTail
<1>3. ui' = steps \o rest
  BY DEF Continue
<1> HIDE DEF rest
<1>4. ToSet(steps \o rest) = ToSet(steps) \cup ToSet(rest)
  BY <1>1, TasksConcat
<1> QED
  BY <1>2, <1>3, <1>4

\* FireCallback has posted every callback it took before it takes others.
NothingLost == vsync.step = "idle" => vsync.secondary = {}

\* The invariant of the dispatcher.
PaceInv == NothingLost /\ PaceIsComing

\* What a pace may be waiting in is kept, and no packet is newly held back.
LEMMA PaceKept ==
  ASSUME PaceInv, UNCHANGED pacing, NothingLost',
         ToSet(ui) \cap {"pace", "paced"} \subseteq ToSet(ui'),
         ToSet(uiQueue) \subseteq ToSet(uiQueue'),
         secondary \cup vsync.secondary \subseteq secondary' \cup vsync'.secondary
  PROVE  PaceInv'
BY DEF PaceInv, PaceIsComing

\* The steps of the UI thread that are no pace.
LEMMA OtherStepsKeepPace ==
  ASSUME QueueTypes, QueueTypes', PaceInv,
         \/ TextureAvailable \/ AsyncWaitForVsync \/ AwaitVSync \/ DrawLastLayerTrees
         \/ BeginFrame \/ PipelineFull \/ EndFrameEmpty \/ EndFrame \/ SignalFrame
         \/ OnAnimatorDraw \/ ResumeDartEventLoopTasks \/ ClearTraceFlows \/ Dart
  PROVE  PaceInv'
<1> DEFINE begin == <<"dart", "endFrame">>
           frame == <<"endFrame", "dart">>
           notify == <<"signal", "notify">>
           signal == <<"signal">>
           dart == <<"dart">>
           request == <<"request">>
<1>1. UNCHANGED <<pacing, secondary, vsync>>
  BY DEF TextureAvailable, AsyncWaitForVsync, AwaitVSync, DrawLastLayerTrees, BeginFrame,
         PipelineFull, EndFrameEmpty, EndFrame, SignalFrame, OnAnimatorDraw,
         ResumeDartEventLoopTasks, ClearTraceFlows, Dart, DartRequestsFrame, DartRenders,
         DartEndsWarmUpFrame, DartReturns, waiterVars, pointerVars
<1>2. ToSet(uiQueue) \subseteq ToSet(uiQueue')
  <2>1. \/ UNCHANGED uiQueue
        \/ uiQueue' = Append(uiQueue, "await")
    BY DEF TextureAvailable, AsyncWaitForVsync, AwaitVSync, DrawLastLayerTrees, BeginFrame,
         PipelineFull, EndFrameEmpty, EndFrame, SignalFrame, OnAnimatorDraw,
         ResumeDartEventLoopTasks, ClearTraceFlows, Dart, DartRequestsFrame, DartRenders,
         DartEndsWarmUpFrame, DartReturns, RequestFrame
  <2>2. uiQueue \in Seq(UITasks) /\ "await" \in UITasks
    BY DEF QueueTypes, UITasks
  <2>3. CASE UNCHANGED uiQueue
    BY <2>3
  <2>4. CASE uiQueue' = Append(uiQueue, "await")
    BY <2>2, <2>4, TasksAppend
  <2> QED
    BY <2>1, <2>3, <2>4
<1>3. ToSet(ui) \cap {"pace", "paced"} \subseteq ToSet(ui')
  <2>1. CASE DartRequestsFrame
    BY <2>1 DEF DartRequestsFrame
  <2>2. ASSUME NEW step, Now(step), step \notin {"pace", "paced"},
               NEW steps \in Seq(UISteps), Continue(steps)
        PROVE  ToSet(ui) \cap {"pace", "paced"} \subseteq ToSet(ui')
    BY <2>2, StepsLeft
  <2>3. /\ <<>> \in Seq(UISteps) /\ begin \in Seq(UISteps) /\ frame \in Seq(UISteps)
        /\ notify \in Seq(UISteps) /\ signal \in Seq(UISteps) /\ dart \in Seq(UISteps)
        /\ request \in Seq(UISteps)
    BY LongerSteps DEF UISteps, UITasks
  <2>4. \/ DartRequestsFrame
        \/ /\ \E step \in UISteps \ {"pace", "paced"} : Now(step)
           /\ \/ Continue(<<>>) \/ Continue(begin) \/ Continue(frame) \/ Continue(notify)
              \/ Continue(signal) \/ Continue(dart) \/ Continue(request)
    BY DEF TextureAvailable, AsyncWaitForVsync, AwaitVSync, DrawLastLayerTrees, BeginFrame,
         PipelineFull, EndFrameEmpty, EndFrame, SignalFrame, OnAnimatorDraw,
         ResumeDartEventLoopTasks, ClearTraceFlows, Dart, DartRenders,
         DartEndsWarmUpFrame, DartReturns, UISteps, UITasks
  <2> HIDE DEF begin, frame, notify, signal, dart, request
  <2> QED
    BY <2>1, <2>2, <2>3, <2>4
<1>4. NothingLost'
  BY <1>1 DEF PaceInv, NothingLost
<1> QED
  BY <1>1, <1>2, <1>3, <1>4, PaceKept

\* The dispatcher: a packet that comes too early, or one handed on, brings a pace.
LEMMA DispatcherKeepsPace ==
  ASSUME QueueTypes, PaceInv, DispatchPacket \/ Pace \/ ScheduleSecondaryCallback
  PROVE  PaceInv'
<1> DEFINE once == Dispatching \o <<"pace">>
           twice == Dispatching \o <<"pace", "pace">>
           pace == <<"pace">>
           request == <<"request">>
<1>1. /\ once \in Seq(UISteps) /\ "pace" \in ToSet(once)
      /\ twice \in Seq(UISteps) /\ "pace" \in ToSet(twice)
      /\ pace \in Seq(UISteps) /\ "pace" \in ToSet(pace)
      /\ <<>> \in Seq(UISteps) /\ request \in Seq(UISteps)
  <2>1. pace \in Seq(UISteps) /\ ToSet(pace) = {"pace"} /\ request \in Seq(UISteps)
    BY DEF UISteps, UITasks, ToSet
  <2> QED
    BY <2>1, LongerSteps
<1>2. CASE DispatchPacket
  <2>1. Now("packet") /\ (Continue(once) \/ Continue(twice) \/ Continue(pace))
    BY <1>2 DEF DispatchPacket
  <2>2. NothingLost'
    BY <1>2 DEF DispatchPacket, PaceInv, NothingLost
  <2> HIDE DEF once, twice, pace
  <2>3. "pace" \in ToSet(ui')
    BY <1>1, <2>1, StepsLeft
  <2> QED
    BY <2>2, <2>3 DEF PaceInv, PaceIsComing
<1>3. CASE Pace
  <2>1. NothingLost'
    BY <1>3 DEF Pace, PaceInv, NothingLost
  <2>2. Now("paced") /\ (pacing' => Continue(once))
    BY <1>3 DEF Pace
  <2> HIDE DEF once
  <2>3. pacing' => "pace" \in ToSet(ui')
    BY <1>1, <2>2, StepsLeft
  <2> QED
    BY <2>1, <2>3 DEF PaceInv, PaceIsComing
<1>4. CASE ScheduleSecondaryCallback
  <2>1. PICK id \in {"pace", "trace"} : Now(id) /\ secondary' = secondary \cup {id}
    BY <1>4 DEF ScheduleSecondaryCallback
  <2>2. UNCHANGED <<vsync, pacing, uiQueue>> /\ (Continue(<<>>) \/ Continue(request))
    BY <1>4 DEF ScheduleSecondaryCallback, pointerVars
  <2>3. NothingLost'
    BY <2>2 DEF PaceInv, NothingLost
  <2> HIDE DEF request
  <2>4. ToSet(ui) \ {id} \subseteq ToSet(ui')
    BY <1>1, <2>1, <2>2, StepsLeft
  <2> QED
    BY <2>1, <2>2, <2>3, <2>4 DEF PaceInv, PaceIsComing
<1> QED
  BY <1>2, <1>3, <1>4

\* The steps that are not the UI thread's, and the start of a task.
LEMMA QueuesKeepPace ==
  ASSUME QueueTypes, PaceInv, RunTask \/ External \/ FireCallback
  PROVE  PaceInv'
<1>1. uiQueue \in Seq(UITasks) /\ ui \in Seq(UISteps)
  BY DEF QueueTypes
<1>2. vsync \in [step : {"idle", "pause", "post", "secondary"}, callback : BOOLEAN,
                 secondary : SUBSET {"pace", "trace"}]
  BY DEF QueueTypes
<1>3. CASE RunTask
  <2>1. ui = <<>> /\ UNCHANGED <<pacing, secondary, vsync>>
    BY <1>3 DEF RunTask, pointerVars, waiterVars
  <2>2. PICK i \in DOMAIN uiQueue : ui' = Steps(uiQueue[i]) /\ uiQueue' = RemoveAt(uiQueue, i)
    BY <1>3 DEF RunTask
  <2>3. i \in 1 .. Len(uiQueue)
    BY <1>1, <2>2
  <2>4. ToSet(uiQueue) = ToSet(uiQueue') \cup {uiQueue[i]}
    BY <1>1, <2>2, <2>3, TasksRemove
  <2>5. ToSet(ui) = {}
    BY <2>1 DEF ToSet
  <2>6. uiQueue[i] = "paced" => "paced" \in ToSet(ui')
    <3>1. ASSUME uiQueue[i] = "paced"
          PROVE  ui' = <<"paced">>
      BY <2>2, <3>1 DEF Steps
    <3> QED
      BY <3>1 DEF ToSet
  <2>7. NothingLost'
    BY <2>1 DEF PaceInv, NothingLost
  <2> QED
    BY <2>1, <2>4, <2>5, <2>6, <2>7 DEF PaceInv, PaceIsComing
<1>4. CASE External
  <2>1. PICK task \in Sources : uiQueue' = Append(uiQueue, task)
    BY <1>4 DEF External
  <2>2. task \in UITasks
    BY SchedulingAssumption DEF Events, UITasks
  <2>3. UNCHANGED <<pacing, secondary, vsync, ui>>
    BY <1>4 DEF External, pointerVars, waiterVars
  <2>4. NothingLost'
    BY <2>3 DEF PaceInv, NothingLost
  <2> QED
    BY <1>1, <2>1, <2>2, <2>3, <2>4, TasksAppend, PaceKept
<1>5. CASE TakeCallbacks
  <2>1. /\ vsync.step = "idle" /\ vsync'.secondary = secondary
        /\ vsync'.step \in {"pause", "secondary"}
        /\ UNCHANGED <<uiQueue, ui, pacing>>
    BY <1>5 DEF TakeCallbacks, pointerVars
  <2>2. vsync.secondary = {} /\ NothingLost'
    BY <2>1 DEF PaceInv, NothingLost
  <2> QED
    BY <2>1, <2>2, PaceKept
<1>6. CASE PauseDartEventLoopTasks \/ PostVsync
  <2>1. /\ vsync'.secondary = vsync.secondary /\ vsync'.step \in {"post", "secondary"}
        /\ UNCHANGED <<ui, pacing, secondary>>
    BY <1>2, <1>6 DEF PauseDartEventLoopTasks, PostVsync, pointerVars, waiterVars
  <2>2. ToSet(uiQueue) \subseteq ToSet(uiQueue')
    <3>1. UNCHANGED uiQueue \/ uiQueue' = Append(uiQueue, "vsync")
      BY <1>6 DEF PauseDartEventLoopTasks, PostVsync
    <3>2. "vsync" \in UITasks
      BY DEF UITasks
    <3>3. CASE UNCHANGED uiQueue
      BY <3>3
    <3>4. CASE uiQueue' = Append(uiQueue, "vsync")
      BY <1>1, <3>2, <3>4, TasksAppend
    <3> QED
      BY <3>1, <3>3, <3>4
  <2>3. NothingLost'
    BY <2>1 DEF NothingLost
  <2> QED
    BY <2>1, <2>2, <2>3, PaceKept
<1>7. CASE PostSecondary
  <2>1. vsync.step = "secondary" /\ UNCHANGED <<ui, pacing, secondary>>
    BY <1>7 DEF PostSecondary, pointerVars, waiterVars
  <2>2. CASE vsync.secondary = {}
    <3>1. vsync' = NotFiring /\ UNCHANGED uiQueue
      BY <1>7, <2>2 DEF PostSecondary
    <3>2. NothingLost'
      BY <3>1 DEF NothingLost, NotFiring
    <3> QED
      BY <2>1, <2>2, <3>1, <3>2, PaceKept
  <2>3. CASE vsync.secondary # {}
    <3>1. PICK id \in vsync.secondary :
            uiQueue' = Append(uiQueue, Fired(id)) /\ vsync' = [vsync EXCEPT !.secondary = @ \ {id}]
      BY <1>7, <2>3 DEF PostSecondary
    <3>2. vsync'.secondary = vsync.secondary \ {id} /\ vsync'.step = "secondary"
      BY <1>2, <2>1, <3>1
    <3>3. Fired(id) \in UITasks /\ (id = "pace" => Fired(id) = "paced")
      BY DEF Fired, UITasks
    <3>4. ToSet(uiQueue') = ToSet(uiQueue) \cup {Fired(id)}
      BY <1>1, <3>1, <3>3, TasksAppend
    <3>5. NothingLost'
      BY <3>2 DEF NothingLost
    <3> QED
      BY <2>1, <3>2, <3>3, <3>4, <3>5 DEF PaceInv, PaceIsComing
  <2> QED
    BY <2>2, <2>3
<1> QED
  BY <1>3, <1>4, <1>5, <1>6, <1>7 DEF FireCallback

\* SmoothPointerDataDispatcher never holds a packet back without a secondary
\* callback on its way that will look at it: scheduled, taken by the vsync
\* thread, posted or running.
THEOREM AlwaysPaceIsComing == Spec => []PaceIsComing
<1>1. Init => PaceInv
  BY DEF Init, NotFiring, PaceInv, NothingLost, PaceIsComing
<1>2. ASSUME RequestInv, RequestInv', PaceInv, [Next]_vars
      PROVE  PaceInv'
  <2>1. QueueTypes /\ QueueTypes'
    BY <1>2 DEF RequestInv
  <2>2. CASE Raster \/ UNCHANGED vars
    <3>1. UNCHANGED othersThanRaster
      BY <2>2 DEF Raster, RedrawLast, StartDraw, DrawNothing, TakeFrame, DrawFrame, Resubmit,
                  CommitResubmitted, SignalResubmitted, EndDraw, vars, othersThanRaster
    <3>2. UNCHANGED <<uiQueue, ui, secondary, vsync, pacing>>
      BY <3>1 DEF othersThanRaster, waiterVars, pointerVars
    <3> QED
      BY <1>2, <3>2 DEF PaceInv, NothingLost, PaceIsComing
  <2> QED
    BY <1>2, <2>1, <2>2, OtherStepsKeepPace, DispatcherKeepsPace, QueuesKeepPace
       DEF Next, UI
<1>3. PaceInv => PaceIsComing
  BY DEF PaceInv
<1> QED
  BY <1>1, <1>2, <1>3, AlwaysRequestInv, PTL DEF Spec

-----------------------------------------------------------------------------
(* Frames that are queued are drawn. *)

\* A Draw is posted, or is about to be.
Notified == "draw" \in ToSet(rasterQueue) \/ "notify" \in ToSet(ui)

\* The result of a Draw by the step it is in.
ResultAt ==
  /\ consumer.step \in {"idle", "taken", "using"} => result = "none"
  /\ consumer.step = "requeue" => result = "resubmit"
  /\ consumer.step = "requeued" => result = "requeued"

\* What is queued behind the frame that is drawn was counted when it was taken, or
\* came when the queue was empty.
Followed ==
  consumer.step \in {"using", "done", "requeue"} /\ result # "requeued" /\ queue # <<>>
    => consumer.count > 0 \/ Notified

\* The invariant of the Draws: what DrawIsComing is at every step of one.
FollowInv ==
  /\ rasterQueue \in Seq({"draw", "last"})
  /\ ResultAt /\ Followed /\ StrandedOnlyIfOvertaken

\* Of the UI and the vsync thread's steps only EndFrame touches the queue; none the
\* consumer or the Draw.
LEMMA OnlyEndFrameQueues ==
  ASSUME External \/ (UI /\ ~EndFrame) \/ Dart \/ FireCallback
  PROVE  UNCHANGED <<queue, consumer, result, overtaken, last, shown, built>>
<1>1. CASE Dart \/ External \/ FireCallback
  BY <1>1 DEF Dart, DartRequestsFrame, DartRenders, DartEndsWarmUpFrame, DartReturns,
              External, FireCallback, TakeCallbacks, PauseDartEventLoopTasks, PostVsync,
              PostSecondary, rasterVars, pipeVars, animatorVars
<1>2. CASE BeginFrame \/ SignalFrame
  BY <1>2 DEF BeginFrame, SignalFrame, Produce, SignalCommitted, rasterVars, pipeVars, animatorVars
<1>3. CASE RunTask \/ TextureAvailable \/ AsyncWaitForVsync \/ ScheduleSecondaryCallback
           \/ AwaitVSync \/ PipelineFull \/ EndFrameEmpty
  BY <1>3 DEF RunTask, TextureAvailable, AsyncWaitForVsync, ScheduleSecondaryCallback,
              AwaitVSync, PipelineFull, EndFrameEmpty, rasterVars, pipeVars, animatorVars
<1>4. CASE ResumeDartEventLoopTasks \/ DispatchPacket \/ Pace \/ ClearTraceFlows
           \/ DrawLastLayerTrees \/ OnAnimatorDraw
  BY <1>4 DEF ResumeDartEventLoopTasks, DispatchPacket, Pace, ClearTraceFlows,
              DrawLastLayerTrees, OnAnimatorDraw, rasterVars, pipeVars, animatorVars
<1> QED
  BY <1>1, <1>2, <1>3, <1>4 DEF UI

\* Steps that leave the pipeline's queue, its consumer and the Draw alone.
LEMMA FollowKept ==
  ASSUME FollowInv, UNCHANGED <<queue, consumer, result, overtaken>>, Notified => Notified',
         rasterQueue' \in Seq({"draw", "last"})
  PROVE  FollowInv'
<1>1. ResultAt' /\ Followed'
  BY DEF FollowInv, ResultAt, Followed
<1>2. DrawIsComing => DrawIsComing'
  BY DEF DrawIsComing, MoreAvailable, At, Notified
<1>3. StrandedOnlyIfOvertaken'
  BY <1>2 DEF FollowInv, StrandedOnlyIfOvertaken
<1> QED
  BY <1>1, <1>3 DEF FollowInv

\* A redraw or a Draw that is posted.
LEMMA RasterPosts ==
  ASSUME rasterQueue \in Seq({"draw", "last"}), NEW task \in {"draw", "last"},
         rasterQueue' = Append(rasterQueue, task)
  PROVE  /\ rasterQueue' \in Seq({"draw", "last"})
         /\ "draw" \in ToSet(rasterQueue) => "draw" \in ToSet(rasterQueue')
         /\ task \in ToSet(rasterQueue')
<1>1. ToSet(rasterQueue') = ToSet(rasterQueue) \cup {task}
  BY TasksAppend
<1> QED
  BY <1>1

\* The UI and the vsync thread: a frame is committed with its notification, unless
\* others are queued before it.
LEMMA ThreadsKeepFollow ==
  ASSUME QueueTypes, PipeInv, FollowInv, External \/ UI \/ Dart \/ FireCallback
  PROVE  FollowInv'
<1> DEFINE begin == <<"dart", "endFrame">>
           frame == <<"endFrame", "dart">>
           notify == <<"signal", "notify">>
           once == Dispatching \o <<"pace">>
           twice == Dispatching \o <<"pace", "pace">>
           signal == <<"signal">>
           dart == <<"dart">>
           pace == <<"pace">>
           request == <<"request">>
<1>1. rasterQueue \in Seq({"draw", "last"})
  BY DEF FollowInv
<1>2. ASSUME NEW step, Now(step), step # "notify",
             NEW steps \in Seq(UISteps), Continue(steps)
      PROVE  "notify" \in ToSet(ui) => "notify" \in ToSet(ui')
  BY <1>2, StepsLeft
<1>3. /\ <<>> \in Seq(UISteps) /\ begin \in Seq(UISteps) /\ frame \in Seq(UISteps)
      /\ notify \in Seq(UISteps) /\ "notify" \in ToSet(notify)
      /\ signal \in Seq(UISteps) /\ dart \in Seq(UISteps) /\ pace \in Seq(UISteps)
      /\ once \in Seq(UISteps) /\ twice \in Seq(UISteps) /\ request \in Seq(UISteps)
  BY LongerSteps DEF UISteps, UITasks
<1>4. ~EndFrame => UNCHANGED <<queue, consumer, result, overtaken>>
  BY OnlyEndFrameQueues
<1>5. CASE (External \/ FireCallback) /\ ~EndFrame
  <2>1. UNCHANGED <<ui, rasterQueue>>
    BY <1>5 DEF External, FireCallback, TakeCallbacks, PauseDartEventLoopTasks, PostVsync,
                PostSecondary
  <2> QED
    BY <1>1, <1>4, <1>5, <2>1, FollowKept DEF Notified
<1>6. CASE RunTask /\ ~EndFrame
  <2>1. ui = <<>> /\ UNCHANGED rasterQueue
    BY <1>6 DEF RunTask
  <2>2. "notify" \notin ToSet(ui)
    BY <2>1 DEF ToSet
  <2> QED
    BY <1>1, <1>4, <1>6, <2>1, <2>2, FollowKept DEF Notified
<1>7. CASE (\/ Dart \/ TextureAvailable \/ AsyncWaitForVsync \/ ScheduleSecondaryCallback
            \/ AwaitVSync \/ BeginFrame \/ PipelineFull \/ EndFrameEmpty \/ SignalFrame
            \/ ResumeDartEventLoopTasks \/ DispatchPacket \/ Pace \/ ClearTraceFlows)
           /\ ~EndFrame
  <2>1. UNCHANGED rasterQueue
    BY <1>7 DEF Dart, DartRequestsFrame, DartRenders, DartEndsWarmUpFrame, DartReturns,
                BeginFrame, SignalFrame, TextureAvailable, AsyncWaitForVsync,
                ScheduleSecondaryCallback, AwaitVSync, PipelineFull, EndFrameEmpty,
                ResumeDartEventLoopTasks, DispatchPacket, Pace, ClearTraceFlows
  <2>2. \/ UNCHANGED ui
        \/ /\ \E step \in UISteps \ {"notify"} : Now(step)
           /\ \/ Continue(<<>>) \/ Continue(begin) \/ Continue(frame) \/ Continue(once)
              \/ Continue(twice) \/ Continue(dart) \/ Continue(pace) \/ Continue(request)
    <3>1. CASE Dart
      BY <3>1 DEF Dart, DartRequestsFrame, DartRenders, DartEndsWarmUpFrame, DartReturns,
                  UISteps, UITasks
    <3>2. CASE BeginFrame \/ SignalFrame
      BY <3>2 DEF BeginFrame, SignalFrame, UISteps, UITasks
    <3>3. CASE TextureAvailable \/ AsyncWaitForVsync \/ ScheduleSecondaryCallback
               \/ AwaitVSync \/ PipelineFull \/ EndFrameEmpty
      BY <3>3 DEF TextureAvailable, AsyncWaitForVsync, ScheduleSecondaryCallback, AwaitVSync,
                  PipelineFull, EndFrameEmpty, UISteps, UITasks
    <3>4. CASE ResumeDartEventLoopTasks \/ DispatchPacket \/ Pace \/ ClearTraceFlows
      BY <3>4 DEF ResumeDartEventLoopTasks, DispatchPacket, Pace, ClearTraceFlows,
                  UISteps, UITasks
    <3> QED
      BY <1>7, <3>1, <3>2, <3>3, <3>4
  <2> HIDE DEF begin, frame, once, twice, dart, pace, request
  <2>3. "notify" \in ToSet(ui) => "notify" \in ToSet(ui')
    BY <1>2, <1>3, <2>2
  <2> QED
    BY <1>1, <1>4, <1>7, <2>1, <2>3, FollowKept DEF Notified
<1>8. CASE DrawLastLayerTrees /\ ~EndFrame
  <2>1. /\ rasterQueue' = Append(rasterQueue, "last")
        /\ Now("vsync") /\ Continue(<<>>)
    BY <1>8 DEF DrawLastLayerTrees, rasterVars, pipeVars
  <2>2. "notify" \in ToSet(ui) => "notify" \in ToSet(ui')
    BY <1>2, <1>3, <2>1
  <2> QED
    BY <1>1, <1>4, <1>8, <2>1, <2>2, RasterPosts, FollowKept DEF Notified
<1>9. CASE OnAnimatorDraw /\ ~EndFrame
  <2>1. rasterQueue' = Append(rasterQueue, "draw")
    BY <1>9 DEF OnAnimatorDraw, rasterVars, pipeVars
  <2> QED
    BY <1>1, <1>4, <1>9, <2>1, RasterPosts, FollowKept DEF Notified
<1>10. CASE EndFrame
  <2>1. /\ UNCHANGED <<consumer, result, overtaken, rasterQueue>>
        /\ Now("endFrame")
        /\ Continue(IF queue = <<>> THEN notify ELSE signal)
    BY <1>10 DEF EndFrame, Commit, rasterVars
  <2> HIDE DEF notify, signal
  <2>2. queue = <<>> => Notified'
    BY <1>3, <2>1, StepsLeft DEF Notified
  <2>3. "notify" \in ToSet(ui) => "notify" \in ToSet(ui')
    BY <1>2, <1>3, <2>1
  <2>4. Notified => Notified'
    BY <2>1, <2>3 DEF Notified
  <2>5. ResultAt'
    BY <2>1 DEF FollowInv, ResultAt
  <2>6. Followed'
    BY <2>1, <2>2, <2>4 DEF FollowInv, Followed
  <2>7. DrawIsComing \/ queue = <<>> => DrawIsComing'
    BY <2>1, <2>2, <2>4 DEF DrawIsComing, MoreAvailable, At, Notified
  <2>8. StrandedOnlyIfOvertaken'
    BY <2>1, <2>7 DEF FollowInv, StrandedOnlyIfOvertaken
  <2> QED
    BY <1>1, <2>1, <2>5, <2>6, <2>8 DEF FollowInv
<1> QED
  BY <1>5, <1>6, <1>7, <1>8, <1>9, <1>10 DEF UI

\* The raster thread: a Draw is posted again when it leaves frames behind.
LEMMA RasterKeepsFollow ==
  ASSUME PipeInv, FollowInv, Raster
  PROVE  FollowInv'
<1>1. rasterQueue \in Seq({"draw", "last"}) /\ ResultAt /\ Followed /\ StrandedOnlyIfOvertaken
  BY DEF FollowInv
<1>2. consumer \in [step : {"idle", "taken", "using", "done", "requeue", "requeued"},
                    item : Frames \cup {NoFrame}, count : 0 .. Depth]
  BY DEF PipeInv, PipeTypeOK
<1>3. queue \in Seq(Frames) /\ Len(queue) \in Nat
  BY PipeTypes
<1>4. UNCHANGED ui
  BY DEF Raster, RedrawLast, StartDraw, DrawNothing, TakeFrame, DrawFrame, Resubmit,
         CommitResubmitted, SignalResubmitted, EndDraw, othersThanRaster
<1>5. ASSUME NEW task \in {"draw", "last"}, NextRasterTask(task)
      PROVE  /\ rasterQueue' \in Seq({"draw", "last"}) /\ consumer.step = "idle"
             /\ task = "last" => (Notified => Notified')
  <2>1. /\ rasterQueue # <<>> /\ Head(rasterQueue) = task /\ rasterQueue' = Tail(rasterQueue)
        /\ consumer.step = "idle"
    BY <1>5 DEF NextRasterTask, At
  <2>2. ToSet(rasterQueue) = ToSet(Tail(rasterQueue)) \cup {task}
    BY <1>1, <2>1, TasksTail
  <2>3. rasterQueue' \in Seq({"draw", "last"})
    BY <1>1, <2>1
  <2> QED
    BY <1>4, <2>1, <2>2, <2>3 DEF Notified
<1>6. CASE RedrawLast
  <2>1. NextRasterTask("last") /\ UNCHANGED <<queue, consumer, result, overtaken>>
    BY <1>6 DEF RedrawLast, pipeVars
  <2> QED
    BY <1>5, <2>1, FollowKept
<1>7. CASE StartDraw
  <2>1. /\ NextRasterTask("draw") /\ consumer' = [consumer EXCEPT !.step = "taken"]
        /\ UNCHANGED <<queue, result>>
    BY <1>7 DEF StartDraw, TryConsume, Goto
  <2>2. consumer'.step = "taken" /\ consumer.step = "idle"
    BY <1>2, <1>5, <2>1
  <2>3. rasterQueue' \in Seq({"draw", "last"})
    BY <1>5, <2>1
  <2> QED
    BY <1>1, <2>1, <2>2, <2>3
       DEF FollowInv, ResultAt, Followed, StrandedOnlyIfOvertaken, DrawIsComing
<1>8. CASE DrawNothing
  <2>1. /\ NextRasterTask("draw") /\ overtaken' = (overtaken \/ queue # <<>>)
        /\ UNCHANGED <<queue, consumer, result>>
    BY <1>8 DEF DrawNothing, pipeVars
  <2>2. rasterQueue' \in Seq({"draw", "last"}) /\ consumer.step = "idle"
    BY <1>5, <2>1
  <2> QED
    BY <1>1, <2>1, <2>2 DEF FollowInv, ResultAt, Followed, StrandedOnlyIfOvertaken
<1>9. CASE TakeFrame
  <2>1. /\ consumer.step = "taken" /\ queue # <<>> /\ queue' = Tail(queue)
        /\ consumer' = [step |-> "using", item |-> Head(queue), count |-> Len(queue) - 1]
        /\ UNCHANGED <<rasterQueue, result, overtaken>>
    BY <1>9, PopKeeps DEF TakeFrame, Pop, At, rasterVars
  <2>2. Len(queue') = Len(queue) - 1 /\ Len(queue') \in Nat /\ queue' \in Seq(Frames)
    BY <1>3, <2>1
  <2>3. queue' # <<>> => Len(queue') > 0
    BY <2>2
  <2>4. consumer'.step = "using" /\ consumer'.count = Len(queue')
    BY <2>1, <2>2
  <2>5. result' = "none" /\ result = "none"
    BY <1>1, <2>1 DEF ResultAt
  <2>6. Followed' /\ ResultAt'
    BY <2>3, <2>4, <2>5 DEF Followed, ResultAt
  <2>7. StrandedOnlyIfOvertaken'
    BY <2>3, <2>4, <2>5 DEF StrandedOnlyIfOvertaken, DrawIsComing, MoreAvailable, At
  <2> QED
    BY <1>1, <2>1, <2>6, <2>7 DEF FollowInv
<1>10. CASE DrawFrame \/ Resubmit \/ (CommitResubmitted /\ BailIfNotEmpty)
  <2>1. /\ consumer'.step \in {"done", "requeue"} /\ consumer'.count = consumer.count
        /\ consumer.step \in {"using", "done", "requeue"}
        /\ result # "requeued"
        /\ result' \in {"drawn", "unmerged", "resubmit", "dropped", "failed"}
        /\ consumer'.step = "requeue" => result' = "resubmit"
        /\ UNCHANGED <<queue, rasterQueue, overtaken>>
    <3>1. CASE DrawFrame
      BY <1>1, <1>2, <3>1 DEF DrawFrame, Release, At, Goto, ResultAt
    <3>2. CASE Resubmit
      BY <1>1, <1>2, <3>2 DEF Resubmit, ProduceIfEmpty, At, Goto, ResultAt, pipeVars
    <3>3. CASE CommitResubmitted /\ BailIfNotEmpty
      <4>1. /\ consumer.step = "requeue" /\ consumer' = [consumer EXCEPT !.step = "done"]
            /\ queue # <<>> /\ UNCHANGED queue
        BY <3>3 DEF BailIfNotEmpty, At, Goto
      <4>2. result' = "dropped" /\ UNCHANGED <<rasterQueue, overtaken>>
        BY <3>3, <4>1 DEF CommitResubmitted, CommitIfEmpty
      <4> QED
        BY <1>1, <1>2, <4>1, <4>2 DEF ResultAt
    <3> QED
      BY <1>10, <3>1, <3>2, <3>3
  <2>2. queue' # <<>> => consumer'.count > 0 \/ Notified'
    BY <1>1, <1>4, <2>1 DEF Followed, Notified
  <2>3. ResultAt' /\ Followed'
    BY <2>1, <2>2 DEF ResultAt, Followed
  <2>4. StrandedOnlyIfOvertaken'
    BY <2>1, <2>2 DEF StrandedOnlyIfOvertaken, DrawIsComing, MoreAvailable, At, Notified
  <2> QED
    BY <1>1, <2>1, <2>3, <2>4 DEF FollowInv
<1>11. CASE CommitResubmitted /\ CommitIfEmpty
  <2>1. /\ consumer' = [consumer EXCEPT !.step = "requeued"] /\ queue = <<>>
        /\ UNCHANGED <<rasterQueue, overtaken>>
    BY <1>11 DEF CommitResubmitted, CommitIfEmpty, Goto
  <2>2. result' = "requeued"
    BY <1>11, <2>1 DEF CommitResubmitted, BailIfNotEmpty
  <2>3. consumer'.step = "requeued"
    BY <1>2, <2>1
  <2> QED
    BY <1>1, <2>1, <2>2, <2>3
       DEF FollowInv, ResultAt, Followed, StrandedOnlyIfOvertaken, DrawIsComing
<1>12. CASE SignalResubmitted
  <2>1. /\ consumer.step = "requeued" /\ consumer' = [consumer EXCEPT !.step = "done"]
        /\ UNCHANGED <<queue, rasterQueue, result, overtaken>>
    BY <1>12 DEF SignalResubmitted, SignalRequeued, At, Goto, rasterVars
  <2>2. consumer'.step = "done" /\ result' = "requeued"
    BY <1>1, <1>2, <2>1 DEF ResultAt
  <2> QED
    BY <1>1, <2>1, <2>2
       DEF FollowInv, ResultAt, Followed, StrandedOnlyIfOvertaken, DrawIsComing, MoreAvailable, At
<1>13. CASE EndDraw
  <2>1. /\ result # "resubmit" /\ consumer.step = "done" /\ consumer' = Idle
        /\ rasterQueue' = (IF MoreAvailable THEN Append(rasterQueue, "draw") ELSE rasterQueue)
        /\ result' = "none" /\ UNCHANGED <<queue, overtaken>>
    BY <1>13 DEF EndDraw, Return, At
  <2>2. consumer'.step = "idle"
    BY <2>1 DEF Idle
  <2>3. rasterQueue' \in Seq({"draw", "last"}) /\ (MoreAvailable => "draw" \in ToSet(rasterQueue'))
    <3>1. CASE MoreAvailable
      BY <1>1, <2>1, <3>1, RasterPosts
    <3>2. CASE ~MoreAvailable
      BY <1>1, <2>1, <3>2
    <3> QED
      BY <3>1, <3>2
  <2>4. ResultAt' /\ Followed'
    BY <2>1, <2>2 DEF ResultAt, Followed
  <2>5. queue # <<>> /\ ~MoreAvailable => Notified'
    BY <1>1, <1>4, <2>1 DEF Followed, MoreAvailable, Notified
  <2>6. StrandedOnlyIfOvertaken'
    BY <2>1, <2>3, <2>5 DEF StrandedOnlyIfOvertaken, DrawIsComing, Notified
  <2> QED
    BY <2>3, <2>4, <2>6 DEF FollowInv
<1> QED
  BY <1>6, <1>7, <1>8, <1>9, <1>10, <1>11, <1>12, <1>13 DEF Raster, CommitResubmitted

\* The invariant of the Draws always holds.
LEMMA AlwaysFollowInv == Spec => []FollowInv
<1>1. Init => FollowInv
  <2> SUFFICES ASSUME Init PROVE FollowInv
    OBVIOUS
  <2>1. consumer = Idle /\ queue = <<>> /\ result = "none" /\ rasterQueue = <<>>
    BY DEF Init, PipeInit
  <2>2. consumer.step = "idle"
    BY <2>1 DEF Idle
  <2>3. rasterQueue \in Seq({"draw", "last"})
    BY <2>1
  <2> QED
    BY <2>1, <2>2, <2>3 DEF FollowInv, ResultAt, Followed, StrandedOnlyIfOvertaken
<1>2. ASSUME PipeInv, RequestInv, FollowInv, [Next]_vars
      PROVE  FollowInv'
  <2>1. CASE UNCHANGED vars
    <3>1. UNCHANGED <<queue, consumer, result, overtaken, rasterQueue, ui>>
      BY <2>1 DEF vars, pipeVars, rasterVars
    <3> QED
      BY <1>2, <3>1, FollowKept DEF Notified, FollowInv
  <2> QED
    BY <1>2, <2>1, ThreadsKeepFollow, RasterKeepsFollow DEF Next, RequestInv
<1> QED
  BY <1>1, <1>2, AlwaysPipeInv, AlwaysRequestInv, PTL DEF Spec

\* A queued frame without a Draw to come is the work of one race only: the Draw
\* that ran between push and signal of a producer.
THEOREM AlwaysStrandedOnlyIfOvertaken == Spec => []StrandedOnlyIfOvertaken
<1>1. FollowInv => StrandedOnlyIfOvertaken
  BY DEF FollowInv
<1> QED
  BY <1>1, AlwaysFollowInv, PTL

\* In a pipeline of two slots or more Rasterizer gives a frame up that it was to draw
\* again only for a newer one that is queued.
THEOREM AlwaysDroppedForNewer ==
  ASSUME Depth >= 2
  PROVE  Spec => []DroppedForNewer
<1>1. Init => DroppedForNewer
  BY DEF Init, DroppedForNewer
<1>2. ASSUME PipeInv, FollowInv, DroppedForNewer, [Next]_vars
      PROVE  DroppedForNewer'
  <2>1. /\ empty \in Nat /\ queue \in Seq(Frames) /\ Len(queue) \in Nat /\ Depth \in Nat
    BY <1>2, PipeTypes
  <2>2. SlotsAddUp /\ ResultAt
    BY <1>2 DEF PipeInv, FollowInv
  <2>3. CASE Resubmit /\ empty = 0 /\ consumer.step = "done"
    <3>1. Busy = 0 /\ Held \in 0 .. 1
      BY <2>3 DEF Busy, Held, One, At
    <3>2. Len(queue) >= 1
      BY <2>1, <2>2, <2>3, <3>1 DEF SlotsAddUp
    <3>3. queue # <<>>
      BY <2>1, <3>2
    <3>4. UNCHANGED queue
      BY <2>3 DEF Resubmit, ProduceIfEmpty, pipeVars
    <3> QED
      BY <3>3, <3>4 DEF DroppedForNewer
  <2>4. CASE Resubmit /\ ~(empty = 0 /\ consumer.step = "done")
    <3>1. UNCHANGED <<queue, result>>
      BY <2>4 DEF Resubmit, ProduceIfEmpty, At
    <3> QED
      BY <1>2, <3>1 DEF DroppedForNewer
  <2>5. CASE CommitResubmitted
    BY <2>5 DEF CommitResubmitted, CommitIfEmpty, BailIfNotEmpty, DroppedForNewer
  <2>6. CASE TakeFrame
    BY <2>2, <2>6 DEF TakeFrame, Pop, At, ResultAt, rasterVars, DroppedForNewer
  <2>7. CASE EndFrame
    <3>1. queue' # <<>> \/ UNCHANGED <<queue, result>>
      <4>1. queue' = Append(queue, built + 1)
        BY <2>7 DEF EndFrame, Commit
      <4> QED
        BY <2>1, <4>1
    <3> QED
      BY <1>2, <3>1 DEF DroppedForNewer
  <2>8. CASE DrawFrame \/ EndDraw
    BY <2>8 DEF DrawFrame, EndDraw, DroppedForNewer
  <2>9. CASE RedrawLast \/ StartDraw \/ DrawNothing \/ SignalResubmitted \/ UNCHANGED vars
    <3>1. UNCHANGED <<queue, result>>
      BY <2>9 DEF RedrawLast, StartDraw, DrawNothing, SignalResubmitted, TryConsume,
                  SignalRequeued, rasterVars, pipeVars, vars
    <3> QED
      BY <1>2, <3>1 DEF DroppedForNewer
  <2>10. CASE (UI /\ ~EndFrame) \/ Dart \/ External \/ FireCallback
    <3>1. UNCHANGED <<queue, result>>
      BY <2>10, OnlyEndFrameQueues
    <3> QED
      BY <1>2, <3>1 DEF DroppedForNewer
  <2> QED
    BY <1>2, <2>3, <2>4, <2>5, <2>6, <2>7, <2>8, <2>9, <2>10 DEF Next, Raster
<1> QED
  BY <1>1, <1>2, AlwaysPipeInv, AlwaysFollowInv, PTL DEF Spec

-----------------------------------------------------------------------------
(* Frames are drawn in the order they were built. *)

\* The screen, the frame that is drawn, the queue and the frames built, oldest first.
Sorted == \A i, j \in DOMAIN queue : i < j => queue[i] <= queue[j]
ShownFirst == shown <= built /\ \A i \in DOMAIN queue : shown <= queue[i] /\ queue[i] <= built
ItemNext ==
  consumer.step \in {"using", "done", "requeue", "requeued"} =>
    /\ shown <= consumer.item /\ consumer.item <= built
    /\ \A i \in DOMAIN queue : consumer.item <= queue[i]

\* The invariant of the frames' numbers.
OrderInv ==
  /\ shown \in Nat
  /\ last # NoFrame => last = shown
  /\ Sorted /\ ShownFirst /\ ItemNext

\* The next frame built goes behind all others.
LEMMA EndFrameKeepsOrder ==
  ASSUME PipeInv, RenderInv, OrderInv, EndFrame
  PROVE  OrderInv' /\ UNCHANGED shown
<1>1. /\ queue' = Append(queue, built + 1) /\ built' = built + 1
      /\ UNCHANGED <<consumer, last, shown>>
  BY DEF EndFrame, Commit, rasterVars
<1>2. /\ queue \in Seq(Frames) /\ Len(queue) \in Nat /\ built \in Nat /\ shown \in Nat
      /\ \A i \in DOMAIN queue : queue[i] \in Nat
  BY PipeTypes, PipelineAssumption DEF RenderInv, OrderInv, Frames
<1>3. /\ DOMAIN queue = 1 .. Len(queue) /\ DOMAIN queue' = 1 .. Len(queue) + 1
      /\ queue'[Len(queue) + 1] = built + 1
      /\ \A i \in DOMAIN queue : queue'[i] = queue[i]
  BY <1>1, <1>2
<1>4. Sorted /\ ShownFirst /\ ItemNext
  BY DEF OrderInv
<1>5. \A i \in DOMAIN queue' : i \in DOMAIN queue \/ i = Len(queue) + 1
  BY <1>2, <1>3
<1>6. Sorted'
  <2>1. SUFFICES ASSUME NEW i \in DOMAIN queue', NEW j \in DOMAIN queue', i < j
                 PROVE  queue'[i] <= queue'[j]
    BY DEF Sorted
  <2>2. i \in DOMAIN queue
    BY <1>2, <1>3, <2>1
  <2>3. queue[i] <= built
    BY <1>4, <2>2 DEF ShownFirst
  <2>4. CASE j \in DOMAIN queue
    BY <1>3, <1>4, <2>1, <2>2, <2>4 DEF Sorted
  <2>5. CASE j = Len(queue) + 1
    BY <1>2, <1>3, <2>2, <2>3, <2>5
  <2> QED
    BY <1>5, <2>4, <2>5
<1>7. ShownFirst'
  <2>1. shown' <= built'
    BY <1>1, <1>2, <1>4 DEF ShownFirst
  <2>2. ASSUME NEW i \in DOMAIN queue'
        PROVE  shown' <= queue'[i] /\ queue'[i] <= built'
    <3>1. CASE i \in DOMAIN queue
      BY <1>1, <1>2, <1>3, <1>4, <3>1 DEF ShownFirst
    <3>2. CASE i = Len(queue) + 1
      BY <1>1, <1>2, <1>3, <1>4, <3>2 DEF ShownFirst
    <3> QED
      BY <1>5, <3>1, <3>2
  <2> QED
    BY <2>1, <2>2 DEF ShownFirst
<1>8. ItemNext'
  <2>1. SUFFICES ASSUME consumer.step \in {"using", "done", "requeue", "requeued"}
                 PROVE  /\ shown <= consumer.item /\ consumer.item <= built + 1
                        /\ \A i \in DOMAIN queue' : consumer.item <= queue'[i]
    BY <1>1 DEF ItemNext
  <2>2. consumer.item \in Nat
    BY <2>1, PipelineAssumption DEF PipeInv, ItemHeld, Frames
  <2>3. /\ shown <= consumer.item /\ consumer.item <= built
        /\ \A i \in DOMAIN queue : consumer.item <= queue[i]
    BY <1>4, <2>1 DEF ItemNext
  <2>4. consumer.item <= built + 1
    BY <1>2, <2>2, <2>3
  <2>5. ASSUME NEW i \in DOMAIN queue'
        PROVE  consumer.item <= queue'[i]
    <3>1. CASE i \in DOMAIN queue
      BY <1>3, <2>3, <3>1
    <3>2. CASE i = Len(queue) + 1
      BY <1>3, <2>4, <3>2
    <3> QED
      BY <1>5, <3>1, <3>2
  <2> QED
    BY <2>3, <2>4, <2>5
<1> QED
  BY <1>1, <1>2, <1>6, <1>7, <1>8 DEF OrderInv

\* The raster thread shows what it takes from the front of the queue, or the last
\* frame again.
LEMMA RasterKeepsOrder ==
  ASSUME PipeInv, RenderInv, OrderInv, Raster
  PROVE  OrderInv' /\ shown' >= shown
<1>1. /\ queue \in Seq(Frames) /\ Len(queue) \in Nat /\ built \in Nat /\ shown \in Nat
      /\ \A i \in DOMAIN queue : queue[i] \in Nat
  BY PipeTypes, PipelineAssumption DEF RenderInv, OrderInv, Frames
<1>2. consumer \in [step : {"idle", "taken", "using", "done", "requeue", "requeued"},
                    item : Frames \cup {NoFrame}, count : 0 .. Depth]
  BY DEF PipeInv, PipeTypeOK
<1>3. Sorted /\ ShownFirst /\ ItemNext /\ (last # NoFrame => last = shown)
  BY DEF OrderInv
<1>4. UNCHANGED built
  BY DEF Raster, RedrawLast, StartDraw, DrawNothing, TakeFrame, DrawFrame, Resubmit,
         CommitResubmitted, SignalResubmitted, EndDraw, othersThanRaster, animatorVars
<1>5. ASSUME UNCHANGED <<queue, shown>>, last' \in {last, NoFrame},
             consumer'.step \in {"idle", "taken"}
               \/ (/\ consumer.step \in {"using", "done", "requeue", "requeued"}
                   /\ consumer'.item = consumer.item)
      PROVE  OrderInv' /\ shown' >= shown
  BY <1>1, <1>3, <1>4, <1>5 DEF OrderInv, Sorted, ShownFirst, ItemNext
<1>6. CASE RedrawLast
  <2>1. UNCHANGED <<queue, consumer>> /\ consumer.step = "idle"
    BY <1>6 DEF RedrawLast, NextRasterTask, At, pipeVars
  <2>2. UNCHANGED shown /\ last' \in {last, NoFrame}
    BY <1>3, <1>6 DEF RedrawLast
  <2> QED
    BY <1>5, <2>1, <2>2
<1>7. CASE StartDraw \/ DrawNothing \/ EndDraw
  <2>1. UNCHANGED <<queue, shown, last>> /\ consumer'.step \in {"idle", "taken"}
    BY <1>2, <1>7 DEF StartDraw, DrawNothing, EndDraw, NextRasterTask, TryConsume, Return, At,
                      Goto, Idle, pipeVars
  <2> QED
    BY <1>5, <2>1
<1>8. CASE Resubmit \/ SignalResubmitted \/ (CommitResubmitted /\ BailIfNotEmpty)
  <2>1. UNCHANGED <<queue, shown, last>>
    BY <1>8 DEF Resubmit, SignalResubmitted, CommitResubmitted, BailIfNotEmpty, ProduceIfEmpty,
                SignalRequeued, rasterVars, pipeVars
  <2>2. consumer.step \in {"done", "requeue", "requeued"} /\ consumer'.item = consumer.item
    BY <1>2, <1>8 DEF Resubmit, SignalResubmitted, BailIfNotEmpty, ProduceIfEmpty,
                SignalRequeued, At, Goto, pipeVars
  <2> QED
    BY <1>5, <2>1, <2>2
<1>9. CASE CommitResubmitted /\ CommitIfEmpty
  <2>1. /\ consumer.step = "requeue" /\ consumer' = [consumer EXCEPT !.step = "requeued"]
        /\ queue' = <<consumer.item>> /\ UNCHANGED <<shown, last>>
    BY <1>9 DEF CommitResubmitted, CommitIfEmpty, At, Goto
  <2>2. consumer'.step = "requeued" /\ consumer'.item = consumer.item
    BY <1>2, <2>1
  <2>3. DOMAIN queue' = {1} /\ queue'[1] = consumer.item
    BY <2>1
  <2>4. consumer.item \in Nat /\ shown <= consumer.item /\ consumer.item <= built
    BY <1>3, <2>1, PipelineAssumption DEF ItemNext, PipeInv, ItemHeld, Frames
  <2>5. Sorted'
    BY <2>3 DEF Sorted
  <2>6. ShownFirst' /\ ItemNext'
    BY <1>1, <1>3, <1>4, <2>1, <2>2, <2>3, <2>4 DEF ShownFirst, ItemNext
  <2> QED
    BY <1>1, <1>3, <2>1, <2>5, <2>6 DEF OrderInv
<1>10. CASE TakeFrame
  <2>1. /\ queue # <<>> /\ queue' = Tail(queue) /\ UNCHANGED <<shown, last>>
        /\ consumer' = [step |-> "using", item |-> Head(queue), count |-> Len(queue) - 1]
    BY <1>10, PopKeeps DEF TakeFrame, Pop, rasterVars
  <2>2. Len(queue) >= 1 /\ DOMAIN queue = 1 .. Len(queue)
    BY <1>1, <2>1
  <2>3. /\ consumer'.item = queue[1] /\ DOMAIN queue' = 1 .. Len(queue) - 1
        /\ \A i \in DOMAIN queue' : i + 1 \in DOMAIN queue /\ queue'[i] = queue[i + 1]
    BY <1>1, <2>1, <2>2
  <2>4. Sorted'
    <3>1. SUFFICES ASSUME NEW i \in DOMAIN queue', NEW j \in DOMAIN queue', i < j
                   PROVE  queue[i + 1] <= queue[j + 1]
      BY <2>3 DEF Sorted
    <3>2. i + 1 \in DOMAIN queue /\ j + 1 \in DOMAIN queue /\ i + 1 < j + 1
      BY <1>1, <2>3, <3>1
    <3> QED
      BY <1>3, <3>2 DEF Sorted
  <2>5. ShownFirst'
    BY <1>3, <1>4, <2>1, <2>3 DEF ShownFirst
  <2>6. ItemNext'
    <3>1. 1 \in DOMAIN queue
      BY <1>1, <2>2
    <3>2. shown <= queue[1] /\ queue[1] <= built
      BY <1>3, <3>1 DEF ShownFirst
    <3>3. ASSUME NEW i \in DOMAIN queue'
          PROVE  queue[1] <= queue'[i]
      <4>1. i + 1 \in DOMAIN queue /\ 1 < i + 1 /\ queue'[i] = queue[i + 1]
        BY <1>1, <2>3
      <4> QED
        BY <1>3, <3>1, <4>1 DEF Sorted
    <3> QED
      BY <1>4, <2>1, <2>3, <3>2, <3>3 DEF ItemNext
  <2> QED
    BY <1>1, <1>3, <2>1, <2>4, <2>5, <2>6 DEF OrderInv
<1>11. CASE DrawFrame
  <2>1. /\ consumer.step = "using" /\ consumer' = [consumer EXCEPT !.step = "done"]
        /\ UNCHANGED queue
        /\ UNCHANGED <<last, shown>> \/ (last' = consumer.item /\ shown' = consumer.item)
    BY <1>11 DEF DrawFrame, Release, At, Goto
  <2>2. consumer'.item = consumer.item
    BY <1>2, <2>1
  <2>3. /\ consumer.item \in Nat /\ shown <= consumer.item /\ consumer.item <= built
        /\ \A i \in DOMAIN queue : consumer.item <= queue[i]
    BY <1>3, <2>1, PipelineAssumption DEF ItemNext, PipeInv, ItemHeld, Frames
  <2>4. CASE UNCHANGED <<last, shown>>
    BY <1>5, <2>1, <2>2, <2>4
  <2>5. CASE last' = consumer.item /\ shown' = consumer.item
    <3>1. Sorted'
      BY <1>3, <2>1 DEF Sorted
    <3>2. ShownFirst' /\ ItemNext'
      BY <1>1, <1>3, <1>4, <2>1, <2>2, <2>3, <2>5 DEF ShownFirst, ItemNext
    <3> QED
      BY <1>1, <2>3, <2>5, <3>1, <3>2 DEF OrderInv
  <2> QED
    BY <2>1, <2>4, <2>5
<1> QED
  BY <1>6, <1>7, <1>8, <1>9, <1>10, <1>11 DEF Raster, CommitResubmitted

\* The screen never goes back to an older frame: neither a frame put back into the
\* pipeline nor a redraw of the last one undoes a newer one.
THEOREM AlwaysDrawnInOrder == Spec => DrawnInOrder
<1>1. Init => OrderInv
  <2> SUFFICES ASSUME Init PROVE OrderInv
    OBVIOUS
  <2>1. queue = <<>> /\ consumer = Idle /\ last = 0 /\ shown = 0 /\ built = 0
    BY DEF Init, PipeInit, NoFrame
  <2>2. consumer.step = "idle" /\ DOMAIN queue = {}
    BY <2>1 DEF Idle
  <2> QED
    BY <2>1, <2>2 DEF OrderInv, Sorted, ShownFirst, ItemNext
<1>2. ASSUME PipeInv, RenderInv, OrderInv, [Next]_vars
      PROVE  OrderInv' /\ shown' >= shown
  <2>1. CASE (External \/ UI \/ Dart \/ FireCallback \/ UNCHANGED vars) /\ ~EndFrame
    <3>1. UNCHANGED <<queue, consumer, last, shown, built>>
      BY <2>1, OnlyEndFrameQueues DEF vars, pipeVars, rasterVars, animatorVars
    <3> QED
      BY <1>2, <3>1 DEF OrderInv, Sorted, ShownFirst, ItemNext
  <2>2. CASE EndFrame
    BY <1>2, <2>2, EndFrameKeepsOrder DEF OrderInv
  <2>3. CASE Raster
    BY <1>2, <2>3, RasterKeepsOrder
  <2> QED
    BY <1>2, <2>1, <2>2, <2>3 DEF Next
<1> QED
  BY <1>1, <1>2, AlwaysPipeInv, PTL DEF Spec, DrawnInOrder

-----------------------------------------------------------------------------
(* The values of the variables. *)

\* Those that no invariant above is about.
OtherTypes ==
  /\ regenerate \in BOOLEAN /\ recording \in BOOLEAN
  /\ trees \subseteq Views /\ rendered \subseteq Views /\ built \in 0 .. MaxFrames
  /\ pacing \in BOOLEAN /\ packet \in BOOLEAN
  /\ result \in {"none", "drawn", "unmerged", "resubmit", "requeued", "dropped", "failed"}
  /\ retries \in 0 .. MaxRetries
  /\ last \in Frames \cup {NoFrame} /\ shown \in Frames \cup {NoFrame}
  /\ overtaken \in BOOLEAN

\* The raster thread's variables.
LEMMA RasterKeepsTypes ==
  ASSUME PipeInv, OtherTypes, Raster
  PROVE  OtherTypes'
<1>1. UNCHANGED <<regenerate, recording, trees, rendered, built, pacing, packet>>
  BY DEF Raster, RedrawLast, StartDraw, DrawNothing, TakeFrame, DrawFrame, Resubmit,
         CommitResubmitted, SignalResubmitted, EndDraw, othersThanRaster, animatorVars,
         pointerVars
<1>2. result' \in {"none", "drawn", "unmerged", "resubmit", "requeued", "dropped", "failed"}
  BY DEF Raster, RedrawLast, StartDraw, DrawNothing, TakeFrame, DrawFrame, Resubmit,
         CommitResubmitted, SignalResubmitted, EndDraw, rasterVars, OtherTypes
<1>3. overtaken' \in BOOLEAN
  BY DEF Raster, RedrawLast, StartDraw, DrawNothing, TakeFrame, DrawFrame, Resubmit,
         CommitResubmitted, SignalResubmitted, EndDraw, rasterVars, OtherTypes
<1>4. retries' \in 0 .. MaxRetries
  <2>1. CASE DrawFrame
    BY <2>1, SchedulingAssumption DEF DrawFrame, OtherTypes
  <2>2. CASE ~DrawFrame
    BY <2>2, SchedulingAssumption
       DEF Raster, RedrawLast, StartDraw, DrawNothing, TakeFrame, Resubmit,
           CommitResubmitted, SignalResubmitted, EndDraw, rasterVars, OtherTypes
  <2> QED
    BY <2>1, <2>2
<1>5. last' \in Frames \cup {NoFrame} /\ shown' \in Frames \cup {NoFrame}
  <2>1. CASE DrawFrame
    <3>1. consumer.item \in Frames
      BY <2>1 DEF DrawFrame, Release, At, PipeInv, ItemHeld
    <3> QED
      BY <2>1, <3>1 DEF DrawFrame, OtherTypes
  <2>2. CASE ~DrawFrame
    BY <2>2 DEF Raster, RedrawLast, StartDraw, DrawNothing, TakeFrame, Resubmit,
         CommitResubmitted, SignalResubmitted, EndDraw, rasterVars, OtherTypes
  <2> QED
    BY <2>1, <2>2
<1> QED
  BY <1>1, <1>2, <1>3, <1>4, <1>5 DEF OtherTypes

\* Those of the UI thread; the vsync thread touches none of them.
LEMMA ThreadsKeepTypes ==
  ASSUME RenderInv, OtherTypes, External \/ UI \/ Dart \/ FireCallback
  PROVE  OtherTypes'
<1>1. UNCHANGED <<result, retries, last, shown, overtaken>>
  BY DEF External, UI, RunTask, TextureAvailable, AsyncWaitForVsync, ScheduleSecondaryCallback,
         AwaitVSync, DrawLastLayerTrees, BeginFrame, PipelineFull, EndFrameEmpty, EndFrame,
         SignalFrame, OnAnimatorDraw, ResumeDartEventLoopTasks, DispatchPacket, Pace,
         ClearTraceFlows, Dart, DartRequestsFrame, DartRenders, DartEndsWarmUpFrame,
         DartReturns, FireCallback, TakeCallbacks, PauseDartEventLoopTasks, PostVsync,
         PostSecondary, rasterVars
<1>2. CASE External \/ FireCallback \/ RunTask
  BY <1>1, <1>2 DEF External, FireCallback, TakeCallbacks, PauseDartEventLoopTasks, PostVsync,
         PostSecondary, RunTask, animatorVars, pointerVars, OtherTypes
<1>3. CASE \/ AsyncWaitForVsync \/ ScheduleSecondaryCallback \/ AwaitVSync \/ SignalFrame
           \/ OnAnimatorDraw \/ ResumeDartEventLoopTasks \/ ClearTraceFlows
           \/ DartEndsWarmUpFrame \/ DartReturns
  BY <1>1, <1>3 DEF AsyncWaitForVsync, ScheduleSecondaryCallback, AwaitVSync, SignalFrame,
         OnAnimatorDraw, ResumeDartEventLoopTasks, ClearTraceFlows, DartEndsWarmUpFrame,
         DartReturns, animatorVars, pointerVars, OtherTypes
<1>4. CASE TextureAvailable \/ DartRequestsFrame
  <2>1. UNCHANGED <<recording, trees, rendered, built, pacing, packet>>
    BY <1>4 DEF TextureAvailable, DartRequestsFrame, pointerVars
  <2>2. regenerate' \in BOOLEAN
    BY <1>4 DEF TextureAvailable, DartRequestsFrame, RequestFrame, OtherTypes
  <2> QED
    BY <1>1, <2>1, <2>2 DEF OtherTypes
<1>5. CASE DrawLastLayerTrees \/ BeginFrame \/ PipelineFull \/ EndFrameEmpty
  <2>1. UNCHANGED <<built, pacing, packet>>
    BY <1>5 DEF DrawLastLayerTrees, BeginFrame, PipelineFull, EndFrameEmpty, pointerVars
  <2>2. regenerate' \in BOOLEAN /\ recording' \in BOOLEAN
    BY <1>5 DEF DrawLastLayerTrees, BeginFrame, PipelineFull, EndFrameEmpty, OtherTypes
  <2>3. trees' \subseteq Views /\ rendered' \subseteq Views
    BY <1>5 DEF DrawLastLayerTrees, BeginFrame, PipelineFull, EndFrameEmpty, OtherTypes
  <2> QED
    BY <1>1, <2>1, <2>2, <2>3 DEF OtherTypes
<1>6. CASE EndFrame
  <2>1. built' \in 0 .. MaxFrames
    BY <1>6, PipelineAssumption DEF EndFrame, RenderInv
  <2>2. UNCHANGED <<regenerate, rendered, pacing, packet>> /\ recording' = FALSE /\ trees' = {}
    BY <1>6 DEF EndFrame, pointerVars
  <2> QED
    BY <1>1, <2>1, <2>2 DEF OtherTypes
<1>7. CASE DartRenders
  <2>1. UNCHANGED <<regenerate, built, pacing, packet>> /\ recording' = TRUE
    BY <1>7 DEF DartRenders, pointerVars
  <2>2. trees' \subseteq Views /\ rendered' \subseteq Views
    BY <1>7 DEF DartRenders, OtherTypes
  <2> QED
    BY <1>1, <2>1, <2>2 DEF OtherTypes
<1>8. CASE DispatchPacket \/ Pace
  <2>1. UNCHANGED <<regenerate, recording, trees, rendered, built>>
    BY <1>8 DEF DispatchPacket, Pace, animatorVars
  <2>2. pacing' \in BOOLEAN /\ packet' \in BOOLEAN
    BY <1>8 DEF DispatchPacket, Pace, OtherTypes
  <2> QED
    BY <1>1, <2>1, <2>2 DEF OtherTypes
<1> QED
  BY <1>2, <1>3, <1>4, <1>5, <1>6, <1>7, <1>8 DEF UI, Dart

\* The type invariant.
THEOREM TypeCorrect == Spec => []TypeOK
<1>1. Init => OtherTypes
  <2> SUFFICES ASSUME Init PROVE OtherTypes
    OBVIOUS
  <2>1. built \in 0 .. MaxFrames /\ retries \in 0 .. MaxRetries
    BY PipelineAssumption, SchedulingAssumption DEF Init
  <2>2. /\ regenerate \in BOOLEAN /\ recording \in BOOLEAN /\ pacing \in BOOLEAN
        /\ packet \in BOOLEAN /\ overtaken \in BOOLEAN
    BY DEF Init
  <2>3. trees \subseteq Views /\ rendered \subseteq Views /\ result = "none"
    BY DEF Init
  <2>4. last = NoFrame /\ shown = NoFrame
    BY DEF Init
  <2> QED
    BY <2>1, <2>2, <2>3, <2>4 DEF OtherTypes
<1>2. ASSUME PipeInv, RenderInv, OtherTypes, [Next]_vars
      PROVE  OtherTypes'
  <2>1. CASE UNCHANGED vars
    BY <1>2, <2>1 DEF vars, animatorVars, pointerVars, rasterVars, OtherTypes
  <2> QED
    BY <1>2, <2>1, RasterKeepsTypes, ThreadsKeepTypes DEF Next
<1>3. ASSUME PipeInv, RequestInv, FollowInv, OtherTypes
      PROVE  TypeOK
  <2>1. QueueTypes /\ OneVsyncRequest /\ PausedPerVsync
    BY <1>3 DEF RequestInv
  <2>2. /\ Count(ui, {"request"}) \in Nat /\ Count(ui, {"resume"}) \in Nat
        /\ Count(uiQueue, {"vsync"}) \in Nat /\ requests \in Nat
    BY <2>1, CountsAreNumbers DEF QueueTypes
  <2>3. requests \in 0 .. 1
    BY <2>1, <2>2 DEF OneVsyncRequest, One
  <2>4. paused \in Nat
    BY <2>1, <2>2 DEF PausedPerVsync, One
  <2>5. PipeTypeOK /\ rasterQueue \in Seq({"draw", "last"})
    BY <1>3 DEF PipeInv, FollowInv
  <2> QED
    BY <1>3, <2>1, <2>3, <2>4, <2>5 DEF TypeOK, QueueTypes, OtherTypes
<1> QED
  BY <1>1, <1>2, <1>3, AlwaysPipeInv, AlwaysRequestInv, AlwaysFollowInv, PTL DEF Spec
=============================================================================
