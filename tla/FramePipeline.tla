---------------------------- MODULE FramePipeline ----------------------------
(***************************************************************************)
(* Pipeline<FrameItem> of the engine (shell/common/pipeline.h): the queue  *)
(* of built frames between the UI thread, its producer, and the raster     *)
(* thread, its consumer, which may also put a frame back.  A step is one   *)
(* operation on a semaphore or one critical section of queue_mutex_: the   *)
(* two semaphores and the queue are not updated together, and the other    *)
(* thread may run in between.                                              *)
(***************************************************************************)
EXTENDS Integers, Sequences, SequencesExt

CONSTANTS
  Depth,     \* depth of the pipeline, 2 (1 when platform and raster thread are one)
  MaxFrames  \* model bound: frames Dart builds, numbered in the order built

ASSUME PipelineAssumption == Depth \in Nat \ {0} /\ MaxFrames \in Nat

Frames == 1 .. MaxFrames
NoFrame == 0

VARIABLES
  empty,         \* empty_: free slots
  available,     \* available_: tokens for queued items
  queue,         \* queue_
  continuation,  \* Animator::producer_continuation_: "none"; "held"; "pushed",
                 \* its frame queued and available_ not signalled yet
  consumer       \* the call of Consume on the raster thread: step, item, items_count

pipeVars == <<empty, available, queue, continuation, consumer>>

Idle == [step |-> "idle", item |-> NoFrame, count |-> 0]

PipeInit ==
  /\ empty = Depth
  /\ available = 0
  /\ queue = <<>>
  /\ continuation = "none"
  /\ consumer = Idle

At(step) == consumer.step = step
Goto(step) == consumer' = [consumer EXCEPT !.step = step]

-----------------------------------------------------------------------------
(* The producer.  Definitions whose comment starts with `Mutation' are       *)
(* plausible mistakes in the definition after them.                          *)

Produce ==
  /\ continuation = "none"
  /\ empty > 0
  /\ empty' = empty - 1
  /\ continuation' = "held"
  /\ UNCHANGED <<available, queue, consumer>>

\* Mutation: the newest frame is queued first.
CommitInFront(f) ==
  /\ continuation = "held"
  /\ queue' = <<f>> \o queue
  /\ continuation' = "pushed"
  /\ UNCHANGED <<empty, available, consumer>>

\* ProducerCommit under the lock.
Commit(f) ==
  /\ continuation = "held"
  /\ queue' = Append(queue, f)
  /\ continuation' = "pushed"
  /\ UNCHANGED <<empty, available, consumer>>

\* ProducerCommit after the lock.
SignalCommitted ==
  /\ continuation = "pushed"
  /\ available' = available + 1
  /\ continuation' = "none"
  /\ UNCHANGED <<empty, queue, consumer>>

-----------------------------------------------------------------------------
(* The consumer. *)

TryConsume ==
  /\ At("idle")
  /\ available > 0
  /\ available' = available - 1
  /\ Goto("taken")
  /\ UNCHANGED <<empty, queue, continuation>>

Pop ==
  /\ At("taken")
  /\ queue' = Tail(queue)
  /\ consumer' = [step |-> "using", item |-> Head(queue), count |-> Len(queue) - 1]
  /\ UNCHANGED <<empty, available, continuation>>

\* Mutation: the slot is kept for a frame to be put back.
ReleaseKeepingSlot ==
  /\ At("using")
  /\ Goto("done")
  /\ UNCHANGED <<empty, available, queue, continuation>>

\* The consumer's function has returned.
Release ==
  /\ At("using")
  /\ empty' = empty + 1
  /\ Goto("done")
  /\ UNCHANGED <<available, queue, continuation>>

\* ProduceIfEmpty, called by the consumer to put its item back.
ProduceIfEmpty ==
  /\ At("done")
  /\ empty > 0
  /\ empty' = empty - 1
  /\ Goto("requeue")
  /\ UNCHANGED <<available, queue, continuation>>

\* Mutation: the item goes behind the frames already queued.
CommitBehind ==
  /\ At("requeue")
  /\ queue' = Append(queue, consumer.item)
  /\ Goto("requeued")
  /\ UNCHANGED <<empty, available, continuation>>

\* ProducerCommitIfEmpty under the lock.
CommitIfEmpty ==
  /\ At("requeue")
  /\ queue = <<>>
  /\ queue' = <<consumer.item>>
  /\ Goto("requeued")
  /\ UNCHANGED <<empty, available, continuation>>

BailIfNotEmpty ==
  /\ At("requeue")
  /\ queue # <<>>
  /\ empty' = empty + 1
  /\ Goto("done")
  /\ UNCHANGED <<available, queue, continuation>>

\* Mutation: the consumer, which knows of the item, gives it no token.
RequeueSilently ==
  /\ At("requeued")
  /\ Goto("done")
  /\ UNCHANGED <<empty, available, queue, continuation>>

SignalRequeued ==
  /\ At("requeued")
  /\ available' = available + 1
  /\ Goto("done")
  /\ UNCHANGED <<empty, queue, continuation>>

\* The call is over: its caller has used items_count.
Return ==
  /\ At("done")
  /\ consumer' = Idle
  /\ UNCHANGED <<empty, available, queue, continuation>>

PipeNext ==
  \/ Produce \/ SignalCommitted \/ \E f \in Frames: Commit(f)
  \/ TryConsume \/ Pop \/ Release \/ Return
  \/ ProduceIfEmpty \/ CommitIfEmpty \/ BailIfNotEmpty \/ SignalRequeued

PipeSpec == PipeInit /\ [][PipeNext]_pipeVars

-----------------------------------------------------------------------------
(* Properties. *)

PipeTypeOK ==
  /\ empty \in 0 .. Depth
  /\ available \in 0 .. Depth
  /\ queue \in Seq(Frames)
  /\ continuation \in {"none", "held", "pushed"}
  /\ consumer \in [step : {"idle", "taken", "using", "done", "requeue", "requeued"},
                   item : Frames \cup {NoFrame},
                   count : 0 .. Depth]

One(condition) == IF condition THEN 1 ELSE 0

\* Slots held by producers that have not queued their item.
Held == One(continuation = "held") + One(At("requeue"))

\* Slots of items taken from the queue and still in use.
Busy == One(At("using"))

\* Every slot is free, reserved, queued or in use, never lost and never twice
\* one of them, although empty_ and queue_ are not guarded together.
SlotsAddUp == empty + Held + Len(queue) + Busy = Depth

\* Every queued item has exactly one token, given or about to be given, and a
\* token taken is a promise that the queue is not empty: front() of Consume
\* is never called on an empty queue.
TokensAddUp ==
  available + One(continuation = "pushed") + One(At("taken")) + One(At("requeued"))
    = Len(queue)

\* The pipeline, with its separate semaphores and lock, is the bounded queue it
\* promises to be.
Bounded == INSTANCE BoundedQueue WITH
  Items <- Frames, items <- queue, reserved <- Held, busy <- Busy

ImplementsBoundedQueue == Bounded!Spec
=============================================================================
