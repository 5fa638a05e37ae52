----------------------------- MODULE VimcStream -----------------------------
(***************************************************************************)
(* One capture device streaming: its vb2 queue (vimc-capture.c), the        *)
(* pipeline of the entities upstream of it and the thread that pulls frames *)
(* through them (vimc-streamer.c).                                         *)
(*                                                                         *)
(* The ioctls of the capture node run under vcap->lock, so there is one    *)
(* user at a time; the thread takes no lock but qlock around the list of    *)
(* buffers.  Starting is one step, for no thread runs then; stopping waits  *)
(* for the thread, which goes on meanwhile.                                *)
(***************************************************************************)
EXTENDS Naturals, Sequences, FiniteSets

CONSTANTS
    Buf,        \* the buffers the program requested
    Ent,        \* the entities of the media graph
    Chain,      \* those met walking upstream from the capture device
    Kind,       \* of each entity: "cap", "proc" (debayer, scaler) or "sen"
    MaxPipe,    \* VIMC_STREAMER_PIPELINE_MAX_SIZE
    MinBuffers, \* q->min_buffers_needed
    SeqMod,     \* the sequence number is a u32
    Mishap,     \* what may go wrong, see StreamAssumption
    NULL

\* "pipeline": media_pipeline_start refuses; "s_stream": a frame cannot be
\* allocated; "kthread": no thread can be created; "early_stop": STREAMOFF may
\* come before the new thread first runs.
ASSUME StreamAssumption ==
    /\ Chain \in Seq(Ent) /\ Chain # <<>>
    /\ Kind \in [Ent -> {"cap", "proc", "sen"}]
    /\ \A i \in 1..Len(Chain) : Kind[Chain[i]] = "cap" <=> i = 1
    /\ \A i, j \in 1..Len(Chain) : Chain[i] = Chain[j] => i = j
    /\ MaxPipe \in Nat \ {0}
    /\ MinBuffers \in Nat \ {0}
    /\ SeqMod \in Nat \ {0}
    /\ Mishap \subseteq {"pipeline", "s_stream", "kthread", "early_stop"}
    /\ NULL \notin Buf

VARIABLES
    \* vb2: the queue of the capture node
    bstate,     \* state of each buffer
    queued,     \* q->queued_list: queued and not dequeued yet
    done,       \* q->done_list, with the sequence number of each buffer
    streaming,  \* q->streaming
    started,    \* q->start_streaming_called
    warned,     \* vb2 found the driver keeping a buffer after stop_streaming
    user,       \* the ioctl in progress
    \* vimc_cap_device
    bufList,    \* vcap->buf_list
    sequence,   \* vcap->sequence
    frame,      \* which subdevices have a frame allocated (s_stream)
    \* struct vimc_stream
    pipeSize,   \* stream->pipe_size; ved_pipeline[i] is Chain[i]
    kthread,    \* stream->kthread: "null", "live", "err" or "gone" (freed)
    \* the thread
    pc,         \* where it is, "none" while there is none
    stop,       \* its KTHREAD_SHOULD_STOP flag
    at,         \* index in the pipeline of the entity it processes
    data,       \* the pointer it passes on: "null", "err" or "frame"
    held,       \* the buffer it took off buf_list
    oops        \* the way the kernel stopped, "no" while it runs

vb2    == <<bstate, queued, done, streaming, started, warned, user>>
stream == <<pipeSize, kthread, frame>>
thread == <<pc, stop, at, data, held>>
vars   == <<vb2, bufList, sequence, stream, thread, oops>>

TypeOK ==
    /\ bstate \in [Buf -> {"dequeued", "queued", "active", "done"}]
    /\ queued \in Seq(Buf)
    /\ done \in Seq([buf : Buf, seq : 0..SeqMod - 1])
    /\ streaming \in BOOLEAN
    /\ started \in BOOLEAN
    /\ warned \in BOOLEAN
    /\ user \in {"idle", "starting", "stopping"}
    /\ bufList \in Seq(Buf)
    /\ sequence \in 0..SeqMod - 1
    /\ frame \in [Ent -> BOOLEAN]
    /\ pipeSize \in 0..MaxPipe
    /\ kthread \in {"null", "live", "err", "gone"}
    /\ pc \in {"none", "created", "check", "proc", "fill", "exited", "aborted"}
    /\ stop \in BOOLEAN
    /\ at \in 0..MaxPipe
    /\ data \in {"null", "err", "frame"}
    /\ held \in Buf \cup {NULL}
    /\ oops \in {"no", "no_sensor_frame", "no_source_frame", "bad_kthread"}

Init ==
    /\ bstate = [b \in Buf |-> "dequeued"]
    /\ queued = <<>>
    /\ done = <<>>
    /\ streaming = FALSE
    /\ started = FALSE
    /\ warned = FALSE
    /\ user = "idle"
    /\ bufList = <<>>
    /\ sequence = 0
    /\ frame = [e \in Ent |-> FALSE]
    /\ pipeSize = 0
    /\ kthread = "null"
    /\ pc = "none"
    /\ stop = FALSE
    /\ at = 0
    /\ data = "null"
    /\ held = NULL
    /\ oops = "no"

\* A kernel that stopped takes no further step.
Alive == oops = "no"
UserIdle == Alive /\ user = "idle"

-----------------------------------------------------------------------------
(* Queueing and dequeueing.                                                 *)

\* VIDIOC_QBUF.  A running stream gets the buffer at once (buf_queue); a queue
\* that waits for its buffers starts with the last one it needs.
QBuf(b) ==
    /\ UserIdle
    /\ bstate[b] = "dequeued"
    /\ queued' = Append(queued, b)
    /\ LET begins == streaming /\ ~started /\ Len(queued') >= MinBuffers IN
       /\ user' = IF begins THEN "starting" ELSE "idle"
       /\ bstate' = IF begins
                    THEN [c \in Buf |-> IF \E k \in 1..Len(queued') : queued'[k] = c
                                        THEN "active" ELSE bstate[c]]
                    ELSE [bstate EXCEPT ![b] = IF started THEN "active" ELSE "queued"]
       /\ bufList' = IF begins THEN queued'
                     ELSE IF started THEN Append(bufList, b) ELSE bufList
    /\ UNCHANGED <<done, streaming, started, warned, sequence, stream, thread, oops>>

DQBuf ==
    /\ UserIdle
    /\ streaming
    /\ done # <<>>
    /\ done' = Tail(done)
    /\ bstate' = [bstate EXCEPT ![Head(done).buf] = "dequeued"]
    /\ \E i \in 1..Len(queued) :
           /\ queued[i] = Head(done).buf
           /\ queued' = SubSeq(queued, 1, i - 1) \o SubSeq(queued, i + 1, Len(queued))
    /\ UNCHANGED <<streaming, started, warned, user, bufList, sequence, stream,
                   thread, oops>>

\* VIDIOC_STREAMON: with fewer buffers queued than needed the queue only waits.
StreamOn ==
    /\ UserIdle
    /\ ~streaming
    /\ IF Len(queued) >= MinBuffers
       THEN /\ user' = "starting"
            /\ bstate' = [b \in Buf |-> IF bstate[b] = "queued" THEN "active"
                                        ELSE bstate[b]]
            /\ bufList' = queued
            /\ UNCHANGED streaming
       ELSE /\ streaming' = TRUE
            /\ UNCHANGED <<user, bstate, bufList>>
    /\ UNCHANGED <<queued, done, started, warned, sequence, stream, thread, oops>>

-----------------------------------------------------------------------------
(* start_streaming.                                                         *)

Starting == Alive /\ user = "starting"

\* Slip: the sequence goes on from the last stream.
StartKeepingSequence ==
    /\ user' = "idle"
    /\ streaming' = TRUE
    /\ started' = TRUE
    /\ UNCHANGED <<bstate, queued, done, warned, bufList, sequence, oops>>

StartSucceeds ==
    /\ user' = "idle"
    /\ streaming' = TRUE
    /\ started' = TRUE
    /\ sequence' = 0
    /\ UNCHANGED <<bstate, queued, done, warned, bufList, oops>>

\* Slip: the list still holds the buffers given back.
StartFailsKeepingList ==
    /\ user' = "idle"
    /\ sequence' = 0
    /\ bstate' = [b \in Buf |-> IF bstate[b] = "active" THEN "queued" ELSE bstate[b]]
    /\ UNCHANGED <<queued, done, streaming, started, warned, bufList, thread, oops>>

\* The buffers go back to vb2, which keeps them queued.
StartFails ==
    /\ user' = "idle"
    /\ sequence' = 0
    /\ bufList' = <<>>
    /\ bstate' = [b \in Buf |-> IF bstate[b] = "active" THEN "queued" ELSE bstate[b]]
    /\ UNCHANGED <<queued, done, streaming, started, warned, thread, oops>>

Subdevs == {e \in Ent : Kind[e] # "cap" /\ \E k \in 1..Len(Chain) : Chain[k] = e}

\* s_stream(1) on the first n entities of the walk.
Allocated(n) ==
    [e \in Ent |-> frame[e] \/ (e \in Subdevs /\ \E k \in 1..n : Chain[k] = e)]

InitPipeline ==
    /\ pipeSize' = Len(Chain)
    /\ frame' = Allocated(Len(Chain))

\* Slip: off by one.
TerminateButLast(f, n) ==
    /\ pipeSize' = 0
    /\ frame' = [e \in Ent |-> f[e] /\ ~ \E k \in 1..n - 1 : Chain[k] = e]

\* s_stream(0) on the n entities of the pipeline, when f are the frames.
Terminate(f, n) ==
    /\ pipeSize' = 0
    /\ frame' = [e \in Ent |-> f[e] /\ ~ \E k \in 1..n : Chain[k] = e]

\* A kthread that is not NULL stands for a stream that already runs.
StartAlready ==
    /\ Starting
    /\ kthread # "null"
    /\ StartSucceeds
    /\ UNCHANGED <<stream, thread>>

StartRefused ==
    /\ Starting
    /\ "pipeline" \in Mishap
    /\ StartFails
    /\ UNCHANGED stream

\* The walk upstream meets an entity that cannot stream, or is too long; what
\* it started until then is stopped.
StartPipelineFails ==
    /\ Starting
    /\ kthread = "null"
    /\ \E n \in 1..Len(Chain) :
           /\ n <= MaxPipe
           /\ \/ "s_stream" \in Mishap /\ n > 1 /\ Terminate(Allocated(n - 1), n)
              \/ n = MaxPipe /\ Len(Chain) > MaxPipe /\ Terminate(Allocated(n), n)
    /\ StartFails
    /\ UNCHANGED kthread

StartThreadFails ==
    /\ Starting
    /\ kthread = "null"
    /\ Len(Chain) <= MaxPipe
    /\ "kthread" \in Mishap
    /\ InitPipeline
    /\ kthread' = "err"
    /\ StartFails

Start ==
    /\ Starting
    /\ kthread = "null"
    /\ Len(Chain) <= MaxPipe
    /\ InitPipeline
    /\ kthread' = "live"
    /\ pc' = "created"
    /\ data' = "null"
    /\ StartSucceeds
    /\ UNCHANGED <<stop, at, held>>

-----------------------------------------------------------------------------
(* VIDIOC_STREAMOFF.                                                        *)

\* __vb2_queue_cancel: every buffer is the program's again.  vb2 warns about
\* buffers that stop_streaming left with the driver.
QueueCancel ==
    /\ user' = "idle"
    /\ streaming' = FALSE
    /\ started' = FALSE
    /\ queued' = <<>>
    /\ done' = <<>>
    /\ bstate' = [b \in Buf |-> "dequeued"]

StreamOffUnstarted ==
    /\ UserIdle
    /\ ~started
    /\ QueueCancel
    /\ UNCHANGED <<warned, bufList, sequence, stream, thread, oops>>

\* Slip: the pipeline is terminated first.
StreamOffTerminating ==
    /\ UserIdle
    /\ started
    /\ kthread \in {"null", "live"}
    /\ pc = "created" => "early_stop" \in Mishap
    /\ user' = "stopping"
    /\ stop' = (kthread = "live")
    /\ Terminate(frame, pipeSize)
    /\ UNCHANGED <<bstate, queued, done, streaming, started, warned, bufList,
                   sequence, kthread, pc, at, data, held, oops>>

\* kthread_stop raises the flag and waits for the thread to end.
StreamOff ==
    /\ UserIdle
    /\ started
    /\ kthread \in {"null", "live"}
    /\ pc = "created" => "early_stop" \in Mishap
    /\ user' = "stopping"
    /\ stop' = (kthread = "live")
    /\ UNCHANGED <<bstate, queued, done, streaming, started, warned, bufList,
                   sequence, stream, pc, at, data, held, oops>>

\* kthread_stop of an error pointer, or of a task that is gone.
StreamOffBadThread ==
    /\ UserIdle
    /\ started
    /\ kthread \in {"err", "gone"}
    /\ oops' = "bad_kthread"
    /\ UNCHANGED <<vb2, bufList, sequence, stream, thread>>

\* What stop_streaming does once the streamer has returned, whatever it
\* returned, and what vb2 does then.
StopReturns ==
    /\ bufList' = <<>>
    /\ warned' = (warned \/ held # NULL)
    /\ QueueCancel
    /\ pc' = "none"
    /\ stop' = FALSE
    /\ UNCHANGED <<sequence, at, data, held, oops>>

\* Slip: nobody waits for the thread.
StopEndsAtOnce ==
    /\ Alive
    /\ user = "stopping"
    /\ kthread' = "null"
    /\ Terminate(frame, pipeSize)
    /\ StopReturns

\* Slip: the pointer to the thread stays.
StopEndsKeepingThread ==
    /\ Alive
    /\ user = "stopping"
    /\ pc \in {"none", "exited"}
    /\ UNCHANGED kthread
    /\ Terminate(frame, pipeSize)
    /\ StopReturns

\* The thread ran: kthread_stop returns 0.
StopEnds ==
    /\ Alive
    /\ user = "stopping"
    /\ pc \in {"none", "exited"}
    /\ kthread' = "null"
    /\ Terminate(frame, pipeSize)
    /\ StopReturns

\* The thread never ran: kthread_stop returns -EINTR, and so does the streamer.
StopEndsEarly ==
    /\ Alive
    /\ user = "stopping"
    /\ pc = "aborted"
    /\ kthread' = "gone"
    /\ UNCHANGED <<pipeSize, frame>>
    /\ StopReturns

-----------------------------------------------------------------------------
(* The thread.                                                              *)

Sleeping == UNCHANGED <<vb2, bufList, sequence, stream, oops>>

\* A thread told to stop before it first ran does not run at all.
ThreadBegins ==
    /\ Alive
    /\ pc = "created"
    /\ pc' = IF stop THEN "aborted" ELSE "check"
    /\ UNCHANGED <<stop, at, data, held>>
    /\ Sleeping

ThreadChecks ==
    /\ Alive
    /\ pc = "check"
    /\ pc' = IF stop THEN "exited" ELSE IF pipeSize = 0 THEN "check" ELSE "proc"
    /\ at' = IF stop THEN 0 ELSE pipeSize
    /\ UNCHANGED <<stop, data, held>>
    /\ Sleeping

Processes(kind) ==
    /\ Alive
    /\ pc = "proc"
    /\ Kind[Chain[at]] = kind

Crash(how) ==
    /\ oops' = how
    /\ UNCHANGED <<vb2, bufList, sequence, stream, thread>>

PassFrame ==
    /\ data' = "frame"
    /\ at' = at - 1
    /\ UNCHANGED <<pc, stop, held>>
    /\ Sleeping

\* Slip: the thread ends with the first error.
GiveUpForGood ==
    /\ data' = "err"
    /\ pc' = "exited"
    /\ UNCHANGED <<stop, at, held>>
    /\ Sleeping

\* Slip: the thread tries again without asking whether it should stop.
TryAgain ==
    /\ data' = "err"
    /\ at' = pipeSize
    /\ UNCHANGED <<pc, stop, held>>
    /\ Sleeping

\* The pass ends with an error, which the next pass starts from.
GiveUp ==
    /\ data' = "err"
    /\ pc' = "check"
    /\ UNCHANGED <<stop, at, held>>
    /\ Sleeping

\* The sensor fills its frame without looking whether it has one.
SensorFrame ==
    /\ Processes("sen")
    /\ IF frame[Chain[at]] THEN PassFrame ELSE Crash("no_sensor_frame")

\* A debayer or scaler reads the frame it is given without looking.
ProcessFrame ==
    /\ Processes("proc")
    /\ IF ~frame[Chain[at]] THEN GiveUp
       ELSE IF data = "frame" THEN PassFrame
       ELSE Crash("no_source_frame")

\* Slip: the first entry is taken of an empty list, where it is the list head.
CaptureTakesAnything ==
    /\ Processes("cap")
    /\ held' = IF bufList = <<>> THEN "list_head" ELSE Head(bufList)
    /\ bufList' = IF bufList = <<>> THEN <<>> ELSE Tail(bufList)
    /\ pc' = "fill"
    /\ UNCHANGED <<vb2, sequence, stream, stop, at, data, oops>>

CaptureTakes ==
    /\ Processes("cap")
    /\ IF bufList = <<>> THEN GiveUp
       ELSE /\ held' = Head(bufList)
            /\ bufList' = Tail(bufList)
            /\ pc' = "fill"
            /\ UNCHANGED <<vb2, sequence, stream, stop, at, data, oops>>

CaptureFills ==
    /\ Alive
    /\ pc = "fill"
    /\ IF data = "frame"
       THEN /\ done' = Append(done, [buf |-> held, seq |-> sequence])
            /\ sequence' = (sequence + 1) % SeqMod
            /\ bstate' = [bstate EXCEPT ![held] = "done"]
            /\ held' = NULL
            /\ data' = "null"
            /\ pc' = "check"
            /\ UNCHANGED <<queued, streaming, started, warned, user, bufList,
                           stream, stop, at, oops>>
       ELSE Crash("no_source_frame")

Thread ==
    \/ ThreadBegins
    \/ ThreadChecks
    \/ SensorFrame
    \/ ProcessFrame
    \/ CaptureTakes
    \/ CaptureFills

\* The rest of an ioctl that has begun.
Kernel ==
    \/ StartAlready
    \/ StartRefused
    \/ StartPipelineFails
    \/ StartThreadFails
    \/ Start
    \/ StopEnds
    \/ StopEndsEarly

Program ==
    \/ \E b \in Buf : QBuf(b)
    \/ DQBuf
    \/ StreamOn
    \/ StreamOffUnstarted
    \/ StreamOff
    \/ StreamOffBadThread

Next == Program \/ Kernel \/ Thread

Spec == Init /\ [][Next]_vars

\* The scheduler runs the thread and lets an ioctl finish; the program owes
\* nobody a call.
FairSpec == Spec /\ WF_vars(Thread) /\ WF_vars(Kernel)

-----------------------------------------------------------------------------
(* What holds whatever goes wrong.                                          *)

\* A buffer vb2 has handed to the driver is in one place only: once on
\* buf_list, or held by the thread between list_del and vb2_buffer_done.  No
\* other buffer is in either.
Owners(b) == Cardinality({k \in 1..Len(bufList) : bufList[k] = b})
             + (IF held = b THEN 1 ELSE 0)
BufferOwnership ==
    \A b \in Buf : Owners(b) = IF bstate[b] = "active" THEN 1 ELSE 0

\* When stop_streaming returns, the driver keeps no buffer.
NothingKept == ~warned

\* While the thread runs, its pipeline is whole and every subdevice of it has
\* the frame it writes: neither is torn down before the thread has ended.
ThreadRuns == pc \notin {"none", "exited", "aborted"}
ThreadHasPipeline ==
    ThreadRuns => /\ kthread = "live"
                  /\ pipeSize = Len(Chain)
                  /\ \A e \in Subdevs : frame[e]

\* The frames allocated are those of the entities in the pipeline, so a
\* sensor, which allocates without looking, never drops an older frame.
FramesBelongToPipeline ==
    \A e \in Ent : frame[e] <=> \E k \in 2..pipeSize : Chain[k] = e

\* vimc_sen_process_frame, which does not look, never writes to no frame.
SensorHasFrame == oops # "no_sensor_frame"

\* The program sees the queue of VimcCaptureQueue: once the driver has the
\* buffers, those that wait are the one the thread fills and buf_list.
Waiting == IF started THEN (IF held = NULL THEN <<>> ELSE <<held>>) \o bufList
           ELSE queued
Queue == INSTANCE VimcCaptureQueue WITH
    waiting <- Waiting,
    ready   <- done,
    running <- started,
    number  <- IF started THEN sequence ELSE 0
QueueSpec == Queue!Spec

\* kthread_stop waits for the rest of one pass at most: once the flag is raised
\* each step of the thread brings it nearer to its end, whatever process_frame
\* answers and whatever the thread was doing.
StepsLeft == CASE pc \in {"created", "check"} -> 1
               [] pc = "fill" -> 2
               [] pc = "proc" -> at + 2
               [] OTHER -> 0
StopWaitsOnePass ==
    [][stop /\ stop' /\ Alive' =>
           StepsLeft' < StepsLeft /\ StepsLeft <= Len(Chain) + 2]_vars

-----------------------------------------------------------------------------
(* What holds when every thread is created and runs before it is stopped.   *)

\* A stream that was stopped is gone: no thread, no pipeline.
StopTearsDown ==
    user = "idle" /\ ~started => kthread = "null" /\ pipeSize = 0

\* A stream that was started has a thread that serves its buffers.
StartedHasThread == user = "idle" /\ started => ThreadRuns

\* STREAMOFF returns.
StopReturnsAtLast == user = "stopping" ~> user = "idle"

\* A buffer handed to a started stream does not stay with the driver for ever.
BuffersComeBack ==
    \A b \in Buf : (started /\ bstate[b] = "active") ~> bstate[b] # "active"

\* A capture with no sensor upstream is not streamed from.
StreamHasSource == started => Kind[Chain[Len(Chain)]] = "sen"
=============================================================================
