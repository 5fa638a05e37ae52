--------------------------- MODULE VimcStreamProofs ---------------------------
(* Theorems about VimcStream, for every pipeline, set of buffers and mishap. *)
EXTENDS VimcStream, SequenceTheorems, FiniteSetTheorems, TLAPS

-----------------------------------------------------------------------------
(* The inductive invariant, in two parts.                                    *)

\* The thread, its pipeline and the frames go together.
PipeInv ==
    /\ pipeSize \in {0, Len(Chain)}
    /\ FramesBelongToPipeline
    /\ started => streaming
    /\ kthread = "null" => pipeSize = 0 /\ ~started
    /\ kthread = "live" <=> pc # "none"
    /\ kthread = "live" => started /\ pipeSize = Len(Chain)
    /\ pc \in {"proc", "fill"} => at \in 1..pipeSize
    /\ user = "starting" => ~started
    /\ user = "stopping" => started /\ kthread = "live"
    /\ oops # "no_sensor_frame"

In(b, s) == \E k \in 1..Len(s) : s[k] = b
OnceEach(s) == \A i, j \in 1..Len(s) : s[i] = s[j] => i = j

Filled(b, d) == \E k \in 1..Len(d) : d[k].buf = b
FilledOnce(d) == \A i, j \in 1..Len(d) : d[i].buf = d[j].buf => i = j

\* The driver has the active buffers, each once.
WithDriver ==
    /\ held # NULL <=> pc = "fill"
    /\ OnceEach(bufList)
    /\ ~In(held, bufList)
    /\ \A b \in Buf : bstate[b] = "active" <=> In(b, bufList) \/ held = b

\* The filled buffers wait in done_list, each once.
WithVb2 ==
    /\ FilledOnce(done)
    /\ \A b \in Buf : bstate[b] = "done" <=> Filled(b, done)

\* Outside a stream the queued buffers are those of queued_list, and the
\* driver gets all of them when one starts.
BeforeStream ==
    /\ started => \A b \in Buf : bstate[b] # "queued"
    /\ ~started => /\ done = <<>>
                   /\ OnceEach(queued)
                   /\ \A b \in Buf : bstate[b] # "dequeued" <=> In(b, queued)
                   /\ user # "starting" => bufList = <<>>
    /\ user = "starting" => bufList = queued

\* Every buffer is in one place, the one its state says.
BufInv == WithDriver /\ WithVb2 /\ BeforeStream /\ ~warned

-----------------------------------------------------------------------------
(* Type correctness.                                                         *)

\* vb2's and the driver's sequences keep their types when one entry is added
\* or removed.
LEMMA SeqTypes ==
    ASSUME NEW S, NEW s \in Seq(S)
    PROVE  /\ \A e \in S : Append(s, e) \in Seq(S)
           /\ s # <<>> => Head(s) \in S /\ Tail(s) \in Seq(S)
           /\ \A i \in 1..Len(s) :
                  SubSeq(s, 1, i - 1) \o SubSeq(s, i + 1, Len(s)) \in Seq(S)
<1>1. \A e \in S : Append(s, e) \in Seq(S)
  BY AppendProperties
<1>2. s # <<>> => Head(s) \in S /\ Tail(s) \in Seq(S)
  BY HeadTailProperties
<1>3. ASSUME NEW i \in 1..Len(s)
      PROVE  SubSeq(s, 1, i - 1) \o SubSeq(s, i + 1, Len(s)) \in Seq(S)
  <2>1. Len(s) \in Nat
    BY LenProperties
  <2>2. SubSeq(s, 1, i - 1) \in Seq(S)
    BY <2>1, SubSeqProperties
  <2>3. SubSeq(s, i + 1, Len(s)) \in Seq(S)
    BY <2>1, SubSeqProperties
  <2> QED
    BY <2>2, <2>3, ConcatProperties
<1> QED
  BY <1>1, <1>2, <1>3

\* The pipeline has a first entity, and entities only.
LEMMA ChainType ==
    /\ Len(Chain) \in Nat /\ Len(Chain) >= 1
    /\ \A k \in 1..Len(Chain) : Chain[k] \in Ent
BY StreamAssumption, EmptySeq, ElementOfSeq

\* A capture node that was never opened is well typed.
LEMMA InitType == Init => TypeOK
<1>1. /\ <<>> \in Seq(Buf)
      /\ <<>> \in Seq([buf : Buf, seq : 0..SeqMod - 1])
  BY EmptySeq
<1>2. 0 \in 0..SeqMod - 1 /\ 0 \in 0..MaxPipe
  BY StreamAssumption
<1> QED
  BY <1>1, <1>2 DEF Init, TypeOK

\* __vb2_queue_cancel leaves well-typed lists.
LEMMA QueueCancelType ==
    ASSUME TypeOK, QueueCancel
    PROVE  /\ bstate' \in [Buf -> {"dequeued", "queued", "active", "done"}]
           /\ queued' \in Seq(Buf)
           /\ done' \in Seq([buf : Buf, seq : 0..SeqMod - 1])
           /\ streaming' \in BOOLEAN /\ started' \in BOOLEAN
           /\ user' \in {"idle", "starting", "stopping"}
BY EmptySeq DEF QueueCancel, TypeOK

\* vimc_streamer_pipeline_terminate keeps the types of pipeline and frames.
LEMMA TerminateType ==
    ASSUME NEW f, NEW n, Terminate(f, n)
    PROVE  pipeSize' \in 0..MaxPipe /\ frame' \in [Ent -> BOOLEAN]
BY StreamAssumption DEF Terminate

\* A pipeline that fits its array has a well-typed size.
LEMMA InitPipelineType ==
    ASSUME TypeOK, InitPipeline, Len(Chain) <= MaxPipe
    PROVE  pipeSize' \in 0..MaxPipe /\ frame' \in [Ent -> BOOLEAN]
BY StreamAssumption, ChainType DEF InitPipeline, Allocated

\* The ioctls keep every type.
LEMMA ProgramType == TypeOK /\ Program => TypeOK'
<1> SUFFICES ASSUME TypeOK, Program PROVE TypeOK'
  OBVIOUS
<1> USE DEF TypeOK, stream, thread
<1>1. ASSUME NEW b \in Buf, QBuf(b) PROVE TypeOK'
  <2>1. queued' \in Seq(Buf) /\ bufList' \in Seq(Buf)
    BY <1>1, SeqTypes DEF QBuf
  <2>2. bstate' \in [Buf -> {"dequeued", "queued", "active", "done"}]
    BY <1>1 DEF QBuf
  <2> QED
    BY <1>1, <2>1, <2>2 DEF QBuf
<1>2. CASE DQBuf
  <2>1. /\ Head(done) \in [buf : Buf, seq : 0..SeqMod - 1]
        /\ done' \in Seq([buf : Buf, seq : 0..SeqMod - 1])
    BY <1>2, SeqTypes DEF DQBuf
  <2>2. queued' \in Seq(Buf)
    BY <1>2, SeqTypes DEF DQBuf
  <2>3. bstate' \in [Buf -> {"dequeued", "queued", "active", "done"}]
    BY <1>2, <2>1 DEF DQBuf
  <2> QED
    BY <1>2, <2>1, <2>2, <2>3 DEF DQBuf
<1>3. CASE StreamOn
  <2>1. bstate' \in [Buf -> {"dequeued", "queued", "active", "done"}]
    BY <1>3 DEF StreamOn
  <2>2. bufList' \in Seq(Buf)
    BY <1>3 DEF StreamOn
  <2>3. streaming' \in BOOLEAN /\ user' \in {"idle", "starting", "stopping"}
    BY <1>3 DEF StreamOn
  <2>4. UNCHANGED <<queued, done, started, warned, sequence, stream, thread, oops>>
    BY <1>3 DEF StreamOn
  <2> QED
    BY <2>1, <2>2, <2>3, <2>4
<1>4. CASE StreamOffUnstarted
  BY <1>4, QueueCancelType DEF StreamOffUnstarted
<1>5. CASE StreamOff
  BY <1>5 DEF StreamOff
<1>6. CASE StreamOffBadThread
  BY <1>6 DEF StreamOffBadThread, vb2
<1> QED
  BY <1>1, <1>2, <1>3, <1>4, <1>5, <1>6 DEF Program

\* Starting and stopping keep every type.
LEMMA KernelType == TypeOK /\ Kernel => TypeOK'
<1> SUFFICES ASSUME TypeOK, Kernel PROVE TypeOK'
  OBVIOUS
<1> USE DEF TypeOK, stream, thread
<1>1. ASSUME StartFails
      PROVE  /\ bstate' \in [Buf -> {"dequeued", "queued", "active", "done"}]
             /\ bufList' \in Seq(Buf)
             /\ sequence' \in 0..SeqMod - 1
  BY <1>1, StreamAssumption, EmptySeq DEF StartFails
<1>2. CASE StartAlready
  BY <1>2, StreamAssumption DEF StartAlready, StartSucceeds
<1>3. CASE StartRefused
  <2>1. StartFails
    BY <1>3 DEF StartRefused
  <2> QED
    BY <1>1, <1>3, <2>1 DEF StartRefused, StartFails
<1>4. CASE StartPipelineFails
  <2>1. StartFails
    BY <1>4 DEF StartPipelineFails
  <2>2. PICK f, n : Terminate(f, n)
    BY <1>4 DEF StartPipelineFails
  <2>3. pipeSize' \in 0..MaxPipe /\ frame' \in [Ent -> BOOLEAN]
    BY <2>2, TerminateType
  <2> QED
    BY <1>1, <1>4, <2>1, <2>3 DEF StartPipelineFails, StartFails
<1>5. CASE StartThreadFails
  <2>1. StartFails
    BY <1>5 DEF StartThreadFails
  <2>2. pipeSize' \in 0..MaxPipe /\ frame' \in [Ent -> BOOLEAN]
    BY <1>5, InitPipelineType DEF StartThreadFails
  <2> QED
    BY <1>1, <1>5, <2>1, <2>2 DEF StartThreadFails, StartFails
<1>6. CASE Start
  <2>1. pipeSize' \in 0..MaxPipe /\ frame' \in [Ent -> BOOLEAN]
    BY <1>6, InitPipelineType DEF Start
  <2> QED
    BY <1>6, <2>1, StreamAssumption DEF Start, StartSucceeds
<1>7. ASSUME StopReturns
      PROVE  /\ QueueCancel
             /\ bufList' \in Seq(Buf)
             /\ warned' \in BOOLEAN
             /\ pc' = "none" /\ stop' = FALSE
             /\ UNCHANGED <<sequence, at, data, held, oops>>
  BY <1>7, EmptySeq DEF StopReturns
<1>8. CASE StopEnds
  <2>1. StopReturns /\ kthread' = "null"
    BY <1>8 DEF StopEnds
  <2>2. pipeSize' \in 0..MaxPipe /\ frame' \in [Ent -> BOOLEAN]
    BY <1>8, TerminateType DEF StopEnds
  <2> QED
    BY <1>7, <2>1, <2>2, QueueCancelType
<1>9. CASE StopEndsEarly
  <2>1. StopReturns /\ kthread' = "gone" /\ UNCHANGED <<pipeSize, frame>>
    BY <1>9 DEF StopEndsEarly
  <2> QED
    BY <1>7, <2>1, QueueCancelType
<1> QED
  BY <1>2, <1>3, <1>4, <1>5, <1>6, <1>8, <1>9 DEF Kernel

\* The thread keeps every type: it fills a buffer only when it holds one.
LEMMA ThreadType == TypeOK /\ PipeInv /\ BufInv /\ Thread => TypeOK'
<1> SUFFICES ASSUME TypeOK, PipeInv, BufInv, Thread PROVE TypeOK'
  OBVIOUS
<1> USE DEF TypeOK, vb2, stream, thread
<1>1. CASE ThreadBegins
  BY <1>1 DEF ThreadBegins, Sleeping
<1>2. CASE ThreadChecks
  BY <1>2, StreamAssumption DEF ThreadChecks, Sleeping
<1>3. CASE SensorFrame \/ ProcessFrame
  <2>1. CASE PassFrame
    <3>1. pc = "proc"
      BY <1>3 DEF SensorFrame, ProcessFrame, Processes
    <3>2. at' \in 0..MaxPipe
      BY <2>1, <3>1, StreamAssumption, ChainType DEF PassFrame, PipeInv
    <3> QED
      BY <2>1, <3>2 DEF PassFrame, Sleeping
  <2>2. CASE GiveUp
    BY <2>2 DEF GiveUp, Sleeping
  <2>3. ASSUME NEW how \in {"no_sensor_frame", "no_source_frame"}, Crash(how)
        PROVE  TypeOK'
    BY <2>3 DEF Crash
  <2> QED
    BY <1>3, <2>1, <2>2, <2>3 DEF SensorFrame, ProcessFrame
<1>4. CASE CaptureTakes
  <2>1. CASE GiveUp
    BY <2>1 DEF GiveUp, Sleeping
  <2>2. CASE bufList # <<>>
    <3>1. /\ held' = Head(bufList) /\ bufList' = Tail(bufList) /\ pc' = "fill"
          /\ UNCHANGED <<vb2, sequence, stream, stop, at, data, oops>>
      BY <1>4, <2>2 DEF CaptureTakes
    <3>2. Head(bufList) \in Buf /\ Tail(bufList) \in Seq(Buf)
      BY <2>2, SeqTypes
    <3> QED
      BY <3>1, <3>2
  <2> QED
    BY <1>4, <2>1, <2>2 DEF CaptureTakes
<1>5. CASE CaptureFills
  <2>1. CASE data = "frame"
    <3>1. held \in Buf
      BY <1>5 DEF CaptureFills, BufInv, WithDriver
    <3>2. done' \in Seq([buf : Buf, seq : 0..SeqMod - 1])
      <4>1. [buf |-> held, seq |-> sequence] \in [buf : Buf, seq : 0..SeqMod - 1]
        BY <3>1
      <4>2. Append(done, [buf |-> held, seq |-> sequence])
                \in Seq([buf : Buf, seq : 0..SeqMod - 1])
        BY <4>1, AppendProperties
      <4> QED
        BY <1>5, <2>1, <4>2 DEF CaptureFills
    <3>3. sequence' \in 0..SeqMod - 1
      BY <1>5, <2>1, StreamAssumption DEF CaptureFills
    <3> QED
      BY <1>5, <2>1, <3>2, <3>3 DEF CaptureFills
  <2>2. CASE data # "frame"
    BY <1>5, <2>2 DEF CaptureFills, Crash
  <2> QED
    BY <2>1, <2>2
<1> QED
  BY <1>1, <1>2, <1>3, <1>4, <1>5 DEF Thread
-----------------------------------------------------------------------------
(* The thread and its pipeline.                                              *)

\* At first there is neither thread nor pipeline.
LEMMA InitPipe == Init => PipeInv
BY ChainType DEF Init, PipeInv, FramesBelongToPipeline

\* What is terminated leaves no frame behind.
LEMMA TerminateFrames ==
    ASSUME TypeOK, FramesBelongToPipeline, Terminate(frame, pipeSize)
    PROVE  pipeSize' = 0 /\ FramesBelongToPipeline'
<1>1. pipeSize' = 0
  BY DEF Terminate
<1>2. ASSUME NEW e \in Ent PROVE ~frame'[e]
  <2>1. frame'[e] = (frame[e] /\ ~ \E k \in 1..pipeSize : Chain[k] = e)
    BY DEF Terminate
  <2>2. frame[e] => \E k \in 1..pipeSize : Chain[k] = e
    BY DEF FramesBelongToPipeline
  <2> QED
    BY <2>1, <2>2
<1>3. \A e \in Ent : ~ \E k \in 2..pipeSize' : Chain[k] = e
  BY <1>1
<1> QED
  BY <1>1, <1>2, <1>3 DEF FramesBelongToPipeline

\* Every subdevice but the capture device, which comes first, gets a frame.
LEMMA InitPipelineFrames ==
    ASSUME TypeOK, FramesBelongToPipeline, pipeSize = 0, InitPipeline
    PROVE  pipeSize' = Len(Chain) /\ FramesBelongToPipeline'
<1>1. pipeSize' = Len(Chain)
  BY DEF InitPipeline
<1>2. ASSUME NEW e \in Ent PROVE frame'[e] <=> e \in Subdevs
  <2>1. frame'[e] = (frame[e] \/ (e \in Subdevs /\ \E k \in 1..Len(Chain) : Chain[k] = e))
    BY DEF InitPipeline, Allocated
  <2>2. ~frame[e]
    BY DEF FramesBelongToPipeline
  <2>3. e \in Subdevs => \E k \in 1..Len(Chain) : Chain[k] = e
    BY DEF Subdevs
  <2> QED
    BY <2>1, <2>2, <2>3
<1>3. \A e \in Ent : e \in Subdevs <=> \E k \in 2..Len(Chain) : Chain[k] = e
  BY StreamAssumption, ChainType DEF Subdevs
<1> QED
  BY <1>1, <1>2, <1>3 DEF FramesBelongToPipeline

\* The ioctls leave thread, pipeline and frames together.
LEMMA ProgramPipe == TypeOK /\ PipeInv /\ Program => PipeInv'
<1> SUFFICES ASSUME TypeOK, PipeInv, Program PROVE PipeInv'
  OBVIOUS
<1> USE DEF PipeInv, FramesBelongToPipeline, stream, thread
<1>1. ASSUME NEW b \in Buf, QBuf(b) PROVE PipeInv'
  BY <1>1 DEF QBuf, UserIdle
<1>2. CASE DQBuf
  BY <1>2 DEF DQBuf, UserIdle
<1>3. CASE StreamOn
  <2>1. ~started
    BY <1>3 DEF StreamOn
  <2> QED
    BY <1>3, <2>1 DEF StreamOn, UserIdle
<1>4. CASE StreamOffUnstarted
  BY <1>4 DEF StreamOffUnstarted, QueueCancel
<1>5. CASE StreamOff
  BY <1>5 DEF StreamOff, UserIdle
<1>6. CASE StreamOffBadThread
  BY <1>6 DEF StreamOffBadThread, vb2
<1> QED
  BY <1>1, <1>2, <1>3, <1>4, <1>5, <1>6 DEF Program

\* However a start or a stop ends, thread, pipeline and frames agree.
LEMMA KernelPipe == TypeOK /\ PipeInv /\ Kernel => PipeInv'
<1> SUFFICES ASSUME TypeOK, PipeInv, Kernel PROVE PipeInv'
  OBVIOUS
<1> USE DEF stream, thread
<1>1. CASE StartAlready
  BY <1>1 DEF PipeInv, FramesBelongToPipeline, StartAlready, Starting, StartSucceeds
<1>2. CASE StartRefused
  BY <1>2 DEF PipeInv, FramesBelongToPipeline, StartRefused, Starting, StartFails
<1>3. CASE StartPipelineFails
  <2>1. PICK n \in 1..Len(Chain) : \/ Terminate(Allocated(n - 1), n)
                                   \/ Terminate(Allocated(n), n)
    BY <1>3 DEF StartPipelineFails
  <2>2. kthread = "null" /\ pipeSize = 0
    BY <1>3 DEF StartPipelineFails, PipeInv
  <2>3. pipeSize' = 0
    BY <2>1 DEF Terminate
  <2>4. ASSUME NEW e \in Ent PROVE ~frame'[e]
    <3>1. ~frame[e]
      BY <2>2 DEF PipeInv, FramesBelongToPipeline
    <3>2. n \in Nat /\ \A k \in 1..n - 1 : k \in 1..n
      BY ChainType
    <3>3. frame'[e] => \/ Allocated(n - 1)[e] /\ ~ \E k \in 1..n : Chain[k] = e
                       \/ Allocated(n)[e] /\ ~ \E k \in 1..n : Chain[k] = e
      BY <2>1 DEF Terminate
    <3> QED
      BY <3>1, <3>2, <3>3 DEF Allocated
  <2>5. FramesBelongToPipeline'
    BY <2>3, <2>4 DEF FramesBelongToPipeline
  <2> QED
    BY <1>3, <2>2, <2>3, <2>5
       DEF PipeInv, StartPipelineFails, Starting, StartFails
<1>4. CASE StartThreadFails
  <2>1. pipeSize' = Len(Chain) /\ FramesBelongToPipeline'
    BY <1>4, InitPipelineFrames DEF PipeInv, StartThreadFails
  <2> QED
    BY <1>4, <2>1 DEF PipeInv, StartThreadFails, Starting, StartFails
<1>5. CASE Start
  <2>1. pipeSize' = Len(Chain) /\ FramesBelongToPipeline'
    BY <1>5, InitPipelineFrames DEF PipeInv, Start
  <2> QED
    BY <1>5, <2>1 DEF PipeInv, Start, Starting, StartSucceeds
<1>6. CASE StopEnds
  <2>1. pipeSize' = 0 /\ FramesBelongToPipeline'
    BY <1>6, TerminateFrames DEF PipeInv, StopEnds
  <2> QED
    BY <1>6, <2>1 DEF PipeInv, StopEnds, StopReturns, QueueCancel
<1>7. CASE StopEndsEarly
  BY <1>7 DEF PipeInv, FramesBelongToPipeline, StopEndsEarly, StopReturns, QueueCancel
<1> QED
  BY <1>1, <1>2, <1>3, <1>4, <1>5, <1>6, <1>7 DEF Kernel

\* The thread stays within its pipeline, and its sensor has a frame.
LEMMA ThreadPipe == TypeOK /\ PipeInv /\ Thread => PipeInv'
<1> SUFFICES ASSUME TypeOK, PipeInv, Thread PROVE PipeInv'
  OBVIOUS
<1> USE DEF PipeInv, FramesBelongToPipeline, vb2, stream, thread
<1>1. CASE ThreadBegins
  BY <1>1 DEF ThreadBegins, Sleeping
<1>2. CASE ThreadChecks
  BY <1>2, ChainType DEF ThreadChecks, Sleeping, TypeOK
<1>3. CASE SensorFrame
  <2>1. at \in 1..Len(Chain) /\ pipeSize = Len(Chain) /\ pc = "proc"
    BY <1>3 DEF SensorFrame, Processes
  <2>2. at \in 2..pipeSize /\ Chain[at] \in Ent
    BY <1>3, <2>1, StreamAssumption, ChainType DEF SensorFrame, Processes
  <2>3. PassFrame
    BY <1>3, <2>2 DEF SensorFrame
  <2>4. at' \in 1..pipeSize
    BY <2>2, <2>3, ChainType, <2>1 DEF PassFrame
  <2> QED
    BY <2>3, <2>4 DEF PassFrame, Sleeping
<1>4. CASE ProcessFrame
  <2>1. CASE GiveUp
    BY <1>4, <2>1 DEF GiveUp, Sleeping, ProcessFrame, Processes
  <2>2. CASE PassFrame
    <3>1. at \in 1..Len(Chain) /\ pipeSize = Len(Chain) /\ pc = "proc"
      BY <1>4 DEF ProcessFrame, Processes
    <3>2. at \in 2..pipeSize
      BY <1>4, <3>1, StreamAssumption, ChainType DEF ProcessFrame, Processes
    <3>3. at' \in 1..pipeSize
      BY <2>2, <3>1, <3>2, ChainType DEF PassFrame
    <3> QED
      BY <2>2, <3>3 DEF PassFrame, Sleeping
  <2>3. CASE Crash("no_source_frame")
    BY <2>3 DEF Crash
  <2> QED
    BY <1>4, <2>1, <2>2, <2>3 DEF ProcessFrame
<1>5. CASE CaptureTakes
  <2>1. CASE GiveUp
    BY <1>5, <2>1 DEF GiveUp, Sleeping, CaptureTakes, Processes
  <2> QED
    BY <1>5, <2>1 DEF CaptureTakes, Processes
<1>6. CASE CaptureFills
  BY <1>6 DEF CaptureFills, Crash
<1> QED
  BY <1>1, <1>2, <1>3, <1>4, <1>5, <1>6 DEF Thread
-----------------------------------------------------------------------------
(* The buffers.                                                              *)

\* An empty list holds no buffer.
LEMMA InEmpty ==
    /\ \A b : ~In(b, <<>>) /\ ~Filled(b, <<>>)
    /\ OnceEach(<<>>) /\ FilledOnce(<<>>)
BY EmptySeq DEF In, OnceEach, Filled, FilledOnce

\* list_add_tail of a buffer that is not on the list.
LEMMA InAppend ==
    ASSUME NEW S, NEW s \in Seq(S), NEW e \in S
    PROVE  /\ \A b : In(b, Append(s, e)) <=> In(b, s) \/ b = e
           /\ OnceEach(s) /\ ~In(e, s) => OnceEach(Append(s, e))
<1>1. /\ Len(Append(s, e)) = Len(s) + 1 /\ Len(s) \in Nat
      /\ \A i \in 1..Len(s) : Append(s, e)[i] = s[i]
      /\ Append(s, e)[Len(s) + 1] = e
  BY AppendProperties, LenProperties
<1>2. ASSUME NEW b PROVE In(b, Append(s, e)) <=> In(b, s) \/ b = e
  BY <1>1 DEF In
<1>3. ASSUME OnceEach(s), ~In(e, s) PROVE OnceEach(Append(s, e))
  BY <1>1, <1>3 DEF OnceEach, In
<1> QED
  BY <1>2, <1>3

\* list_del of the first buffer.
LEMMA InTail ==
    ASSUME NEW S, NEW s \in Seq(S), s # <<>>, OnceEach(s)
    PROVE  /\ \A b : In(b, Tail(s)) <=> In(b, s) /\ b # Head(s)
           /\ OnceEach(Tail(s))
           /\ In(Head(s), s)
<1>1. /\ Len(s) \in Nat /\ Len(s) >= 1 /\ Len(Tail(s)) = Len(s) - 1
      /\ \A i \in 1..Len(Tail(s)) : Tail(s)[i] = s[i + 1]
      /\ Head(s) = s[1]
  BY HeadTailProperties, EmptySeq
<1>2. ASSUME NEW b PROVE In(b, Tail(s)) => In(b, s) /\ b # Head(s)
  BY <1>1 DEF In, OnceEach
<1>3. ASSUME NEW b, In(b, s), b # Head(s) PROVE In(b, Tail(s))
  <2>1. PICK k \in 1..Len(s) : s[k] = b
    BY <1>3 DEF In
  <2>2. k - 1 \in 1..Len(Tail(s)) /\ Tail(s)[k - 1] = b
    BY <1>1, <1>3, <2>1
  <2> QED
    BY <2>2 DEF In
<1>4. OnceEach(Tail(s))
  <2> SUFFICES ASSUME NEW i \in 1..Len(Tail(s)), NEW j \in 1..Len(Tail(s)),
                      Tail(s)[i] = Tail(s)[j]
               PROVE  i = j
    BY DEF OnceEach
  <2>1. s[i + 1] = s[j + 1] /\ i + 1 \in 1..Len(s) /\ j + 1 \in 1..Len(s)
    BY <1>1
  <2> QED
    BY <2>1 DEF OnceEach
<1> QED
  BY <1>1, <1>2, <1>3, <1>4 DEF In

\* vb2_buffer_done and the VIDIOC_DQBUF after it.
LEMMA FilledAppend ==
    ASSUME NEW S, NEW d \in Seq(S), NEW r \in S
    PROVE  /\ \A b : Filled(b, Append(d, r)) <=> Filled(b, d) \/ b = r.buf
           /\ FilledOnce(d) /\ ~Filled(r.buf, d) => FilledOnce(Append(d, r))
<1>1. /\ Len(Append(d, r)) = Len(d) + 1 /\ Len(d) \in Nat
      /\ \A i \in 1..Len(d) : Append(d, r)[i] = d[i]
      /\ Append(d, r)[Len(d) + 1] = r
  BY AppendProperties, LenProperties
<1>2. ASSUME NEW b PROVE Filled(b, Append(d, r)) <=> Filled(b, d) \/ b = r.buf
  BY <1>1 DEF Filled
<1>3. ASSUME FilledOnce(d), ~Filled(r.buf, d) PROVE FilledOnce(Append(d, r))
  BY <1>1, <1>3 DEF FilledOnce, Filled
<1> QED
  BY <1>2, <1>3

\* VIDIOC_DQBUF takes the first buffer off done_list, and no other.
LEMMA FilledTail ==
    ASSUME NEW S, NEW d \in Seq(S), d # <<>>, FilledOnce(d)
    PROVE  /\ \A b : Filled(b, Tail(d)) <=> Filled(b, d) /\ b # Head(d).buf
           /\ FilledOnce(Tail(d))
<1>1. /\ Len(d) \in Nat /\ Len(d) >= 1 /\ Len(Tail(d)) = Len(d) - 1
      /\ \A i \in 1..Len(Tail(d)) : Tail(d)[i] = d[i + 1]
      /\ Head(d) = d[1]
  BY HeadTailProperties, EmptySeq
<1>2. ASSUME NEW b PROVE Filled(b, Tail(d)) => Filled(b, d) /\ b # Head(d).buf
  BY <1>1 DEF Filled, FilledOnce
<1>3. ASSUME NEW b, Filled(b, d), b # Head(d).buf PROVE Filled(b, Tail(d))
  <2>1. PICK k \in 1..Len(d) : d[k].buf = b
    BY <1>3 DEF Filled
  <2>2. k - 1 \in 1..Len(Tail(d)) /\ Tail(d)[k - 1].buf = b
    BY <1>1, <1>3, <2>1
  <2> QED
    BY <2>2 DEF Filled
<1>4. FilledOnce(Tail(d))
  <2> SUFFICES ASSUME NEW i \in 1..Len(Tail(d)), NEW j \in 1..Len(Tail(d)),
                      Tail(d)[i].buf = Tail(d)[j].buf
               PROVE  i = j
    BY DEF FilledOnce
  <2>1. /\ d[i + 1].buf = d[j + 1].buf
        /\ i + 1 \in 1..Len(d) /\ j + 1 \in 1..Len(d)
    BY <1>1
  <2> QED
    BY <2>1 DEF FilledOnce
<1> QED
  BY <1>2, <1>3, <1>4

\* At first the program has every buffer.
LEMMA InitBuf == Init => BufInv
BY StreamAssumption, InEmpty
   DEF Init, BufInv, WithDriver, WithVb2, BeforeStream

\* Before a stream the thread holds nothing.
LEMMA NothingHeld == PipeInv /\ BufInv /\ ~started => pc = "none" /\ held = NULL
BY DEF PipeInv, BufInv, WithDriver

\* A queued buffer goes to one place: queued_list, or buf_list as well.
LEMMA QBufBuf ==
    ASSUME TypeOK, PipeInv, BufInv, NEW b \in Buf, QBuf(b)
    PROVE  BufInv'
<1> DEFINE q == Append(queued, b)
<1>1. /\ user = "idle" /\ bstate[b] = "dequeued" /\ queued' = q
      /\ UNCHANGED <<done, started, warned, held, pc>>
  BY DEF QBuf, UserIdle, thread
<1>2. ~started => /\ \A c : In(c, q) <=> In(c, queued) \/ c = b
                  /\ OnceEach(q)
  BY <1>1, InAppend DEF TypeOK, BufInv, BeforeStream
<1>3. CASE streaming /\ ~started /\ Len(q) >= MinBuffers
  <2>1. user' = "starting" /\ bufList' = q
    BY <1>1, <1>3 DEF QBuf
  <2>2. \A c \in Buf : bstate'[c] = IF In(c, q) THEN "active" ELSE bstate[c]
    BY <1>1, <1>3 DEF QBuf, In
  <2>3. held = NULL /\ pc = "none" /\ done = <<>>
    BY <1>3, NothingHeld DEF BufInv, BeforeStream
  <2>4. \A c \in Buf : bstate'[c] = IF In(c, q) THEN "active" ELSE "dequeued"
    BY <1>2, <1>3, <2>2 DEF BufInv, BeforeStream
  <2>5. ~In(NULL, q)
    BY <1>2, <1>3, StreamAssumption, ElementOfSeq DEF TypeOK, In
  <2>6. WithDriver'
    BY <1>1, <1>2, <1>3, <2>1, <2>3, <2>4, <2>5, StreamAssumption DEF WithDriver
  <2>7. WithVb2'
    BY <1>1, <2>3, <2>4, InEmpty DEF WithVb2
  <2>8. BeforeStream'
    BY <1>1, <1>2, <1>3, <2>1, <2>3, <2>4 DEF BeforeStream
  <2> QED
    BY <1>1, <2>6, <2>7, <2>8 DEF BufInv
<1>4. CASE started
  <2>1. /\ user' = "idle" /\ bufList' = Append(bufList, b)
        /\ bstate' = [bstate EXCEPT ![b] = "active"]
    BY <1>1, <1>4 DEF QBuf
  <2>2. /\ \A c : In(c, bufList') <=> In(c, bufList) \/ c = b
        /\ OnceEach(bufList) /\ ~In(b, bufList) => OnceEach(bufList')
    BY <2>1, InAppend DEF TypeOK
  <2>3. ~In(b, bufList) /\ held # b
    BY <1>1 DEF BufInv, WithDriver
  <2>4. WithDriver'
    BY <1>1, <2>1, <2>2, <2>3 DEF BufInv, WithDriver, TypeOK
  <2>5. WithVb2'
    BY <1>1, <2>1 DEF BufInv, WithVb2, TypeOK
  <2>6. BeforeStream'
    BY <1>1, <1>4, <2>1 DEF BufInv, BeforeStream, TypeOK
  <2> QED
    BY <1>1, <2>4, <2>5, <2>6 DEF BufInv
<1>5. CASE ~started /\ ~(streaming /\ Len(q) >= MinBuffers)
  <2>1. /\ user' = "idle" /\ bufList' = bufList
        /\ bstate' = [bstate EXCEPT ![b] = "queued"]
    BY <1>1, <1>5 DEF QBuf
  <2>2. held = NULL /\ pc = "none" /\ done = <<>> /\ bufList = <<>>
    BY <1>1, <1>5, NothingHeld DEF BufInv, BeforeStream
  <2>3. WithDriver'
    BY <1>1, <2>1, <2>2, InEmpty DEF BufInv, WithDriver, TypeOK
  <2>4. WithVb2'
    BY <1>1, <2>1, <2>2, InEmpty DEF BufInv, WithVb2, TypeOK
  <2>5. \A c \in Buf : bstate'[c] # "dequeued" <=> In(c, q)
    BY <1>2, <1>5, <2>1 DEF BufInv, BeforeStream, TypeOK
  <2>6. BeforeStream'
    BY <1>1, <1>2, <1>5, <2>1, <2>2, <2>5 DEF BeforeStream
  <2> QED
    BY <1>1, <2>3, <2>4, <2>6 DEF BufInv
<1> QED
  BY <1>3, <1>4, <1>5 DEF TypeOK

\* A dequeued buffer leaves the places of vb2 for the program.
LEMMA DQBufBuf == TypeOK /\ PipeInv /\ BufInv /\ DQBuf => BufInv'
<1> SUFFICES ASSUME TypeOK, PipeInv, BufInv, DQBuf PROVE BufInv'
  OBVIOUS
<1> DEFINE b == Head(done).buf
<1>1. /\ done # <<>> /\ done' = Tail(done)
      /\ bstate' = [bstate EXCEPT ![b] = "dequeued"]
      /\ UNCHANGED <<started, warned, user, bufList, held, pc>>
  BY DEF DQBuf, thread
<1>2. started
  BY <1>1 DEF BufInv, BeforeStream
<1>3. Head(done) = done[1] /\ 1 \in 1..Len(done) /\ b \in Buf
  <2>1. done \in Seq([buf : Buf, seq : 0..SeqMod - 1])
    BY DEF TypeOK
  <2>2. Len(done) \in Nat \ {0}
    BY <1>1, <2>1, EmptySeq
  <2>3. Head(done) \in [buf : Buf, seq : 0..SeqMod - 1]
    BY <1>1, <2>1, HeadTailProperties
  <2> QED
    BY <2>1, <2>2, <2>3
<1>4. bstate[b] = "done"
  BY <1>3 DEF BufInv, WithVb2, Filled
<1>5. WithDriver'
  BY <1>1, <1>3, <1>4 DEF BufInv, WithDriver, TypeOK
<1>6. /\ \A c : Filled(c, done') <=> Filled(c, done) /\ c # b
      /\ FilledOnce(done')
  BY <1>1, FilledTail DEF TypeOK, BufInv, WithVb2
<1>7. WithVb2'
  BY <1>1, <1>3, <1>6 DEF BufInv, WithVb2, TypeOK
<1>8. BeforeStream'
  BY <1>1, <1>2, <1>3 DEF PipeInv, BufInv, BeforeStream, TypeOK
<1> QED
  BY <1>1, <1>5, <1>7, <1>8 DEF BufInv

\* VIDIOC_STREAMON hands over the queued buffers, or waits for more.
LEMMA StreamOnBuf == TypeOK /\ PipeInv /\ BufInv /\ StreamOn => BufInv'
<1> SUFFICES ASSUME TypeOK, PipeInv, BufInv, StreamOn PROVE BufInv'
  OBVIOUS
<1>1. ~started /\ user = "idle" /\ UNCHANGED <<queued, done, started, warned, held, pc>>
  BY DEF StreamOn, UserIdle, PipeInv, thread
<1>2. held = NULL /\ pc = "none" /\ done = <<>> /\ bufList = <<>>
  BY <1>1, NothingHeld DEF BufInv, BeforeStream
<1>3. \A b \in Buf : bstate[b] = IF In(b, queued) THEN "queued" ELSE "dequeued"
  BY <1>1, <1>2, InEmpty, StreamAssumption
     DEF BufInv, WithDriver, WithVb2, BeforeStream, TypeOK
<1>4. CASE user' = "starting"
  <2>1. bufList' = queued /\ \A b \in Buf : bstate'[b] = IF In(b, queued) THEN "active"
                                                        ELSE "dequeued"
    BY <1>1, <1>3, <1>4 DEF StreamOn
  <2>2. ~In(NULL, queued)
    BY StreamAssumption, ElementOfSeq DEF TypeOK, In
  <2>3. WithDriver'
    BY <1>1, <1>2, <2>1, <2>2, StreamAssumption DEF BufInv, BeforeStream, WithDriver
  <2>4. WithVb2'
    BY <1>1, <1>2, <2>1, InEmpty DEF WithVb2
  <2>5. BeforeStream'
    BY <1>1, <1>2, <1>4, <2>1 DEF BufInv, BeforeStream
  <2> QED
    BY <1>1, <2>3, <2>4, <2>5 DEF BufInv
<1>5. CASE UNCHANGED <<user, bstate, bufList>>
  BY <1>1, <1>5 DEF BufInv, WithDriver, WithVb2, BeforeStream
<1> QED
  BY <1>4, <1>5 DEF StreamOn

\* Once the queue is cancelled no buffer is anywhere.
LEMMA QueueCancelBuf ==
    ASSUME QueueCancel, bufList' = <<>>, held' = NULL, pc' = "none", ~warned'
    PROVE  BufInv'
BY StreamAssumption, InEmpty
   DEF QueueCancel, BufInv, WithDriver, WithVb2, BeforeStream

\* The ioctls keep every buffer in one place.
LEMMA ProgramBuf == TypeOK /\ PipeInv /\ BufInv /\ Program => BufInv'
<1> SUFFICES ASSUME TypeOK, PipeInv, BufInv, Program PROVE BufInv'
  OBVIOUS
<1>1. ASSUME NEW b \in Buf, QBuf(b) PROVE BufInv'
  BY <1>1, QBufBuf
<1>2. CASE StreamOffUnstarted
  <2>1. bufList = <<>> /\ held = NULL /\ pc = "none" /\ ~warned
    BY <1>2, NothingHeld DEF StreamOffUnstarted, UserIdle, BufInv, BeforeStream
  <2> QED
    BY <1>2, <2>1, QueueCancelBuf DEF StreamOffUnstarted, thread
<1>3. CASE StreamOff
  BY <1>3 DEF StreamOff, PipeInv, BufInv, WithDriver, WithVb2, BeforeStream
<1>4. CASE StreamOffBadThread
  BY <1>4 DEF StreamOffBadThread, BufInv, WithDriver, WithVb2, BeforeStream,
              vb2, thread
<1> QED
  BY <1>1, <1>2, <1>3, <1>4, DQBufBuf, StreamOnBuf DEF Program

\* A start that fails gives every buffer back to vb2, queued.
LEMMA StartFailsBuf ==
    ASSUME TypeOK, PipeInv, BufInv, user = "starting", StartFails
    PROVE  BufInv'
<1>1. /\ ~started /\ user' = "idle" /\ bufList' = <<>>
      /\ bstate' = [b \in Buf |-> IF bstate[b] = "active" THEN "queued" ELSE bstate[b]]
      /\ UNCHANGED <<queued, done, started, warned, held, pc>>
  BY DEF StartFails, PipeInv, thread
<1>2. held = NULL /\ pc = "none" /\ done = <<>>
  BY <1>1, NothingHeld DEF BufInv, BeforeStream
<1>3. WithDriver'
  BY <1>1, <1>2, InEmpty, StreamAssumption DEF WithDriver
<1>4. WithVb2'
  BY <1>1, <1>2 DEF BufInv, WithVb2
<1>5. BeforeStream'
  BY <1>1, <1>2 DEF BufInv, BeforeStream
<1> QED
  BY <1>1, <1>3, <1>4, <1>5 DEF BufInv

\* When a stream starts every queued buffer is with the driver.
LEMMA StartSucceedsBuf ==
    ASSUME TypeOK, PipeInv, BufInv, user = "starting", StartSucceeds, held' = held,
           pc' # "fill"
    PROVE  BufInv'
<1>1. /\ ~started /\ bufList = queued /\ user' = "idle" /\ started'
      /\ UNCHANGED <<bstate, queued, done, warned, bufList>>
  BY DEF StartSucceeds, PipeInv, BufInv, BeforeStream
<1>2. held = NULL /\ pc = "none"
  BY <1>1, NothingHeld
<1>3. WithDriver' /\ WithVb2'
  BY <1>1, <1>2 DEF BufInv, WithDriver, WithVb2
<1>4. \A b \in Buf : bstate[b] # "queued"
  BY <1>1, <1>2, StreamAssumption DEF BufInv, BeforeStream, WithDriver, TypeOK
<1>5. BeforeStream'
  BY <1>1, <1>4 DEF BeforeStream
<1> QED
  BY <1>1, <1>3, <1>5 DEF BufInv

\* Starting and stopping keep every buffer in one place.
LEMMA KernelBuf == TypeOK /\ PipeInv /\ BufInv /\ Kernel => BufInv'
<1> SUFFICES ASSUME TypeOK, PipeInv, BufInv, Kernel PROVE BufInv'
  OBVIOUS
<1>1. CASE StartAlready
  <2>1. pc = "none"
    BY <1>1, NothingHeld DEF StartAlready, Starting, PipeInv
  <2> QED
    BY <1>1, <2>1, StartSucceedsBuf DEF StartAlready, Starting, thread
<1>2. CASE StartRefused
  BY <1>2, StartFailsBuf DEF StartRefused, Starting
<1>3. CASE StartPipelineFails
  BY <1>3, StartFailsBuf DEF StartPipelineFails, Starting
<1>4. CASE StartThreadFails
  BY <1>4, StartFailsBuf DEF StartThreadFails, Starting
<1>5. CASE Start
  BY <1>5, StartSucceedsBuf DEF Start, Starting
<1>6. ASSUME StopReturns, pc # "fill" PROVE BufInv'
  <2>1. held = NULL /\ ~warned
    BY <1>6 DEF BufInv, WithDriver
  <2> QED
    BY <1>6, <2>1, QueueCancelBuf DEF StopReturns
<1>7. CASE StopEnds
  BY <1>6, <1>7 DEF StopEnds
<1>8. CASE StopEndsEarly
  BY <1>6, <1>8 DEF StopEndsEarly
<1> QED
  BY <1>1, <1>2, <1>3, <1>4, <1>5, <1>7, <1>8 DEF Kernel

\* list_del moves the first buffer of buf_list to the thread.
LEMMA CaptureTakesBuf == TypeOK /\ PipeInv /\ BufInv /\ CaptureTakes => BufInv'
<1> SUFFICES ASSUME TypeOK, PipeInv, BufInv, CaptureTakes PROVE BufInv'
  OBVIOUS
<1>1. pc = "proc" /\ held = NULL /\ started
  BY DEF CaptureTakes, Processes, BufInv, WithDriver, PipeInv
<1>2. CASE GiveUp
  BY <1>1, <1>2 DEF GiveUp, Sleeping, vb2, BufInv, WithDriver, WithVb2, BeforeStream
<1>3. CASE bufList # <<>>
  <2>1. /\ held' = Head(bufList) /\ bufList' = Tail(bufList) /\ pc' = "fill"
        /\ UNCHANGED <<bstate, queued, done, started, warned, user>>
    BY <1>3 DEF CaptureTakes, vb2
  <2>2. /\ \A b : In(b, bufList') <=> In(b, bufList) /\ b # Head(bufList)
        /\ OnceEach(bufList')
        /\ In(Head(bufList), bufList)
    BY <1>3, <2>1, InTail DEF TypeOK, BufInv, WithDriver
  <2>3. Head(bufList) \in Buf
    BY <1>3, HeadTailProperties DEF TypeOK
  <2>4. WithDriver'
    BY <1>1, <2>1, <2>2, <2>3, StreamAssumption DEF BufInv, WithDriver
  <2>5. WithVb2' /\ BeforeStream'
    BY <1>1, <2>1 DEF BufInv, WithVb2, BeforeStream, PipeInv
  <2> QED
    BY <2>1, <2>4, <2>5 DEF BufInv
<1> QED
  BY <1>2, <1>3 DEF CaptureTakes

\* vb2_buffer_done moves the buffer of the thread to done_list.
LEMMA CaptureFillsBuf == TypeOK /\ PipeInv /\ BufInv /\ CaptureFills => BufInv'
<1> SUFFICES ASSUME TypeOK, PipeInv, BufInv, CaptureFills PROVE BufInv'
  OBVIOUS
<1>1. pc = "fill" /\ held \in Buf /\ started
  BY DEF CaptureFills, BufInv, WithDriver, PipeInv, TypeOK
<1>2. CASE data = "frame"
  <2> DEFINE r == [buf |-> held, seq |-> sequence]
  <2>1. /\ done' = Append(done, r) /\ bstate' = [bstate EXCEPT ![held] = "done"]
        /\ held' = NULL /\ pc' = "check"
        /\ UNCHANGED <<queued, started, warned, user, bufList>>
    BY <1>2 DEF CaptureFills
  <2>2. r \in [buf : Buf, seq : 0..SeqMod - 1] /\ r.buf = held
    BY <1>1 DEF TypeOK
  <2>3. bstate[held] = "active"
    BY <1>1 DEF BufInv, WithDriver
  <2>4. ~Filled(held, done)
    BY <1>1, <2>3 DEF BufInv, WithVb2
  <2>5. /\ \A b : Filled(b, done') <=> Filled(b, done) \/ b = held
        /\ FilledOnce(done')
    <3>1. done \in Seq([buf : Buf, seq : 0..SeqMod - 1]) /\ FilledOnce(done)
      BY DEF TypeOK, BufInv, WithVb2
    <3> HIDE DEF r
    <3> QED
      BY <2>1, <2>2, <2>4, <3>1, FilledAppend
  <2>6. ~In(NULL, bufList)
    BY StreamAssumption, ElementOfSeq DEF TypeOK, In
  <2>7. WithDriver'
    BY <1>1, <2>1, <2>6, StreamAssumption DEF BufInv, WithDriver, TypeOK
  <2>8. WithVb2'
    BY <1>1, <2>1, <2>5 DEF BufInv, WithVb2, TypeOK
  <2>9. BeforeStream'
    BY <1>1, <2>1 DEF BufInv, BeforeStream, PipeInv, TypeOK
  <2> QED
    BY <2>1, <2>7, <2>8, <2>9 DEF BufInv
<1>3. CASE data # "frame"
  BY <1>3 DEF CaptureFills, Crash, BufInv, WithDriver, WithVb2, BeforeStream,
              vb2, thread
<1> QED
  BY <1>2, <1>3

\* The thread keeps every buffer in one place.
LEMMA ThreadBuf == TypeOK /\ PipeInv /\ BufInv /\ Thread => BufInv'
<1> SUFFICES ASSUME TypeOK, PipeInv, BufInv, Thread PROVE BufInv'
  OBVIOUS
<1>1. ASSUME pc # "fill", pc' # "fill",
             UNCHANGED <<bstate, queued, done, started, warned, user, bufList, held>>
      PROVE  BufInv'
  BY <1>1 DEF BufInv, WithDriver, WithVb2, BeforeStream
<1>2. CASE ThreadBegins
  BY <1>1, <1>2 DEF ThreadBegins, Sleeping, vb2
<1>3. CASE ThreadChecks
  BY <1>1, <1>3 DEF ThreadChecks, Sleeping, vb2
<1>4. CASE SensorFrame \/ ProcessFrame
  <2>1. pc = "proc"
    BY <1>4 DEF SensorFrame, ProcessFrame, Processes
  <2>2. CASE PassFrame \/ GiveUp
    BY <1>1, <2>1, <2>2 DEF PassFrame, GiveUp, Sleeping, vb2
  <2>3. ASSUME NEW how, Crash(how) PROVE BufInv'
    BY <1>1, <2>1, <2>3 DEF Crash, vb2, thread
  <2> QED
    BY <1>4, <2>2, <2>3 DEF SensorFrame, ProcessFrame
<1> QED
  BY <1>2, <1>3, <1>4, CaptureTakesBuf, CaptureFillsBuf DEF Thread

-----------------------------------------------------------------------------
(* The theorems.                                                             *)

Inv == TypeOK /\ PipeInv /\ BufInv

\* The three parts of the invariant hold together in every state.
LEMMA StreamSafe == Spec => []Inv
<1>1. Init => Inv
  BY InitType, InitPipe, InitBuf DEF Inv
<1>2. Inv /\ [Next]_vars => Inv'
  <2> SUFFICES ASSUME Inv, [Next]_vars PROVE Inv'
    OBVIOUS
  <2>1. CASE Program
    BY <2>1, ProgramType, ProgramPipe, ProgramBuf DEF Inv
  <2>2. CASE Kernel
    BY <2>2, KernelType, KernelPipe, KernelBuf DEF Inv
  <2>3. CASE Thread
    BY <2>3, ThreadType, ThreadPipe, ThreadBuf DEF Inv
  <2>4. CASE UNCHANGED vars
    BY <2>4 DEF vars, vb2, stream, thread, Inv, TypeOK, PipeInv,
                FramesBelongToPipeline, BufInv, WithDriver, WithVb2, BeforeStream
  <2> QED
    BY <2>1, <2>2, <2>3, <2>4 DEF Next
<1> QED
  BY <1>1, <1>2, PTL DEF Spec

\* Every variable of the queue, the stream and its thread keeps its type: the
\* array of the pipeline is never overrun, the thread holds a buffer or none.
THEOREM StreamTypes == Spec => []TypeOK
BY StreamSafe, PTL DEF Inv

\* The thread never runs without its whole pipeline and every frame of it.
THEOREM ThreadKeepsPipeline == Spec => []ThreadHasPipeline
<1>1. Inv => ThreadHasPipeline
  <2> SUFFICES ASSUME Inv, ThreadRuns PROVE /\ kthread = "live"
                                            /\ pipeSize = Len(Chain)
                                            /\ \A e \in Subdevs : frame[e]
    BY DEF ThreadHasPipeline
  <2>1. kthread = "live" /\ pipeSize = Len(Chain)
    BY DEF Inv, PipeInv, ThreadRuns
  <2>2. \A e \in Subdevs : e \in Ent /\ \E k \in 2..Len(Chain) : Chain[k] = e
    BY StreamAssumption, ChainType DEF Subdevs
  <2> QED
    BY <2>1, <2>2 DEF Inv, PipeInv, FramesBelongToPipeline
<1> QED
  BY <1>1, StreamSafe, PTL

\* No frame outlives its pipeline, whichever way a start fails or a stop ends.
THEOREM FramesFollowPipeline == Spec => []FramesBelongToPipeline
<1>1. Inv => FramesBelongToPipeline
  BY DEF Inv, PipeInv
<1> QED
  BY <1>1, StreamSafe, PTL

\* vimc_sen_process_frame never writes through a frame that is not there.
THEOREM SensorAlwaysHasFrame == Spec => []SensorHasFrame
<1>1. Inv => SensorHasFrame
  BY DEF Inv, PipeInv, SensorHasFrame
<1> QED
  BY <1>1, StreamSafe, PTL

\* vb2 never finds the driver keeping a buffer after stop_streaming.
THEOREM StopKeepsNothing == Spec => []NothingKept
<1>1. Inv => NothingKept
  BY DEF Inv, BufInv, NothingKept
<1> QED
  BY <1>1, StreamSafe, PTL

\* On buf_list at most once means once or not at all.
LEMMA CountOnce ==
    ASSUME NEW S, NEW s \in Seq(S), OnceEach(s), NEW b
    PROVE  Cardinality({k \in 1..Len(s) : s[k] = b}) = IF In(b, s) THEN 1 ELSE 0
<1>1. CASE In(b, s)
  <2>1. PICK k \in 1..Len(s) : s[k] = b
    BY <1>1 DEF In
  <2>2. {i \in 1..Len(s) : s[i] = b} = {k}
    BY <2>1 DEF OnceEach
  <2> QED
    BY <1>1, <2>2, FS_Singleton
<1>2. CASE ~In(b, s)
  <2>1. {i \in 1..Len(s) : s[i] = b} = {}
    BY <1>2 DEF In
  <2> QED
    BY <1>2, <2>1, FS_EmptySet
<1> QED
  BY <1>1, <1>2

\* A buffer vb2 handed to the driver is on buf_list or with the thread, once,
\* and no other buffer is.
THEOREM BuffersHaveOneOwner == Spec => []BufferOwnership
<1>1. Inv => BufferOwnership
  <2> SUFFICES ASSUME Inv, NEW b \in Buf
               PROVE  Owners(b) = IF bstate[b] = "active" THEN 1 ELSE 0
    BY DEF BufferOwnership
  <2>1. /\ bufList \in Seq(Buf) /\ OnceEach(bufList) /\ ~In(held, bufList)
        /\ bstate[b] = "active" <=> In(b, bufList) \/ held = b
    BY DEF Inv, TypeOK, BufInv, WithDriver
  <2>2. Cardinality({k \in 1..Len(bufList) : bufList[k] = b})
            = IF In(b, bufList) THEN 1 ELSE 0
    BY <2>1, CountOnce
  <2>3. Owners(b) = (IF In(b, bufList) THEN 1 ELSE 0) + (IF held = b THEN 1 ELSE 0)
    BY <2>2 DEF Owners
  <2> QED
    BY <2>1, <2>3
<1> QED
  BY <1>1, StreamSafe, PTL

-----------------------------------------------------------------------------
(* The capture device implements VimcCaptureQueue.                           *)

\* A buffer before the list: what taking it off and adding at the end do.
LEMMA HeldAndList ==
    ASSUME NEW S, NEW s \in Seq(S), NEW e \in S
    PROVE  /\ <<>> \o s = s
           /\ <<e>> \o s \in Seq(S) /\ <<e>> \o s # <<>>
           /\ Head(<<e>> \o s) = e /\ Tail(<<e>> \o s) = s
           /\ \A x \in S : <<e>> \o Append(s, x) = Append(<<e>> \o s, x)
           /\ s # <<>> => <<Head(s)>> \o Tail(s) = s
           /\ \A b : In(b, <<e>> \o s) => b = e \/ In(b, s)
<1> DEFINE t == <<e>> \o s
<1>1. <<e>> \in Seq(S) /\ Len(<<e>>) = 1 /\ <<e>>[1] = e /\ Len(s) \in Nat
  BY LenProperties
<1>2. /\ t \in Seq(S) /\ Len(t) = Len(s) + 1
      /\ \A i \in 1..Len(s) + 1 : t[i] = IF i <= 1 THEN e ELSE s[i - 1]
  BY <1>1, ConcatProperties
<1>3. t # <<>>
  BY <1>1, <1>2, EmptySeq
<1>4. Head(t) = e
  BY <1>1, <1>2, <1>3
<1>5. Tail(t) = s
  <2> HIDE DEF t
  <2>1. /\ Tail(t) \in Seq(S) /\ Len(Tail(t)) = Len(t) - 1
        /\ \A i \in 1..Len(Tail(t)) : Tail(t)[i] = t[i + 1]
    BY <1>2, <1>3, HeadTailProperties
  <2>2. Len(Tail(t)) = Len(s) /\ \A i \in 1..Len(s) : Tail(t)[i] = s[i]
    BY <1>1, <1>2, <2>1
  <2> QED
    BY <2>1, <2>2, SeqEqual
<1>6. ASSUME NEW x \in S PROVE <<e>> \o Append(s, x) = Append(t, x)
  <2>1. /\ Append(s, x) = s \o <<x>> /\ Append(t, x) = t \o <<x>>
        /\ <<x>> \in Seq(S)
    BY <1>2, AppendIsConcat
  <2> QED
    BY <1>1, <2>1, ConcatAssociative
<1>7. ASSUME s # <<>> PROVE <<Head(s)>> \o Tail(s) = s
  <2>1. /\ Head(s) \in S /\ Tail(s) \in Seq(S) /\ Len(Tail(s)) = Len(s) - 1
        /\ \A i \in 1..Len(Tail(s)) : Tail(s)[i] = s[i + 1]
        /\ Len(s) \in Nat \ {0} /\ Head(s) = s[1]
    BY <1>7, HeadTailProperties, EmptySeq
  <2> DEFINE u == <<Head(s)>> \o Tail(s)
  <2>2. <<Head(s)>> \in Seq(S) /\ Len(<<Head(s)>>) = 1 /\ <<Head(s)>>[1] = Head(s)
    BY <2>1
  <2>3. /\ u \in Seq(S) /\ Len(u) = 1 + Len(Tail(s))
        /\ \A i \in 1..1 + Len(Tail(s)) :
               u[i] = IF i <= 1 THEN <<Head(s)>>[i] ELSE Tail(s)[i - 1]
    BY <2>1, <2>2, ConcatProperties
  <2> HIDE DEF u
  <2>4. Len(u) = Len(s) /\ \A i \in 1..Len(u) : u[i] = s[i]
    BY <2>1, <2>2, <2>3
  <2> QED
    BY <2>3, <2>4, SeqEqual DEF u
<1>8. ASSUME NEW b, In(b, t) PROVE b = e \/ In(b, s)
  <2>1. PICK k \in 1..Len(t) : t[k] = b
    BY <1>8 DEF In
  <2>2. k <= 1 \/ k - 1 \in 1..Len(s)
    BY <1>1, <1>2
  <2> QED
    BY <1>1, <1>2, <2>1, <2>2 DEF In
<1> QED
  BY <1>2, <1>3, <1>4, <1>5, <1>6, <1>7, <1>8, ConcatEmptySeq

\* The abstract queue is empty at first.
LEMMA InitQueue == Init => Queue!Init
BY DEF Init, Queue!Init, Waiting

\* Waiting and the number shown do not change with the variables they depend on.
LEMMA Unseen ==
    ASSUME UNCHANGED <<queued, done, started, sequence, bufList, held>>
    PROVE  UNCHANGED Queue!vars
BY DEF Queue!vars, Waiting

\* Before a stream begins only queued_list is shown.
LEMMA UnseenBefore ==
    ASSUME ~started, UNCHANGED <<queued, done, started>>
    PROVE  UNCHANGED Queue!vars
BY DEF Queue!vars, Waiting

\* Queueing a buffer queues it last in the abstract queue.
LEMMA QBufRefines ==
    ASSUME Inv, NEW b \in Buf, QBuf(b)
    PROVE  Queue!Queue(b)
<1>1. /\ bstate[b] = "dequeued" /\ queued' = Append(queued, b)
      /\ UNCHANGED <<done, started, sequence, held>>
  BY DEF QBuf, thread
<1>2. ~Filled(b, done) /\ ~In(b, bufList) /\ held # b
  BY <1>1 DEF Inv, BufInv, WithVb2, WithDriver
<1>3. ~ \E i \in 1..Len(done) : done[i].buf = b
  BY <1>2 DEF Filled
<1>4. Waiting' = Append(Waiting, b) /\ ~In(b, Waiting)
  <2>1. CASE ~started
    BY <1>1, <2>1 DEF Waiting, Inv, BufInv, BeforeStream
  <2>2. CASE started /\ held = NULL
    <3>1. bufList' = Append(bufList, b)
      BY <2>2 DEF QBuf
    <3>2. Waiting = bufList /\ Waiting' = Append(bufList, b)
      BY <1>1, <2>2, <3>1, ConcatEmptySeq, AppendProperties
         DEF Waiting, Inv, TypeOK
    <3> QED
      BY <1>2, <3>2
  <2>3. CASE started /\ held # NULL
    <3>1. bufList' = Append(bufList, b)
      BY <2>3 DEF QBuf
    <3>2. held \in Buf /\ bufList \in Seq(Buf)
      BY <2>3 DEF Inv, TypeOK
    <3>3. Waiting = <<held>> \o bufList /\ Waiting' = <<held>> \o Append(bufList, b)
      BY <1>1, <2>3, <3>1 DEF Waiting
    <3>4. <<held>> \o Append(bufList, b) = Append(<<held>> \o bufList, b)
      BY <3>2, HeldAndList
    <3>5. \A c : In(c, <<held>> \o bufList) => c = held \/ In(c, bufList)
      BY <3>2, HeldAndList
    <3> QED
      BY <1>2, <3>3, <3>4, <3>5
  <2> QED
    BY <2>1, <2>2, <2>3 DEF Inv, TypeOK
<1> QED
  BY <1>1, <1>3, <1>4 DEF Queue!Queue, Queue!InUse, In

\* Filling a buffer delivers the one that waited longest.
LEMMA CaptureFillsRefines ==
    ASSUME Inv, CaptureFills, data = "frame"
    PROVE  Queue!Deliver
<1>1. /\ started /\ held \in Buf /\ held # NULL /\ bufList \in Seq(Buf)
  BY StreamAssumption DEF Inv, CaptureFills, PipeInv, BufInv, WithDriver, TypeOK
<1>2. /\ done' = Append(done, [buf |-> held, seq |-> sequence])
      /\ sequence' = (sequence + 1) % SeqMod /\ held' = NULL
      /\ UNCHANGED <<started, bufList>>
  BY DEF CaptureFills
<1>3. Waiting = <<held>> \o bufList /\ Waiting' = bufList
  BY <1>1, <1>2, ConcatEmptySeq DEF Waiting
<1>4. Waiting # <<>> /\ Head(Waiting) = held /\ Tail(Waiting) = bufList
  BY <1>1, <1>3, HeldAndList
<1> QED
  BY <1>1, <1>2, <1>3, <1>4 DEF Queue!Deliver

\* Taking a buffer off buf_list shows nothing.
LEMMA CaptureTakesRefines ==
    ASSUME Inv, CaptureTakes
    PROVE  UNCHANGED Queue!vars
<1>1. CASE GiveUp
  BY <1>1, Unseen DEF GiveUp, Sleeping, vb2
<1>2. CASE bufList # <<>>
  <2>1. started /\ held = NULL /\ bufList \in Seq(Buf)
    BY DEF CaptureTakes, Processes, Inv, PipeInv, BufInv, WithDriver, TypeOK
  <2>2. /\ held' = Head(bufList) /\ bufList' = Tail(bufList)
        /\ UNCHANGED <<queued, done, started, sequence>>
    BY <1>2 DEF CaptureTakes, vb2
  <2>3. Head(bufList) \in Buf
    BY <1>2, <2>1, HeadTailProperties
  <2>4. held' # NULL
    BY <2>2, <2>3, StreamAssumption
  <2>5. Waiting = bufList
    BY <2>1, ConcatEmptySeq DEF Waiting
  <2>6. Waiting' = <<Head(bufList)>> \o Tail(bufList)
    BY <2>1, <2>2, <2>4 DEF Waiting
  <2>7. Waiting' = Waiting
    BY <1>2, <2>1, <2>3, <2>5, <2>6, HeldAndList
  <2> QED
    BY <2>2, <2>7 DEF Queue!vars
<1> QED
  BY <1>1, <1>2 DEF CaptureTakes

\* A start that succeeds begins the abstract stream at number zero.
LEMMA StartRefines ==
    ASSUME Inv, user = "starting", StartSucceeds, held' = held
    PROVE  Queue!Begin
<1>1. ~started /\ bufList = queued /\ queued \in Seq(Buf)
  BY DEF Inv, PipeInv, BufInv, BeforeStream, TypeOK
<1>2. held' = NULL /\ bufList' = queued
  BY <1>1, NothingHeld DEF Inv, StartSucceeds
<1>3. Waiting = queued /\ Waiting' = queued
  BY <1>1, <1>2, ConcatEmptySeq DEF Waiting, StartSucceeds
<1> QED
  BY <1>1, <1>3 DEF Queue!Begin, StartSucceeds

\* Cancelling the queue gives everything back at once.
LEMMA FlushRefines == ASSUME QueueCancel PROVE Queue!Flush
BY DEF QueueCancel, Queue!Flush, Waiting

\* Every step is a step of the abstract queue or shows nothing.
LEMMA StreamStepRefines == Inv /\ [Next]_vars => [Queue!Next]_Queue!vars
<1> SUFFICES ASSUME Inv, [Next]_vars
             PROVE  Queue!Next \/ UNCHANGED Queue!vars
  OBVIOUS
<1>1. ASSUME NEW b \in Buf, QBuf(b) PROVE Queue!Next
  BY <1>1, QBufRefines DEF Queue!Next
<1>2. CASE DQBuf
  <2>1. started
    BY <1>2 DEF DQBuf, Inv, BufInv, BeforeStream
  <2>2. /\ done # <<>> /\ done' = Tail(done)
        /\ UNCHANGED <<started, sequence, bufList, held>>
    BY <1>2 DEF DQBuf, thread
  <2>3. Queue!Take
    BY <2>1, <2>2 DEF Queue!Take, Waiting
  <2> QED
    BY <2>3 DEF Queue!Next
<1>3. CASE StreamOn
  <2>1. ~started
    BY <1>3 DEF StreamOn, Inv, PipeInv
  <2> QED
    BY <1>3, <2>1, UnseenBefore DEF StreamOn
<1>4. CASE StreamOffUnstarted
  BY <1>4, FlushRefines DEF StreamOffUnstarted, Queue!Next
<1>5. CASE StreamOff \/ StreamOffBadThread
  BY <1>5, Unseen DEF StreamOff, StreamOffBadThread, vb2, thread
<1>6. CASE StartAlready \/ Start
  BY <1>6, StartRefines DEF StartAlready, Start, Starting, thread, Queue!Next
<1>7. CASE StartRefused \/ StartPipelineFails \/ StartThreadFails
  <2>1. StartFails /\ user = "starting"
    BY <1>7 DEF StartRefused, StartPipelineFails, StartThreadFails, Starting
  <2>2. ~started
    BY <2>1 DEF Inv, PipeInv
  <2> QED
    BY <2>1, <2>2, UnseenBefore DEF StartFails
<1>8. CASE StopEnds \/ StopEndsEarly
  BY <1>8, FlushRefines DEF StopEnds, StopEndsEarly, StopReturns, Queue!Next
<1>9. CASE ThreadBegins \/ ThreadChecks
  BY <1>9, Unseen DEF ThreadBegins, ThreadChecks, Sleeping, vb2
<1>10. CASE SensorFrame \/ ProcessFrame
  <2>1. CASE PassFrame \/ GiveUp
    BY <2>1, Unseen DEF PassFrame, GiveUp, Sleeping, vb2
  <2>2. ASSUME NEW how, Crash(how) PROVE UNCHANGED Queue!vars
    BY <2>2, Unseen DEF Crash, vb2, thread
  <2> QED
    BY <1>10, <2>1, <2>2 DEF SensorFrame, ProcessFrame
<1>11. CASE CaptureTakes
  BY <1>11, CaptureTakesRefines
<1>12. CASE CaptureFills
  <2>1. CASE data = "frame"
    BY <1>12, <2>1, CaptureFillsRefines DEF Queue!Next
  <2>2. CASE data # "frame"
    BY <1>12, <2>2, Unseen DEF CaptureFills, Crash, vb2, thread
  <2> QED
    BY <2>1, <2>2
<1>13. CASE UNCHANGED vars
  BY <1>13, Unseen DEF vars, vb2, thread
<1> QED
  BY <1>1, <1>2, <1>3, <1>4, <1>5, <1>6, <1>7, <1>8, <1>9, <1>10, <1>11, <1>12,
     <1>13
  DEF Next, Program, Kernel, Thread

\* Whatever goes wrong, the program sees a queue that gives each buffer back
\* once, in order, numbered from zero, and all of them when it stops.
THEOREM StreamImplementsQueue == Spec => QueueSpec
<1>1. Inv /\ [Next]_vars => [Queue!Next]_Queue!vars
  BY StreamStepRefines
<1> QED
  BY <1>1, InitQueue, StreamSafe, PTL DEF Spec, QueueSpec, Queue!Spec

-----------------------------------------------------------------------------
(* How long a stop waits.                                                    *)

\* The flag is up during a stop only.
LEMMA FlagHolds == Spec => [](stop => user = "stopping")
<1>1. Init => (stop => user = "stopping")
  BY DEF Init
<1>2. (stop => user = "stopping") /\ [Next]_vars => (stop => user = "stopping")'
  <2> SUFFICES ASSUME stop => user = "stopping", [Next]_vars, stop'
               PROVE  user' = "stopping"
    OBVIOUS
  <2>1. CASE Program
    BY <2>1 DEF Program, QBuf, DQBuf, StreamOn, StreamOffUnstarted, QueueCancel,
           StreamOff, StreamOffBadThread, UserIdle, vb2, thread
  <2>2. CASE Kernel
    BY <2>2 DEF Kernel, StartAlready, StartRefused, StartPipelineFails,
           StartThreadFails, Start, StartSucceeds, StartFails, Starting, StopEnds,
           StopEndsEarly, StopReturns, thread
  <2>3. CASE Thread
    BY <2>3 DEF Thread, ThreadBegins, ThreadChecks, SensorFrame, ProcessFrame,
           CaptureTakes, CaptureFills, GiveUp, PassFrame, Crash, Sleeping, vb2, thread
  <2>4. CASE UNCHANGED vars
    BY <2>4 DEF vars, vb2, thread
  <2> QED
    BY <2>1, <2>2, <2>3, <2>4 DEF Next
<1> QED
  BY <1>1, <1>2, PTL DEF Spec

\* A thread that was told to stop passes at most the rest of its pipeline.
LEMMA ThreadCountsDown ==
    ASSUME Inv, stop, Thread, Alive'
    PROVE  StepsLeft' < StepsLeft
<1> USE DEF StepsLeft
<1>1. CASE ThreadBegins
  BY <1>1 DEF ThreadBegins
<1>2. CASE ThreadChecks
  BY <1>2 DEF ThreadChecks
<1>3. CASE SensorFrame \/ ProcessFrame \/ CaptureTakes
  <2>1. pc = "proc" /\ at \in Nat
    <3>1. pc = "proc"
      BY <1>3 DEF SensorFrame, ProcessFrame, CaptureTakes, Processes
    <3>2. at \in 1..pipeSize
      BY <3>1 DEF Inv, PipeInv
    <3> QED
      BY <3>1, <3>2
  <2>2. CASE PassFrame
    <3>1. StepsLeft = at + 2 /\ StepsLeft' = at - 1 + 2
      BY <2>1, <2>2 DEF PassFrame
    <3> QED
      BY <2>1, <3>1
  <2>3. CASE GiveUp
    <3>1. StepsLeft = at + 2 /\ StepsLeft' = 1
      BY <2>1, <2>3 DEF GiveUp
    <3> QED
      BY <2>1, <3>1
  <2>4. CASE pc' = "fill"
    <3>1. at \in 1..pipeSize
      BY <2>1 DEF Inv, PipeInv
    <3> QED
      BY <2>1, <2>4, <3>1
  <2>5. ASSUME NEW how, how # "no", Crash(how) PROVE FALSE
    BY <2>5 DEF Crash, Alive
  <2> QED
    BY <1>3, <2>2, <2>3, <2>4, <2>5 DEF SensorFrame, ProcessFrame, CaptureTakes
<1>4. CASE CaptureFills
  <2>1. ~Crash("no_source_frame")
    BY DEF Crash, Alive
  <2>2. pc = "fill" /\ pc' = "check"
    BY <1>4, <2>1 DEF CaptureFills
  <2> QED
    BY <2>2
<1> QED
  BY <1>1, <1>2, <1>3, <1>4 DEF Thread

\* A stop has to wait for one pass of the thread at most.
THEOREM StopsWaitOnePass == Spec => StopWaitsOnePass
<1>1. Inv /\ (stop => user = "stopping") /\ [Next]_vars
      => [stop /\ stop' /\ Alive' =>
              StepsLeft' < StepsLeft /\ StepsLeft <= Len(Chain) + 2]_vars
  <2> SUFFICES ASSUME Inv, user = "stopping", Next, stop, stop', Alive'
               PROVE  StepsLeft' < StepsLeft /\ StepsLeft <= Len(Chain) + 2
    OBVIOUS
  <2>1. ~Program
    BY DEF Program, QBuf, DQBuf, StreamOn, StreamOffUnstarted, StreamOff,
           StreamOffBadThread, UserIdle
  <2>2. ~Kernel
    BY DEF Kernel, StartAlready, StartRefused, StartPipelineFails,
           StartThreadFails, Start, Starting, StopEnds, StopEndsEarly, StopReturns
  <2>3. StepsLeft' < StepsLeft
    BY <2>1, <2>2, ThreadCountsDown DEF Next
  <2>4. Len(Chain) \in Nat /\ (pc = "proc" => at \in 1..Len(Chain))
    BY ChainType DEF Inv, PipeInv
  <2>5. StepsLeft <= Len(Chain) + 2
    BY <2>4 DEF StepsLeft
  <2> QED
    BY <2>3, <2>5
<1> QED
  BY <1>1, StreamSafe, FlagHolds, PTL DEF Spec, StopWaitsOnePass

-----------------------------------------------------------------------------
(* When threads are created and run before they are stopped.                 *)

\* A stream that is started has a thread, which ends only when it is told to.
LuckInv ==
    /\ kthread \in {"null", "live"}
    /\ kthread = "live" <=> started
    /\ pc # "aborted"
    /\ pc = "exited" => stop
    /\ stop => user = "stopping" /\ pc # "created"

\* The program cannot stop a thread that has not run yet.
LEMMA ProgramLuck ==
    ASSUME "early_stop" \notin Mishap, Inv, LuckInv, Program
    PROVE  LuckInv'
<1> USE DEF LuckInv, stream, thread, UserIdle
<1>1. ASSUME NEW b \in Buf, QBuf(b) PROVE LuckInv'
  BY <1>1 DEF QBuf
<1>2. CASE DQBuf \/ StreamOn
  <2>1. ~stop /\ UNCHANGED <<started, kthread, pc, stop>>
    BY <1>2 DEF DQBuf, StreamOn
  <2> QED
    BY <2>1
<1>3. CASE StreamOffUnstarted
  BY <1>3 DEF StreamOffUnstarted, QueueCancel
<1>4. CASE StreamOff
  BY <1>4 DEF StreamOff
<1>5. CASE StreamOffBadThread
  BY <1>5 DEF StreamOffBadThread
<1> QED
  BY <1>1, <1>2, <1>3, <1>4, <1>5 DEF Program

\* A start that succeeds has created a thread, a stop has waited for it.
LEMMA KernelLuck ==
    ASSUME "kthread" \notin Mishap, Inv, LuckInv, Kernel
    PROVE  LuckInv'
<1> USE DEF LuckInv, Starting
<1>0. user = "starting" => ~started
  BY DEF Inv, PipeInv
<1>1. CASE StartAlready
  BY <1>0, <1>1 DEF StartAlready
<1>2. CASE StartRefused \/ StartPipelineFails
  <2>1. user = "starting" /\ StartFails /\ kthread' = kthread
    BY <1>2 DEF StartRefused, StartPipelineFails, stream
  <2> QED
    BY <2>1 DEF StartFails, thread
<1>3. CASE Start
  BY <1>3 DEF Start, StartSucceeds
<1>4. CASE StopEnds
  BY <1>4 DEF StopEnds, StopReturns, QueueCancel
<1>5. ~StartThreadFails /\ ~StopEndsEarly
  BY DEF StartThreadFails, StopEndsEarly
<1> QED
  BY <1>1, <1>2, <1>3, <1>4, <1>5 DEF Kernel

\* The thread goes on until it is told to stop.
LEMMA ThreadLuck ==
    ASSUME Inv, LuckInv, Thread
    PROVE  LuckInv'
<1> USE DEF LuckInv, vb2, stream, thread
<1>1. CASE ThreadBegins
  BY <1>1 DEF ThreadBegins, Sleeping
<1>2. CASE ThreadChecks
  BY <1>2 DEF ThreadChecks, Sleeping
<1>3. CASE SensorFrame \/ ProcessFrame
  <2>1. pc = "proc"
    BY <1>3 DEF SensorFrame, ProcessFrame, Processes
  <2>2. CASE PassFrame \/ GiveUp
    BY <2>1, <2>2 DEF PassFrame, GiveUp, Sleeping
  <2>3. ASSUME NEW how, Crash(how) PROVE LuckInv'
    BY <2>3 DEF Crash
  <2> QED
    BY <1>3, <2>2, <2>3 DEF SensorFrame, ProcessFrame
<1>4. CASE CaptureTakes
  <2>1. pc = "proc"
    BY <1>4 DEF CaptureTakes, Processes
  <2> QED
    BY <1>4, <2>1 DEF CaptureTakes, GiveUp, Sleeping
<1>5. CASE CaptureFills
  BY <1>5 DEF CaptureFills, Crash
<1> QED
  BY <1>1, <1>2, <1>3, <1>4, <1>5 DEF Thread

LEMMA LuckHolds ==
    ASSUME Mishap \cap {"kthread", "early_stop"} = {}
    PROVE  Spec => [](Inv /\ LuckInv)
<1>0. "kthread" \notin Mishap /\ "early_stop" \notin Mishap
  OBVIOUS
<1>1. Init => LuckInv
  BY DEF Init, LuckInv
<1>2. Inv /\ LuckInv /\ [Next]_vars => LuckInv'
  <2> SUFFICES ASSUME Inv, LuckInv, [Next]_vars PROVE LuckInv'
    OBVIOUS
  <2>1. CASE UNCHANGED vars
    BY <2>1 DEF vars, vb2, stream, thread, LuckInv
  <2> QED
    BY <1>0, <2>1, ProgramLuck, KernelLuck, ThreadLuck DEF Next
<1> QED
  BY <1>1, <1>2, StreamSafe, PTL DEF Spec

\* STREAMOFF leaves neither thread nor pipeline, however the streams before it
\* failed, as long as kthread_run succeeds and threads run before kthread_stop.
THEOREM StopsTearDown ==
    Mishap \cap {"kthread", "early_stop"} = {} => (Spec => []StopTearsDown)
<1> SUFFICES ASSUME Mishap \cap {"kthread", "early_stop"} = {}
             PROVE  Spec => []StopTearsDown
  OBVIOUS
<1>1. Inv /\ LuckInv => StopTearsDown
  BY DEF Inv, PipeInv, LuckInv, StopTearsDown
<1> QED
  BY <1>1, LuckHolds, PTL

\* Under the same conditions a started stream has a thread that serves it.
THEOREM StartsHaveThreads ==
    Mishap \cap {"kthread", "early_stop"} = {} => (Spec => []StartedHasThread)
<1> SUFFICES ASSUME Mishap \cap {"kthread", "early_stop"} = {}
             PROVE  Spec => []StartedHasThread
  OBVIOUS
<1>1. Inv /\ LuckInv => StartedHasThread
  BY DEF Inv, PipeInv, LuckInv, StartedHasThread, ThreadRuns
<1> QED
  BY <1>1, LuckHolds, PTL
=============================================================================
