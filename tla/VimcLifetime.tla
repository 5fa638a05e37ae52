---------------------------- MODULE VimcLifetime ----------------------------
(***************************************************************************)
(* The life of the entities of one device, from vimc_probe to vimc_remove:  *)
(* what the add functions acquire and their error paths give back, the      *)
(* file handles programs keep, the streams of several capture devices that  *)
(* share subdevices, and the removal in list order under all of them.       *)
(*                                                                         *)
(* The device is plugged once.  Programs, the streaming threads and the     *)
(* removal interleave; probing is alone, as programs are taken to wait for  *)
(* the plug to return.                                                     *)
(***************************************************************************)
EXTENDS Naturals, Sequences, Functions

CONSTANTS
    Ent,        \* the entities
    Kind,       \* of each: "cap", "proc" (debayer, scaler) or "sen"
    Lists,      \* the orders pdata->ents may have
    Chain,      \* of each capture: itself and the entities upstream of it
    Reach,      \* of each capture: what a walk over enabled links visits
    Mishap,     \* what may fail: resources, "frame" (vmalloc of s_stream),
                \* "kthread" (no thread can be created), "early_stop" (STREAMOFF
                \* may overtake the first run of the thread)
    NULL

Cap == {e \in Ent : Kind[e] = "cap"}

\* An object, its control handler, pads, subdevice, test pattern generator,
\* vb2 queue and video device.  "sd" and "node" are held while registered.
Resource == {"mem", "hdl", "pads", "sd", "tpg", "queue", "node"}

ASSUME LifetimeAssumption ==
    /\ Kind \in [Ent -> {"cap", "proc", "sen"}]
    /\ Chain \in [Cap -> Seq(Ent)]
    /\ \A c \in Cap :
           /\ Len(Chain[c]) > 0 /\ Chain[c][1] = c
           /\ \A k \in 2..Len(Chain[c]) : Kind[Chain[c][k]] # "cap"
           /\ \A j, k \in 1..Len(Chain[c]) : Chain[c][j] = Chain[c][k] => j = k
           /\ \A k \in 1..Len(Chain[c]) : Chain[c][k] \in Reach[c]
    /\ Reach \in [Cap -> SUBSET Ent]
    /\ Lists \subseteq Seq(Ent)
    /\ \A l \in Lists :
           /\ \A e \in Ent : \E i \in 1..Len(l) : l[i] = e
           /\ \A i, j \in 1..Len(l) : l[i] = l[j] => i = j
    /\ Mishap \subseteq Resource \cup {"frame", "kthread", "early_stop"}
    /\ NULL \notin Ent

VARIABLES
    list,       \* pdata->ents
    step,       \* how far the device got
    at,         \* index in the list of the entity being added or removed
    res,        \* the resources each entity holds
    open,       \* whether a program has the device node of an entity open
    pipe,       \* entity->pipe, by the capture whose stream it belongs to
    stream,     \* of each capture: what its streamer is doing
    size,       \* pipe_size: the pipeline is this much of the chain
    frame,      \* the capture for whose stream a subdevice made its frame
    kthread,    \* stream->kthread: "null", "new" (has not run yet), "runs",
                \* "err" (an error pointer) or "gone" (a task that is freed)
    dropped,    \* captures of whose frames a sensor let one go unfreed
    oops        \* the way the kernel stopped, "no" while it runs

probing   == <<list, step, at>>
streaming == <<pipe, stream, size, frame, kthread, dropped>>
vars      == <<probing, res, open, streaming, oops>>

TypeOK ==
    /\ list \in Lists
    /\ step \in {"adding", "bound", "removing", "gone"}
    /\ at \in 1..Len(list) + 1
    /\ res \in [Ent -> SUBSET Resource]
    /\ open \in [Ent -> BOOLEAN]
    /\ pipe \in [Ent -> Cap \cup {NULL}]
    /\ stream \in [Cap -> {"off", "walking", "on", "terminating", "leaving"}]
    /\ size \in [Cap -> Nat]
    /\ \A c \in Cap : size[c] <= Len(Chain[c])
    /\ frame \in [Ent -> Cap \cup {NULL}]
    /\ kthread \in [Cap -> {"null", "new", "runs", "err", "gone"}]
    /\ dropped \subseteq Cap
    /\ oops \in {"no", "null_deref", "double_free", "no_media_device",
                 "use_after_free", "no_source_frame", "bad_kthread", "freed_vimc"}

Init ==
    /\ list \in Lists
    /\ step = "adding"
    /\ at = 1
    /\ res = [e \in Ent |-> {}]
    /\ open = [e \in Ent |-> FALSE]
    /\ pipe = [e \in Ent |-> NULL]
    /\ stream = [c \in Cap |-> "off"]
    /\ size = [c \in Cap |-> 0]
    /\ frame = [e \in Ent |-> NULL]
    /\ kthread = [c \in Cap |-> "null"]
    /\ dropped = {}
    /\ oops = "no"

Alive == oops = "no"

\* A kernel that stops does nothing else.
Crash(how) ==
    /\ oops' = how
    /\ UNCHANGED <<probing, res, open, streaming>>

-----------------------------------------------------------------------------
(* Adding: the resources in the order the add functions take them, and the  *)
(* order in which the error path for each gives back what it thinks is held.*)

SensorSteps == <<"mem", "hdl", "pads", "sd", "tpg">>
SubdevSteps == <<"mem", "pads", "sd">>
CaptureSteps == <<"mem", "pads", "queue", "node">>

Steps(kind) == CASE kind = "sen" -> SensorSteps
                 [] kind = "proc" -> SubdevSteps
                 [] kind = "cap" -> CaptureSteps

\* Slip: the pads are forgotten, as they were before they moved here.
ReleaseWithoutPads(kind) ==
    IF kind = "sen" THEN <<"hdl", "tpg", "mem">> ELSE <<"mem">>

\* The release callbacks, which run when the last handle is closed.
Release(kind) ==
    IF kind = "sen" THEN <<"hdl", "tpg", "pads", "mem">> ELSE <<"pads", "mem">>

SensorErrors(r) ==
    CASE r = "mem"  -> <<>>
      [] r = "hdl"  -> <<"mem">>
      [] r = "pads" -> <<"hdl", "mem">>
      [] r = "sd"   -> <<"pads", "hdl", "mem">>
      [] r = "tpg"  -> <<"sd">> \o Release("sen") \o <<"hdl", "mem">>

SubdevErrors(r) ==
    CASE r = "mem"  -> <<>>
      [] r = "pads" -> <<"mem">>
      [] r = "sd"   -> <<"pads", "mem">>

\* Slip: one label too far down.
CaptureErrorsLater(r) ==
    CASE r = "mem"   -> <<>>
      [] r = "pads"  -> <<"mem">>
      [] r = "queue" -> <<"pads", "mem">>
      [] r = "node"  -> <<"pads", "mem">>

CaptureErrors(r) ==
    CASE r = "mem"   -> <<>>
      [] r = "pads"  -> <<"mem">>
      [] r = "queue" -> <<"pads", "mem">>
      [] r = "node"  -> <<"queue", "pads", "mem">>

Errors(kind, r) == CASE kind = "sen" -> SensorErrors(r)
                     [] kind = "proc" -> SubdevErrors(r)
                     [] kind = "cap" -> CaptureErrors(r)

AddEntity ==
    /\ Alive
    /\ step = "adding"
    /\ at <= Len(list)
    /\ res' = [res EXCEPT ![list[at]] = Range(Steps(Kind[list[at]]))]
    /\ at' = at + 1
    /\ UNCHANGED <<list, step, open, streaming, oops>>

\* A control handler that met an error keeps what it has allocated.
HeldAt(kind, r) ==
    LET s == Steps(kind) IN
    {s[i] : i \in {i \in DOMAIN s : \E j \in DOMAIN s : s[j] = r /\ i < j}}
        \cup (IF r = "hdl" THEN {"hdl"} ELSE {})

FreesTwice(path, held) ==
    \E i \in DOMAIN path :
        path[i] \notin held \/ \E j \in DOMAIN path : j < i /\ path[j] = path[i]

\* The add function fails, and vimc_add_subdevs goes on from r_ent, which is
\* NULL whatever was added before.
AddFails ==
    /\ Alive
    /\ step = "adding"
    /\ at <= Len(list)
    /\ \E r \in Mishap \cap Range(Steps(Kind[list[at]])) :
           LET held == HeldAt(Kind[list[at]], r)
               path == Errors(Kind[list[at]], r)
           IN  /\ res' = [res EXCEPT ![list[at]] = held \ Range(path)]
               /\ oops' = IF FreesTwice(path, held) THEN "double_free"
                          ELSE "null_deref"
    /\ UNCHANGED <<probing, open, streaming>>

\* Links are made, the media device and the subdevice nodes registered.
Bind ==
    /\ Alive
    /\ step = "adding"
    /\ at > Len(list)
    /\ step' = "bound"
    /\ UNCHANGED <<list, at, res, open, streaming, oops>>

-----------------------------------------------------------------------------
(* File handles.                                                            *)

\* The release callback of e, when held is what e holds.
Released(e, held) == held \ Range(Release(Kind[e]))

\* Slip: an open handle does not keep the object.
UnregisteredAtOnce(e, held) == Released(e, held)

\* Unregistering releases unless a program still has the node open.
Unregistered(e, held) == IF open[e] THEN held ELSE Released(e, held)

Registered(e) == {"sd", "node"} \cap res[e] # {}

\* The node of a capture can be opened until it is unregistered; v4l2-subdev
\* asks the media device first.
Open(e) ==
    /\ Alive
    /\ Registered(e) /\ ~open[e]
    /\ step = "removing" => e \in Cap
    /\ step # "adding"
    /\ open' = [open EXCEPT ![e] = TRUE]
    /\ UNCHANGED <<probing, res, streaming, oops>>

\* Slip: a node is closed whatever it does.
CloseStreaming(e) ==
    /\ Alive
    /\ open[e]
    /\ open' = [open EXCEPT ![e] = FALSE]
    /\ res' = IF Registered(e) THEN res
              ELSE [res EXCEPT ![e] = Released(e, @)]
    /\ UNCHANGED <<probing, streaming, oops>>

\* Closing a streaming capture is a StreamOff first.  The last close of a node
\* that is not registered any more releases the object; it looks at the
\* v4l2_device inside vimc, which devres has freed once vimc_remove returned.
Close(e) ==
    /\ Alive
    /\ open[e]
    /\ e \in Cap => stream[e] = "off"
    /\ open' = [open EXCEPT ![e] = FALSE]
    /\ res' = IF Registered(e) THEN res
              ELSE [res EXCEPT ![e] = Released(e, @)]
    /\ oops' \in IF step = "gone" THEN {"no", "freed_vimc"} ELSE {"no"}
    /\ UNCHANGED <<probing, streaming>>

-----------------------------------------------------------------------------
(* Streams.                                                                 *)

\* Without its media device an entity has no graph to lock.
MediaDevice == step = "bound"

\* The streamer returned an error with its pipeline, its frames and a thread
\* pointer that is good for nothing kept.
Abandoned(c) == kthread[c] \in {"err", "gone"}

\* Slip: what media_pipeline_start answers is not looked at.
StreamOnAnyway(c) ==
    /\ Alive
    /\ open[c] /\ Registered(c)
    /\ stream[c] = "off" /\ kthread[c] = "null"
    /\ MediaDevice
    /\ pipe' = [e \in Ent |-> IF e \in Reach[c] THEN c ELSE pipe[e]]
    /\ stream' = [stream EXCEPT ![c] = "walking"]
    /\ size' = [size EXCEPT ![c] = 1]
    /\ UNCHANGED <<probing, res, open, frame, kthread, dropped, oops>>

\* start_streaming: media_pipeline_start takes every entity it reaches, or is
\* refused (EBUSY).
TakesPipe(c) ==
    /\ Alive
    /\ open[c] /\ Registered(c)
    /\ stream[c] = "off"
    /\ MediaDevice
    /\ \A e \in Reach[c] : pipe[e] = NULL
    /\ pipe' = [e \in Ent |-> IF e \in Reach[c] THEN c ELSE pipe[e]]
    /\ UNCHANGED <<probing, res, open, frame, kthread, dropped, oops>>

\* The walk begins with the capture.
StreamOn(c) ==
    /\ TakesPipe(c)
    /\ kthread[c] = "null"
    /\ stream' = [stream EXCEPT ![c] = "walking"]
    /\ size' = [size EXCEPT ![c] = 1]

\* A thread pointer that is not NULL passes for a stream that runs.
StreamOnAlready(c) ==
    /\ TakesPipe(c)
    /\ kthread[c] # "null"
    /\ stream' = [stream EXCEPT ![c] = "on"]
    /\ UNCHANGED size

StreamOnRemoving(c) ==
    /\ Alive
    /\ open[c] /\ Registered(c)
    /\ stream[c] = "off"
    /\ ~MediaDevice
    /\ Crash("no_media_device")

Live(e) == "mem" \in res[e]

\* Slip: pipe_size is counted up twice.
WalksTwice(c) ==
    /\ Alive
    /\ stream[c] = "walking"
    /\ MediaDevice
    /\ size[c] < Len(Chain[c])
    /\ size' = [size EXCEPT ![c] = @ + 2]

\* The next entity upstream, for which links have to be there still.
Walks(c) ==
    /\ Alive
    /\ stream[c] = "walking"
    /\ MediaDevice
    /\ size[c] < Len(Chain[c])
    /\ size' = [size EXCEPT ![c] = @ + 1]

NextUp(c) == Chain[c][size[c] + 1]

\* A sensor allocates without looking, the others keep a frame they have.
Allocates(e) == Kind[e] = "sen" \/ frame[e] = NULL

\* e points to a frame of x from now on: what it pointed to is not freed.
SetFrame(e, x) ==
    /\ frame' = [frame EXCEPT ![e] = x]
    /\ dropped' = dropped \cup ({frame[e]} \ {NULL})

\* s_stream(1).
StartEntity(c) ==
    /\ Walks(c)
    /\ IF Allocates(NextUp(c)) THEN SetFrame(NextUp(c), c)
       ELSE UNCHANGED <<frame, dropped>>
    /\ UNCHANGED <<probing, res, open, pipe, stream, kthread, oops>>

\* Slip: media_pipeline_stop is forgotten.
StartFailsKeepingPipe(c) ==
    /\ "frame" \in Mishap
    /\ Walks(c)
    /\ Allocates(NextUp(c))
    /\ frame' = [e \in Ent |-> IF frame[e] = c THEN NULL ELSE frame[e]]
    /\ stream' = [stream EXCEPT ![c] = "off"]
    /\ UNCHANGED <<probing, res, open, pipe, kthread, dropped, oops>>

\* vmalloc fails: the pipeline is terminated, the failed entity included.
StartFails(c) ==
    /\ "frame" \in Mishap
    /\ Walks(c)
    /\ Allocates(NextUp(c))
    /\ SetFrame(NextUp(c), NULL)
    /\ stream' = [stream EXCEPT ![c] = "terminating"]
    /\ UNCHANGED <<probing, res, open, pipe, kthread, oops>>

\* The walk ends where no link goes on: a removal takes all links at once.
WalkEnds(c) ==
    /\ Alive
    /\ stream[c] = "walking"
    /\ size[c] = Len(Chain[c]) \/ ~MediaDevice
    /\ UNCHANGED <<probing, res, open, pipe, size, frame, dropped, oops>>

StartThread(c) ==
    /\ WalkEnds(c)
    /\ kthread' = [kthread EXCEPT ![c] = "new"]
    /\ stream' = [stream EXCEPT ![c] = "on"]

\* kthread_run fails: the error pointer stays, nothing is terminated, and the
\* capture goes on to media_pipeline_stop.
StartThreadFails(c) ==
    /\ "kthread" \in Mishap
    /\ WalkEnds(c)
    /\ kthread' = [kthread EXCEPT ![c] = "err"]
    /\ stream' = [stream EXCEPT ![c] = "leaving"]

ThreadBegins(c) ==
    /\ Alive
    /\ stream[c] = "on"
    /\ kthread[c] = "new"
    /\ kthread' = [kthread EXCEPT ![c] = "runs"]
    /\ UNCHANGED <<probing, res, open, pipe, stream, size, frame, dropped, oops>>

PipelineFreed(c) == \E k \in 1..size[c] : ~Live(Chain[c][k])

\* A pass over live entities from a sensor down changes nothing here.
ThreadFaults(c) ==
    /\ Alive
    /\ stream[c] = "on"
    /\ kthread[c] = "runs"
    /\ \/ PipelineFreed(c) /\ Crash("use_after_free")
       \/ /\ ~PipelineFreed(c)
          /\ Kind[Chain[c][size[c]]] # "sen"
          /\ Crash("no_source_frame")

\* Slip: the media pipeline is stopped before the streamer is.
StreamOffFreeingPipe(c) ==
    /\ Alive
    /\ open[c] /\ Registered(c)
    /\ stream[c] = "on" /\ kthread[c] = "runs"
    /\ kthread' = [kthread EXCEPT ![c] = "null"]
    /\ stream' = [stream EXCEPT ![c] = "terminating"]
    /\ pipe' = [e \in Ent |-> IF pipe[e] = c THEN NULL ELSE pipe[e]]
    /\ UNCHANGED <<probing, res, open, size, frame, dropped, oops>>

\* STREAMOFF of a stream, by a program or by its close.
Stopping(c) ==
    /\ Alive
    /\ open[c] /\ Registered(c)
    /\ stream[c] = "on"

\* kthread_stop has returned 0: the pipeline is terminated.
StreamOff(c) ==
    /\ Stopping(c)
    /\ kthread[c] = "runs"
    /\ kthread' = [kthread EXCEPT ![c] = "null"]
    /\ stream' = [stream EXCEPT ![c] = "terminating"]
    /\ UNCHANGED <<probing, res, open, pipe, size, frame, dropped, oops>>

\* kthread_stop before the thread first ran returns -EINTR, and so does the
\* streamer, with everything kept; the capture does not look at that.
StreamOffEarly(c) ==
    /\ "early_stop" \in Mishap
    /\ Stopping(c)
    /\ kthread[c] = "new"
    /\ kthread' = [kthread EXCEPT ![c] = "gone"]
    /\ stream' = [stream EXCEPT ![c] = "leaving"]
    /\ UNCHANGED <<probing, res, open, pipe, size, frame, dropped, oops>>

\* kthread_stop of an error pointer or of a freed task.
StreamOffBadThread(c) ==
    /\ Stopping(c)
    /\ Abandoned(c)
    /\ Crash("bad_kthread")

\* vimc_streamer_pipeline_terminate, from the last entity met.
TerminateEntity(c) ==
    /\ Alive
    /\ stream[c] = "terminating"
    /\ size[c] > 0
    /\ LET e == Chain[c][size[c]] IN
       IF Live(e)
       THEN /\ frame' = IF e \in Cap THEN frame ELSE [frame EXCEPT ![e] = NULL]
            /\ size' = [size EXCEPT ![c] = @ - 1]
            /\ UNCHANGED <<probing, res, open, pipe, stream, kthread, dropped, oops>>
       ELSE Crash("use_after_free")

\* media_pipeline_stop frees what media_pipeline_start took, whatever the
\* streamer answered.
MediaStop(c) ==
    /\ Alive
    /\ stream[c] = "leaving" \/ (stream[c] = "terminating" /\ size[c] = 0)
    /\ IF MediaDevice
       THEN /\ pipe' = [e \in Ent |-> IF pipe[e] = c THEN NULL ELSE pipe[e]]
            /\ stream' = [stream EXCEPT ![c] = "off"]
            /\ UNCHANGED <<probing, res, open, size, frame, kthread, dropped, oops>>
       ELSE Crash("no_media_device")

-----------------------------------------------------------------------------
(* Removal, entity by entity.                                               *)

\* vimc_remove begins with media_device_unregister.
Unplug ==
    /\ Alive
    /\ step = "bound"
    /\ step' = "removing"
    /\ at' = 1
    /\ UNCHANGED <<list, res, open, streaming, oops>>

Removing(e) ==
    /\ Alive
    /\ step = "removing"
    /\ at <= Len(list)
    /\ e = list[at]

RemoveSubdev(e) ==
    /\ Removing(e)
    /\ e \notin Cap
    /\ res' = [res EXCEPT ![e] = Unregistered(e, @ \ {"sd"})]
    /\ at' = at + 1
    /\ UNCHANGED <<list, step, open, streaming, oops>>

\* Slip: no vb2_queue_release.
RemoveCaptureOnly(e) ==
    /\ Removing(e)
    /\ e \in Cap
    /\ res' = [res EXCEPT ![e] = Unregistered(e, @ \ {"node"})]
    /\ at' = at + 1
    /\ UNCHANGED <<list, step, open, streaming, oops>>

RemoveCapture(e) ==
    /\ Removing(e)
    /\ e \in Cap
    /\ stream[e] = "off"
    /\ res' = [res EXCEPT ![e] = Unregistered(e, @ \ {"queue", "node"})]
    /\ at' = at + 1
    /\ UNCHANGED <<list, step, open, streaming, oops>>

\* vb2_queue_release stops a stream, whatever it is doing: it asks nobody for
\* vcap->lock, and media_pipeline_stop has no media device any more.
RemoveStreaming(e) ==
    /\ Removing(e)
    /\ e \in Cap
    /\ stream[e] # "off"
    /\ Crash(CASE Abandoned(e) -> "bad_kthread"
               [] kthread[e] = "runs" /\ PipelineFreed(e) -> "use_after_free"
               [] OTHER -> "no_media_device")

RemoveEnds ==
    /\ Alive
    /\ step = "removing"
    /\ at > Len(list)
    /\ step' = "gone"
    /\ UNCHANGED <<list, at, res, open, streaming, oops>>

-----------------------------------------------------------------------------

Probe == AddEntity \/ AddFails \/ Bind
Program ==
    \/ \E e \in Ent : Open(e) \/ Close(e)
    \/ \E c \in Cap : StreamOn(c) \/ StreamOnAlready(c) \/ StreamOnRemoving(c)
    \/ \E c \in Cap : StreamOff(c) \/ StreamOffEarly(c) \/ StreamOffBadThread(c)
Streamer == \E c \in Cap :
    \/ StartEntity(c) \/ StartFails(c)
    \/ StartThread(c) \/ StartThreadFails(c)
    \/ ThreadBegins(c) \/ ThreadFaults(c)
    \/ TerminateEntity(c) \/ MediaStop(c)
Removal ==
    \/ Unplug
    \/ \E e \in Ent : RemoveSubdev(e) \/ RemoveCapture(e) \/ RemoveStreaming(e)
    \/ RemoveEnds

Next == Probe \/ Program \/ Streamer \/ Removal

Spec == Init /\ [][Next]_vars

-----------------------------------------------------------------------------
(* Properties.                                                              *)

\* Streams keep apart: a frame belongs to the stream that has its entity in
\* its media pipeline, a thread finds in every entity of its pipeline the frame
\* its own start made, and a sensor makes no frame over one that is in use;
\* all that but for the frames of a stream whose thread could not be created
\* or was stopped before it ran.
StreamsExclusive ==
    /\ \A e \in Ent : frame[e] # NULL => pipe[e] = frame[e] \/ Abandoned(frame[e])
    /\ \A c \in Cap : stream[c] = "on" /\ ~Abandoned(c) =>
           \A k \in 2..size[c] :
               LET e == Chain[c][k] IN
               /\ pipe[e] = c
               /\ frame[e] # NULL
               /\ frame[e] = c \/ Abandoned(frame[e])
    /\ \A c \in dropped : Abandoned(c)

\* A capture that does not stream keeps no entity busy, however its last start
\* or stop went; and it keeps no frame, unless that start met no thread or that
\* stop one which had not run.
IdleLeavesGraph ==
    \A c \in Cap : stream[c] = "off" =>
        \A e \in Ent : pipe[e] # c /\ (frame[e] = c => Abandoned(c))

\* A program's handle keeps the object behind it and its pads, also after the
\* device was unplugged.
HandleKeepsObject ==
    \A e \in Ent : open[e] => {"mem", "pads"} \subseteq res[e]

\* Once the device is gone and the last handle closed, nothing is left of it
\* but the frames of streams whose thread could not be created or was stopped
\* before it ran.
NothingLeaks ==
    step = "gone" =>
        \A e \in Ent : ~open[e] =>
            res[e] = {} /\ (frame[e] # NULL => Abandoned(frame[e]))

\* An add function that fails gives back what it took, once each.
FailedAddReleases ==
    /\ oops # "double_free"
    /\ oops = "null_deref" => res[list[at]] = {}

\* As long as captures come before what is upstream of them, as they do when
\* they are created last, no stream meets an entity that is freed: the removal
\* reaches the capture first.
CapturesFirst ==
    \A c \in Cap : \A i, j \in 1..Len(list) :
        list[i] = c /\ (\E k \in 2..Len(Chain[c]) : Chain[c][k] = list[j]) => i < j
StreamUsesLiveEntities == CapturesFirst => oops # "use_after_free"

\* A stream stops the kernel only while a program has the node of a capture
\* open, when a removal gets under it or when it is stopped with a thread
\* pointer that an earlier start or stop left bad: nothing that streams is left
\* to itself by a close, and where threads are created and run before they are
\* stopped, what is plugged can be streamed from.
StreamFaultsNeedHandle ==
    /\ oops \in {"use_after_free", "no_media_device"} =>
           step = "removing" /\ \E c \in Cap : open[c]
    /\ oops = "bad_kthread" =>
           \E c \in Cap : open[c] /\ Abandoned(c) /\ stream[c] # "off"

\* Programs and streams share the entities as VimcSharedGraph promises.
GraphPhase == CASE step = "adding" -> "building"
                [] step = "bound" -> "plugged"
                [] OTHER -> "unplugged"
Present == {e \in Ent : Live(e)}
InHand == {e \in Ent : open[e]}
GivenUp == {c \in Cap : Abandoned(c)}
Graph == INSTANCE VimcSharedGraph WITH
    phase <- GraphPhase,
    alive <- Present,
    held  <- InHand,
    owner <- pipe,
    user  <- frame,
    abandoned <- GivenUp
SharesGraph == Graph!Spec

\* The device can be unplugged under a running stream: the removal stops it.
UnplugStopsStreams ==
    oops = "no_media_device" => \A c \in Cap : stream[c] # "on"
=============================================================================
