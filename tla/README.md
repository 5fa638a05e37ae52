# Verification of vimc

TLA+ models, TLC runs and TLAPS proofs for the vimc driver of this repository:
a virtual media controller whose media graph (sensors, debayers, scalers,
capture devices and the links between them) is configured through configfs and
whose frames are made by a kernel thread.

## The system

| component | source | state | operations |
|---|---|---|---|
| configfs interface | `c/vimc-configfs.c` | per device: lists of entities and links, `pdev` | mkdir/rmdir of devices, entities, links; `flags`; `hotplug` |
| core | `c/vimc-core.c` | `struct vimc_device`, `vimc_ent_dev` of each entity, media links | `vimc_probe`, `vimc_remove`, module init and exit |
| streamer | `c/vimc-streamer.c` | `ved_pipeline`, `pipe_size`, `kthread` | `vimc_streamer_s_stream`, the thread |
| capture | `c/vimc-capture.c` | vb2 queue, `buf_list`, `sequence`, pixel format | vb2 callbacks, `process_frame`, format ioctls, add/rm |
| sensor, debayer, scaler | `c/vimc-sensor.c`, `-debayer.c`, `-scaler.c` | frame buffer, formats | `s_stream`, `process_frame`, pad formats, add/rm |
| common | `c/vimc-common.c` | none (the pixel map is constant) | pixel map lookups, `vimc_link_validate`, (un)registering a subdevice |
| scripts, patches, fourcc helpers | `*.sh`, `*.patch`, `c/*fourcc*.c` | none | tests of the driver, its history, two stand-alone programs |

How they interact. A handler of configfs edits the lists of one device. Before
it does, and also when it then refuses, it unplugs the device. Writing "plug"
resolves the names in the links to pointers into the entities, which the link
keeps, and registers a platform device; `vimc_probe` walks the same lists (it
has pointers to them), adds each entity with the function of its type and makes
the media links. `vimc_remove` walks them again. STREAMON on a capture device
reaches `vimc_cap_start_streaming` through vb2; the streamer walks the links
upstream, starts each subdevice and creates the thread, which from then on
calls `process_frame` of each entity, from the sensor down to the capture
device, and hands filled buffers back to vb2.

What is hard about it:

- pointers that outlive what they point to: the endpoints cached in a link, the
  thread in `stream->kthread`, `vimc_ent_dev` after a failed probe;
- two walks over lists that someone else edits, with nothing but the order of
  calls to keep them apart;
- a thread without a lock, against ioctls that start, stop and queue;
- starts and probes that fail half-way, and what they must give back;
- buffers that move between vb2, a list and the thread;
- captures that stream over shared subdevices, and a device that is unplugged, entity
  by entity, under streams and open nodes;
- byte arithmetic in 32 bits over frames whose size was computed earlier.

What makes each part correct:

- *configfs and core*: a plugged device is what is configured; unplugging takes
  everything away; no BUG_ON is reached; nothing is freed twice; a device is
  not plugged with links to entities that are not there.
- *streamer*: the thread lives exactly as long as the stream and its pipeline
  outlives it; every frame allocated is freed by the stop, or by the start that
  failed; a stop returns.
- *capture*: buffers come back once each, in order, numbered from zero; a stop
  leaves none with the driver; none is forgotten by a running stream.
- *entities*: each resource an add function takes is given back once, by its error
  path, by the removal or by the last close; a frame has one stream; a stream meets
  no freed entity.
- *pixel loops*: they stay in their frames, fill them, and do what scaling and
  demosaicing mean.
- *formats*: what is stored is what was adjusted, sizes agree on both ends of a
  link when it streams, and frames are as large as what is written to them.

The list of hazards, each at its line, is `hazards` in `PROJECT.json`.

## The modules

`VimcTopology` models one device of configfs together with probe and remove.
Its variables are the fields of the structs: `ents` and `links` for
`cfs->ents` and `cfs->links`, `name` and `drv` for those of `vimc_entity`, `dev`
for `vimc_ent_dev`, `lsrc` and `lsnk` for `link->source` and `link->sink`,
`pdev` for `cfs->pdev` together with whether the driver bound, `graph` for the
media links. Entities live at addresses (`Obj`) that kzalloc may hand out
again; a pointer to an entity that is gone is the address of an object that is
not in `ents`. `oops` says how the kernel
stopped. There is one action per handler:

| action | handler |
|---|---|
| `MakeDevice`, `DropDevice` | `vimc_cfs_dev_make_group`, `_drop_item` |
| `MakeEntity`, `RefuseEntity`, `DropEntity` | `vimc_cfs_ent_make_group`, `_drop_item` |
| `MakeLink`, `RefuseLink`, `DropLink` | `vimc_cfs_link_make_item`, `_drop_item` |
| `FlagsStore` | `vimc_cfs_links_attr_flags_store` |
| `HotplugPlug` (`PlugUnresolved`, `PlugResolved`, `Probe`) | `hotplug_store`, `vimc_cfs_device_plug`, `vimc_cfs_link_set_ents`, `vimc_probe` |
| `HotplugUnplug` (`Unplug`) | `hotplug_store`, `vimc_cfs_device_unplug`, `vimc_remove` |

Lists are sets: their order only decides which of several links is looked at
first, which is a choice here. The text of names is not modelled: a link name
is its four parsed parts, and `Stored` says what 32 bytes keep of a name. That
`media_create_pad_link` refuses a pad (because of its number or, in some
kernels, its direction) is `SrcPads` and `SnkPads`. Every hotplug write and
every mkdir is one step; see below.

`VimcHotplug` is the abstract specification of the same: a configuration, a
device that is down or up, and an edit takes it down. `VimcTopology` maps to it
by naming entities instead of addressing them.

`VimcStream` models one capture device, its vb2 queue, its stream and its
thread. `bstate`, `queued`, `done`, `streaming` and `started` are vb2's;
`bufList` and `sequence` those of `vimc_cap_device`; `pipeSize` and `kthread`
those of `vimc_stream`, where `kthread` also says what the pointer is worth: no
thread, a live one, an error, or a freed one. `frame[e]` says whether a
subdevice has its frame. The thread has a program counter `pc`, the index `at`,
the pointer `data` it passes on, and the buffer `held` between `list_del` and
`vb2_buffer_done`. The ioctls of a node run under `vcap->lock` and so one at a
time (`user`); a start is one step after the step that hands the buffers over,
as no thread of the stream runs then; a stop is a step that raises
KTHREAD_SHOULD_STOP and one that goes on when the thread has ended, and the
thread's steps come between. vb2 and kthread are not part of the repository:
their actions follow how the driver uses them and are marked external.
`Mishap` is the set of things that may go wrong in a run.

`VimcCaptureQueue` is the abstract specification of a capture queue. Buffers
that wait map to `queued` before a stream and to `held` followed by `bufList`
during one.

`VimcFormat` models the formats along one pipeline. An entity is its position in
the walk upstream. `fmt` is the active format of each (`mbus_format`, `sink_fmt`,
`vcap->format`), `tryFmt` the try format of pad 0 on a program's file handle,
`sizeimage` that of the capture format, `bufSize` the plane size of the smallest
vb2 buffer. `frame`, `saved` and `lineSize` are what `s_stream` computes, in bytes;
0 is NULL. A width, a height, a code, a field and two colorimetry values make a
format: `ycbcr_enc`, `quantization` and `xfer_func` are treated alike by the code,
and one stands for the three. The format of the capture device is kept by the media
bus code that its pixel format is paired with, as every use of it but one goes through
that pair; the one, `enum_framesizes`, looks the pixel format (`PixelFormat`) up among
the codes (`AskedWith`). set_fmt of a subdevice takes no lock and is two steps
(`SetFmtBegins` tests the frame, `SetFmtStores`); the ioctls of the capture node
run under its lock; a start validates the links, then starts one subdevice per
step, the sensor in two, as `vimc_sen_tpg_s_format` reads the format again.
`BytesRead` and `BytesWritten` say how far `process_frame` goes in a frame.
`Concurrent` says whether another program may set formats while the stream starts
or stops. get_fmt changes nothing: `ActiveSource` is what it answers for a source
pad.

The frames' contents come with it: `VimcFormat` extends `VimcFrames`, whose
operators are the pixel loops of the scaler and of the debayer. `Copies` is the set
of bytes the scaler's loops copy, each with its place in both frames, by the index
arithmetic of the code; `NearestCopies` is what a scaled frame should be, written by
byte of the result instead of by pixel of the source. `MeanWindow`, `Colour`, `Mean`
and `Debayered` are the debayer's window, a pixel's colour, the mean over the window
and what is left of it in a byte. `Listed` and `Enumerated` are what a program finds
that goes through the enumerations of a pad until they fail; they follow the order
of the tables (`PixMap`, `DebMap`).

`VimcLifetime` composes what the other modules look at alone: the entities of one
device from `vimc_probe` to `vimc_remove`, several captures that stream over the same
graph, programs with nodes open, and the removal under all of them.

| variable | code |
|---|---|
| `list`, `step`, `at` | `pdata->ents`, and how far probe or remove got in it |
| `res[e]` | what the add function of `e` acquired and nobody gave back: the object, control handler, pads, registered subdevice, test pattern generator, vb2 queue, registered node |
| `open[e]` | a program has the node of `e` open |
| `pipe[e]` | `entity->pipe`, by the capture it was set for |
| `stream[c]`, `size[c]` | what the streamer of `c` does, `pipe_size` |
| `kthread[c]` | what `stream->kthread` is worth: NULL, a thread that has or has not run yet, an error, a freed thread |
| `frame[e]` | `frame`, `src_frame`, by the capture for whose stream it was allocated |
| `dropped` | whose frames a sensor's pointer was overwritten over |

The add functions are sequences of resources (`SensorSteps`, `SubdevSteps`,
`CaptureSteps`), their error paths sequences of what they free for each failure
(`SensorErrors` and so on), with `vimc_ent_sd_register` inlined. The rm functions
take the registration away; the release callback (`Release`) runs at once or at the
last close. A start takes entities with `media_pipeline_start`, walks upstream one
entity per step, and goes back when an allocation fails; stops run entity by entity
as well, so all streams and the removal interleave. When `kthread_run` fails
(`StartThreadFails`) or a stop comes before the thread has run (`StreamOffEarly`), the
streamer returns with frames, pipeline and thread pointer kept, and the capture still
calls `media_pipeline_stop` (`Abandoned`). What comes of that is followed as well:
the next start takes the pointer for a stream (`StreamOnAlready`), the stop after it
passes the pointer to `kthread_stop` (`StreamOffBadThread`), another capture's start
finds the frames of debayers and scalers and uses them, and a sensor's over its own is
lost (`dropped`). The pipeline a walk finds
(`Chain`) and the entities `media_pipeline_start` takes (`Reach`) are constants.
Three facts of the kernel are used: `media_device_unregister` clears
`graph_obj.mdev` and removes the links of every entity; `media_pipeline_start` and
`_stop` lock the graph through it; V4L2 calls a release callback when a node is
unregistered and its last handle closed.

`VimcSharedGraph` is the abstract specification of that: entities that are there or
not, held by programs, taken by one capture at a time for all it reaches, and used
only by the capture that took them, but that a capture may abandon what it uses. `Live` entities map to `alive`, open nodes to
`held`, `pipe` to `owner`, `frame` to `user`, captures that are `Abandoned` to
`abandoned`. What it leaves out is the order: of the
resources of an add, of a walk, of a removal, and how the kernel stops.

`VimcTopologyProofs`, `VimcStreamProofs`, `VimcFormatProofs`, `VimcFramesProofs`,
`VimcDebayerProofs` and `VimcLifetimeProofs` hold the proofs, the modules with MC in front the constants of
the runs.

Definitions marked "Slip" are not behaviour of the driver: each is a wrong
variant of the definition after it, used to see that a property would notice.

## The runs

| run | bounds | shows |
|---|---|---|
| `careful` | 3 addresses, 3 names, 2 types and an unknown one, 3 links, at most 2 entities plugged | a user who drops links before their entities, with short names and no failures, gets exactly `VimcHotplug`, unique names, current caches, no BUG_ON, and nothing left behind; names that are cut and failed probes are not met here |
| `any_use` | the same with 2 links, one name that is cut to another, and every failure | whatever happens, a bound device is whole, removal finds every entity, the lists of a plugged device are left alone |
| `plug_without_entity` | as `any_use`, no failures | finding: a removed entity does not keep the device from being plugged |
| `plug_after_failed_probe` | as `any_use` | finding: the plug after a failed probe meets BUG_ON |
| `stream_any_luck` | 3 buffers, a pipeline of 3, 2 buffers needed, sequence modulo 4 | with every mishap: one owner per buffer, no frame without pipeline, pipeline under the thread, a stop waits for one pass at most, and `VimcCaptureQueue` |
| `stream_serves` | the same, fair, threads can be created and run | a stop tears down and returns, every buffer comes back |
| `stop_before_first_run` | as `stream_any_luck`, only this mishap | finding: -EINTR skips the rest of the stop |
| `stream_without_source` | a pipeline of the capture device alone | finding: it streams |
| `format_one_program` | sensor, debayer, scaler by 2, capture; 4 codes, sides of 2 to 8, 3 requests each, try formats of the scaler | links validated at the start agree while frames pass, formats are frozen, no frame or buffer is overrun, the scaler fills its frame, the debayer keeps colours up to the border, stored formats are settled and those of the subdevices enumerated; the capture answers no sizes for its own |
| `format_race` | the same, another program sets formats at any moment | finding: a format is stored after the frame was sized |
| `lifetime` | two sensors, a debayer, three captures of which two share a sensor; the list in both orders; every resource but two, every allocation of a frame and every thread creation may fail, and a stop may come before the thread runs | streams keep apart but for the frames such a start or stop leaves, handles keep objects, failed adds and removals give everything back once, with captures first no stream meets a freed entity, streams stop the kernel only under an open capture, and `VimcSharedGraph` |
| `unplug_while_streaming` | the same, the list as the scripts make it | finding: the removal stops a stream without a media device |

Why these bounds are enough to be interesting. Two entities with links both
ways, one address more than entities that fit (so that addresses are reused),
and a plug limit that three entities exceed reach every branch of plug and
probe. The code's own limits (10 entities, a pipeline of 16) are constants of
the modules, set to 2 and 3; the theorems hold for every value. With three
buffers, one can be filled, one held and one wait while the sequence number
wraps. The addresses are symmetric, and so are the buffers: nothing orders
them; the runs with symmetry check no liveness.

The requests of the format runs hold formats that fit together along the whole
pipeline in two sizes, so that streams do start, and ones that have to be
adjusted: too large, too small, odd, an unknown code, a code the entity does
not take, each unsupported field and colorimetry. Products stay below `Word` in
them; with the sizes of `vimc-common.h` and a multiplier up to `MAX_ZOOM` they
stay below 2^32 in the driver as well (4096 * 2160 * 8 * 8 * 4), which is what the
theorems assume (`NoWrap`). A larger `sca_mult`, which the driver does not refuse, is
not covered. The table of codes has two bayer codes of which the debayer takes one,
with 1 and 2 bytes per pixel, and 3 and 4 for the others; the test picture has
another value in each colour. `Word` is 8192 in `format_one_program`, so that the sums
of a mean window fit as they do in the driver, and 4096 in `format_race`.

In `lifetime` the captures stand for the three cases of two streams: on one sensor,
behind a debayer on the same sensor, on another sensor. A handle more would be like
the one there is, as only the last close does anything. `Newest` is the list of the
scripts, which create captures last (`list_add` puts them first); `Oldest` is its
reverse, where a removal frees a sensor under a stream: that kernel stops, and what
must hold even so is checked. The two failures left out of `Mishap` there, of the
control handler and of the test pattern generator, are those `vimc_sen_add`
mishandles (see the findings): each shows what it does wrong at once, so
`FailedAddReleases` is about the other failures.

Deadlock is checked in the format runs and `stream_serves`, where no mishap
stops the kernel. Elsewhere a stopped kernel (`oops`) is a state without a step,
so it is off. In `careful` no state stops the kernel (`NeverStops`), and a user
may always go on; in `lifetime` a device is plugged once, and when it is gone and
every handle closed, nothing is left to do.

Fairness is stated in `FairSpec`: weak fairness of the thread, which the
scheduler runs again after each sleep of a sixtieth of a second, and of an ioctl
that has begun. Nothing makes the program call anything. `stream_serves`
excludes the two mishaps that the findings are about, failing thread creation
and a stop before the first run; a mishap that can happen again at each start
needs no fairness.

Each property of a passing run has a slip that violates it in that run
(`mutants` in `PROJECT.json`).

## Findings

Six runs end in a violation, each of what a comment or a test script says:
the stale endpoint pointer of a link (`vimc-configfs.c:114`), the entities a
failed probe leaves behind (`vimc-core.c:94`), the stop that returns early
(`vimc-streamer.c:209`), the pipeline without a source (`vimc-streamer.c:107`), the
format stored after the test of the frame (`vimc-scaler.c:157`), and the unplug of a
device that streams (`vimc-core.c:242`), which `remove_while_streaming.sh` does.

More were met while modelling; each can be read off a few lines, so no run is spent
on it.

- After a failed `kthread_run` or a stop that returns early, nobody frees the frames
  of that stream: `media_pipeline_stop` gives the entities back
  (`vimc-capture.c:246`, `:265`), the removal and the release callbacks do not look at
  frames (`NothingLeaks` excepts them), and a sensor's next start overwrites the pointer
  to its frame (`vimc-sensor.c:219`, `dropped`). The next start succeeds without a
  thread, and the stop after it passes an error or a freed thread to `kthread_stop`
  (`vimc-streamer.c:209`, `StreamOffBadThread`).
- `vimc_cap_enum_framesizes` looks a pixel format up among the media bus codes, so it
  refuses every format `vimc_cap_enum_fmt_vid_cap` lists (`vimc-capture.c:169`;
  `SizesAnswered`, and `StoredIsEnumerated` says so of the stored one).
- A failed `kthread_run` leaves its error pointer in `stream->kthread`, and the next
  start takes it for a stream (`vimc-streamer.c:199`, against the comment at line
  174; `StartThreadFails` and `StartAlready` have it, `StartsHaveThreads` excludes it).
- A failing probe calls `kfree(vimc)` on memory that devres frees again
  (`vimc-core.c:222`; `ProbeFails`), and one whose add fails walks back from a NULL
  entity (`vimc-core.c:107`; `AddFails`).
- `vimc_sen_add` leaks its control handler when a control cannot be added
  (`vimc-sensor.c:374`), and frees handler and object twice when `tpg_alloc` fails, as
  the release callback did so already (`vimc-sensor.c:404`; `SensorErrors`).
- A node that is open when the device goes is closed through a `v4l2_device` that
  devres has freed (`vimc-core.c:246`; `Close`).
- The duplicate check compares a name before it is cut to 31 characters
  (`vimc-configfs.c:405`; `NameTaken` and `Stored`).
- get_fmt of a scaler's source pad answers a try format with the size of the active
  one (`vimc-scaler.c:121`; get_fmt changes no state and is no action).
- The debayer stores the mean of 10 and 12 bit samples in a byte
  (`vimc-debayer.c:303`; `U8`).

## The proofs

`VimcTopologyProofs` assumes `TopologyAssumption`: types of the constants, and
that a type is known under its own name. For any use, `SafeInv` (types, a bound
device is whole, no removal bug) is inductive: whole devices keep `vimc_remove`
safe, and only a probe that made everything binds. `ListsFrozenWhilePlugged`
follows from the actions alone. For a careful user the single properties are
not inductive, because a plug goes well when caches are current and nothing is
left behind, and these stay so because no plug went wrong and because names are
unique; `CarefulInv` is their conjunction with `ObjectsInOrder`. The proof that
`CarefulSpec` implements `VimcHotplug` has a lemma for each action that changes
the lists and one for a plug, whose point is that the links made by address are
the configured ones by name.

`VimcStreamProofs` assumes `StreamAssumption`: the walk upstream meets each
entity once and the capture device first. The invariant has two parts.
`PipeInv` ties thread, pipeline and frames: without a thread pointer there is no
pipeline, a live thread has the whole of it, and the frames are those of the
pipeline. `BufInv` puts every buffer in one place, the one vb2's state of it
says: with the program, on `queued_list` before a stream, with the driver
(`bufList` or `held`, once), or on `done_list`. The thread's type correctness
needs both, as it holds a buffer exactly between taking and filling it. From
them follow all safety properties of `stream_any_luck`, and that `VimcStream`
implements `VimcCaptureQueue`, for any number of buffers, any pipeline and any
mishap.

`VimcFormatProofs` assumes `FormatAssumption`: the shape of the pipeline, even
bounds in order, tables that contain the defaults. `AdjustSettles` is the lemma
everything about single formats rests on: adjusting gives a format within bounds
and tables, and adjusting it again changes nothing. `FormatTypes`, `FormatsSettle`
and `BuffersFit` hold whoever sets formats. For one program `SoloInv` is inductive:
a format in the making is for a subdevice without a frame and never while a
stream starts or stops, a running stream has all its frames and valid links. So
what set_fmt stores finds the stream off, which gives `LinksStayValid` and
`FormatsFrozen`.

`FramesHoldPasses` and `ScalersFillFrames` need one more invariant, `PassInv`: what
`s_stream` computed is what the formats of now give. With it and valid links, the
frame upstream has exactly the bytes of the sink format, and the rest is arithmetic:
`VimcFramesProofs` shows that an index in lines and columns is in its frame and does
not wrap (`IndexWithinFrame`), for the scaled frame too (`CopiesWithinFrames`), and
that the scaler's copies are `NearestCopies` (`ScalerCopiesNearest`), by splitting a
byte's number into line, column, and place in the pixel, and back. `NoWrap` is the
assumption that the largest scaled frame has less than `Word` bytes.
`StoredFormatsListed` rests on `TableAssumption`: the bayer codes come last, and no
pixel format has the value of a code.

`VimcDebayerProofs` shows that a debayer keeps the colours of an evenly coloured
picture. Its means are folds over sets of pixels. The induction they need is done in
first order: the strict subset ordering of a finite set is well-founded, so if two
functions both add a member of a set to what they give for the rest of it, there is
no smallest set they differ on (`TotalsUnique`). A fold is one such function; the
number of members times their common value is another. The rest is arithmetic: the bytes of a raw pixel give its value back, a
window of at least 2 meets each of the four pixels of a 2 by 2 cell at every place of
a frame with even sides, also at the borders it is cut at, and the sums do not wrap.
`EvenPictureKeepsColour` says so of any frame, `DebayersKeepColour` of every debayer
of a running stream, by `PassInv`. They assume `MeanWin >= 2` (the driver's default is
3; a window of one pixel has one colour, in this model and in the code) and `SumsFit`:
the samples of a largest frame at 8 bits add up to less than 2^32, which
4096 * 2160 * 255 does. A picture with more than 8 bits per sample is left out
(`vimc-debayer.c:303`, see the findings).

`StopsWaitOnePass` is the part of `StopReturnsAtLast` that needs no fairness: between
the flag and the end of the thread there is at most one pass, each step of which
lowers `StepsLeft`. It follows from the type invariant and `FlagHolds`, that the flag
stays up until the thread has ended. That the thread takes these steps is for TLC.

`StopsTearDown` and `StartsHaveThreads` hold without two mishaps only; `LuckInv` says
what they spoil: a thread pointer is NULL or that of a live thread, and a thread that
was stopped ran before.

`VimcLifetimeProofs` assumes `LifetimeAssumption`: every entity once in each list, a
chain that starts with its capture, meets no entity twice and stays within what
`media_pipeline_start` takes. Two invariants are inductive. `Ledger` says what each
entity holds, by its place in the list and by whether it is open: nothing before its
add, everything once added, after its removal nothing but what the release callback
gives back, and that only while it is open. `Streams` says of each capture what its
streamer may be doing, that the frames of its pipeline up to `pipe_size` are its own
or left by an abandoned stream, that it has no others unless it is abandoned itself, and
that every entity of its pipeline is in its media pipeline. `StreamsExclusive`,
`IdleLeavesGraph` and the frames of `NothingLeaks` follow, each with the exception of
abandoned streams, as `pipe` has one owner per entity. That a stream meets no
freed entity needs both, and the order of the list: the removal reaches the capture
before anything upstream of it, and does not get past a capture that streams.

A third invariant, `Handles`, says that a stream that is not off has its node open, as
a close is a STREAMOFF first. So whatever the order of the list, a stream stops the
kernel only with a capture open: under a removal, or when it is stopped with a bad
thread pointer (`StreamFaultsUnderHandles`).
`SharesTheGraph` is the refinement of `VimcSharedGraph`. Most steps stutter. Of the
others, `Ledger` says when an object comes and goes (a failed add keeps no memory), `Streams` that a walk uses only what its capture
took and that what it gives back is its own or was abandoned, and `Handles` that nobody who streams
closes a node. There is one lemma per group of actions.

Only model-checked: `StopReturnsAtLast` and `BuffersComeBack`, which are liveness.
Liveness and ENABLED are out of the prover's reach, and so are the library's induction
theorems over data, which take an operator. Every invariant and action property of a
passing run, and each of the three refinements, has its theorem.

## Not modelled, and what is left of the plan

1. `VimcHotplugRace`: plug and unplug in their steps, against mkdir and rmdir, which
   hold another mutex; the two are one step each in `VimcTopology`.
2. `VimcNames`: parsing of entity names, link names and the hotplug file; parsed
   records stand for names here. That includes `vimc_cfs_link_make_item`, which copies
   both names into the link by their own length and not by that of the field
   (`vimc-configfs.c:319`): names are taken to fit.
3. Module init and exit: the order in which the platform driver, the configfs
   subsystem and the entity types register. Nothing in the repository undoes or
   retries a part of it but the one error path of `vimc_init`.
4. Streaming and opening during a probe, before links exist: programs of
   `VimcLifetime` wait for the plug.

Left out for good: logging, the test pattern itself, V4L2 controls, the text
that is printed, the fourcc helpers (no state), the scripts (they are read as
statements of what the driver should do) and the patches (history).
