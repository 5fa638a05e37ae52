----------------------------- MODULE VimcFormat -----------------------------
(***************************************************************************)
(* The formats of one pipeline: the pad formats of its subdevices, the      *)
(* pixel format of the capture device, and what streaming makes of them     *)
(* (link validation, the sizes computed by s_stream, the buffers).          *)
(*                                                                         *)
(* The entities are their positions in the pipeline, walking upstream from  *)
(* the capture device, which is 1; the link into i comes from i + 1.        *)
(* set_fmt of a subdevice takes no lock: it tests whether the subdevice     *)
(* streams and stores the format afterwards.  The ioctls of the capture     *)
(* node run under vcap->lock.                                              *)
(***************************************************************************)
EXTENDS VimcFrames, Sequences

CONSTANTS
    Kinds,        \* the kinds of the entities: "cap", "sca", "deb", "sen"
    Bpp,          \* vimc_pix_map_list: bytes per pixel of each code
    PixelFormat,  \* the pixel format paired with each code: fmt[1] has the
                  \* code, the capture device answers to the pixel format
    Bayer,        \* the codes of the map with bayer = true
    PixMap,       \* the codes of vimc_pix_map_list, in its order
    DebMap,       \* the codes of vimc_deb_pix_map_list, in its order
    Order,        \* of each of these, the colours of a square of pixels
    RGBCode,      \* the default code, and the one a debayer makes
    BayerCode,    \* the default code of a debayer's sink
    MinSide, MaxWidth, MaxHeight,  \* VIMC_FRAME_MIN_*, VIMC_FRAME_MAX_*
    DefWidth, DefHeight,           \* of the default formats
    Mult,         \* sca_mult
    MaxZoom,      \* MAX_ZOOM
    MeanWin,      \* deb_mean_win_size
    Scenes,       \* the colours a test picture may have
    Requests,     \* the formats programs ask each kind of entity for
    BufSizes,     \* the sizes of buffers programs ask CREATE_BUFS for
    Opened,       \* the subdevices on which a program keeps a try format
    Concurrent    \* whether formats are set while a stream starts or stops

N == Len(Kinds)
Subdev == 2..N
Codes == DOMAIN Bpp
DebCodes == {DebMap[k] : k \in DOMAIN DebMap}
Colours == {"red", "green", "blue"}
Fields == {"none", "any", "alternate", "interlaced"}
Spaces == {"default", "known", "other", "invalid"}

\* ycbcr_enc, quantization and xfer_func are treated alike; enc is one of them.
Formats(codes, ws, hs, fields, spaces) ==
    [code : codes, width : ws, height : hs, field : fields,
     colorspace : spaces, enc : spaces]

ASSUME FormatAssumption ==
    /\ Kinds \in Seq({"cap", "sca", "deb", "sen"})
    /\ N >= 2
    /\ \A i \in 1..N : /\ Kinds[i] = "cap" <=> i = 1
                       /\ Kinds[i] = "sen" <=> i = N
    /\ Bpp \in [Codes -> Nat \ {0}]
    /\ Bayer \subseteq Codes /\ DebCodes \subseteq Bayer
    /\ RGBCode \in Codes \ Bayer /\ BayerCode \in DebCodes
    /\ {MinSide, MaxWidth, MaxHeight, DefWidth, DefHeight} \subseteq Nat \ {0}
    /\ \A n \in {MinSide, MaxWidth, MaxHeight, DefWidth, DefHeight} : n % 2 = 0
    /\ MinSide <= DefWidth /\ DefWidth <= MaxWidth
    /\ MinSide <= DefHeight /\ DefHeight <= MaxHeight
    /\ Mult \in Nat \ {0} /\ Word \in Nat \ {0}
    /\ \A i \in 1..N : \A f \in Requests[Kinds[i]] :
           /\ f.width \in Nat /\ f.height \in Nat
           /\ f.field \in Fields
           /\ f.colorspace \in Spaces /\ f.enc \in Spaces
    /\ BufSizes \subseteq Nat
    /\ Opened \subseteq Subdev
    /\ Concurrent \in BOOLEAN

ASSUME TableAssumption ==
    /\ Bpp[RGBCode] = 3
    /\ PixMap \in Seq(Codes) /\ DebMap \in Seq(Codes)
    /\ \A c \in Codes : \E k \in 1..Len(PixMap) : PixMap[k] = c
    /\ \A j, k \in 1..Len(PixMap) :       \* non-bayer formats come first
           j < k /\ PixMap[j] \in Bayer => PixMap[k] \in Bayer
    /\ Order \in [DebCodes -> [1..2 -> [1..2 -> Colours]]]
    /\ \A c \in DebCodes : \A x \in Colours : \E p \in (1..2) \X (1..2) :
           Order[c][p[1]][p[2]] = x
    /\ \A c \in Codes : PixelFormat[c] \notin Codes    \* their values differ
    /\ \A c \in DebCodes : Bpp[c] <= Len(Weight)
    /\ MaxZoom \in Nat /\ MeanWin \in Nat
    /\ Scenes \subseteq [Colours -> 0..255]

VARIABLES
    fmt,        \* the active format: mbus_format, sink_fmt, vcap->format
    sizeimage,  \* vcap->format.sizeimage
    tryFmt,     \* the try format of pad 0, on a program's file handle
    setter,     \* the set_fmt in progress: where, and what it will store
    bufSize,    \* plane size of the smallest vb2 buffer, 0 without buffers
    phase,      \* of the stream
    at,         \* the entity that is being started or stopped
    frame,      \* bytes of the frame each subdevice allocated, 0 for NULL
    saved,      \* the code whose bytes per pixel and colours each kept
    lineSize,   \* src_line_size of each scaler
    tpg         \* bytes the test pattern generator fills

ioctl  == <<sizeimage, bufSize>>
stream == <<phase, at, frame, saved, lineSize, tpg>>
vars   == <<fmt, tryFmt, setter, ioctl, stream>>

Idle == [pos |-> 0]

Settled == Formats(Codes, MinSide..MaxWidth, MinSide..MaxHeight,
                   Fields \ {"any"}, Spaces \ {"invalid"})

TypeOK ==
    /\ fmt \in [1..N -> Settled]
    /\ sizeimage \in Nat
    /\ tryFmt \in [Opened -> Settled]
    /\ \/ setter = Idle
       \/ setter \in [pos : Subdev, format : Settled]
    /\ bufSize \in Nat
    /\ phase \in {"off", "starting", "pattern", "on", "stopping"}
    /\ at \in 1..N
    /\ frame \in [Subdev -> Nat]
    /\ saved \in [Subdev -> Codes \cup {"none"}]
    /\ lineSize \in [Subdev -> Nat]
    /\ tpg \in Nat

-----------------------------------------------------------------------------
\* Adjusting a format

\* Slip: no lower bound.
ClampAbove(n, low, high) == IF n > high THEN high ELSE n

Clamp(n, low, high) == IF n < low THEN low ELSE IF n > high THEN high ELSE n

Even(n) == n - (n % 2)

Accepted(kind) ==
    CASE kind = "deb" -> DebCodes
      [] kind = "sca" -> Codes \ Bayer
      [] OTHER -> Codes

DefaultCode(kind) == IF kind = "deb" THEN BayerCode ELSE RGBCode

DefaultFormat(kind) ==
    [code |-> DefaultCode(kind), width |-> DefWidth, height |-> DefHeight,
     field |-> "none", colorspace |-> "default", enc |-> "default"]

\* Fields a kind of entity replaces by its default.
Unsupported(kind) == IF kind = "sen" THEN {"any", "alternate"} ELSE {"any"}

ClampColorspace(f) == IF f.colorspace = "invalid" THEN "default" ELSE f.colorspace

ClampEnc(f) ==
    IF ClampColorspace(f) = "default" \/ f.enc = "invalid" THEN "default" ELSE f.enc

Adjust(kind, f) ==
    [code       |-> IF f.code \in Accepted(kind) THEN f.code ELSE DefaultCode(kind),
     width      |-> Even(Clamp(f.width, MinSide, MaxWidth)),
     height     |-> Even(Clamp(f.height, MinSide, MaxHeight)),
     field      |-> IF f.field \in Unsupported(kind) THEN "none" ELSE f.field,
     colorspace |-> ClampColorspace(f),
     enc        |-> ClampEnc(f)]

ImageSize(f) == U32(f.width * Bpp[f.code] * f.height)

-----------------------------------------------------------------------------
\* The formats of source pads, and the validation of links

\* What set_fmt of a source pad answers, from the format of the sink pad.
Propagated(kind, f) ==
    CASE kind = "sca" -> [f EXCEPT !.width = U32(@ * Mult), !.height = U32(@ * Mult)]
      [] kind = "deb" -> [f EXCEPT !.code = RGBCode]
      [] OTHER -> f

\* get_fmt of a source pad, of the active formats.
ActiveSource(i) == Propagated(Kinds[i], fmt[i])

\* vimc_link_validate
Compatible(source, sink) ==
    /\ source.width = sink.width
    /\ source.height = sink.height
    /\ source.code = sink.code
    /\ source.field = sink.field \/ sink.field = "none"
    /\ \/ "default" \in {source.colorspace, sink.colorspace}
       \/ /\ source.colorspace = sink.colorspace
          /\ "default" \in {source.enc, sink.enc} \/ source.enc = sink.enc

LinksValid == \A i \in 1..N - 1 : Compatible(ActiveSource(i + 1), fmt[i])

-----------------------------------------------------------------------------
\* Enumeration, which programs go on with until it fails

\* Slip: the last entry is left out.
SupportsButLast(kind, pad, k) ==
    CASE kind = "deb" /\ pad = "source" -> k = 1
      [] kind = "deb" /\ pad = "sink" -> k < Len(DebMap)
      [] kind = "sca" -> k < Len(PixMap) /\ PixMap[k] \notin Bayer
      [] OTHER -> k < Len(PixMap)

\* Whether enum_mbus_code (enum_fmt) answers to index k - 1.
Supports(kind, pad, k) ==
    CASE kind = "deb" /\ pad = "source" -> k = 1
      [] kind = "deb" /\ pad = "sink" -> k <= Len(DebMap)
      [] kind = "sca" -> k <= Len(PixMap) /\ PixMap[k] \notin Bayer
      [] OTHER -> k <= Len(PixMap)

EnumCode(kind, pad, k) ==
    CASE kind = "deb" /\ pad = "source" -> RGBCode
      [] kind = "deb" /\ pad = "sink" -> DebMap[k]
      [] OTHER -> PixMap[k]

Listed(kind, pad) ==
    {EnumCode(kind, pad, k) :
        k \in {k \in 1..Len(PixMap) + Len(DebMap) :
                  \A j \in 1..k : Supports(kind, pad, j)}}

\* enum_frame_size: how many times the largest side a pad may have.
Zoom(kind, pad) == IF kind = "sca" /\ pad = "source" THEN MaxZoom ELSE 1

\* The codes to which it answers.
SizedCodes(kind, pad) ==
    IF kind = "deb" /\ pad = "source" THEN {RGBCode} ELSE Accepted(kind)

\* What it is asked with.  enum_framesizes of the capture device looks that up
\* among the codes, although it is a pixel format.
AskedWith(kind, f) == IF kind = "cap" THEN PixelFormat[f.code] ELSE f.code

SizesAnswered(kind, pad, f) == AskedWith(kind, f) \in SizedCodes(kind, pad)

Enumerated(kind, pad, f) ==
    /\ f.code \in Listed(kind, pad)
    /\ SizesAnswered(kind, pad, f)
    /\ f.width \in MinSide..MaxWidth * Zoom(kind, pad)
    /\ f.height \in MinSide..MaxHeight * Zoom(kind, pad)

-----------------------------------------------------------------------------
\* Setting formats

\* One program that does everything itself has no call in progress elsewhere.
NobodyElse == Concurrent \/ setter = Idle

\* Slip: the request is stored.
SetTryAsAsked ==
    /\ \E i \in Opened : \E f \in Requests[Kinds[i]] : tryFmt' = [tryFmt EXCEPT ![i] = f]
    /\ UNCHANGED <<fmt, setter, ioctl, stream>>

\* set_fmt of a try format, which is kept on the program's file handle.
SetTry ==
    /\ \E i \in Opened : \E f \in Requests[Kinds[i]] :
           tryFmt' = [tryFmt EXCEPT ![i] = Adjust(Kinds[i], f)]
    /\ UNCHANGED <<fmt, setter, ioctl, stream>>

\* Slip: the stream is not looked at.
SetFmtAnyTime ==
    /\ setter = Idle
    /\ \E i \in Subdev : \E f \in Requests[Kinds[i]] :
           setter' = [pos |-> i, format |-> Adjust(Kinds[i], f)]
    /\ UNCHANGED <<fmt, tryFmt, ioctl, stream>>

\* set_fmt of an active sink format (a sensor's source format), up to the test
\* of the frame.
SetFmtBegins ==
    /\ setter = Idle
    /\ Concurrent \/ phase \in {"off", "on"}
    /\ \E i \in Subdev : \E f \in Requests[Kinds[i]] :
           /\ frame[i] = 0
           /\ setter' = [pos |-> i, format |-> Adjust(Kinds[i], f)]
    /\ UNCHANGED <<fmt, tryFmt, ioctl, stream>>

SetFmtStores ==
    /\ setter # Idle
    /\ fmt' = [fmt EXCEPT ![setter.pos] = setter.format]
    /\ setter' = Idle
    /\ UNCHANGED <<tryFmt, ioctl, stream>>

\* Slip: buffers may be there.
CapSetFmtBusy ==
    /\ phase \in {"off", "on"}
    /\ \E f \in Requests["cap"] :
           /\ fmt' = [fmt EXCEPT ![1] = Adjust("cap", f)]
           /\ sizeimage' = ImageSize(fmt'[1])
    /\ UNCHANGED <<tryFmt, setter, bufSize, stream>>

CapSetFmt ==
    /\ bufSize = 0
    /\ NobodyElse
    /\ \E f \in Requests["cap"] :
           /\ fmt' = [fmt EXCEPT ![1] = Adjust("cap", f)]
           /\ sizeimage' = ImageSize(fmt'[1])
    /\ UNCHANGED <<tryFmt, setter, bufSize, stream>>

-----------------------------------------------------------------------------
\* Buffers: vb2 asks queue_setup for their size

ReqBufs ==
    /\ phase = "off"
    /\ NobodyElse
    /\ bufSize' = sizeimage
    /\ UNCHANGED <<fmt, sizeimage, tryFmt, setter, stream>>

FreeBufs ==
    /\ phase = "off"
    /\ bufSize # 0
    /\ NobodyElse
    /\ bufSize' = 0
    /\ UNCHANGED <<fmt, sizeimage, tryFmt, setter, stream>>

\* Slip: any size is fine.
CreateBufsOfAnySize ==
    /\ phase \in {"off", "on"}
    /\ \E n \in BufSizes : bufSize' = n
    /\ UNCHANGED <<fmt, sizeimage, tryFmt, setter, stream>>

CreateBufs ==
    /\ phase \in {"off", "on"}
    /\ NobodyElse
    /\ \E n \in BufSizes :
           /\ n # 0 /\ n >= sizeimage
           /\ bufSize' = IF bufSize = 0 \/ n < bufSize THEN n ELSE bufSize
    /\ UNCHANGED <<fmt, sizeimage, tryFmt, setter, stream>>

-----------------------------------------------------------------------------
\* Streaming

\* media_pipeline_start refuses links that do not fit.
StreamOn ==
    /\ phase = "off"
    /\ bufSize # 0
    /\ NobodyElse
    /\ LinksValid
    /\ phase' = "starting"
    /\ at' = 2
    /\ UNCHANGED <<fmt, tryFmt, setter, ioctl, frame, saved, lineSize, tpg>>

SrcLine(i) == U32(fmt[i].width * Mult * Bpp[fmt[i].code])

\* Slip: one multiplication short.
FrameSizeUnscaled(i) ==
    CASE Kinds[i] = "sca" -> U32(SrcLine(i) * fmt[i].height)
      [] Kinds[i] = "deb" -> U32(fmt[i].width * fmt[i].height * Bpp[RGBCode])
      [] OTHER -> ImageSize(fmt[i])

FrameSize(i) ==
    CASE Kinds[i] = "sca" -> U32(SrcLine(i) * fmt[i].height * Mult)
      [] Kinds[i] = "deb" -> U32(fmt[i].width * fmt[i].height * Bpp[RGBCode])
      [] OTHER -> ImageSize(fmt[i])

\* s_stream(1) of a debayer or a scaler.  It has no frame yet: one capture
\* device streams.  That it reads the format before it sets src_frame needs no
\* step of its own: a set_fmt in between could as well store right after it.
StartSubdev ==
    /\ phase = "starting" /\ at < N
    /\ FrameSize(at) # 0
    /\ frame' = [frame EXCEPT ![at] = FrameSize(at)]
    /\ saved' = [saved EXCEPT ![at] = fmt[at].code]
    /\ lineSize' = [lineSize EXCEPT ![at] = IF Kinds[at] = "sca" THEN SrcLine(at) ELSE @]
    /\ at' = at + 1
    /\ UNCHANGED <<fmt, tryFmt, setter, ioctl, phase, tpg>>

\* s_stream(1) of the sensor: the frame, and then the test pattern generator,
\* for which vimc_sen_tpg_s_format reads the format again.
StartSensor ==
    /\ phase = "starting" /\ at = N
    /\ FrameSize(N) # 0
    /\ frame' = [frame EXCEPT ![N] = FrameSize(N)]
    /\ phase' = "pattern"
    /\ UNCHANGED <<fmt, tryFmt, setter, ioctl, at, saved, lineSize, tpg>>

SetPattern ==
    /\ phase = "pattern"
    /\ tpg' = ImageSize(fmt[N])
    /\ phase' = "on"
    /\ UNCHANGED <<fmt, tryFmt, setter, ioctl, at, frame, saved, lineSize>>

\* vmalloc fails: what was started is stopped.
StartFails ==
    /\ phase = "starting"
    /\ phase' = "stopping"
    /\ UNCHANGED <<fmt, tryFmt, setter, ioctl, at, frame, saved, lineSize, tpg>>

\* The thread has ended when pipeline_terminate begins.
StreamOff ==
    /\ phase = "on"
    /\ NobodyElse
    /\ phase' = "stopping"
    /\ at' = N
    /\ UNCHANGED <<fmt, tryFmt, setter, ioctl, frame, saved, lineSize, tpg>>

\* From the sensor down to the capture device.
Terminate ==
    /\ phase = "stopping"
    /\ IF at = 1
       THEN phase' = "off" /\ UNCHANGED <<at, frame>>
       ELSE /\ frame' = [frame EXCEPT ![at] = 0]
            /\ at' = at - 1
            /\ UNCHANGED phase
    /\ UNCHANGED <<fmt, tryFmt, setter, ioctl, saved, lineSize, tpg>>

-----------------------------------------------------------------------------

Init ==
    /\ fmt = [i \in 1..N |-> DefaultFormat(Kinds[i])]
    /\ sizeimage = ImageSize(DefaultFormat("cap"))
    /\ tryFmt = [i \in Opened |-> DefaultFormat(Kinds[i])]
    /\ setter = Idle
    /\ bufSize = 0
    /\ phase = "off"
    /\ at = 1
    /\ frame = [i \in Subdev |-> 0]
    /\ saved = [i \in Subdev |-> "none"]
    /\ lineSize = [i \in Subdev |-> 0]
    /\ tpg = 0

Setting == SetTry \/ SetFmtBegins \/ SetFmtStores \/ CapSetFmt
Buffers == ReqBufs \/ FreeBufs \/ CreateBufs
Streaming ==
    \/ StreamOn \/ StartSubdev \/ StartSensor \/ SetPattern \/ StartFails
    \/ StreamOff \/ Terminate

Next == Setting \/ Buffers \/ Streaming

Spec == Init /\ [][Next]_vars

-----------------------------------------------------------------------------
\* What process_frame reads from the frame upstream, and where it writes

ScaledBytes(i) ==
    Copies(fmt[i].width, fmt[i].height, Bpp[saved[i]], Mult, lineSize[i])

BytesRead(i) ==
    CASE Kinds[i] = "cap" -> 0..sizeimage - 1
      [] Kinds[i] = "sca" -> {copy.from : copy \in ScaledBytes(i)}
      [] Kinds[i] = "deb" ->
             {Index(q[1], q[2], fmt[i].width, Bpp[saved[i]]) + b :
                  q \in UNION {MeanWindow(p, fmt[i].width, fmt[i].height, MeanWin) :
                                   p \in Pixels(fmt[i].width, fmt[i].height)},
                  b \in 0..Bpp[saved[i]] - 1}

BytesWritten(i) ==
    CASE Kinds[i] = "sca" -> {copy.to : copy \in ScaledBytes(i)}
      [] Kinds[i] = "deb" ->
             {Index(p[1], p[2], fmt[i].width, 3) + k :
                  p \in Pixels(fmt[i].width, fmt[i].height), k \in 0..2}
      [] Kinds[i] = "sen" -> 0..tpg - 1

-----------------------------------------------------------------------------
\* Properties

\* A format that an entity stores, active or try, is one that setting it again
\* would not change: every way to store one adjusts it completely.
StoredFormatsSettled ==
    /\ \A i \in 1..N : Adjust(Kinds[i], fmt[i]) = fmt[i]
    /\ \A i \in Opened : Adjust(Kinds[i], tryFmt[i]) = tryFmt[i]

\* The formats on both ends of every link still agree when the thread runs, as
\* they did when vimc_link_validate looked.
LinksAgreeWhileStreaming == phase = "on" => LinksValid

\* While the thread runs, no process_frame reads past the frame upstream of it
\* or writes past its own, although sizes are computed at the start and formats
\* read at each frame.
PassesWithinFrames ==
    phase = "on" =>
        /\ \A i \in 1..N - 1 : BytesRead(i) \subseteq 0..frame[i + 1] - 1
        /\ \A i \in Subdev : BytesWritten(i) \subseteq 0..frame[i] - 1

\* The scaler fills its frame: every byte of it, once, with the byte of the
\* pixel nearest to it in the frame upstream.
ScalerFillsFrame ==
    phase = "on" => \A i \in Subdev : Kinds[i] = "sca" =>
        ScaledBytes(i) = NearestCopies(frame[i], fmt[i].width, Bpp[saved[i]], Mult)

\* A debayer finds the colours of an evenly coloured picture in every pixel,
\* those at the borders, where the window is cut off, included.
DebayerKeepsColour ==
    phase = "on" => \A i \in Subdev : Kinds[i] = "deb" =>
        LET w == fmt[i].width  h == fmt[i].height
            order == Order[saved[i]]  bpp == Bpp[saved[i]]
        IN  \A scene \in Scenes :
                LET raw == RawFrame(scene, order, w, h, bpp) IN
                \A p \in Pixels(w, h) : \A x \in Colours :
                    Debayered(raw, p, x, order, w, h, bpp, MeanWin) = scene[x]

\* What a subdevice stores, programs find when they enumerate what it supports,
\* on both pads of it.  Of the capture device they find the pixel format, but
\* no sizes for it: it refuses to answer for every format it lists.
StoredIsEnumerated ==
    /\ \A i \in Subdev : /\ Enumerated(Kinds[i], "sink", fmt[i])
                          /\ Enumerated(Kinds[i], "source", ActiveSource(i))
    /\ fmt[1].code \in Listed("cap", "sink")
    /\ ~SizesAnswered("cap", "sink", fmt[1])
    /\ \A i \in Opened : Enumerated(Kinds[i], "sink", tryFmt[i])

\* An image of the capture format fits into every buffer there is, so that the
\* memcpy of vimc_cap_process_frame does, whichever of the format and the
\* buffers changed last.
BuffersHoldImage == bufSize # 0 => sizeimage <= bufSize

\* "Do not change the format while stream is on": no subdevice changes its
\* active format between two states in which it has a frame.
FormatFrozen ==
    [][\A i \in Subdev : frame[i] # 0 /\ frame'[i] # 0 => fmt'[i] = fmt[i]]_vars
=============================================================================
