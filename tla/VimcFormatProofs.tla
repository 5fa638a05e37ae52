-------------------------- MODULE VimcFormatProofs --------------------------
(***************************************************************************)
(* Proofs about VimcFormat.  Whoever sets formats, what is stored is        *)
(* settled, enumerated and buffers hold an image.  When one program does    *)
(* everything itself, formats are frozen while a stream uses them, so that  *)
(* links agree and every pass stays within the frames.                      *)
(***************************************************************************)
EXTENDS VimcFormat, VimcFramesProofs, TLAPS

\* The positions of the pipeline.
LEMMA Positions ==
    /\ N \in Nat /\ N >= 2
    /\ \A i \in 1..N : Kinds[i] \in {"cap", "sca", "deb", "sen"}
    /\ Kinds[1] = "cap"
<1>1. N \in Nat /\ N >= 2
  BY FormatAssumption DEF N
<1>2. \A i \in 1..N : Kinds[i] \in {"cap", "sca", "deb", "sen"}
  BY FormatAssumption DEF N
<1>3. Kinds[1] = "cap"
  BY FormatAssumption, <1>1
<1> QED BY <1>1, <1>2, <1>3

\* A clamped side is even, within its bounds, and clamping it again leaves it.
LEMMA Sides ==
    ASSUME NEW n \in Nat, NEW low \in Nat, NEW high \in Nat,
           low % 2 = 0, high % 2 = 0, low <= high
    PROVE  /\ Even(Clamp(n, low, high)) \in low..high
           /\ Even(Clamp(Even(Clamp(n, low, high)), low, high))
                = Even(Clamp(n, low, high))
<1> DEFINE c == Clamp(n, low, high)
           e == c - (c % 2)
<1>1. c \in Nat /\ low <= c /\ c <= high
  BY DEF Clamp
<1>2. c % 2 \in {0, 1}
  BY <1>1
<1>3. e \in Nat /\ low <= e /\ e <= high /\ e % 2 = 0
  BY <1>1, <1>2
<1>4. Clamp(e, low, high) = e
  BY <1>3 DEF Clamp
<1> QED BY <1>3, <1>4 DEF Even

\* The bounds that every entity clamps to.
LEMMA Bounds ==
    /\ MinSide \in Nat /\ MinSide % 2 = 0
    /\ MaxWidth \in Nat /\ MaxWidth % 2 = 0 /\ MinSide <= MaxWidth
    /\ MaxHeight \in Nat /\ MaxHeight % 2 = 0 /\ MinSide <= MaxHeight
<1>1. {MinSide, MaxWidth, MaxHeight, DefWidth, DefHeight} \subseteq Nat
  BY FormatAssumption
<1>2. /\ MinSide % 2 = 0 /\ MaxWidth % 2 = 0 /\ MaxHeight % 2 = 0
  BY FormatAssumption
<1>3. MinSide <= MaxWidth /\ MinSide <= MaxHeight
  BY <1>1, FormatAssumption
<1> QED BY <1>1, <1>2, <1>3

\* What set_fmt and s_fmt store is settled, for every entity and request.
LEMMA AdjustSettles ==
    ASSUME NEW i \in 1..N, NEW f \in Requests[Kinds[i]]
    PROVE  /\ Adjust(Kinds[i], f) \in Settled
           /\ Adjust(Kinds[i], Adjust(Kinds[i], f)) = Adjust(Kinds[i], f)
<1> DEFINE k == Kinds[i]
           g == Adjust(k, f)
<1>1. k \in {"cap", "sca", "deb", "sen"}
  BY Positions
<1>2. /\ f.width \in Nat /\ f.height \in Nat /\ f.field \in Fields
      /\ f.colorspace \in Spaces /\ f.enc \in Spaces
  BY FormatAssumption
<1>3. /\ g.width \in MinSide..MaxWidth
      /\ Even(Clamp(g.width, MinSide, MaxWidth)) = g.width
  <2>1. g.width = Even(Clamp(f.width, MinSide, MaxWidth))
    BY DEF Adjust
  <2>2. /\ Even(Clamp(f.width, MinSide, MaxWidth)) \in MinSide..MaxWidth
        /\ Even(Clamp(Even(Clamp(f.width, MinSide, MaxWidth)), MinSide, MaxWidth))
             = Even(Clamp(f.width, MinSide, MaxWidth))
    BY <1>2, Sides, Bounds
  <2> QED BY <2>1, <2>2
<1>4. /\ g.height \in MinSide..MaxHeight
      /\ Even(Clamp(g.height, MinSide, MaxHeight)) = g.height
  <2>1. g.height = Even(Clamp(f.height, MinSide, MaxHeight))
    BY DEF Adjust
  <2>2. /\ Even(Clamp(f.height, MinSide, MaxHeight)) \in MinSide..MaxHeight
        /\ Even(Clamp(Even(Clamp(f.height, MinSide, MaxHeight)), MinSide, MaxHeight))
             = Even(Clamp(f.height, MinSide, MaxHeight))
    BY <1>2, Sides, Bounds
  <2> QED BY <2>1, <2>2
<1>5. /\ g.code \in Codes
      /\ g.code \in Accepted(k)
  BY <1>1, FormatAssumption DEF Adjust, Accepted, DefaultCode
<1>6. g.field \in Fields \ {"any"} /\ g.field \notin Unsupported(k)
  BY <1>2 DEF Adjust, Unsupported, Fields
<1>7. /\ g.colorspace \in Spaces \ {"invalid"}
      /\ g.enc \in Spaces \ {"invalid"}
      /\ ClampColorspace(g) = g.colorspace
      /\ ClampEnc(g) = g.enc
  BY <1>2 DEF Adjust, ClampColorspace, ClampEnc, Spaces
<1>8. g \in Settled
  BY <1>3, <1>4, <1>5, <1>6, <1>7 DEF Settled, Formats, Adjust
<1>9. Adjust(k, g) = g
  BY <1>3, <1>4, <1>5, <1>6, <1>7 DEF Adjust
<1> QED BY <1>8, <1>9

\* The default formats are settled.
LEMMA DefaultSettled ==
    ASSUME NEW i \in 1..N
    PROVE  /\ DefaultFormat(Kinds[i]) \in Settled
           /\ Adjust(Kinds[i], DefaultFormat(Kinds[i])) = DefaultFormat(Kinds[i])
<1> DEFINE k == Kinds[i]
           d == DefaultFormat(k)
<1>1. k \in {"cap", "sca", "deb", "sen"}
  BY Positions
<1>2. d.code \in Codes /\ d.code \in Accepted(k)
  BY <1>1, FormatAssumption DEF DefaultFormat, DefaultCode, Accepted
<1>3. /\ Even(Clamp(DefWidth, MinSide, MaxWidth)) = DefWidth
      /\ Even(Clamp(DefHeight, MinSide, MaxHeight)) = DefHeight
  BY FormatAssumption DEF Even, Clamp
<1>4. d \in Settled
  BY <1>2, FormatAssumption DEF Settled, Formats, DefaultFormat, Fields, Spaces
<1>5. Adjust(k, d) = d
  BY <1>1, <1>2, <1>3
  DEF Adjust, DefaultFormat, Unsupported, ClampColorspace, ClampEnc
<1> QED BY <1>4, <1>5

\* The size of an image of a settled format is a number.
LEMMA SizesAreNumbers ==
    /\ \A n \in Nat : U32(n) \in Nat
    /\ \A f \in Settled : ImageSize(f) \in Nat
<1>1. \A n \in Nat : U32(n) \in Nat
  BY FormatAssumption DEF U32
<1>2. ASSUME NEW f \in Settled
      PROVE  ImageSize(f) \in Nat
  <2>1. f.width \in Nat /\ f.height \in Nat /\ Bpp[f.code] \in Nat
    BY FormatAssumption DEF Settled, Formats
  <2>2. f.width * Bpp[f.code] * f.height \in Nat
    BY <2>1
  <2> QED BY <1>1, <2>2 DEF ImageSize
<1> QED BY <1>1, <1>2

\* So are the sizes s_stream computes.
LEMMA FrameSizesAreNumbers ==
    ASSUME TypeOK, NEW i \in Subdev
    PROVE  /\ FrameSize(i) \in Nat
           /\ SrcLine(i) \in Nat
           /\ fmt[i].code \in Codes
<1>1. i \in 1..N /\ fmt[i] \in Settled
  BY Positions DEF TypeOK, Subdev
<1>2. /\ fmt[i].width \in Nat /\ fmt[i].height \in Nat
      /\ fmt[i].code \in Codes /\ Bpp[fmt[i].code] \in Nat
  BY <1>1, FormatAssumption DEF Settled, Formats
<1>3. Mult \in Nat /\ Bpp[RGBCode] \in Nat
  BY FormatAssumption
<1>4. fmt[i].width * Mult * Bpp[fmt[i].code] \in Nat
  BY <1>2, <1>3
<1>5. SrcLine(i) \in Nat
  BY <1>4, SizesAreNumbers DEF SrcLine
<1>6. SrcLine(i) * fmt[i].height * Mult \in Nat
  BY <1>2, <1>3, <1>5
<1>7. fmt[i].width * fmt[i].height * Bpp[RGBCode] \in Nat
  BY <1>2, <1>3
<1>8. FrameSize(i) \in Nat
  BY <1>1, <1>6, <1>7, SizesAreNumbers DEF FrameSize
<1> QED BY <1>2, <1>5, <1>8

-----------------------------------------------------------------------------
\* Types, and what holds whoever sets formats

\* Setting a format keeps the types.
LEMMA SettingTypes ==
    ASSUME TypeOK, Setting
    PROVE  TypeOK'
<1>1. CASE SetTry
  <2>0. PICK i \in Opened : \E f \in Requests[Kinds[i]] :
            tryFmt' = [tryFmt EXCEPT ![i] = Adjust(Kinds[i], f)]
    BY <1>1 DEF SetTry
  <2>1. PICK f \in Requests[Kinds[i]] :
            tryFmt' = [tryFmt EXCEPT ![i] = Adjust(Kinds[i], f)]
    BY <2>0
  <2>2. i \in 1..N
    BY Positions, FormatAssumption DEF Subdev
  <2>3. Adjust(Kinds[i], f) \in Settled
    BY <2>2, AdjustSettles
  <2>4. tryFmt' \in [Opened -> Settled]
    BY <2>1, <2>3 DEF TypeOK
  <2> QED BY <1>1, <2>4 DEF SetTry, TypeOK, ioctl, stream
<1>2. CASE SetFmtBegins
  <2>0. PICK i \in Subdev : \E f \in Requests[Kinds[i]] :
            setter' = [pos |-> i, format |-> Adjust(Kinds[i], f)]
    BY <1>2 DEF SetFmtBegins
  <2>1. PICK f \in Requests[Kinds[i]] :
            setter' = [pos |-> i, format |-> Adjust(Kinds[i], f)]
    BY <2>0
  <2>2. Adjust(Kinds[i], f) \in Settled
    BY Positions, AdjustSettles DEF Subdev
  <2>3. setter' \in [pos : Subdev, format : Settled]
    BY <2>1, <2>2
  <2> QED BY <1>2, <2>3 DEF SetFmtBegins, TypeOK, ioctl, stream
<1>3. CASE SetFmtStores
  <2>1. setter \in [pos : Subdev, format : Settled]
    BY <1>3 DEF SetFmtStores, TypeOK
  <2>2. fmt' \in [1..N -> Settled]
    BY <1>3, <2>1 DEF SetFmtStores, TypeOK
  <2> QED BY <1>3, <2>2 DEF SetFmtStores, TypeOK, ioctl, stream
<1>4. CASE CapSetFmt
  <2>1. PICK f \in Requests["cap"] : /\ fmt' = [fmt EXCEPT ![1] = Adjust("cap", f)]
                              /\ sizeimage' = ImageSize(fmt'[1])
    BY <1>4 DEF CapSetFmt
  <2>2. 1 \in 1..N
    BY Positions
  <2>3. Adjust("cap", f) \in Settled
    BY <2>2, Positions, AdjustSettles
  <2>4. fmt' \in [1..N -> Settled] /\ fmt'[1] \in Settled
    BY <2>1, <2>2, <2>3 DEF TypeOK
  <2>5. sizeimage' \in Nat
    BY <2>1, <2>4, SizesAreNumbers
  <2> QED BY <1>4, <2>4, <2>5 DEF CapSetFmt, TypeOK, stream
<1> QED BY <1>1, <1>2, <1>3, <1>4 DEF Setting

\* So do the steps of a stream.
LEMMA StreamingTypes ==
    ASSUME TypeOK, Streaming
    PROVE  TypeOK'
<1> USE DEF TypeOK, ioctl
<1>0. N \in Nat /\ N >= 2
  BY Positions
<1>1. CASE StreamOn
  BY <1>0, <1>1 DEF StreamOn
<1>2. CASE StartSubdev
  <2>1. at \in Subdev \/ at = 1
    BY <1>0, <1>2 DEF StartSubdev, Subdev
  <2>2. at + 1 \in 1..N
    BY <1>0, <1>2 DEF StartSubdev
  <2>3. frame' \in [Subdev -> Nat]
    BY <1>2, <2>1, FrameSizesAreNumbers DEF StartSubdev, Subdev
  <2>4. saved' \in [Subdev -> Codes \cup {"none"}]
    BY <1>2, <2>1, FrameSizesAreNumbers DEF StartSubdev, Subdev
  <2>5. lineSize' \in [Subdev -> Nat]
    BY <1>2, <2>1, FrameSizesAreNumbers DEF StartSubdev, Subdev
  <2> QED BY <1>2, <2>2, <2>3, <2>4, <2>5 DEF StartSubdev
<1>3. CASE StartSensor
  <2>1. N \in Subdev
    BY <1>0 DEF Subdev
  <2>2. frame' \in [Subdev -> Nat]
    BY <1>3, <2>1, FrameSizesAreNumbers DEF StartSensor
  <2> QED BY <1>3, <2>2 DEF StartSensor
<1>4. CASE SetPattern
  <2>1. fmt[N] \in Settled
    BY <1>0
  <2>2. ImageSize(fmt[N]) \in Nat
    BY <2>1, SizesAreNumbers
  <2> QED BY <1>4, <2>2 DEF SetPattern
<1>5. CASE StartFails
  BY <1>5 DEF StartFails
<1>6. CASE StreamOff
  BY <1>0, <1>6 DEF StreamOff
<1>7. CASE Terminate
  <2>1. CASE at = 1
    BY <1>7, <2>1 DEF Terminate
  <2>2. CASE at # 1
    <3>1. at - 1 \in 1..N
      BY <1>0, <2>2
    <3>2. frame' = [frame EXCEPT ![at] = 0] /\ at' = at - 1 /\ phase' = phase
      BY <1>7, <2>2 DEF Terminate
    <3>3. frame' \in [Subdev -> Nat]
      BY <3>2
    <3> QED BY <1>7, <3>1, <3>2, <3>3 DEF Terminate
  <2> QED BY <2>1, <2>2
<1> QED BY <1>1, <1>2, <1>3, <1>4, <1>5, <1>6, <1>7 DEF Streaming

\* Every variable keeps its type, whoever sets formats: in particular every
\* stored format is even, within bounds and in the tables.
THEOREM FormatTypes == Spec => []TypeOK
<1>1. Init => TypeOK
  <2> SUFFICES ASSUME Init PROVE TypeOK
    OBVIOUS
  <2>1. 1 \in 1..N /\ Opened \subseteq 1..N
    BY Positions, FormatAssumption DEF Subdev
  <2>2. fmt \in [1..N -> Settled] /\ tryFmt \in [Opened -> Settled]
    BY <2>1, DefaultSettled DEF Init
  <2>3. sizeimage \in Nat
    BY <2>1, DefaultSettled, Positions, SizesAreNumbers DEF Init
  <2> QED BY <2>1, <2>2, <2>3 DEF Init, TypeOK
<1>2. TypeOK /\ [Next]_vars => TypeOK'
  <2> SUFFICES ASSUME TypeOK, [Next]_vars PROVE TypeOK'
    OBVIOUS
  <2>1. CASE Buffers
    <3>1. bufSize' \in Nat
      BY <2>1, FormatAssumption DEF Buffers, ReqBufs, FreeBufs, CreateBufs, TypeOK
    <3>2. UNCHANGED <<fmt, sizeimage, tryFmt, setter, stream>>
      BY <2>1 DEF Buffers, ReqBufs, FreeBufs, CreateBufs
    <3> QED BY <3>1, <3>2 DEF TypeOK, stream
  <2>2. CASE UNCHANGED vars
    BY <2>2 DEF vars, ioctl, stream, TypeOK
  <2> QED BY <2>1, <2>2, SettingTypes, StreamingTypes DEF Next
<1> QED BY <1>1, <1>2, PTL DEF Spec

\* Whatever was set and allocated last, the image fits into the buffers: the
\* format is frozen while there are any.
THEOREM BuffersFit == Spec => []BuffersHoldImage
<1>1. Init => BuffersHoldImage
  BY DEF Init, BuffersHoldImage
<1>2. TypeOK /\ BuffersHoldImage /\ [Next]_vars => BuffersHoldImage'
  <2> SUFFICES ASSUME TypeOK, BuffersHoldImage, [Next]_vars
               PROVE  BuffersHoldImage'
    OBVIOUS
  <2> USE DEF BuffersHoldImage
  <2>1. CASE SetTry \/ SetFmtBegins \/ SetFmtStores
    BY <2>1 DEF SetTry, SetFmtBegins, SetFmtStores, ioctl
  <2>2. CASE CapSetFmt
    BY <2>2 DEF CapSetFmt
  <2>3. CASE Buffers
    BY <2>3, FormatAssumption
    DEF Buffers, ReqBufs, FreeBufs, CreateBufs, TypeOK
  <2>4. CASE Streaming
    BY <2>4 DEF Streaming, StreamOn, StartSubdev, StartSensor, SetPattern,
                StartFails, StreamOff, Terminate, ioctl
  <2>5. CASE UNCHANGED vars
    BY <2>5 DEF vars, ioctl
  <2> QED BY <2>1, <2>2, <2>3, <2>4, <2>5 DEF Next, Setting
<1> QED BY <1>1, <1>2, FormatTypes, PTL DEF Spec

\* Storing one settled format, or none, keeps all settled.
LEMMA SettlingStep ==
    ASSUME TypeOK, StoredFormatsSettled, Setting,
           setter # Idle => Adjust(Kinds[setter.pos], setter.format) = setter.format
    PROVE  /\ StoredFormatsSettled'
           /\ setter' # Idle =>
                Adjust(Kinds[setter'.pos], setter'.format) = setter'.format
<1>0. 1 \in 1..N /\ Subdev \subseteq 1..N /\ Opened \subseteq 1..N
  BY Positions, FormatAssumption DEF Subdev
<1>1. CASE SetTry
  <2>0. PICK i \in Opened : \E f \in Requests[Kinds[i]] :
            tryFmt' = [tryFmt EXCEPT ![i] = Adjust(Kinds[i], f)]
    BY <1>1 DEF SetTry
  <2>1. PICK f \in Requests[Kinds[i]] :
            tryFmt' = [tryFmt EXCEPT ![i] = Adjust(Kinds[i], f)]
    BY <2>0
  <2>2. Adjust(Kinds[i], Adjust(Kinds[i], f)) = Adjust(Kinds[i], f)
    BY <1>0, AdjustSettles
  <2>3. UNCHANGED <<fmt, setter>>
    BY <1>1 DEF SetTry
  <2>4. \A j \in Opened : Adjust(Kinds[j], tryFmt'[j]) = tryFmt'[j]
    BY <2>1, <2>2 DEF StoredFormatsSettled, TypeOK
  <2> QED BY <2>3, <2>4 DEF StoredFormatsSettled
<1>2. CASE SetFmtBegins
  <2>0. PICK i \in Subdev : \E f \in Requests[Kinds[i]] :
            setter' = [pos |-> i, format |-> Adjust(Kinds[i], f)]
    BY <1>2 DEF SetFmtBegins
  <2>1. PICK f \in Requests[Kinds[i]] :
            setter' = [pos |-> i, format |-> Adjust(Kinds[i], f)]
    BY <2>0
  <2>2. Adjust(Kinds[i], Adjust(Kinds[i], f)) = Adjust(Kinds[i], f)
    BY <1>0, AdjustSettles
  <2>3. setter'.pos = i /\ setter'.format = Adjust(Kinds[i], f)
    BY <2>1
  <2>4. UNCHANGED <<fmt, tryFmt>>
    BY <1>2 DEF SetFmtBegins
  <2> QED BY <2>2, <2>3, <2>4 DEF StoredFormatsSettled
<1>3. CASE SetFmtStores
  <2>1. /\ fmt' = [fmt EXCEPT ![setter.pos] = setter.format]
        /\ setter # Idle /\ setter' = Idle /\ tryFmt' = tryFmt
    BY <1>3 DEF SetFmtStores
  <2>2. \A j \in 1..N : Adjust(Kinds[j], fmt'[j]) = fmt'[j]
    BY <2>1 DEF StoredFormatsSettled, TypeOK
  <2> QED BY <2>1, <2>2 DEF StoredFormatsSettled
<1>4. CASE CapSetFmt
  <2>1. PICK f \in Requests["cap"] : fmt' = [fmt EXCEPT ![1] = Adjust("cap", f)]
    BY <1>4 DEF CapSetFmt
  <2>2. Adjust("cap", Adjust("cap", f)) = Adjust("cap", f)
    BY <1>0, Positions, AdjustSettles
  <2>3. UNCHANGED <<setter, tryFmt>>
    BY <1>4 DEF CapSetFmt
  <2>4. \A j \in 1..N : Adjust(Kinds[j], fmt'[j]) = fmt'[j]
    BY <2>1, <2>2, Positions DEF StoredFormatsSettled, TypeOK
  <2> QED BY <2>3, <2>4 DEF StoredFormatsSettled
<1> QED BY <1>1, <1>2, <1>3, <1>4 DEF Setting

\* Setting a stored format again changes nothing, whoever set it.
THEOREM FormatsSettle == Spec => []StoredFormatsSettled
<1> DEFINE Inv == /\ StoredFormatsSettled
                  /\ setter # Idle =>
                       Adjust(Kinds[setter.pos], setter.format) = setter.format
<1>1. Init => Inv
  <2>1. 1 \in 1..N /\ Opened \subseteq 1..N
    BY Positions, FormatAssumption DEF Subdev
  <2> QED BY <2>1, DefaultSettled DEF Init, StoredFormatsSettled
<1>2. TypeOK /\ Inv /\ [Next]_vars => Inv'
  <2> SUFFICES ASSUME TypeOK, Inv, [Next]_vars PROVE Inv'
    OBVIOUS
  <2>1. CASE Setting
    BY <2>1, SettlingStep
  <2>2. CASE Buffers \/ Streaming \/ UNCHANGED vars
    <3>1. UNCHANGED <<fmt, tryFmt, setter>>
      BY <2>2 DEF vars, Buffers, ReqBufs, FreeBufs, CreateBufs, Streaming, StreamOn,
                  StartSubdev, StartSensor, SetPattern, StartFails, StreamOff,
                  Terminate
    <3> QED BY <3>1 DEF StoredFormatsSettled
  <2> QED BY <2>1, <2>2 DEF Next
<1>3. Inv => StoredFormatsSettled
  OBVIOUS
<1> QED BY <1>1, <1>2, <1>3, FormatTypes, PTL DEF Spec

-----------------------------------------------------------------------------
\* One program that does everything itself

\* A format in the making is for a subdevice without a frame, and none is in
\* the making while a stream starts or stops; a running stream has all frames,
\* and the formats it was validated with.
SoloInv ==
    /\ setter # Idle => phase \in {"off", "on"} /\ frame[setter.pos] = 0
    /\ phase # "off" => bufSize # 0
    /\ phase = "starting" => at >= 2 /\ \A i \in Subdev : i < at => frame[i] # 0
    /\ phase \in {"pattern", "on"} => \A i \in Subdev : frame[i] # 0
    /\ phase \in {"starting", "pattern", "on"} => LinksValid

\* No step of the program touches the format of a subdevice that has a frame.
LEMMA SettingSolo ==
    ASSUME ~Concurrent, TypeOK, SoloInv, Setting
    PROVE  SoloInv' /\ \A i \in Subdev : frame[i] # 0 => fmt'[i] = fmt[i]
<1>0. UNCHANGED <<bufSize, phase, at, frame>>
  BY DEF Setting, SetTry, SetFmtBegins, SetFmtStores, CapSetFmt, ioctl, stream
<1>1. CASE SetTry
  BY <1>0, <1>1 DEF SetTry, SoloInv, LinksValid, ActiveSource
<1>2. CASE SetFmtBegins
  <2>0. PICK i \in Subdev : \E f \in Requests[Kinds[i]] :
            frame[i] = 0 /\ setter' = [pos |-> i, format |-> Adjust(Kinds[i], f)]
    BY <1>2 DEF SetFmtBegins
  <2>1. PICK f \in Requests[Kinds[i]] :
            frame[i] = 0 /\ setter' = [pos |-> i, format |-> Adjust(Kinds[i], f)]
    BY <2>0
  <2>2. phase \in {"off", "on"} /\ fmt' = fmt
    BY <1>2 DEF SetFmtBegins
  <2>3. setter'.pos = i
    BY <2>1
  <2> QED BY <1>0, <2>1, <2>2, <2>3 DEF SoloInv, LinksValid, ActiveSource
<1>3. CASE SetFmtStores
  <2>1. /\ fmt' = [fmt EXCEPT ![setter.pos] = setter.format]
        /\ setter # Idle /\ setter' = Idle
    BY <1>3 DEF SetFmtStores
  <2>2. setter.pos \in Subdev /\ frame[setter.pos] = 0
    BY <2>1 DEF TypeOK, SoloInv
  <2>3. phase = "off"
    BY <2>1, <2>2 DEF SoloInv
  <2>4. \A i \in Subdev : frame[i] # 0 => fmt'[i] = fmt[i]
    BY <2>1, <2>2, Positions DEF TypeOK, Subdev
  <2> QED BY <1>0, <2>1, <2>3, <2>4 DEF SoloInv
<1>4. CASE CapSetFmt
  <2>1. bufSize = 0 /\ setter' = setter
    BY <1>4 DEF CapSetFmt
  <2>2. phase = "off"
    BY <2>1 DEF SoloInv
  <2>3. \A i \in Subdev : fmt'[i] = fmt[i]
    BY <1>4, Positions DEF CapSetFmt, TypeOK, Subdev
  <2> QED BY <1>0, <2>1, <2>2, <2>3 DEF SoloInv
<1> QED BY <1>1, <1>2, <1>3, <1>4 DEF Setting

\* Nor does a step of the buffers or of the stream, which validates the links.
LEMMA StreamingSolo ==
    ASSUME ~Concurrent, TypeOK, SoloInv, Buffers \/ Streaming
    PROVE  SoloInv' /\ fmt' = fmt
<1>0. fmt' = fmt /\ setter' = setter /\ (LinksValid <=> LinksValid')
  BY DEF Buffers, ReqBufs, FreeBufs, CreateBufs, Streaming, StreamOn, StartSubdev,
         StartSensor, SetPattern, StartFails, StreamOff, Terminate, LinksValid,
         ActiveSource
<1>1. N \in Nat /\ N >= 2
  BY Positions
<1>2. CASE Buffers
  BY <1>0, <1>2 DEF Buffers, ReqBufs, FreeBufs, CreateBufs, SoloInv, stream
<1>3. CASE StreamOn
  BY <1>0, <1>1, <1>3 DEF StreamOn, SoloInv, Subdev, NobodyElse, ioctl
<1>4. CASE StartSubdev
  <2>1. at \in Subdev /\ FrameSize(at) # 0 /\ setter = Idle
    BY <1>1, <1>4 DEF StartSubdev, SoloInv, Subdev, TypeOK
  <2>2. frame' = [frame EXCEPT ![at] = FrameSize(at)] /\ at' = at + 1
    BY <1>4 DEF StartSubdev
  <2>3. \A i \in Subdev : i < at' => frame'[i] # 0
    BY <1>1, <1>4, <2>1, <2>2 DEF StartSubdev, SoloInv, Subdev, TypeOK
  <2>4. at' >= 2
    BY <2>1, <2>2 DEF Subdev
  <2> QED BY <1>0, <1>4, <2>1, <2>3, <2>4 DEF StartSubdev, SoloInv, ioctl
<1>5. CASE StartSensor
  <2>1. setter = Idle
    BY <1>5 DEF StartSensor, SoloInv
  <2>2. \A i \in Subdev : frame'[i] # 0
    BY <1>1, <1>5 DEF StartSensor, SoloInv, Subdev, TypeOK
  <2> QED BY <1>0, <1>5, <2>1, <2>2 DEF StartSensor, SoloInv, ioctl
<1>6. CASE SetPattern
  <2>1. setter = Idle
    BY <1>6 DEF SetPattern, SoloInv
  <2> QED BY <1>0, <1>6, <2>1 DEF SetPattern, SoloInv, ioctl
<1>7. CASE StartFails
  <2>1. setter = Idle
    BY <1>7 DEF StartFails, SoloInv
  <2> QED BY <1>0, <1>7, <2>1 DEF StartFails, SoloInv, ioctl
<1>8. CASE StreamOff
  BY <1>0, <1>8 DEF StreamOff, SoloInv, NobodyElse, ioctl
<1>9. CASE Terminate
  <2>1. setter = Idle /\ phase' \in {"off", "stopping"} /\ bufSize' = bufSize
    BY <1>9 DEF Terminate, SoloInv, ioctl
  <2> QED BY <1>0, <1>9, <2>1 DEF SoloInv, Terminate
<1> QED BY <1>0, <1>2, <1>3, <1>4, <1>5, <1>6, <1>7, <1>8, <1>9 DEF Streaming

\* The invariant of the single program.
LEMMA SoloInvariant ==
    /\ ~Concurrent /\ Init => SoloInv
    /\ ~Concurrent /\ TypeOK /\ SoloInv /\ [Next]_vars => SoloInv'
<1>1. Init => SoloInv
  BY DEF Init, SoloInv
<1>2. ASSUME ~Concurrent, TypeOK, SoloInv, [Next]_vars
      PROVE  SoloInv'
  <2>1. CASE UNCHANGED vars
    BY <1>2, <2>1 DEF vars, ioctl, stream, SoloInv, LinksValid, ActiveSource
  <2> QED BY <1>2, <2>1, SettingSolo, StreamingSolo DEF Next
<1> QED BY <1>1, <1>2

\* As long as nobody else sets formats, the links that vimc_link_validate
\* accepted agree for as long as the thread runs.
THEOREM LinksStayValid == ~Concurrent /\ Spec => []LinksAgreeWhileStreaming
<1> SUFFICES ASSUME ~Concurrent PROVE Spec => []LinksAgreeWhileStreaming
  OBVIOUS
<1>1. Init => SoloInv
  BY SoloInvariant
<1>2. TypeOK /\ SoloInv /\ [Next]_vars => SoloInv'
  BY SoloInvariant
<1>3. SoloInv => LinksAgreeWhileStreaming
  BY DEF SoloInv, LinksAgreeWhileStreaming
<1> QED BY <1>1, <1>2, <1>3, FormatTypes, PTL DEF Spec

\* And no subdevice changes its format while it has a frame.
THEOREM FormatsFrozen == ~Concurrent /\ Spec => FormatFrozen
<1> SUFFICES ASSUME ~Concurrent PROVE Spec => FormatFrozen
  OBVIOUS
<1>1. Init => SoloInv
  BY SoloInvariant
<1>2. TypeOK /\ SoloInv /\ [Next]_vars => SoloInv'
  BY SoloInvariant
<1>3. TypeOK /\ SoloInv /\ [Next]_vars =>
        [\A i \in Subdev : frame[i] # 0 /\ frame'[i] # 0 => fmt'[i] = fmt[i]]_vars
  <2> SUFFICES ASSUME TypeOK, SoloInv, Next
               PROVE  \A i \in Subdev : frame[i] # 0 => fmt'[i] = fmt[i]
    OBVIOUS
  <2> QED BY SettingSolo, StreamingSolo DEF Next
<1> QED BY <1>1, <1>2, <1>3, FormatTypes, PTL DEF Spec, FormatFrozen

-----------------------------------------------------------------------------
\* Passes of a running stream

\* No frame that the module's sizes allow is too large for unsigned int.
NoWrap ==
    \A c \in Codes : (MaxWidth * Mult) * (MaxHeight * Mult) * Bpp[c] < Word

\* What s_stream of a subdevice kept is still true of its format.
Started(i) ==
    /\ frame[i] = FrameSize(i)
    /\ i < N => saved[i] = fmt[i].code
    /\ Kinds[i] = "sca" => lineSize[i] = SrcLine(i)

PassInv ==
    /\ sizeimage = ImageSize(fmt[1])
    /\ phase = "starting" => \A i \in Subdev : i < at => Started(i)
    /\ phase \in {"pattern", "on"} => \A i \in Subdev : Started(i)
    /\ phase = "on" => tpg = ImageSize(fmt[N])

\* Formats of subdevices change while nothing streams, that of the capture
\* device together with its image size.
LEMMA SettingPasses ==
    ASSUME ~Concurrent, TypeOK, SoloInv, PassInv, Setting
    PROVE  PassInv'
<1>0. UNCHANGED <<phase, at, frame, saved, lineSize, tpg>>
  BY DEF Setting, SetTry, SetFmtBegins, SetFmtStores, CapSetFmt, stream
<1>1. CASE SetTry \/ SetFmtBegins
  <2>1. fmt' = fmt /\ sizeimage' = sizeimage
    BY <1>1 DEF SetTry, SetFmtBegins, ioctl
  <2> QED
    BY <1>0, <2>1 DEF PassInv, Started, FrameSize, SrcLine
<1>2. CASE SetFmtStores
  <2>1. /\ fmt' = [fmt EXCEPT ![setter.pos] = setter.format]
        /\ setter # Idle /\ sizeimage' = sizeimage
    BY <1>2 DEF SetFmtStores, ioctl
  <2>2. setter.pos \in Subdev /\ frame[setter.pos] = 0
    BY <2>1 DEF TypeOK, SoloInv
  <2>3. phase = "off"
    BY <2>1, <2>2 DEF SoloInv
  <2>4. fmt'[1] = fmt[1]
    BY <2>1, <2>2, Positions DEF TypeOK, Subdev
  <2> QED
    BY <1>0, <2>1, <2>3, <2>4 DEF PassInv
<1>3. CASE CapSetFmt
  <2>1. bufSize = 0 /\ sizeimage' = ImageSize(fmt'[1])
    BY <1>3 DEF CapSetFmt
  <2>2. phase = "off"
    BY <2>1 DEF SoloInv
  <2> QED
    BY <1>0, <2>1, <2>2 DEF PassInv
<1> QED
  BY <1>1, <1>2, <1>3 DEF Setting

LEMMA StreamingPasses ==
    ASSUME ~Concurrent, TypeOK, SoloInv, PassInv, Buffers \/ Streaming
    PROVE  PassInv'
<1>0. /\ fmt' = fmt /\ sizeimage' = sizeimage
      /\ \A i \in Subdev : FrameSize(i)' = FrameSize(i) /\ SrcLine(i)' = SrcLine(i)
      /\ ImageSize(fmt[1])' = ImageSize(fmt[1])
      /\ ImageSize(fmt[N])' = ImageSize(fmt[N])
  BY DEF Buffers, ReqBufs, FreeBufs, CreateBufs, Streaming, StreamOn, StartSubdev,
         StartSensor, SetPattern, StartFails, StreamOff, Terminate, ioctl,
         FrameSize, SrcLine
<1>1. N \in Nat /\ N >= 2
  BY Positions
<1>2. CASE Buffers
  BY <1>0, <1>2 DEF Buffers, ReqBufs, FreeBufs, CreateBufs, PassInv, Started, stream
<1>3. CASE StreamOn
  BY <1>0, <1>1, <1>3 DEF StreamOn, PassInv, Subdev
<1>4. CASE StartSubdev
  <2>1. PICK k \in Subdev : k = at
    BY <1>1, <1>4 DEF StartSubdev, SoloInv, Subdev, TypeOK
  <2>2. k < N /\ at' = k + 1 /\ phase = "starting" /\ phase' = "starting"
    BY <1>4, <2>1 DEF StartSubdev
  <2>3. /\ frame' = [frame EXCEPT ![k] = FrameSize(k)]
        /\ saved' = [saved EXCEPT ![k] = fmt[k].code]
        /\ lineSize' = [lineSize EXCEPT ![k] =
                          IF Kinds[k] = "sca" THEN SrcLine(k) ELSE @]
    BY <1>4, <2>1 DEF StartSubdev
  <2>4. Started(k)'
    <3>1. frame'[k] = FrameSize(k) /\ saved'[k] = fmt[k].code
      BY <2>1, <2>3 DEF TypeOK
    <3>2. Kinds[k] = "sca" => lineSize'[k] = SrcLine(k)
      BY <2>1, <2>3 DEF TypeOK
    <3> QED
      BY <1>0, <2>1, <3>1, <3>2 DEF Started
  <2>5. ASSUME NEW i \in Subdev, i < k PROVE Started(i)'
    <3>1. frame'[i] = frame[i] /\ saved'[i] = saved[i] /\ lineSize'[i] = lineSize[i]
      BY <1>1, <2>1, <2>3, <2>5 DEF TypeOK, Subdev
    <3>2. Started(i)
      BY <2>1, <2>2, <2>5 DEF PassInv
    <3> QED
      BY <1>0, <3>1, <3>2 DEF Started
  <2>6. ASSUME NEW i \in Subdev, i < at' PROVE Started(i)'
    <3>1. i < k \/ i = k
      BY <1>1, <2>1, <2>2, <2>6 DEF Subdev
    <3> QED BY <2>4, <2>5, <3>1
  <2> QED
    BY <1>0, <2>2, <2>6 DEF PassInv
<1>5. CASE StartSensor
  <2>1. /\ N \in Subdev /\ phase = "starting" /\ at = N /\ phase' = "pattern"
        /\ frame' = [frame EXCEPT ![N] = FrameSize(N)]
        /\ UNCHANGED <<saved, lineSize>> /\ Kinds[N] # "sca"
    BY <1>1, <1>5, FormatAssumption DEF StartSensor, Subdev
  <2>2. ASSUME NEW i \in Subdev PROVE Started(i)'
    <3>1. CASE i = N
      BY <1>0, <2>1, <3>1 DEF Started, TypeOK
    <3>2. CASE i # N
      <4>1. i < at
        BY <1>1, <2>1, <3>2 DEF Subdev
      <4>2. Started(i)
        BY <2>1, <4>1 DEF PassInv
      <4> QED
        BY <1>0, <2>1, <3>2, <4>2 DEF Started, TypeOK
    <3> QED
      BY <3>1, <3>2
  <2> QED
    BY <1>0, <2>1, <2>2 DEF PassInv
<1>6. CASE SetPattern
  BY <1>0, <1>6 DEF SetPattern, PassInv, Started
<1>7. CASE StartFails \/ StreamOff
  BY <1>0, <1>7 DEF StartFails, StreamOff, PassInv
<1>8. CASE Terminate
  BY <1>0, <1>8 DEF Terminate, PassInv
<1> QED
  BY <1>2, <1>3, <1>4, <1>5, <1>6, <1>7, <1>8 DEF Streaming

LEMMA PassInvariant ==
    /\ Init => PassInv
    /\ ~Concurrent /\ TypeOK /\ SoloInv /\ PassInv /\ [Next]_vars => PassInv'
<1>1. Init => PassInv
  BY Positions DEF Init, PassInv
<1>2. ASSUME ~Concurrent, TypeOK, SoloInv, PassInv, [Next]_vars
      PROVE  PassInv'
  <2>1. CASE UNCHANGED vars
    BY <1>2, <2>1
    DEF vars, ioctl, stream, PassInv, Started, FrameSize, SrcLine
  <2> QED BY <1>2, <2>1, SettingPasses, StreamingPasses DEF Next
<1> QED BY <1>1, <1>2

LEMMA Smaller ==
    ASSUME NEW a \in Nat, NEW b \in Nat, NEW c \in Nat, NEW d \in Nat,
           a <= c, b <= d
    PROVE  a * b <= c * d
<1>1. PICK x \in Nat : c = a + x
  BY c - a \in Nat /\ c = a + (c - a)
<1>2. PICK y \in Nat : d = b + y
  BY d - b \in Nat /\ d = b + (d - b)
<1>3. c * d = a * b + a * y + x * b + x * y
  BY <1>1, <1>2
<1>4. a * y \in Nat /\ x * b \in Nat /\ x * y \in Nat /\ a * b \in Nat
  BY <1>1, <1>2
<1> QED BY <1>3, <1>4

\* No size that a settled format leads to wraps.
LEMMA SettledFits ==
    ASSUME NoWrap, NEW f \in Settled, NEW c \in Codes
    PROVE  /\ f.width \in Nat \ {0} /\ f.height \in Nat \ {0} /\ Bpp[c] \in Nat \ {0}
           /\ f.width * Mult < Word /\ f.height * Mult < Word
           /\ f.width * Mult * Bpp[c] < Word
           /\ f.width * f.height * Bpp[c] < Word
           /\ (f.width * Mult) * (f.height * Mult) * Bpp[c] < Word
<1>1. PICK w \in Nat \ {0}, h \in Nat \ {0} : f.width = w /\ f.height = h
  BY FormatAssumption, Bounds DEF Settled, Formats
<1>2. w <= MaxWidth /\ h <= MaxHeight
  BY <1>1, Bounds DEF Settled, Formats
<1>3. PICK b \in Nat \ {0} : b = Bpp[c]
  BY FormatAssumption
<1>4. Mult \in Nat \ {0} /\ Word \in Nat
  BY FormatAssumption
<1>5. PICK W \in Nat \ {0}, H \in Nat \ {0} : W = w * Mult /\ H = h * Mult
  BY <1>4
<1>6. PICK V \in Nat, G \in Nat : V = MaxWidth * Mult /\ G = MaxHeight * Mult
  BY <1>4, Bounds
<1>7. W <= V /\ H <= G
  BY <1>2, <1>4, <1>5, <1>6, Smaller, Bounds
<1>8. PICK A \in Nat \ {0}, B \in Nat : A = W * H /\ B = V * G
  BY <1>5, <1>6
<1>9. A <= B
  BY <1>5, <1>6, <1>7, <1>8, Smaller
<1>10. A * b <= B * b
  BY <1>3, <1>8, <1>9, Smaller
<1>11. B * b < Word
  BY <1>3, <1>6, <1>8 DEF NoWrap
<1>12. A * b < Word /\ A * b \in Nat /\ B * b \in Nat
  BY <1>3, <1>4, <1>8, <1>10, <1>11
<1>13. W <= A /\ H <= A
  <2>1. W * 1 <= W * H /\ 1 * H <= W * H
    BY <1>5, Smaller
  <2> QED BY <1>5, <1>8, <2>1
<1>14. A * 1 <= A * b /\ W * b <= A * b
  BY <1>3, <1>5, <1>8, <1>13, Smaller
<1>15. w * h * b <= A * b
  <2>1. w * 1 <= w * Mult /\ h * 1 <= h * Mult
    BY <1>4, Smaller
  <2>2. w <= W /\ h <= H
    BY <1>5, <2>1
  <2>3. PICK a \in Nat : a = w * h
    OBVIOUS
  <2>4. a <= A
    BY <1>5, <1>8, <2>2, <2>3, Smaller
  <2> QED BY <1>3, <1>8, <2>3, <2>4, Smaller
<1>16. W < Word /\ H < Word /\ W * b < Word
  BY <1>3, <1>4, <1>5, <1>8, <1>12, <1>13, <1>14
<1>17. w * h * b < Word
  BY <1>3, <1>4, <1>12, <1>15
<1> QED BY <1>1, <1>3, <1>5, <1>8, <1>12, <1>16, <1>17

\* What s_stream computes, and what a frame of the format needs.
LEMMA SizesOf ==
    ASSUME NoWrap, TypeOK, NEW i \in 1..N,
           NEW w, w = fmt[i].width, NEW h, h = fmt[i].height,
           NEW b, b = Bpp[fmt[i].code]
    PROVE  /\ w \in Nat \ {0} /\ h \in Nat \ {0} /\ b \in Nat \ {0}
           /\ ImageSize(fmt[i]) = w * h * b
           /\ SrcLine(i) = w * Mult * b
           /\ Kinds[i] = "sca" => FrameSize(i) = (w * Mult) * (h * Mult) * b
           /\ Kinds[i] = "deb" => FrameSize(i) = w * h * 3
           /\ Kinds[i] = "sen" => FrameSize(i) = w * h * b
<1>1. fmt[i] \in Settled /\ fmt[i].code \in Codes /\ RGBCode \in Codes
  BY FormatAssumption DEF TypeOK, Settled, Formats
<1>2. /\ w \in Nat \ {0} /\ h \in Nat \ {0} /\ b \in Nat \ {0}
      /\ w * Mult * b < Word /\ w * h * b < Word
      /\ (w * Mult) * (h * Mult) * b < Word
  BY <1>1, SettledFits
<1>3. w * h * Bpp[RGBCode] < Word /\ Bpp[RGBCode] = 3
  BY <1>1, SettledFits, TableAssumption
<1>4. Mult \in Nat \ {0} /\ Word \in Nat
  BY FormatAssumption
<1>5. ImageSize(fmt[i]) = w * h * b
  <2>1. PICK n \in Nat : n = w * b * h
    BY <1>2
  <2>2. n = w * h * b /\ n < Word
    BY <1>2, <2>1
  <2> QED BY <1>4, <2>1, <2>2, Counted DEF ImageSize
<1>6. SrcLine(i) = w * Mult * b
  <2>1. PICK n \in Nat : n = w * Mult * b
    BY <1>2, <1>4
  <2> QED BY <1>2, <1>4, <2>1, Counted DEF SrcLine
<1>7. ASSUME Kinds[i] = "sca" PROVE FrameSize(i) = (w * Mult) * (h * Mult) * b
  <2>1. PICK n \in Nat : n = (w * Mult * b) * h * Mult
    BY <1>2, <1>4
  <2>2. n = (w * Mult) * (h * Mult) * b /\ n < Word
    BY <1>2, <1>4, <2>1
  <2>3. FrameSize(i) = U32((w * Mult * b) * h * Mult)
    BY <1>6, <1>7 DEF FrameSize
  <2> QED BY <1>4, <2>1, <2>2, <2>3, Counted
<1>8. ASSUME Kinds[i] = "deb" PROVE FrameSize(i) = w * h * 3
  <2>1. PICK n \in Nat : n = w * h * 3
    BY <1>2
  <2> QED BY <1>3, <1>4, <1>8, <2>1, Counted DEF FrameSize
<1>9. ASSUME Kinds[i] = "sen" PROVE FrameSize(i) = w * h * b
  BY <1>5, <1>9 DEF FrameSize
<1> QED BY <1>2, <1>5, <1>6, <1>7, <1>8, <1>9

\* The frame upstream of an entity has the size of its format.
LEMMA Upstream ==
    ASSUME NoWrap, TypeOK, LinksValid, NEW i \in 1..N - 1, Started(i + 1)
    PROVE  frame[i + 1] = fmt[i].width * fmt[i].height * Bpp[fmt[i].code]
<1>1. PICK k \in Subdev : k = i + 1
  BY Positions DEF Subdev
<1>2. k \in 1..N /\ i \in 1..N /\ Kinds[k] \in {"sca", "deb", "sen"}
  BY <1>1, Positions, FormatAssumption DEF Subdev
<1>3. PICK w, h, b : w = fmt[k].width /\ h = fmt[k].height /\ b = Bpp[fmt[k].code]
  OBVIOUS
<1>4. /\ w \in Nat \ {0} /\ h \in Nat \ {0} /\ b \in Nat \ {0}
      /\ Kinds[k] = "sca" => FrameSize(k) = (w * Mult) * (h * Mult) * b
      /\ Kinds[k] = "deb" => FrameSize(k) = w * h * 3
      /\ Kinds[k] = "sen" => FrameSize(k) = w * h * b
  BY <1>2, <1>3, SizesOf
<1>5. frame[k] = FrameSize(k)
  BY <1>1 DEF Started
<1>6. /\ ActiveSource(k).width = fmt[i].width
      /\ ActiveSource(k).height = fmt[i].height
      /\ ActiveSource(k).code = fmt[i].code
  BY <1>1 DEF LinksValid, Compatible
<1>7. fmt[k] \in Settled
  BY <1>2 DEF TypeOK
<1>8. CASE Kinds[k] = "sca"
  <2>1. fmt[k].code \in Codes
    BY <1>7 DEF Settled, Formats
  <2>2. w * Mult < Word /\ h * Mult < Word
    BY <1>3, <1>7, <2>1, SettledFits
  <2>3. U32(w * Mult) = w * Mult /\ U32(h * Mult) = h * Mult
    <3>1. Mult \in Nat /\ Word \in Nat
      BY FormatAssumption
    <3>2. PICK x \in Nat, y \in Nat : x = w * Mult /\ y = h * Mult
      BY <1>4, <3>1
    <3> QED BY <2>2, <3>1, <3>2, Counted
  <2>4. ActiveSource(k) =
          [fmt[k] EXCEPT !.width = U32(@ * Mult), !.height = U32(@ * Mult)]
    BY <1>8 DEF ActiveSource, Propagated
  <2>5. /\ ActiveSource(k).width = U32(w * Mult)
        /\ ActiveSource(k).height = U32(h * Mult)
        /\ ActiveSource(k).code = fmt[k].code
    BY <1>3, <1>7, <2>4 DEF Settled, Formats
  <2> QED BY <1>1, <1>3, <1>4, <1>5, <1>6, <1>8, <2>3, <2>5
<1>9. CASE Kinds[k] = "deb"
  <2>1. ActiveSource(k) = [fmt[k] EXCEPT !.code = RGBCode]
    BY <1>9 DEF ActiveSource, Propagated
  <2>2. /\ ActiveSource(k).width = w /\ ActiveSource(k).height = h
        /\ ActiveSource(k).code = RGBCode
    BY <1>3, <1>7, <2>1 DEF Settled, Formats
  <2> QED BY <1>1, <1>4, <1>5, <1>6, <1>9, <2>2, TableAssumption
<1>10. CASE Kinds[k] = "sen"
  <2>1. ActiveSource(k) = fmt[k]
    BY <1>10 DEF ActiveSource, Propagated
  <2> QED BY <1>1, <1>3, <1>4, <1>5, <1>6, <1>10, <2>1
<1> QED BY <1>2, <1>8, <1>9, <1>10

\* The window around a pixel is in the frame.
LEMMA WindowInside ==
    ASSUME NEW width, NEW height, NEW p \in Pixels(width, height),
           NEW q \in MeanWindow(p, width, height, MeanWin)
    PROVE  q \in Pixels(width, height)
BY DEF MeanWindow, Window, Pixels

\* What a debayer reads and writes, for any size of frame that does not wrap.
LEMMA DebayerBytes ==
    ASSUME TypeOK, NEW i \in Subdev, Kinds[i] = "deb",
           Word \in Nat,
           NEW w \in Nat, w = fmt[i].width, NEW h \in Nat, h = fmt[i].height,
           NEW b \in Nat, b = Bpp[saved[i]],
           w * h * b <= Word, w * h * 3 <= Word
    PROVE  /\ BytesRead(i) \subseteq 0..w * h * b - 1
           /\ BytesWritten(i) \subseteq 0..w * h * 3 - 1
<1>1. ASSUME NEW q \in Pixels(w, h), NEW k \in 0..b - 1
      PROVE  Index(q[1], q[2], w, b) + k \in 0..w * h * b - 1
  <2>1. q[1] \in 0..h - 1 /\ q[2] \in 0..w - 1
    BY DEF Pixels
  <2> QED BY <2>1, IndexWithinFrame
<1>2. ASSUME NEW q \in Pixels(w, h), NEW k \in 0..2
      PROVE  Index(q[1], q[2], w, 3) + k \in 0..w * h * 3 - 1
  <2>1. q[1] \in 0..h - 1 /\ q[2] \in 0..w - 1 /\ k \in 0..3 - 1
    BY DEF Pixels
  <2> QED BY <2>1, IndexWithinFrame
<1>3. ASSUME NEW n \in BytesRead(i) PROVE n \in 0..w * h * b - 1
  <2>1. PICK q \in UNION {MeanWindow(p, w, h, MeanWin) : p \in Pixels(w, h)},
             k \in 0..b - 1 : n = Index(q[1], q[2], w, b) + k
    BY <1>3 DEF BytesRead
  <2>2. q \in Pixels(w, h)
    BY <2>1, WindowInside
  <2> QED BY <1>1, <2>1, <2>2
<1>4. ASSUME NEW n \in BytesWritten(i) PROVE n \in 0..w * h * 3 - 1
  <2>1. PICK p \in Pixels(w, h), k \in 0..2 : n = Index(p[1], p[2], w, 3) + k
    BY <1>4 DEF BytesWritten
  <2> QED BY <1>2, <2>1
<1> QED BY <1>3, <1>4

\* The sizes of the frames a scaler reads and writes, by what it kept.
SinkSize(i) == fmt[i].width * fmt[i].height * Bpp[saved[i]]
ScaledSize(i) == (fmt[i].width * Mult) * (fmt[i].height * Mult) * Bpp[saved[i]]

\* What a scaler reads and writes, and that it is what the nearest pixels ask for.
LEMMA ScalerBytes ==
    ASSUME TypeOK, NEW i \in Subdev, Kinds[i] = "sca",
           Word \in Nat, Mult \in Nat,
           fmt[i].width \in Nat, fmt[i].height \in Nat, Bpp[saved[i]] \in Nat,
           lineSize[i] = fmt[i].width * Mult * Bpp[saved[i]],
           SinkSize(i) <= Word, ScaledSize(i) <= Word
    PROVE  /\ BytesRead(i) \subseteq 0..SinkSize(i) - 1
           /\ BytesWritten(i) \subseteq 0..ScaledSize(i) - 1
           /\ ScaledBytes(i) =
                  NearestCopies(ScaledSize(i), fmt[i].width, Bpp[saved[i]], Mult)
<1>1. PICK w \in Nat, h \in Nat, b \in Nat :
          w = fmt[i].width /\ h = fmt[i].height /\ b = Bpp[saved[i]]
  OBVIOUS
<1>2. SinkSize(i) = w * h * b /\ ScaledSize(i) = (w * Mult) * (h * Mult) * b
  BY <1>1 DEF SinkSize, ScaledSize
<1>3. w * h * b <= Word /\ (w * Mult) * (h * Mult) * b <= Word
  BY <1>2
<1>4. ScaledBytes(i) = Copies(w, h, b, Mult, w * Mult * b)
  BY <1>1 DEF ScaledBytes
<1>5. ASSUME NEW copy \in Copies(w, h, b, Mult, w * Mult * b)
      PROVE  /\ copy.from \in 0..w * h * b - 1
             /\ copy.to \in 0..(w * Mult) * (h * Mult) * b - 1
  BY <1>3, CopiesWithinFrames
<1>6. BytesRead(i) = {copy.from : copy \in ScaledBytes(i)}
  BY DEF BytesRead
<1>7. BytesWritten(i) = {copy.to : copy \in ScaledBytes(i)}
  BY DEF BytesWritten
<1>8. Copies(w, h, b, Mult, w * Mult * b) =
        NearestCopies((w * Mult) * (h * Mult) * b, w, b, Mult)
  <2>1. PICK line, size : line = w * Mult * b /\ size = (w * Mult) * (h * Mult) * b
    OBVIOUS
  <2>2. Copies(w, h, b, Mult, line) = NearestCopies(size, w, b, Mult)
    BY ONLY Word \in Nat, Mult \in Nat, w \in Nat, h \in Nat, b \in Nat,
            <1>3, <2>1, ScalerCopiesNearest
  <2> QED BY <2>1, <2>2
<1>9. BytesRead(i) \subseteq 0..SinkSize(i) - 1
  BY <1>2, <1>4, <1>5, <1>6
<1>10. BytesWritten(i) \subseteq 0..ScaledSize(i) - 1
  BY <1>2, <1>4, <1>5, <1>7
<1>11. ScaledBytes(i) = NearestCopies(ScaledSize(i), fmt[i].width, Bpp[saved[i]], Mult)
  BY <1>1, <1>2, <1>4, <1>8
<1> QED BY <1>9, <1>10, <1>11

\* A running stream: what each kind of entity reads and writes is there.
LEMMA PassFits ==
    ASSUME NoWrap, TypeOK, SoloInv, PassInv, phase = "on"
    PROVE  PassesWithinFrames /\ ScalerFillsFrame
<1>1. LinksValid /\ \A i \in Subdev : Started(i)
  BY DEF SoloInv, PassInv
<1>2. N \in Nat /\ N >= 2 /\ Word \in Nat /\ Mult \in Nat
  BY Positions, FormatAssumption
<1>3. /\ \A i \in 1..N : Kinds[i] = "cap" <=> i = 1
      /\ \A i \in 1..N : Kinds[i] = "sen" <=> i = N
  BY FormatAssumption
<1>4. ASSUME NEW i \in Subdev, i < N
      PROVE  /\ BytesRead(i) \subseteq 0..frame[i + 1] - 1
             /\ BytesWritten(i) \subseteq 0..frame[i] - 1
             /\ Kinds[i] = "sca" => ScaledBytes(i) =
                    NearestCopies(frame[i], fmt[i].width, Bpp[saved[i]], Mult)
  <2>1. i \in 1..N /\ i \in 1..N - 1 /\ i + 1 \in Subdev
    BY <1>2, <1>4 DEF Subdev
  <2>2. Kinds[i] \in {"sca", "deb"}
    BY <1>2, <1>3, <1>4, <2>1, Positions DEF Subdev
  <2>3. PICK w, h, b : w = fmt[i].width /\ h = fmt[i].height /\ b = Bpp[fmt[i].code]
    OBVIOUS
  <2>4. /\ w \in Nat /\ h \in Nat /\ b \in Nat
        /\ SrcLine(i) = w * Mult * b
        /\ Kinds[i] = "sca" => FrameSize(i) = (w * Mult) * (h * Mult) * b
        /\ Kinds[i] = "deb" => FrameSize(i) = w * h * 3
    BY <2>1, <2>3, SizesOf
  <2>5. fmt[i] \in Settled /\ fmt[i].code \in Codes /\ RGBCode \in Codes
    BY <2>1, FormatAssumption DEF TypeOK, Settled, Formats
  <2>6. w * h * b < Word /\ (w * Mult) * (h * Mult) * b < Word
    BY <2>3, <2>5, SettledFits
  <2>7. w * h * 3 < Word
    BY <2>3, <2>5, SettledFits, TableAssumption
  <2>8. /\ b = Bpp[saved[i]] /\ frame[i] = FrameSize(i)
        /\ Kinds[i] = "sca" => lineSize[i] = SrcLine(i)
    BY <1>1, <1>4, <2>3 DEF Started
  <2>9. frame[i + 1] = w * h * b
    BY <1>1, <2>1, <2>3, Upstream
  <2>10. PICK r \in Nat, z \in Nat, d \in Nat :
            r = w * h * b /\ z = (w * Mult) * (h * Mult) * b /\ d = w * h * 3
    BY <1>2, <2>4
  <2>11. r <= Word /\ z <= Word /\ d <= Word
    BY <1>2, <2>6, <2>7, <2>10
  <2>12. CASE Kinds[i] = "sca"
    <3>1. lineSize[i] = w * Mult * b
      BY <2>4, <2>8, <2>12
    <3>2. SinkSize(i) = r /\ ScaledSize(i) = z
      BY <2>3, <2>8, <2>10 DEF SinkSize, ScaledSize
    <3>3. fmt[i].width \in Nat /\ fmt[i].height \in Nat /\ Bpp[saved[i]] \in Nat
      BY <2>3, <2>4, <2>8
    <3>4. lineSize[i] = fmt[i].width * Mult * Bpp[saved[i]]
      BY <2>3, <2>8, <3>1
    <3>5. SinkSize(i) <= Word /\ ScaledSize(i) <= Word
      BY <2>11, <3>2
    <3>6. /\ BytesRead(i) \subseteq 0..SinkSize(i) - 1
          /\ BytesWritten(i) \subseteq 0..ScaledSize(i) - 1
          /\ ScaledBytes(i) =
                 NearestCopies(ScaledSize(i), fmt[i].width, Bpp[saved[i]], Mult)
      BY <1>2, <2>12, <3>3, <3>4, <3>5, ScalerBytes
    <3>7. frame[i] = z
      BY <2>4, <2>8, <2>10, <2>12
    <3>8. frame[i] = ScaledSize(i) /\ frame[i + 1] = SinkSize(i)
      BY <2>9, <2>10, <3>2, <3>7
    <3> QED BY <3>6, <3>8
  <2>13. CASE Kinds[i] = "deb"
    <3>1. /\ BytesRead(i) \subseteq 0..w * h * b - 1
          /\ BytesWritten(i) \subseteq 0..w * h * 3 - 1
      BY <1>2, <2>3, <2>4, <2>8, <2>10, <2>11, <2>13, DebayerBytes
    <3>2. frame[i] = w * h * 3
      BY <2>4, <2>8, <2>13
    <3> QED BY <2>9, <2>13, <3>1, <3>2
  <2> QED BY <2>2, <2>12, <2>13
<1>5. BytesRead(1) \subseteq 0..frame[2] - 1
  <2>1. Kinds[1] = "cap" /\ 1 \in 1..N /\ 1 \in 1..N - 1 /\ 1 + 1 \in Subdev
    BY <1>2, Positions DEF Subdev
  <2>2. frame[1 + 1] = fmt[1].width * fmt[1].height * Bpp[fmt[1].code]
    BY <1>1, <2>1, Upstream
  <2>3. ImageSize(fmt[1]) = fmt[1].width * fmt[1].height * Bpp[fmt[1].code]
    BY <2>1, SizesOf
  <2>4. sizeimage = frame[2]
    BY <2>2, <2>3 DEF PassInv
  <2> QED BY <2>1, <2>4 DEF BytesRead
<1>6. BytesWritten(N) \subseteq 0..frame[N] - 1
  <2>1. Kinds[N] = "sen" /\ N \in 1..N /\ N \in Subdev
    BY <1>2, <1>3 DEF Subdev
  <2>2. tpg = ImageSize(fmt[N]) /\ frame[N] = FrameSize(N)
    BY <1>1, <2>1 DEF PassInv, Started
  <2>3. tpg = frame[N]
    BY <2>1, <2>2 DEF FrameSize
  <2> QED BY <2>1, <2>3 DEF BytesWritten
<1>7. PassesWithinFrames
  <2>1. ASSUME NEW i \in 1..N - 1 PROVE BytesRead(i) \subseteq 0..frame[i + 1] - 1
    <3>1. i = 1 \/ (i \in Subdev /\ i < N)
      BY <1>2 DEF Subdev
    <3> QED BY <1>4, <1>5, <3>1
  <2>2. ASSUME NEW i \in Subdev PROVE BytesWritten(i) \subseteq 0..frame[i] - 1
    <3>1. i = N \/ i < N
      BY <1>2 DEF Subdev
    <3> QED BY <1>4, <1>6, <3>1
  <2> QED BY <2>1, <2>2 DEF PassesWithinFrames
<1>8. ScalerFillsFrame
  <2>1. ASSUME NEW i \in Subdev, Kinds[i] = "sca" PROVE i < N
    BY <1>2, <1>3, <2>1 DEF Subdev
  <2> QED BY <1>4, <2>1 DEF ScalerFillsFrame
<1> QED BY <1>7, <1>8

\* As long as nobody else sets formats and no size wraps, every pass stays
\* within the frames that were allocated when the stream started.
THEOREM FramesHoldPasses ==
    ~Concurrent /\ NoWrap /\ Spec => []PassesWithinFrames
<1> SUFFICES ASSUME ~Concurrent, NoWrap PROVE Spec => []PassesWithinFrames
  OBVIOUS
<1>1. Init => SoloInv /\ PassInv
  BY SoloInvariant, PassInvariant
<1>2. TypeOK /\ SoloInv /\ PassInv /\ [Next]_vars => SoloInv' /\ PassInv'
  BY SoloInvariant, PassInvariant
<1>3. TypeOK /\ SoloInv /\ PassInv => PassesWithinFrames
  BY PassFits DEF PassesWithinFrames
<1> QED BY <1>1, <1>2, <1>3, FormatTypes, PTL DEF Spec

\* And a scaler fills its frame with the nearest pixels of the frame upstream.
THEOREM ScalersFillFrames ==
    ~Concurrent /\ NoWrap /\ Spec => []ScalerFillsFrame
<1> SUFFICES ASSUME ~Concurrent, NoWrap PROVE Spec => []ScalerFillsFrame
  OBVIOUS
<1>1. Init => SoloInv /\ PassInv
  BY SoloInvariant, PassInvariant
<1>2. TypeOK /\ SoloInv /\ PassInv /\ [Next]_vars => SoloInv' /\ PassInv'
  BY SoloInvariant, PassInvariant
<1>3. TypeOK /\ SoloInv /\ PassInv => ScalerFillsFrame
  BY PassFits DEF ScalerFillsFrame
<1> QED BY <1>1, <1>2, <1>3, FormatTypes, PTL DEF Spec

-----------------------------------------------------------------------------
\* Enumeration

\* The codes a sink pad accepts are before the first index it refuses.
LEMMA SinkCodesListed ==
    ASSUME NEW kind \in {"cap", "sca", "deb", "sen"}, NEW c \in Accepted(kind)
    PROVE  c \in Listed(kind, "sink")
<1>0. PixMap \in Seq(Codes) /\ DebMap \in Seq(Codes)
  BY TableAssumption
<1>1. Len(PixMap) \in Nat /\ Len(DebMap) \in Nat /\ DOMAIN DebMap = 1..Len(DebMap)
  BY <1>0
<1>2. CASE kind = "deb"
  <2>1. PICK k \in 1..Len(DebMap) : DebMap[k] = c
    BY <1>1, <1>2 DEF Accepted, DebCodes
  <2>2. \A j \in 1..k : Supports(kind, "sink", j)
    BY <1>1, <1>2, <2>1 DEF Supports
  <2>3. EnumCode(kind, "sink", k) = c
    BY <1>2, <2>1 DEF EnumCode
  <2>4. k \in 1..Len(PixMap) + Len(DebMap)
    BY <1>1, <2>1
  <2> QED BY <2>2, <2>3, <2>4 DEF Listed
<1>3. CASE kind # "deb"
  <2>1. c \in Codes /\ (kind = "sca" => c \notin Bayer)
    BY <1>3 DEF Accepted
  <2>2. PICK k \in 1..Len(PixMap) : PixMap[k] = c
    BY <2>1, TableAssumption
  <2>3. ASSUME NEW j \in 1..k PROVE Supports(kind, "sink", j)
    <3>1. j \in 1..Len(PixMap)
      BY <1>1, <2>2
    <3>2. kind = "sca" => PixMap[j] \notin Bayer
      <4>1. j = k \/ j < k
        BY <1>1
      <4>2. j < k /\ PixMap[j] \in Bayer => PixMap[k] \in Bayer
        BY <3>1, TableAssumption
      <4> QED BY <2>1, <2>2, <4>1, <4>2
    <3> QED BY <1>1, <1>3, <3>1, <3>2 DEF Supports
  <2>4. EnumCode(kind, "sink", k) = c
    BY <1>3, <2>2 DEF EnumCode
  <2>5. k \in 1..Len(PixMap) + Len(DebMap)
    BY <1>1, <2>2
  <2> QED BY <2>3, <2>4, <2>5 DEF Listed
<1> QED BY <1>2, <1>3

\* So is the code of its source pad.
LEMMA SourceCodesListed ==
    /\ RGBCode \in Listed("deb", "source")
    /\ \A kind \in {"sca", "sen"} : Listed(kind, "source") = Listed(kind, "sink")
<1>1. RGBCode \in Listed("deb", "source")
  <2>1. PICK k \in 1..Len(PixMap) : PixMap[k] = RGBCode
    BY FormatAssumption, TableAssumption
  <2>2. PixMap \in Seq(Codes) /\ DebMap \in Seq(Codes)
    BY TableAssumption
  <2>3. 1 \in 1..Len(PixMap) + Len(DebMap)
    BY <2>1, <2>2
  <2>4. \A j \in 1..1 : Supports("deb", "source", j)
    BY DEF Supports
  <2>5. EnumCode("deb", "source", 1) = RGBCode
    BY DEF EnumCode
  <2> QED BY <2>3, <2>4, <2>5 DEF Listed
<1>2. ASSUME NEW kind \in {"sca", "sen"}
      PROVE  Listed(kind, "source") = Listed(kind, "sink")
  <2>1. \A j : Supports(kind, "source", j) = Supports(kind, "sink", j)
    BY DEF Supports
  <2>2. \A k : EnumCode(kind, "source", k) = EnumCode(kind, "sink", k)
    BY DEF EnumCode
  <2> QED BY <2>1, <2>2 DEF Listed
<1> QED BY <1>1, <1>2

\* A settled format that setting again would not change is enumerated.
LEMMA SettledListed ==
    ASSUME NEW kind \in {"cap", "sca", "deb", "sen"}, NEW f \in Settled,
           Adjust(kind, f) = f
    PROVE  /\ f.code \in Listed(kind, "sink")
           /\ kind # "cap" => Enumerated(kind, "sink", f)
<1>1. f.code \in Accepted(kind)
  BY FormatAssumption DEF Adjust, Accepted, DefaultCode
<1>2. f.width \in MinSide..MaxWidth /\ f.height \in MinSide..MaxHeight
  BY DEF Settled, Formats
<1>3. Zoom(kind, "sink") = 1
  BY DEF Zoom
<1>4. MaxWidth * 1 = MaxWidth /\ MaxHeight * 1 = MaxHeight
  BY Bounds
<1>5. kind # "cap" => SizesAnswered(kind, "sink", f)
  BY <1>1 DEF SizesAnswered, AskedWith, SizedCodes
<1> QED BY <1>1, <1>2, <1>3, <1>4, <1>5, SinkCodesListed DEF Enumerated

\* What a source pad offers is enumerated there, scaled sizes included.
LEMMA SourceListed ==
    ASSUME NoWrap, Mult <= MaxZoom, NEW i \in Subdev, NEW f \in Settled,
           Adjust(Kinds[i], f) = f
    PROVE  Enumerated(Kinds[i], "source", Propagated(Kinds[i], f))
<1>1. i \in 1..N /\ Kinds[i] \in {"sca", "deb", "sen"}
  BY Positions, FormatAssumption DEF Subdev
<1>2. f.code \in Listed(Kinds[i], "sink")
  BY <1>1, SettledListed
<1>3. PICK w \in Nat, h \in Nat : w = f.width /\ h = f.height
  BY Bounds DEF Settled, Formats
<1>4. MinSide <= w /\ w <= MaxWidth /\ MinSide <= h /\ h <= MaxHeight
  BY <1>3, Bounds DEF Settled, Formats
<1>5. CASE Kinds[i] = "sca"
  <2>1. Mult \in Nat /\ Word \in Nat /\ 1 <= Mult /\ MaxZoom \in Nat
    BY FormatAssumption, TableAssumption
  <2>2. f.code \in Codes
    BY DEF Settled, Formats
  <2>3. w * Mult < Word /\ h * Mult < Word
    BY <1>3, <2>2, SettledFits
  <2>4. PICK x \in Nat, y \in Nat : x = w * Mult /\ y = h * Mult
    BY <2>1
  <2>5. U32(x) = x /\ U32(y) = y
    BY <2>1, <2>3, <2>4, Counted
  <2>6. PICK xx \in Nat, yy \in Nat : xx = MaxWidth * MaxZoom /\ yy = MaxHeight * MaxZoom
    BY <2>1, Bounds
  <2>7. x <= xx /\ y <= yy
    BY <1>4, <2>1, <2>4, <2>6, Smaller, Bounds
  <2>8. w * 1 <= w * Mult /\ h * 1 <= h * Mult
    BY <2>1, Smaller
  <2>9. MinSide <= x /\ MinSide <= y
    BY <1>4, <2>4, <2>8, Bounds
  <2>10. Propagated(Kinds[i], f) =
          [f EXCEPT !.width = U32(@ * Mult), !.height = U32(@ * Mult)]
    BY <1>5 DEF Propagated
  <2>11. /\ Propagated(Kinds[i], f).width = x
         /\ Propagated(Kinds[i], f).height = y
         /\ Propagated(Kinds[i], f).code = f.code
    BY <1>3, <2>4, <2>5, <2>10 DEF Settled, Formats
  <2>12. Zoom(Kinds[i], "source") = MaxZoom
    BY <1>5 DEF Zoom
  <2>13. x \in MinSide..xx /\ y \in MinSide..yy
    BY <2>7, <2>9, Bounds
  <2>14. f.code \in Listed(Kinds[i], "source")
    BY <1>2, <1>5, SourceCodesListed
  <2>15. SizesAnswered(Kinds[i], "source", Propagated(Kinds[i], f))
    <3>1. f.code \in Accepted(Kinds[i])
      BY <1>5, FormatAssumption DEF Adjust, Accepted, DefaultCode
    <3> QED BY <1>5, <2>11, <3>1 DEF SizesAnswered, AskedWith, SizedCodes
  <2> QED BY <2>6, <2>11, <2>12, <2>13, <2>14, <2>15 DEF Enumerated
<1>6. CASE Kinds[i] \in {"deb", "sen"}
  <2>1. /\ Propagated(Kinds[i], f).width = w /\ Propagated(Kinds[i], f).height = h
        /\ Propagated(Kinds[i], f).code \in Listed(Kinds[i], "source")
        /\ SizesAnswered(Kinds[i], "source", Propagated(Kinds[i], f))
    <3>1. CASE Kinds[i] = "deb"
      <4>1. Propagated(Kinds[i], f) = [f EXCEPT !.code = RGBCode]
        BY <3>1 DEF Propagated
      <4> QED BY <1>3, <3>1, <4>1, SourceCodesListed
              DEF Settled, Formats, SizesAnswered, AskedWith, SizedCodes
    <3>2. CASE Kinds[i] = "sen"
      <4>1. Propagated(Kinds[i], f) = f
        BY <3>2 DEF Propagated
      <4>2. f.code \in Codes
        BY DEF Settled, Formats
      <4> QED BY <1>2, <1>3, <3>2, <4>1, <4>2, SourceCodesListed
              DEF SizesAnswered, AskedWith, SizedCodes, Accepted
    <3> QED BY <1>6, <3>1, <3>2
  <2>2. Zoom(Kinds[i], "source") = 1
    BY <1>6 DEF Zoom
  <2>3. MaxWidth * 1 = MaxWidth /\ MaxHeight * 1 = MaxHeight
    BY Bounds
  <2>4. w \in MinSide..MaxWidth /\ h \in MinSide..MaxHeight
    BY <1>4, Bounds
  <2> QED BY <2>1, <2>2, <2>3, <2>4 DEF Enumerated
<1> QED BY <1>1, <1>5, <1>6

\* Programs that enumerate find what the subdevices store, provided that
\* sca_mult is not above MAX_ZOOM and that no size wraps, and the pixel format
\* of the capture device, but none of its sizes.
THEOREM StoredFormatsListed ==
    Mult <= MaxZoom /\ NoWrap /\ Spec => []StoredIsEnumerated
<1> SUFFICES ASSUME Mult <= MaxZoom, NoWrap PROVE Spec => []StoredIsEnumerated
  OBVIOUS
<1>1. TypeOK /\ StoredFormatsSettled => StoredIsEnumerated
  <2> SUFFICES ASSUME TypeOK, StoredFormatsSettled PROVE StoredIsEnumerated
    OBVIOUS
  <2>1. ASSUME NEW i \in Subdev PROVE Enumerated(Kinds[i], "sink", fmt[i])
    <3>1. i \in 1..N /\ Kinds[i] \in {"sca", "deb", "sen"}
      BY Positions, FormatAssumption DEF Subdev
    <3>2. fmt[i] \in Settled /\ Adjust(Kinds[i], fmt[i]) = fmt[i]
      BY <3>1 DEF TypeOK, StoredFormatsSettled
    <3> QED BY <3>1, <3>2, SettledListed
  <2>2. ASSUME NEW i \in Subdev PROVE Enumerated(Kinds[i], "source", ActiveSource(i))
    <3>1. i \in 1..N
      BY Positions DEF Subdev
    <3>2. fmt[i] \in Settled /\ Adjust(Kinds[i], fmt[i]) = fmt[i]
      BY <3>1 DEF TypeOK, StoredFormatsSettled
    <3> QED BY <3>2, SourceListed DEF ActiveSource
  <2>3. ASSUME NEW i \in Opened PROVE Enumerated(Kinds[i], "sink", tryFmt[i])
    <3>1. i \in 1..N
      BY Positions, FormatAssumption DEF Subdev
    <3>2. /\ tryFmt[i] \in Settled /\ Adjust(Kinds[i], tryFmt[i]) = tryFmt[i]
          /\ Kinds[i] \in {"sca", "deb", "sen"}
      <4>1. i \in Subdev
        BY FormatAssumption
      <4>2. Kinds[i] \in {"sca", "deb", "sen"}
        BY <3>1, <4>1, Positions, FormatAssumption DEF Subdev
      <4>3. tryFmt[i] \in Settled /\ Adjust(Kinds[i], tryFmt[i]) = tryFmt[i]
        BY <3>1, Positions DEF TypeOK, StoredFormatsSettled
      <4> QED BY <4>2, <4>3
    <3> QED BY <3>2, SettledListed
  <2>4. fmt[1].code \in Listed("cap", "sink") /\ ~SizesAnswered("cap", "sink", fmt[1])
    <3>1. 1 \in 1..N /\ Kinds[1] = "cap"
      BY Positions, FormatAssumption
    <3>2. fmt[1] \in Settled /\ Adjust("cap", fmt[1]) = fmt[1]
      BY <3>1 DEF TypeOK, StoredFormatsSettled
    <3>3. PixelFormat[fmt[1].code] \notin Codes
      BY <3>2, TableAssumption DEF Settled, Formats
    <3> QED BY <3>2, <3>3, SettledListed
            DEF SizesAnswered, AskedWith, SizedCodes, Accepted
  <2> QED BY <2>1, <2>2, <2>3, <2>4 DEF StoredIsEnumerated
<1> QED BY <1>1, FormatTypes, FormatsSettle, PTL
=============================================================================
