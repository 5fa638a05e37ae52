----------------------------- MODULE VimcFrames -----------------------------
(***************************************************************************)
(* The bytes of one pass: where the pixel loops of the scaler and of the    *)
(* debayer read and write, and what they put there.  A frame is a range of  *)
(* bytes from 0; the index arithmetic is that of unsigned int.             *)
(***************************************************************************)
EXTENDS Naturals, FiniteSetsExt

CONSTANT Word    \* unsigned int counts modulo Word (2^32)

U32(n) == n % Word
U8(n) == n % 256

\* VIMC_FRAME_INDEX
Index(lin, col, width, bpp) == U32((lin * width + col) * bpp)

Pixels(width, height) == (0..height - 1) \X (0..width - 1)

-----------------------------------------------------------------------------
(* The scaler.                                                              *)

\* Where vimc_sca_scale_pix puts the copy in line r and column c of the square
\* it makes of one pixel; line is src_line_size.
ScaledIndex(p, r, c, width, bpp, mult, line) ==
    U32(U32(Index(p[1] * mult, p[2] * mult, width * mult, bpp) + r * line) + c * bpp)

\* Slip: the index is not moved to the next line.
CopiesInOneLine(width, height, bpp, mult, line) ==
    {[from |-> Index(p[1], p[2], width, bpp) + b,
      to   |-> ScaledIndex(p, 0, c, width, bpp, mult, line) + b] :
        p \in Pixels(width, height), r \in 0..mult - 1, c \in 0..mult - 1,
        b \in 0..bpp - 1}

\* The bytes vimc_sca_fill_src_frame copies.
Copies(width, height, bpp, mult, line) ==
    {[from |-> Index(p[1], p[2], width, bpp) + b,
      to   |-> ScaledIndex(p, r, c, width, bpp, mult, line) + b] :
        p \in Pixels(width, height), r \in 0..mult - 1, c \in 0..mult - 1,
        b \in 0..bpp - 1}

\* What a scaled frame should be: the byte of the frame upstream for byte n,
\* that of the pixel nearest to it.
Nearest(n, width, bpp, mult) ==
    LET pixel == n \div bpp
        line  == pixel \div (width * mult)
        col   == pixel % (width * mult)
    IN  ((line \div mult) * width + col \div mult) * bpp + (n % bpp)

NearestCopies(size, width, bpp, mult) ==
    {[from |-> Nearest(n, width, bpp, mult), to |-> n] : n \in 0..size - 1}

-----------------------------------------------------------------------------
(* The debayer.                                                             *)

\* Slip: no test of the border.
FirstUnsigned(pos, seek) == U32(pos + Word - seek)

First(pos, seek) == IF seek > pos THEN 0 ELSE pos - seek

\* The lines (columns) of the mean window around pos that are in the frame.
Window(pos, side, win) ==
    LET seek == win \div 2 IN
    {n \in 0..side - 1 : First(pos, seek) <= n /\ n < pos + seek + 1}

MeanWindow(p, width, height, win) ==
    Window(p[1], height, win) \X Window(p[2], width, win)

\* The colour a pixel of a raw frame has; order is that of its code.
Colour(order, p) == order[(p[1] % 2) + 1][(p[2] % 2) + 1]

\* What a shift by 8 * b multiplies with, for the bytes of an unsigned int.
Weight == <<1, 256, 65536, 16777216>>

\* vimc_deb_get_val
Value(raw, index, bpp) ==
    MapThenSumSet(LAMBDA b : raw[index + b] * Weight[b + 1], 0..bpp - 1)

\* The pixels of one colour in the window.
Samples(p, colour, order, width, height, win) ==
    {q \in MeanWindow(p, width, height, win) : Colour(order, q) = colour}

AddedUp(raw, samples, width, bpp) ==
    MapThenSumSet(LAMBDA q : Value(raw, Index(q[1], q[2], width, bpp), bpp), samples)

\* vimc_deb_calc_rgb_sink, for one colour.
Mean(raw, p, colour, order, width, height, bpp, win) ==
    LET samples == Samples(p, colour, order, width, height, win)
        sum == U32(AddedUp(raw, samples, width, bpp))
    IN  IF samples = {} THEN sum ELSE sum \div Cardinality(samples)

\* What is left of it in a byte of the frame.
Debayered(raw, p, colour, order, width, height, bpp, win) ==
    U8(Mean(raw, p, colour, order, width, height, bpp, win))

\* The raw frame a sensor makes of an evenly coloured picture.
RawFrame(scene, order, width, height, bpp) ==
    [n \in 0..width * height * bpp - 1 |->
        LET pixel == n \div bpp IN
        (scene[order[((pixel \div width) % 2) + 1][((pixel % width) % 2) + 1]]
            \div Weight[(n % bpp) + 1]) % 256]
=============================================================================
