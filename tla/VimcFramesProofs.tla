-------------------------- MODULE VimcFramesProofs --------------------------
(* Theorems about the pixel loops of VimcFrames, for frames of every size,   *)
(* as long as unsigned int can count their bytes.                            *)
EXTENDS VimcFrames, TLAPS

-----------------------------------------------------------------------------
(* Cells of a table: a rows of b cells, counted row by row.                  *)

LEMMA Cell ==
    ASSUME NEW a \in Nat, NEW b \in Nat, NEW n \in 0..a - 1, NEW m \in 0..b - 1
    PROVE  n * b + m \in 0..a * b - 1
<1>1. PICK d \in Nat : a = n + 1 + d
  <2>1. a - n - 1 \in Nat /\ a = n + 1 + (a - n - 1)
    OBVIOUS
  <2> QED
    BY <2>1
<1>2. a * b = n * b + b + d * b
  BY <1>1
<1>3. n * b \in Nat /\ d * b \in Nat
  BY <1>1
<1> QED
  BY <1>2, <1>3

\* Division finds the row and the cell.
LEMMA Divides ==
    ASSUME NEW n \in Nat, NEW b \in Nat \ {0}
    PROVE  /\ n \div b \in Nat /\ n % b \in 0..b - 1
           /\ n = (n \div b) * b + (n % b)
OBVIOUS

LEMMA RowUnique ==
    ASSUME NEW b \in Nat, NEW x \in Nat, NEW y \in Nat,
           NEW m \in 0..b - 1, NEW k \in 0..b - 1, x * b + m = y * b + k
    PROVE  x = y /\ m = k
<1>1. ASSUME NEW u \in Nat, NEW v \in Nat, NEW i \in 0..b - 1, NEW j \in 0..b - 1,
             u * b + i = v * b + j, u < v
      PROVE  FALSE
  <2>1. PICK d \in Nat : v = u + 1 + d
    <3>1. v - u - 1 \in Nat /\ v = u + 1 + (v - u - 1)
      BY <1>1
    <3> QED
      BY <3>1
  <2>2. v * b = u * b + b + d * b
    BY <2>1
  <2>3. u * b \in Nat /\ d * b \in Nat
    BY <2>1
  <2> QED
    BY <1>1, <2>2, <2>3
<1>2. x = y
  BY <1>1
<1> QED
  BY <1>2

LEMMA CellOf ==
    ASSUME NEW x \in Nat, NEW b \in Nat, NEW m \in 0..b - 1
    PROVE  (x * b + m) \div b = x /\ (x * b + m) % b = m
<1>1. b \in Nat \ {0} /\ x * b + m \in Nat
  OBVIOUS
<1>2. PICK n \in Nat : n = x * b + m
  BY <1>1
<1>3. /\ n \div b \in Nat /\ n % b \in 0..b - 1
      /\ n = (n \div b) * b + (n % b)
  BY <1>1, Divides
<1>4. n \div b = x /\ n % b = m
  <2>1. PICK y \in Nat, k \in 0..b - 1 :
          y = n \div b /\ k = n % b /\ x * b + m = y * b + k
    BY <1>2, <1>3
  <2>2. x = y /\ m = k
    BY <1>1, <2>1, RowUnique
  <2> QED
    BY <2>1, <2>2
<1> QED
  BY <1>2, <1>4

LEMMA RowOf ==
    ASSUME NEW a \in Nat, NEW b \in Nat, NEW n \in 0..a * b - 1
    PROVE  /\ n \div b \in 0..a - 1 /\ n % b \in 0..b - 1
           /\ n = (n \div b) * b + (n % b)
<1>1. b \in Nat \ {0}
  <2>1. b = 0 => a * b = 0
    OBVIOUS
  <2> QED
    BY <2>1
<1>2. /\ n \div b \in Nat /\ n % b \in 0..b - 1
      /\ n = (n \div b) * b + (n % b)
  <2>1. n \in Nat
    OBVIOUS
  <2> QED
    BY <1>1, <2>1, Divides
<1>3. ASSUME n \div b >= a PROVE FALSE
  <2>1. PICK d \in Nat : n \div b = a + d
    <3>1. (n \div b) - a \in Nat /\ n \div b = a + ((n \div b) - a)
      BY <1>2, <1>3
    <3> QED
      BY <3>1
  <2>2. (n \div b) * b = a * b + d * b
    BY <2>1
  <2>3. d * b \in Nat /\ a * b \in Nat
    BY <2>1
  <2> QED
    BY <1>2, <2>2, <2>3
<1> QED
  BY <1>2, <1>3

\* A number that unsigned int can hold stays what it is.
LEMMA Counted ==
    ASSUME Word \in Nat, NEW n \in Nat, n < Word
    PROVE  U32(n) = n
<1>1. 0 * Word + n = n /\ n \in 0..Word - 1
  OBVIOUS
<1> QED
  BY <1>1, CellOf DEF U32

-----------------------------------------------------------------------------
(* Bytes of pixels.                                                          *)

\* The bytes of a pixel are in the frame, and VIMC_FRAME_INDEX does not wrap.
THEOREM IndexWithinFrame ==
    ASSUME Word \in Nat, NEW width \in Nat, NEW height \in Nat, NEW bpp \in Nat,
           width * height * bpp <= Word,
           NEW lin \in 0..height - 1, NEW col \in 0..width - 1, NEW b \in 0..bpp - 1
    PROVE  /\ Index(lin, col, width, bpp) = (lin * width + col) * bpp
           /\ Index(lin, col, width, bpp) + b \in 0..width * height * bpp - 1
<1>1. PICK n \in 0..height * width - 1 : n = lin * width + col
  BY Cell
<1>2. PICK pixels \in Nat : pixels = height * width
  OBVIOUS
<1>3. n * bpp + b \in 0..pixels * bpp - 1
  BY <1>1, <1>2, Cell
<1>4. pixels * bpp = width * height * bpp
  BY <1>2
<1>5. n * bpp \in Nat /\ n * bpp < Word
  BY <1>1, <1>2, <1>3, <1>4
<1>6. Index(lin, col, width, bpp) = n * bpp
  BY <1>1, <1>5, Counted DEF Index
<1> QED
  BY <1>1, <1>3, <1>4, <1>6

\* Byte b of copy (r, c) of pixel p, in a frame scaled by mult.
SquareByte(p, r, c, b, width, bpp, mult) ==
    ((p[1] * mult + r) * (width * mult) + (p[2] * mult + c)) * bpp + b

\* The code's index arithmetic finds that byte, and does not wrap.
LEMMA ScaledPixel ==
    ASSUME Word \in Nat, NEW width \in Nat, NEW height \in Nat, NEW bpp \in Nat,
           NEW mult \in Nat,
           (width * mult) * (height * mult) * bpp <= Word,
           NEW p \in Pixels(width, height), NEW r \in 0..mult - 1,
           NEW c \in 0..mult - 1, NEW b \in 0..bpp - 1
    PROVE  /\ ScaledIndex(p, r, c, width, bpp, mult, width * mult * bpp) + b
                = SquareByte(p, r, c, b, width, bpp, mult)
           /\ SquareByte(p, r, c, b, width, bpp, mult)
                \in 0..(width * mult) * (height * mult) * bpp - 1
<1>1. p[1] \in 0..height - 1 /\ p[2] \in 0..width - 1
  BY DEF Pixels
<1>2. PICK W \in Nat, H \in Nat : W = width * mult /\ H = height * mult
  OBVIOUS
<1>3. PICK x \in Nat, y \in Nat : x = p[1] * mult /\ y = p[2] * mult
  BY <1>1
<1>4. x + r \in 0..H - 1 /\ y + c \in 0..W - 1
  BY <1>1, <1>2, <1>3, Cell
<1>5. x \in 0..H - 1 /\ y \in 0..W - 1
  BY <1>3, <1>4
<1>6. W * H * bpp <= Word
  BY <1>2
<1>7. /\ Index(x, y, W, bpp) = (x * W + y) * bpp
      /\ Index(x, y, W, bpp) + b \in 0..W * H * bpp - 1
  BY <1>5, <1>6, IndexWithinFrame
<1>8. /\ Index(x + r, y + c, W, bpp) = ((x + r) * W + (y + c)) * bpp
      /\ Index(x + r, y + c, W, bpp) + b \in 0..W * H * bpp - 1
  BY <1>4, <1>6, IndexWithinFrame
<1>9. PICK n \in Nat : n = ((x + r) * W + (y + c)) * bpp /\ n < Word
  <2>1. ((x + r) * W + (y + c)) * bpp \in Nat
    BY <1>4
  <2>2. W * H * bpp \in Nat
    OBVIOUS
  <2> QED
    BY <1>6, <1>8, <2>1, <2>2
<1>10. PICK start \in Nat : start = (x * W + y) * bpp + r * (W * bpp)
  OBVIOUS
<1>11. start + c * bpp = n /\ c * bpp \in Nat
  BY <1>9, <1>10
<1>12. U32(start) = start /\ U32(n) = n
  BY <1>9, <1>11, Counted
<1>13. ScaledIndex(p, r, c, width, bpp, mult, width * mult * bpp) = n
  <2>1. ScaledIndex(p, r, c, width, bpp, mult, width * mult * bpp) =
          U32(U32(Index(x, y, W, bpp) + r * (W * bpp)) + c * bpp)
    BY <1>2, <1>3 DEF ScaledIndex
  <2> QED
    BY <1>7, <1>10, <1>11, <1>12, <2>1
<1>14. SquareByte(p, r, c, b, width, bpp, mult) = n + b
  BY <1>2, <1>3, <1>9 DEF SquareByte
<1>15. n + b \in 0..(width * mult) * (height * mult) * bpp - 1
  BY <1>2, <1>8, <1>9
<1> QED
  BY <1>13, <1>14, <1>15

\* Whatever a scaler of any multiplier copies, it reads from the frame upstream
\* and writes into its own.
THEOREM CopiesWithinFrames ==
    ASSUME Word \in Nat, NEW width \in Nat, NEW height \in Nat, NEW bpp \in Nat,
           NEW mult \in Nat,
           width * height * bpp <= Word,
           (width * mult) * (height * mult) * bpp <= Word,
           NEW copy \in Copies(width, height, bpp, mult, width * mult * bpp)
    PROVE  /\ copy.from \in 0..width * height * bpp - 1
           /\ copy.to \in 0..(width * mult) * (height * mult) * bpp - 1
<1>1. PICK p \in Pixels(width, height), r \in 0..mult - 1, c \in 0..mult - 1,
           b \in 0..bpp - 1 :
        copy = [from |-> Index(p[1], p[2], width, bpp) + b,
                to   |-> ScaledIndex(p, r, c, width, bpp, mult,
                                     width * mult * bpp) + b]
  BY DEF Copies
<1>2. p[1] \in 0..height - 1 /\ p[2] \in 0..width - 1
  BY DEF Pixels
<1>3. /\ Index(p[1], p[2], width, bpp) = (p[1] * width + p[2]) * bpp
      /\ Index(p[1], p[2], width, bpp) + b \in 0..width * height * bpp - 1
  BY <1>2, IndexWithinFrame
<1>4. ScaledIndex(p, r, c, width, bpp, mult, width * mult * bpp) + b
        \in 0..(width * mult) * (height * mult) * bpp - 1
  BY ScaledPixel
<1> QED
  BY <1>1, <1>3, <1>4

\* The pixel nearest to a byte is the one it is a copy of.
LEMMA NearestIs ==
    ASSUME NEW width \in Nat, NEW height \in Nat, NEW bpp \in Nat, NEW mult \in Nat,
           NEW p \in Pixels(width, height), NEW r \in 0..mult - 1,
           NEW c \in 0..mult - 1, NEW b \in 0..bpp - 1
    PROVE  Nearest(SquareByte(p, r, c, b, width, bpp, mult), width, bpp, mult)
             = (p[1] * width + p[2]) * bpp + b
<1>1. PICK i \in 0..height - 1, j \in 0..width - 1 : i = p[1] /\ j = p[2]
  BY DEF Pixels
<1>2. PICK W \in Nat, x \in Nat, y \in Nat :
        W = width * mult /\ x = i * mult + r /\ y = j * mult + c
  OBVIOUS
<1>3. y \in 0..W - 1
  BY <1>2, Cell
<1>4. PICK q \in Nat : q = x * W + y
  BY <1>2
<1>5. PICK n \in Nat : n = q * bpp + b
  OBVIOUS
<1>6. n \div bpp = q /\ n % bpp = b
  BY <1>5, CellOf
<1>7. q \div W = x /\ q % W = y
  BY <1>3, <1>4, CellOf
<1>8. x \div mult = i /\ y \div mult = j
  BY <1>2, CellOf
<1>9. Nearest(n, width, bpp, mult) = (i * width + j) * bpp + b
  BY <1>2, <1>6, <1>7, <1>8 DEF Nearest
<1>10. SquareByte(p, r, c, b, width, bpp, mult) = n
  BY <1>1, <1>2, <1>4, <1>5 DEF SquareByte
<1> QED
  BY <1>1, <1>9, <1>10

IsCopied(n, width, height, bpp, mult) ==
    \E p \in Pixels(width, height), r \in 0..mult - 1, c \in 0..mult - 1,
       b \in 0..bpp - 1 : n = SquareByte(p, r, c, b, width, bpp, mult)

\* Every byte of a scaled frame belongs to a square of copies.
LEMMA EveryByteCopied ==
    ASSUME NEW width \in Nat, NEW height \in Nat, NEW bpp \in Nat, NEW mult \in Nat,
           NEW n \in 0..(width * mult) * (height * mult) * bpp - 1
    PROVE  IsCopied(n, width, height, bpp, mult)
<1>1. PICK W \in Nat, H \in Nat : W = width * mult /\ H = height * mult
  OBVIOUS
<1>2. PICK A \in Nat : A = H * W
  OBVIOUS
<1>3. n \in 0..A * bpp - 1
  BY <1>1, <1>2
<1>4. PICK q \in 0..A - 1, b \in 0..bpp - 1 : n = q * bpp + b
  BY <1>3, RowOf
<1>5. q \in 0..H * W - 1
  BY <1>2
<1>6. PICK x \in 0..H - 1, y \in 0..W - 1 : q = x * W + y
  BY <1>5, RowOf
<1>7. x \in 0..height * mult - 1 /\ y \in 0..width * mult - 1
  BY <1>1
<1>8. PICK i \in 0..height - 1, r \in 0..mult - 1 : x = i * mult + r
  BY <1>7, RowOf
<1>9. PICK j \in 0..width - 1, c \in 0..mult - 1 : y = j * mult + c
  BY <1>7, RowOf
<1>10. PICK p \in Pixels(width, height) : p[1] = i /\ p[2] = j
  <2>1. <<i, j>> \in Pixels(width, height)
    BY DEF Pixels
  <2> QED
    BY <2>1
<1>11. n = SquareByte(p, r, c, b, width, bpp, mult)
  BY <1>1, <1>4, <1>6, <1>8, <1>9, <1>10 DEF SquareByte
<1> QED
  BY <1>11 DEF IsCopied

\* A scaler of any multiplier fills its frame, every byte with that of the
\* pixel nearest to it.
THEOREM ScalerCopiesNearest ==
    ASSUME Word \in Nat, NEW width \in Nat, NEW height \in Nat, NEW bpp \in Nat,
           NEW mult \in Nat,
           width * height * bpp <= Word,
           (width * mult) * (height * mult) * bpp <= Word,
           NEW line, line = width * mult * bpp,
           NEW size, size = (width * mult) * (height * mult) * bpp
    PROVE  Copies(width, height, bpp, mult, line) =
             NearestCopies(size, width, bpp, mult)
<1>1. ASSUME NEW p \in Pixels(width, height), NEW r \in 0..mult - 1,
             NEW c \in 0..mult - 1, NEW b \in 0..bpp - 1
      PROVE  /\ SquareByte(p, r, c, b, width, bpp, mult)
                  \in 0..(width * mult) * (height * mult) * bpp - 1
             /\ ScaledIndex(p, r, c, width, bpp, mult, width * mult * bpp) + b
                  = SquareByte(p, r, c, b, width, bpp, mult)
             /\ Nearest(SquareByte(p, r, c, b, width, bpp, mult), width, bpp, mult)
                  = Index(p[1], p[2], width, bpp) + b
  <2>1. p[1] \in 0..height - 1 /\ p[2] \in 0..width - 1
    BY DEF Pixels
  <2>2. /\ Index(p[1], p[2], width, bpp) = (p[1] * width + p[2]) * bpp
        /\ Index(p[1], p[2], width, bpp) + b \in 0..width * height * bpp - 1
    BY <2>1, IndexWithinFrame
  <2>3. Nearest(SquareByte(p, r, c, b, width, bpp, mult), width, bpp, mult)
          = (p[1] * width + p[2]) * bpp + b
    BY NearestIs
  <2> QED
    BY <2>2, <2>3, ScaledPixel
<1>2. ASSUME NEW copy \in Copies(width, height, bpp, mult, width * mult * bpp)
      PROVE  \E n \in 0..(width * mult) * (height * mult) * bpp - 1 :
                 copy = [from |-> Nearest(n, width, bpp, mult), to |-> n]
  <2>1. PICK p \in Pixels(width, height), r \in 0..mult - 1, c \in 0..mult - 1,
             b \in 0..bpp - 1 :
          copy = [from |-> Index(p[1], p[2], width, bpp) + b,
                  to   |-> ScaledIndex(p, r, c, width, bpp, mult,
                                       width * mult * bpp) + b]
    BY DEF Copies
  <2> QED
    BY <1>1, <2>1
<1>3. ASSUME NEW n \in 0..(width * mult) * (height * mult) * bpp - 1
      PROVE  [from |-> Nearest(n, width, bpp, mult), to |-> n]
               \in Copies(width, height, bpp, mult, width * mult * bpp)
  <2>1. IsCopied(n, width, height, bpp, mult)
    BY EveryByteCopied
  <2>2. PICK p \in Pixels(width, height), r \in 0..mult - 1, c \in 0..mult - 1,
             b \in 0..bpp - 1 : n = SquareByte(p, r, c, b, width, bpp, mult)
    BY <2>1 DEF IsCopied
  <2>3. /\ n = ScaledIndex(p, r, c, width, bpp, mult, width * mult * bpp) + b
        /\ Nearest(n, width, bpp, mult) = Index(p[1], p[2], width, bpp) + b
    BY <1>1, <2>2
  <2> QED
    BY <2>3 DEF Copies
<1> QED
  BY <1>2, <1>3 DEF NearestCopies
=============================================================================
