------------------------- MODULE VimcDebayerProofs -------------------------
(***************************************************************************)
(* Proofs about the means a debayer takes: the sum of a value over a finite *)
(* set, by induction on its subsets, what vimc_deb_get_val makes of the     *)
(* bytes of a sample, and that an evenly coloured picture keeps its colour. *)
(***************************************************************************)
EXTENDS VimcFormatProofs, FiniteSetTheorems

-----------------------------------------------------------------------------
(* Sums over finite sets.                                                    *)

\* it is the function of subsets of S behind a sum of f, in the order in which
\* the library's fold takes the members.
Totals(S, f, it) ==
    it = [s \in SUBSET S |->
             IF s = {} THEN 0
             ELSE f[CHOOSE x \in s : TRUE] + it[s \ {CHOOSE x \in s : TRUE}]]

\* Among subsets of a finite set one has no other of them inside.
LEMMA Smallest ==
    ASSUME NEW S, IsFiniteSet(S), NEW T \in SUBSET (SUBSET S), T # {}
    PROVE  \E s \in T : \A u \in T : u \subseteq s => u = s
<1>1. IsWellFoundedOn(StrictSubsetOrdering(S), SUBSET S)
  BY FS_StrictSubsetOrderingWellFounded, FS_FiniteSubsetsOfFinite
<1>2. \E x \in T : \A y \in T : ~(<<y, x>> \in StrictSubsetOrdering(S))
  BY <1>1, WFMin
<1> QED
  BY <1>2 DEF StrictSubsetOrdering

\* There is one such function only.
LEMMA TotalsUnique ==
    ASSUME NEW S, IsFiniteSet(S), NEW f, NEW it, NEW g,
           Totals(S, f, it), Totals(S, f, g)
    PROVE  it = g
<1> DEFINE T == {s \in SUBSET S : it[s] # g[s]}
<1>1. ASSUME T # {} PROVE FALSE
  <2>1. T \in SUBSET (SUBSET S)
    OBVIOUS
  <2>2. PICK s \in T : \A u \in T : u \subseteq s => u = s
    <3> HIDE DEF T
    <3> QED
      BY <1>1, <2>1, Smallest
  <2>3. s # {}
    BY <2>2 DEF Totals
  <2> DEFINE x == CHOOSE x \in s : TRUE
  <2>4. x \in s
    BY <2>3
  <2>5. it[s \ {x}] # g[s \ {x}]
    <3> HIDE DEF x
    <3>1. x = CHOOSE y \in s : TRUE
      BY DEF x
    <3>2. it[s] = f[x] + it[s \ {x}] /\ g[s] = f[x] + g[s \ {x}]
      BY <2>2, <2>3, <3>1 DEF Totals
    <3> QED
      BY <2>2, <3>2
  <2>6. s \ {x} \in T
    BY <2>5
  <2> QED
    BY <2>2, <2>4, <2>6
<1> QED
  BY <1>1 DEF Totals

\* What adds f of a member to what it is without the member, is the sum.
LEMMA TotalsOf ==
    ASSUME NEW S, NEW f, NEW g \in [SUBSET S -> Nat], g[{}] = 0,
           \A s \in SUBSET S : \A x \in s : g[s] = f[x] + g[s \ {x}]
    PROVE  Totals(S, f, g)
<1>1. ASSUME NEW s \in SUBSET S, s # {}
      PROVE  g[s] = f[CHOOSE x \in s : TRUE] + g[s \ {CHOOSE x \in s : TRUE}]
  <2>1. (CHOOSE x \in s : TRUE) \in s
    BY <1>1
  <2> QED
    BY <2>1
<1> QED
  BY <1>1 DEF Totals

-----------------------------------------------------------------------------
(* The value of a sample.                                                    *)

LEMMA ValueIs ==
    ASSUME NEW raw, NEW index \in Nat, NEW bpp \in Nat, NEW f, NEW g,
           f = [b \in 0..bpp - 1 |-> raw[index + b] * Weight[b + 1]],
           Totals(0..bpp - 1, f, g)
    PROVE  Value(raw, index, bpp) = g[0..bpp - 1]
<1> DEFINE S == 0..bpp - 1
           step(it) == [s \in SUBSET S |->
                          IF s = {} THEN 0
                          ELSE raw[index + CHOOSE x \in s : TRUE]
                                   * Weight[(CHOOSE x \in s : TRUE) + 1]
                               + it[s \ {CHOOSE x \in s : TRUE}]]
           iter == CHOOSE it : it = step(it)
<1>1. \A s \in SUBSET S : s # {} =>
          f[CHOOSE x \in s : TRUE] =
              raw[index + CHOOSE x \in s : TRUE] * Weight[(CHOOSE x \in s : TRUE) + 1]
  <2> SUFFICES ASSUME NEW s \in SUBSET S, s # {}
               PROVE  f[CHOOSE x \in s : TRUE] =
                        raw[index + CHOOSE x \in s : TRUE]
                            * Weight[(CHOOSE x \in s : TRUE) + 1]
    OBVIOUS
  <2>1. (CHOOSE x \in s : TRUE) \in S
    OBVIOUS
  <2> QED
    BY <2>1
<1>2. ASSUME NEW it PROVE it = step(it) <=> Totals(S, f, it)
  BY <1>1 DEF Totals
<1>3. Totals(S, f, iter)
  <2>1. g = step(g)
    BY <1>2
  <2>2. iter = step(iter)
    <3> HIDE DEF step
    <3> QED
      BY <2>1
  <2> QED
    BY <1>2, <2>2
<1>4. Value(raw, index, bpp) = iter[S]
  BY Zenon DEF Value, MapThenSumSet, MapThenFoldSet
<1>5. IsFiniteSet(S)
  BY FS_Interval
<1> QED
  BY <1>3, <1>4, <1>5, TotalsUnique

\* A sample whose upper bytes are zero has the value of its first one.
LEMMA ValueOfByte ==
    ASSUME NEW raw, NEW index \in Nat, NEW bpp \in 1..4, NEW v \in Nat,
           raw[index] = v, \A b \in 1..bpp - 1 : raw[index + b] = 0
    PROVE  Value(raw, index, bpp) = v
<1> DEFINE S == 0..bpp - 1
           f == [b \in S |-> raw[index + b] * Weight[b + 1]]
           g == [s \in SUBSET S |-> IF 0 \in s THEN v ELSE 0]
<1>1. ASSUME NEW b \in S PROVE f[b] = IF b = 0 THEN v ELSE 0
  <2>1. Weight[1] = 1 /\ \A k \in 1..4 : Weight[k] \in Nat
    BY DEF Weight
  <2>2. CASE b = 0
    BY <2>1, <2>2
  <2>3. CASE b # 0
    <3>1. raw[index + b] = 0 /\ b + 1 \in 1..4
      BY <2>3
    <3>2. 0 * Weight[b + 1] = 0
      BY <2>1, <3>1
    <3> QED
      BY <2>3, <3>1, <3>2
  <2> QED
    BY <2>2, <2>3
<1>2. Totals(S, f, g)
  <2>1. g \in [SUBSET S -> Nat] /\ g[{}] = 0
    OBVIOUS
  <2>2. ASSUME NEW s \in SUBSET S, NEW b \in s PROVE g[s] = f[b] + g[s \ {b}]
    <3>1. f[b] = IF b = 0 THEN v ELSE 0
      BY <1>1
    <3>2. g[s \ {b}] = IF 0 \in s /\ b # 0 THEN v ELSE 0
      OBVIOUS
    <3>3. g[s] = IF 0 \in s THEN v ELSE 0
      OBVIOUS
    <3> HIDE DEF f, g
    <3> QED
      BY <3>1, <3>2, <3>3
  <2> HIDE DEF f, g
  <2> QED
    BY <2>1, <2>2, TotalsOf
<1>3. Value(raw, index, bpp) = g[S]
  <2> HIDE DEF g
  <2> QED
    BY <1>2, ValueIs
<1> QED
  BY <1>3

-----------------------------------------------------------------------------
(* The mean of samples that are alike.                                       *)

LEMMA AddedUpIs ==
    ASSUME NEW raw, NEW S, IsFiniteSet(S), NEW width, NEW bpp, NEW f, NEW g,
           f = [q \in S |-> Value(raw, Index(q[1], q[2], width, bpp), bpp)],
           Totals(S, f, g)
    PROVE  AddedUp(raw, S, width, bpp) = g[S]
<1> DEFINE val(q) == Value(raw, Index(q[1], q[2], width, bpp), bpp)
           step(it) == [s \in SUBSET S |->
                          IF s = {} THEN 0
                          ELSE val(CHOOSE x \in s : TRUE)
                               + it[s \ {CHOOSE x \in s : TRUE}]]
           iter == CHOOSE it : it = step(it)
<1>1. ASSUME NEW s \in SUBSET S, s # {}
      PROVE  f[CHOOSE x \in s : TRUE] = val(CHOOSE x \in s : TRUE)
  <2>1. (CHOOSE x \in s : TRUE) \in S
    BY <1>1
  <2> QED
    BY <2>1
<1>2. ASSUME NEW it PROVE it = step(it) <=> Totals(S, f, it)
  <2>1. \A s \in SUBSET S : s # {} =>
            f[CHOOSE x \in s : TRUE] = val(CHOOSE x \in s : TRUE)
    BY <1>1
  <2>2. ASSUME NEW s \in SUBSET S
        PROVE  (IF s = {} THEN 0
                ELSE val(CHOOSE x \in s : TRUE) + it[s \ {CHOOSE x \in s : TRUE}])
               = IF s = {} THEN 0
                 ELSE f[CHOOSE x \in s : TRUE] + it[s \ {CHOOSE x \in s : TRUE}]
    BY <2>1
  <2>3. step(it) =
          [s \in SUBSET S |->
             IF s = {} THEN 0
             ELSE f[CHOOSE x \in s : TRUE] + it[s \ {CHOOSE x \in s : TRUE}]]
    <3> HIDE DEF val
    <3> QED
      BY <2>2, Zenon
  <2> HIDE DEF step
  <2> QED
    BY <2>3 DEF Totals
<1>3. Totals(S, f, iter)
  <2>1. g = step(g)
    BY <1>2
  <2>2. iter = step(iter)
    <3> HIDE DEF step
    <3> QED
      BY <2>1
  <2> QED
    BY <1>2, <2>2
<1>4. AddedUp(raw, S, width, bpp) = iter[S]
  BY Zenon DEF AddedUp, MapThenSumSet, MapThenFoldSet
<1> QED
  BY <1>3, <1>4, TotalsUnique

\* The sum of samples of one value.
LEMMA AlikeAddUp ==
    ASSUME NEW raw, NEW S, IsFiniteSet(S), NEW width, NEW bpp, NEW v \in Nat,
           \A q \in S : Value(raw, Index(q[1], q[2], width, bpp), bpp) = v
    PROVE  AddedUp(raw, S, width, bpp) = Cardinality(S) * v
<1> DEFINE f == [q \in S |-> Value(raw, Index(q[1], q[2], width, bpp), bpp)]
           g == [s \in SUBSET S |-> Cardinality(s) * v]
<1>1. \A s \in SUBSET S : IsFiniteSet(s) /\ Cardinality(s) \in Nat
  BY FS_Subset, FS_CardinalityType
<1>2. Totals(S, f, g)
  <2>1. g \in [SUBSET S -> Nat] /\ g[{}] = 0
    BY <1>1, FS_EmptySet
  <2>2. ASSUME NEW s \in SUBSET S, NEW q \in s PROVE g[s] = f[q] + g[s \ {q}]
    <3>1. f[q] = v
      OBVIOUS
    <3>2. Cardinality(s \ {q}) = Cardinality(s) - 1
      BY <1>1, FS_RemoveElement
    <3>3. PICK n \in Nat : Cardinality(s) = n + 1 /\ Cardinality(s \ {q}) = n
      BY <1>1, <3>2
    <3>4. g[s] = (n + 1) * v /\ g[s \ {q}] = n * v
      BY <3>3
    <3>5. (n + 1) * v = v + n * v
      OBVIOUS
    <3> HIDE DEF f, g
    <3> QED
      BY <3>1, <3>4, <3>5
  <2> HIDE DEF f, g
  <2> QED
    BY <2>1, <2>2, TotalsOf
<1>3. AddedUp(raw, S, width, bpp) = g[S]
  <2> HIDE DEF g
  <2> QED
    BY <1>2, AddedUpIs
<1> QED
  BY <1>3

-----------------------------------------------------------------------------
(* An evenly coloured picture.                                               *)

\* A window reaches a line (column) of each parity.
LEMMA BothParities ==
    ASSUME NEW side \in Nat, side % 2 = 0, NEW pos \in 0..side - 1,
           NEW win \in Nat, win >= 2, NEW k \in {0, 1}
    PROVE  \E n \in Window(pos, side, win) : n % 2 = k
<1> DEFINE n == pos - (pos % 2) + k
<1>1. n \in 0..side - 1 /\ n % 2 = k /\ n <= pos + 1 /\ pos <= n + 1
  OBVIOUS
<1>2. PICK seek \in Nat : seek = win \div 2 /\ seek >= 1
  OBVIOUS
<1>3. First(pos, seek) <= n /\ n < pos + seek + 1
  BY <1>1, <1>2 DEF First
<1>4. n \in Window(pos, side, win)
  BY <1>1, <1>2, <1>3 DEF Window
<1> QED
  BY <1>1, <1>4

\* The bytes of a pixel of the raw frame are its colour and zeroes.
LEMMA RawBytes ==
    ASSUME Word \in Nat, NEW w \in Nat, NEW h \in Nat, NEW bpp \in Nat,
           bpp \in 1..4, w * h * bpp <= Word,
           NEW scene, \A c \in Colours : scene[c] \in 0..255,
           NEW order, \A i, j \in 1..2 : order[i][j] \in Colours,
           NEW q \in Pixels(w, h), NEW b \in 0..bpp - 1
    PROVE  RawFrame(scene, order, w, h, bpp)[Index(q[1], q[2], w, bpp) + b]
               = IF b = 0 THEN scene[Colour(order, q)] ELSE 0
<1>1. PICK lin \in 0..h - 1, col \in 0..w - 1 : lin = q[1] /\ col = q[2]
  BY DEF Pixels
<1>2. PICK pixel \in Nat : pixel = lin * w + col
  OBVIOUS
<1>3. PICK n : n = pixel * bpp + b
  OBVIOUS
<1>4. n = Index(lin, col, w, bpp) + b /\ n \in 0..w * h * bpp - 1
  <2>1. bpp \in Nat
    OBVIOUS
  <2>2. /\ Index(lin, col, w, bpp) = (lin * w + col) * bpp
        /\ Index(lin, col, w, bpp) + b \in 0..w * h * bpp - 1
    BY ONLY Word \in Nat, w \in Nat, h \in Nat, <2>1, w * h * bpp <= Word,
            lin \in 0..h - 1, col \in 0..w - 1, b \in 0..bpp - 1, IndexWithinFrame
  <2> QED
    BY <1>2, <1>3, <2>2
<1>5. n \div bpp = pixel /\ n % bpp = b
  <2>1. bpp \in Nat
    OBVIOUS
  <2>2. (pixel * bpp + b) \div bpp = pixel /\ (pixel * bpp + b) % bpp = b
    BY ONLY <2>1, pixel \in Nat, b \in 0..bpp - 1, CellOf
  <2> QED
    BY <1>3, <2>2
<1>6. pixel \div w = lin /\ pixel % w = col
  <2>1. lin \in Nat
    OBVIOUS
  <2>2. (lin * w + col) \div w = lin /\ (lin * w + col) % w = col
    BY ONLY <2>1, w \in Nat, col \in 0..w - 1, CellOf
  <2> QED
    BY <1>2, <2>2
<1>7. PICK v \in 0..255 : v = scene[Colour(order, q)]
  <2>1. (lin % 2) + 1 \in 1..2 /\ (col % 2) + 1 \in 1..2
    OBVIOUS
  <2> QED
    BY <1>1, <2>1 DEF Colour
<1>8. RawFrame(scene, order, w, h, bpp)[n] = (v \div Weight[b + 1]) % 256
  BY <1>1, <1>4, <1>5, <1>6, <1>7 DEF RawFrame, Colour
<1>9. (v \div Weight[b + 1]) % 256 = IF b = 0 THEN v ELSE 0
  <2>1. b \in {0, 1, 2, 3}
    OBVIOUS
  <2>2. (v \div 1) % 256 = v /\ (v \div 256) % 256 = 0
        /\ (v \div 65536) % 256 = 0 /\ (v \div 16777216) % 256 = 0
    OBVIOUS
  <2> QED
    BY <2>1, <2>2 DEF Weight
<1> QED
  BY <1>1, <1>4, <1>7, <1>8, <1>9

LEMMA SampleValue ==
    ASSUME Word \in Nat, NEW w \in Nat, NEW h \in Nat, NEW bpp \in Nat,
           bpp \in 1..4, w * h * bpp <= Word,
           NEW scene, \A c \in Colours : scene[c] \in 0..255,
           NEW order, \A i, j \in 1..2 : order[i][j] \in Colours,
           NEW q \in Pixels(w, h)
    PROVE  Value(RawFrame(scene, order, w, h, bpp), Index(q[1], q[2], w, bpp), bpp)
               = scene[Colour(order, q)]
<1>1. PICK raw : raw = RawFrame(scene, order, w, h, bpp)
  OBVIOUS
<1>2. PICK v : v = scene[Colour(order, q)]
  OBVIOUS
<1>3. v \in Nat
  <2>1. (q[1] % 2) + 1 \in 1..2 /\ (q[2] % 2) + 1 \in 1..2
    BY DEF Pixels
  <2> QED
    BY <1>2, <2>1 DEF Colour
<1>4. PICK index \in Nat : index = Index(q[1], q[2], w, bpp)
  <2>1. PICK lin \in 0..h - 1, col \in 0..w - 1 : lin = q[1] /\ col = q[2]
    BY DEF Pixels
  <2>2. PICK b \in 0..bpp - 1 : b = 0
    OBVIOUS
  <2>3. /\ Index(lin, col, w, bpp) = (lin * w + col) * bpp
        /\ Index(lin, col, w, bpp) + b \in 0..w * h * bpp - 1
    BY ONLY Word \in Nat, w \in Nat, h \in Nat, bpp \in Nat, w * h * bpp <= Word,
            lin \in 0..h - 1, col \in 0..w - 1, b \in 0..bpp - 1, IndexWithinFrame
  <2>4. lin * w + col \in Nat
    OBVIOUS
  <2>5. (lin * w + col) * bpp \in Nat
    BY <2>4
  <2> QED
    BY <2>1, <2>3, <2>5
<1>5. ASSUME NEW b \in 0..bpp - 1
      PROVE  raw[index + b] = IF b = 0 THEN v ELSE 0
  <2>1. RawFrame(scene, order, w, h, bpp)[Index(q[1], q[2], w, bpp) + b]
            = IF b = 0 THEN scene[Colour(order, q)] ELSE 0
    BY RawBytes
  <2> QED
    BY <1>1, <1>2, <1>4, <2>1
<1>6. raw[index] = v /\ \A b \in 1..bpp - 1 : raw[index + b] = 0
  <2>1. PICK b \in 0..bpp - 1 : b = 0
    OBVIOUS
  <2>2. raw[index + b] = v
    BY <1>5, <2>1
  <2>3. index + b = index
    BY <2>1
  <2> QED
    BY <1>5, <2>2, <2>3
<1>7. Value(raw, index, bpp) = v
  BY <1>3, <1>6, ValueOfByte
<1> QED
  BY <1>1, <1>2, <1>4, <1>7

\* The samples of a colour are pixels, and there is one at least.
LEMMA SamplesOf ==
    ASSUME NEW w \in Nat, NEW h \in Nat, w % 2 = 0, h % 2 = 0,
           NEW win \in Nat, win >= 2, NEW order, NEW x,
           \E s \in (1..2) \X (1..2) : order[s[1]][s[2]] = x,
           NEW p \in Pixels(w, h)
    PROVE  LET samples == Samples(p, x, order, w, h, win) IN
           /\ samples # {} /\ samples \subseteq Pixels(w, h)
           /\ IsFiniteSet(samples)
           /\ Cardinality(samples) \in Nat \ {0}
           /\ Cardinality(samples) <= w * h
<1> DEFINE samples == Samples(p, x, order, w, h, win)
<1>1. p[1] \in 0..h - 1 /\ p[2] \in 0..w - 1
  BY DEF Pixels
<1>2. samples # {}
  <2>1. PICK s \in (1..2) \X (1..2) : order[s[1]][s[2]] = x
    OBVIOUS
  <2>2. PICK lin \in Window(p[1], h, win) : lin % 2 = s[1] - 1
    BY <1>1, BothParities
  <2>3. PICK col \in Window(p[2], w, win) : col % 2 = s[2] - 1
    BY <1>1, BothParities
  <2>4. <<lin, col>> \in MeanWindow(p, w, h, win)
    BY DEF MeanWindow
  <2>5. Colour(order, <<lin, col>>) = x
    BY <2>1, <2>2, <2>3 DEF Colour
  <2> QED
    BY <2>4, <2>5 DEF Samples
<1>3. samples \subseteq Pixels(w, h)
  BY DEF Samples, MeanWindow, Window, Pixels
<1>4. IsFiniteSet(Pixels(w, h)) /\ Cardinality(Pixels(w, h)) = w * h
  <2>1. /\ IsFiniteSet(0..h - 1) /\ Cardinality(0..h - 1) = h
        /\ IsFiniteSet(0..w - 1) /\ Cardinality(0..w - 1) = w
    BY FS_Interval
  <2>2. h * w = w * h
    OBVIOUS
  <2> QED
    BY <2>1, <2>2, FS_Product DEF Pixels
<1>5. IsFiniteSet(samples) /\ Cardinality(samples) <= w * h
  BY <1>3, <1>4, FS_Subset
<1> QED
  BY <1>2, <1>3, <1>5, FS_CardinalityType, FS_EmptySet

\* Every colour of an evenly coloured picture is found again in every pixel.
KeepsColour(w, h, bpp, win, scene, order) ==
    \A x \in Colours, p \in Pixels(w, h) :
        Debayered(RawFrame(scene, order, w, h, bpp), p, x, order, w, h, bpp, win)
            = scene[x]

\* A debayer finds the colours of an evenly coloured picture in every pixel of
\* a frame with even sides, as long as its window is more than one pixel wide
\* and unsigned int counts the sums.
THEOREM EvenPictureKeepsColour ==
    ASSUME Word \in Nat, NEW w \in Nat, NEW h \in Nat, NEW bpp \in Nat,
           bpp \in 1..4, w % 2 = 0, h % 2 = 0,
           w * h * bpp <= Word, w * h * 255 < Word,
           NEW win \in Nat, win >= 2,
           NEW scene, \A c \in Colours : scene[c] \in 0..255,
           NEW order, \A i, j \in 1..2 : order[i][j] \in Colours,
           \A x \in Colours : \E s \in (1..2) \X (1..2) : order[s[1]][s[2]] = x
    PROVE  KeepsColour(w, h, bpp, win, scene, order)
<1> SUFFICES ASSUME NEW x \in Colours, NEW p \in Pixels(w, h)
             PROVE  Debayered(RawFrame(scene, order, w, h, bpp), p, x,
                              order, w, h, bpp, win) = scene[x]
  BY DEF KeepsColour
<1>1. PICK raw : raw = RawFrame(scene, order, w, h, bpp)
  OBVIOUS
<1>2. PICK samples : samples = Samples(p, x, order, w, h, win)
  OBVIOUS
<1>3. /\ samples # {} /\ samples \subseteq Pixels(w, h)
      /\ IsFiniteSet(samples)
      /\ Cardinality(samples) \in Nat \ {0}
      /\ Cardinality(samples) <= w * h
  <2>1. \E s \in (1..2) \X (1..2) : order[s[1]][s[2]] = x
    OBVIOUS
  <2> QED
    BY ONLY <1>2, <2>1, w \in Nat, h \in Nat, w % 2 = 0, h % 2 = 0,
            win \in Nat, win >= 2, p \in Pixels(w, h), SamplesOf
<1>4. PICK v \in 0..255 : v = scene[x]
  OBVIOUS
<1>5. ASSUME NEW q \in samples
      PROVE  Value(raw, Index(q[1], q[2], w, bpp), bpp) = v
  <2>1. q \in Pixels(w, h) /\ Colour(order, q) = x
    BY <1>2, <1>3 DEF Samples
  <2>2. ASSUME NEW r \in Pixels(w, h)
        PROVE  Value(RawFrame(scene, order, w, h, bpp), Index(r[1], r[2], w, bpp), bpp)
                   = scene[Colour(order, r)]
    BY SampleValue
  <2> QED
    BY <1>1, <1>4, <2>1, <2>2
<1>6. PICK n \in Nat \ {0} : n = Cardinality(samples) /\ n <= w * h
  BY <1>3
<1>7. AddedUp(raw, samples, w, bpp) = n * v
  BY <1>3, <1>5, <1>6, AlikeAddUp
<1>8. n * v \in Nat /\ n * v < Word
  <2>1. PICK pixels \in Nat : pixels = w * h
    OBVIOUS
  <2>2. n * v <= pixels * 255
    BY <1>6, <2>1, Smaller
  <2> QED
    BY <2>1, <2>2
<1>9. U32(n * v) = n * v
  <2>1. PICK sum \in Nat : sum = n * v
    BY <1>8
  <2> QED
    BY <1>8, <2>1, Counted
<1>10. (n * v) \div n = v
  <2>1. (v * n + 0) \div n = v
    BY <1>6, CellOf
  <2>2. v * n + 0 = n * v
    OBVIOUS
  <2> QED
    BY <2>1, <2>2
<1>11. Mean(raw, p, x, order, w, h, bpp, win) = v
  BY <1>2, <1>3, <1>6, <1>7, <1>9, <1>10 DEF Mean
<1>12. v % 256 = v
  BY ONLY v \in 0..255
<1> QED
  BY <1>1, <1>4, <1>11, <1>12 DEF Debayered, U8

-----------------------------------------------------------------------------
(* The debayers of a running pipeline.                                       *)

\* Unsigned int holds the sum of as many bytes as the largest frame has pixels,
\* as it does with the sizes of vimc-common.h.
SumsFit == MaxWidth * MaxHeight * 255 < Word

\* What a debayer of a running stream knows of its frame.
LEMMA DebayerStarted ==
    ASSUME NoWrap, SumsFit, TypeOK, StoredFormatsSettled, PassInv, phase = "on",
           NEW i \in Subdev, Kinds[i] = "deb",
           NEW w, w = fmt[i].width, NEW h, h = fmt[i].height
    PROVE  /\ w \in Nat /\ h \in Nat /\ w % 2 = 0 /\ h % 2 = 0
           /\ saved[i] \in DebCodes
           /\ Bpp[saved[i]] \in Nat /\ Bpp[saved[i]] \in 1..4
           /\ w * h * Bpp[saved[i]] <= Word
           /\ w * h * 255 < Word
<1>1. i \in 1..N /\ i < N
  BY Positions, FormatAssumption DEF Subdev
<1>2. saved[i] = fmt[i].code
  BY <1>1 DEF PassInv, Started
<1>3. fmt[i] \in Settled /\ fmt[i].code \in Codes
  BY <1>1 DEF TypeOK, Settled, Formats
<1>4. w \in Nat /\ h \in Nat /\ w * h * Bpp[fmt[i].code] < Word
  BY <1>3, SettledFits
<1>5. fmt[i] = Adjust("deb", fmt[i])
  BY <1>1 DEF StoredFormatsSettled
<1>6. /\ w = Even(Clamp(w, MinSide, MaxWidth))
      /\ h = Even(Clamp(h, MinSide, MaxHeight))
      /\ fmt[i].code \in Accepted("deb") \cup {DefaultCode("deb")}
  BY <1>5 DEF Adjust
<1>7. ASSUME NEW n \in Nat PROVE Even(n) % 2 = 0
  BY DEF Even
<1>8. w % 2 = 0 /\ h % 2 = 0
  <2>1. Clamp(w, MinSide, MaxWidth) \in Nat /\ Clamp(h, MinSide, MaxHeight) \in Nat
    BY <1>4, Bounds DEF Clamp
  <2> QED
    BY <1>6, <1>7, <2>1
<1>9. fmt[i].code \in DebCodes
  BY <1>6, FormatAssumption DEF Accepted, DefaultCode
<1>10. Bpp[saved[i]] \in Nat /\ Bpp[saved[i]] \in 1..4
  <2>1. Len(Weight) = 4
    BY DEF Weight
  <2>2. Bpp[saved[i]] \in Nat \ {0}
    BY <1>2, <1>3, FormatAssumption
  <2>3. Bpp[saved[i]] <= 4
    BY <1>2, <1>9, <2>1, TableAssumption
  <2> QED
    BY <2>2, <2>3
<1>11. w * h * 255 < Word
  <2>1. w <= MaxWidth /\ h <= MaxHeight
    BY <1>3 DEF Settled, Formats
  <2>2. w * h <= MaxWidth * MaxHeight
    BY <1>4, <2>1, Bounds, Smaller
  <2>3. PICK n \in Nat, m \in Nat : n = w * h /\ m = MaxWidth * MaxHeight
    BY <1>4, Bounds
  <2>4. n * 255 <= m * 255 /\ m * 255 < Word
    BY <2>2, <2>3 DEF SumsFit
  <2>5. Word \in Nat
    BY FormatAssumption
  <2> QED
    BY <2>3, <2>4, <2>5
<1>12. Word \in Nat /\ w * h * Bpp[saved[i]] <= Word
  <2>1. PICK b \in Nat : b = Bpp[saved[i]]
    BY <1>10
  <2>2. PICK n \in Nat : n = w * h * b
    BY <1>4, <2>1
  <2>3. n < Word /\ Word \in Nat
    BY <1>2, <1>4, <2>1, <2>2, FormatAssumption
  <2> QED
    BY <2>1, <2>2, <2>3
<1> QED
  BY <1>2, <1>4, <1>8, <1>9, <1>10, <1>11, <1>12

LEMMA DebayersKeep ==
    ASSUME NoWrap, SumsFit, MeanWin >= 2, TypeOK, StoredFormatsSettled, PassInv
    PROVE  DebayerKeepsColour
<1> SUFFICES ASSUME phase = "on", NEW i \in Subdev, Kinds[i] = "deb",
                    NEW w, w = fmt[i].width, NEW h, h = fmt[i].height,
                    NEW order, order = Order[saved[i]],
                    NEW bpp, bpp = Bpp[saved[i]],
                    NEW scene \in Scenes
             PROVE  KeepsColour(w, h, bpp, MeanWin, scene, order)
  BY DEF DebayerKeepsColour, KeepsColour
<1>1. /\ w \in Nat /\ h \in Nat /\ w % 2 = 0 /\ h % 2 = 0
      /\ saved[i] \in DebCodes
      /\ bpp \in Nat /\ bpp \in 1..4
      /\ w * h * bpp <= Word /\ w * h * 255 < Word
  BY DebayerStarted
<1>2. \A c \in Colours : scene[c] \in 0..255
  BY TableAssumption
<1>3. \A j, k \in 1..2 : order[j][k] \in Colours
  BY <1>1, TableAssumption
<1>4. \A x \in Colours : \E s \in (1..2) \X (1..2) : order[s[1]][s[2]] = x
  BY <1>1, TableAssumption
<1>5. Word \in Nat /\ MeanWin \in Nat
  BY FormatAssumption, TableAssumption
<1> QED
  BY ONLY <1>1, <1>2, <1>3, <1>4, <1>5, MeanWin >= 2, EvenPictureKeepsColour

\* As long as nobody else sets formats, every debayer of a running stream finds
\* the colours of an evenly coloured picture in all its pixels.
THEOREM DebayersKeepColour ==
    ~Concurrent /\ NoWrap /\ SumsFit /\ MeanWin >= 2 /\ Spec => []DebayerKeepsColour
<1> SUFFICES ASSUME ~Concurrent, NoWrap, SumsFit, MeanWin >= 2
             PROVE  Spec => []DebayerKeepsColour
  OBVIOUS
<1>1. Init => SoloInv /\ PassInv
  BY SoloInvariant, PassInvariant
<1>2. TypeOK /\ SoloInv /\ PassInv /\ [Next]_vars => SoloInv' /\ PassInv'
  BY SoloInvariant, PassInvariant
<1>3. TypeOK /\ StoredFormatsSettled /\ PassInv => DebayerKeepsColour
  BY DebayersKeep
<1> QED BY <1>1, <1>2, <1>3, FormatTypes, FormatsSettle, PTL DEF Spec
=============================================================================
