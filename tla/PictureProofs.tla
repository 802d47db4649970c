--------------------------- MODULE PictureProofs ---------------------------
(***************************************************************************)
(* Picture assembly for every set of pictures that validate accepts: each  *)
(* chunk of the data is gathered once, into its own line, and at every     *)
(* moment the planes hold the samples of the slices decoded so far, each   *)
(* from the pixel that the format's sampling gives it.                     *)
(***************************************************************************)
EXTENDS Picture, OperatorProofs

(* Rounding up: the least number of b that hold a.                         *)
LEMMA CeilDivBounds ==
    ASSUME NEW a \in Nat \ {0}, NEW b \in Nat \ {0}, NEW q, q = CeilDiv(a, b)
    PROVE  q \in Nat \ {0} /\ a <= q * b
<1> DEFINE d == (a + b - 1) \div b
           r == (a + b - 1) % b
<1>1. d \in Int /\ r \in 0 .. b - 1 /\ a + b - 1 = b * d + r
  <2> DEFINE t == a + b - 1
  <2>1. t \in Nat
    OBVIOUS
  <2> HIDE DEF t
  <2>2. t \div b \in Int /\ t % b \in 0 .. b - 1 /\ t = b * (t \div b) + (t % b)
    BY <2>1
  <2> QED
    BY <2>2 DEF t
<1> HIDE DEF d, r
<1>2. a <= b * d
  BY <1>1
<1>3. d <= 0 => b * d <= 0
  BY <1>1
<1>4. d \in Nat \ {0}
  BY <1>1, <1>2, <1>3
<1>5. q = d
  BY DEF CeilDiv, d
<1> QED
  BY <1>1, <1>2, <1>4, <1>5

(* The sizes in slices.                                                    *)
LEMMA SlicesOfPicture ==
    ASSUME cfg \in Pictures, whole \in BOOLEAN
    PROVE  /\ Columns \in Nat \ {0} /\ Rows \in Nat \ {0}
           /\ cfg.slice_height \in Nat \ {0} /\ cfg.slice_width \in Nat \ {0}
           /\ cfg.pic_height \in Nat \ {0} /\ cfg.pic_width \in Nat \ {0}
<1>1. ValidPicture(cfg)
  BY PicturesAssumption
<1>2. /\ cfg.slice_height \in Nat \ {0} /\ cfg.slice_width \in Nat \ {0}
      /\ cfg.pic_height \in Nat \ {0} /\ cfg.pic_width \in Nat \ {0}
  BY <1>1 DEF ValidPicture
<1>3. /\ CeilDiv(cfg.pic_width, cfg.slice_width) \in Nat \ {0}
      /\ CeilDiv(cfg.pic_height, cfg.slice_height) \in Nat \ {0}
  BY <1>2, CeilDivBounds
<1> QED
  BY <1>2, <1>3 DEF Columns, Rows

-----------------------------------------------------------------------------
(* The chunks.                                                             *)

Height == cfg.slice_height
Gathered == IF phase \in {"decode", "put"} THEN Height ELSE y

PictureTypeOK ==
    /\ cfg \in Pictures /\ whole \in BOOLEAN
    /\ phase \in {"start", "gather", "decode", "put", "done"}
    /\ sx \in 0 .. Columns - 1 /\ sy \in 0 .. Rows /\ y \in 0 .. Height - 1
    /\ DOMAIN slice = 0 .. Height - 1
    /\ phase \in {"start", "gather", "decode", "put"} => sy < Rows /\ status = "decoding"
    /\ phase \in {"start", "decode", "put"} => y = 0
    /\ phase = "done" => status # "decoding"
    /\ status = "ok" => sy = Rows /\ sx = 0 /\ y = 0 /\ phase = "done"

(* The chunk of column k in picture line m has been gathered, if the slice *)
(* of column col in the row from line base on, h lines high, has lines.    *)
Read(m, k, base, h, col, lines) ==
    \/ m < base
    \/ m < base + h /\ k < col
    \/ m < base + lines /\ k = col

ReadSoFar(base, h, w, col, lines) ==
    {i \in Nat : \E m \in Nat, k \in 0 .. w - 1 : i = m * w + k /\ Read(m, k, base, h, col, lines)}

ChunksInv ==
    /\ status \in {"decoding", "ok"} =>
         /\ IsFiniteSet(used)
         /\ Cardinality(used) = SlicesDone * Height + Gathered
         /\ used = ReadSoFar(sy * Height, Height, Columns, sx, Gathered)
    /\ phase \in {"gather", "decode"} =>
         \A l \in 0 .. Gathered - 1 : slice[l] = (sy * Height + l) * Columns + sx

PictureInv == PictureTypeOK /\ ChunksInv

(* Quotient and remainder of a natural number.                             *)
LEMMA DivParts ==
    ASSUME NEW i \in Nat, NEW w \in Nat \ {0}
    PROVE  i \div w \in Nat /\ i % w \in 0 .. w - 1 /\ i = (i \div w) * w + (i % w)
<1>1. i \div w \in Int /\ i % w \in 0 .. w - 1 /\ i = w * (i \div w) + (i % w)
  OBVIOUS
<1> DEFINE q == i \div w
           r == i % w
<1>2. q \in Int /\ r \in 0 .. w - 1 /\ i = w * q + r
  BY <1>1
<1> HIDE DEF q, r
<1>3. q <= -1 => w * q <= -w
  BY <1>2
<1>4. w * q = q * w /\ w * q \in Int
  BY <1>2
<1>5. q \in Nat
  BY <1>2, <1>3, <1>4
<1> QED
  BY <1>2, <1>4, <1>5 DEF q, r

(* The counters and sizes are numbers.                                     *)
LEMMA NumbersOfPicture ==
    ASSUME PictureTypeOK
    PROVE  /\ Columns \in Nat \ {0} /\ Rows \in Nat \ {0} /\ Height \in Nat \ {0}
           /\ sx \in Nat /\ sx < Columns /\ sy \in Nat /\ sy <= Rows /\ y \in Nat /\ y < Height
           /\ sy * Height \in Nat /\ SlicesDone \in Nat /\ Gathered \in 0 .. Height
<1>1. Columns \in Nat \ {0} /\ Rows \in Nat \ {0} /\ Height \in Nat \ {0}
  BY SlicesOfPicture DEF PictureTypeOK, Height
<1> DEFINE C == Columns
           R == Rows
           H == Height
<1>2. C \in Nat \ {0} /\ R \in Nat \ {0} /\ H \in Nat \ {0}
  BY <1>1
<1>3. sx \in 0 .. C - 1 /\ sy \in 0 .. R /\ y \in 0 .. H - 1
  BY DEF PictureTypeOK
<1>4. Gathered = H \/ Gathered = y
  BY DEF Gathered
<1>5. SlicesDone = sy * C + sx
  BY DEF SlicesDone
<1> HIDE DEF C, R, H
<1>6. /\ sx \in Nat /\ sx < C /\ sy \in Nat /\ sy <= R /\ y \in Nat /\ y < H
      /\ Gathered \in 0 .. H
  BY <1>2, <1>3, <1>4
<1>7. sy * H \in Nat /\ sy * C + sx \in Nat
  BY <1>2, <1>6
<1> QED
  BY <1>1, <1>5, <1>6, <1>7 DEF C, R, H

(* A chunk belongs to one line and one column.                             *)
LEMMA OneChunk ==
    ASSUME NEW w \in Nat \ {0}, NEW m \in Nat, NEW k \in 0 .. w - 1,
           NEW m2 \in Nat, NEW k2 \in 0 .. w - 1, m * w + k = m2 * w + k2
    PROVE  m = m2 /\ k = k2
<1> DEFINE a == m * w + k
<1>1. a \in Nat /\ a = m * w + k /\ a = m2 * w + k2
  OBVIOUS
<1> HIDE DEF a
<1>2. a \div w = m /\ a % w = k
  BY <1>1, Quotient
<1>3. a \div w = m2 /\ a % w = k2
  BY <1>1, Quotient
<1> QED
  BY <1>2, <1>3

(* One line more is one chunk more.                                        *)
LEMMA OneLineMore ==
    ASSUME NEW w \in Nat \ {0}, NEW h \in Nat, NEW base \in Nat, NEW l \in Nat, l < h,
           NEW c \in 0 .. w - 1, NEW m, m = base + l, NEW i, i = m * w + c,
           NEW more, more = l + 1
    PROVE  /\ ReadSoFar(base, h, w, c, more) = ReadSoFar(base, h, w, c, l) \cup {i}
           /\ i \notin ReadSoFar(base, h, w, c, l)
<1>1. m \in Nat /\ i \in Nat
  OBVIOUS
<1>2. \A n \in Nat, k \in 0 .. w - 1 :
         Read(n, k, base, h, c, more) <=> Read(n, k, base, h, c, l) \/ (n = m /\ k = c)
  BY DEF Read
<1>3. ~Read(m, c, base, h, c, l)
  BY DEF Read
<1>4. ASSUME NEW n \in Nat, NEW k \in 0 .. w - 1, i = n * w + k
      PROVE  n = m /\ k = c
  BY <1>1, <1>4, OneChunk
<1> HIDE DEF Read
<1>5. i \notin ReadSoFar(base, h, w, c, l)
  BY <1>3, <1>4 DEF ReadSoFar
<1>6. \A j : j \in ReadSoFar(base, h, w, c, more) <=> j \in ReadSoFar(base, h, w, c, l) \/ j = i
  <2>1. ASSUME NEW j \in ReadSoFar(base, h, w, c, more)
        PROVE  j \in ReadSoFar(base, h, w, c, l) \/ j = i
    <3>1. PICK n \in Nat, k \in 0 .. w - 1 : j = n * w + k /\ Read(n, k, base, h, c, more)
      BY DEF ReadSoFar
    <3>2. j \in Nat
      BY DEF ReadSoFar
    <3>3. Read(n, k, base, h, c, l) \/ (n = m /\ k = c)
      BY <1>2, <3>1
    <3> QED
      BY <3>1, <3>2, <3>3 DEF ReadSoFar
  <2>2. \A j : j \in ReadSoFar(base, h, w, c, l) => j \in ReadSoFar(base, h, w, c, more)
    BY <1>2 DEF ReadSoFar
  <2>3. i \in ReadSoFar(base, h, w, c, more)
    <3>1. Read(m, c, base, h, c, more)
      BY <1>1, <1>2
    <3> QED
      BY <1>1, <3>1 DEF ReadSoFar
  <2> QED
    BY <2>1, <2>2, <2>3
<1> QED
  BY <1>5, <1>6

(* A slice is done: the next of its row, or the first of the next row.     *)
LEMMA OneSliceMore ==
    ASSUME NEW w \in Nat \ {0}, NEW h \in Nat, NEW base \in Nat, NEW c \in 0 .. w - 1
    PROVE  /\ ReadSoFar(base, h, w, c + 1, 0) = ReadSoFar(base, h, w, c, h)
           /\ c + 1 = w => ReadSoFar(base + h, h, w, 0, 0) = ReadSoFar(base, h, w, c, h)
<1>1. \A n \in Nat, k \in 0 .. w - 1 :
         /\ Read(n, k, base, h, c + 1, 0) <=> Read(n, k, base, h, c, h)
         /\ c + 1 = w => (Read(n, k, base + h, h, 0, 0) <=> Read(n, k, base, h, c, h))
  BY DEF Read
<1> QED
  BY <1>1 DEF ReadSoFar

(* Nothing has been gathered, and n lines of the picture.                  *)
LEMMA WholeLines ==
    ASSUME NEW w \in Nat \ {0}, NEW h \in Nat, NEW n \in Nat
    PROVE  ReadSoFar(n, h, w, 0, 0) = 0 .. n * w - 1
<1>1. \A m \in Nat, k \in 0 .. w - 1 : Read(m, k, n, h, 0, 0) <=> m < n
  BY DEF Read
<1>2. n * w \in Nat
  OBVIOUS
<1>3. ASSUME NEW m \in Nat, NEW k \in 0 .. w - 1, m < n
      PROVE  m * w + k \in 0 .. n * w - 1
  <2>1. (m + 1) * w = m * w + w /\ m * w \in Nat
    OBVIOUS
  <2>2. (m + 1) * w <= n * w
    <3> DEFINE d == n - (m + 1)
    <3>1. d \in Nat
      BY <1>3
    <3>2. d * w \in Nat /\ n * w = (m + 1) * w + d * w
      BY <3>1
    <3>3. (m + 1) * w \in Int
      OBVIOUS
    <3> QED
      BY <3>2, <3>3
  <2> QED
    BY <1>2, <2>1, <2>2
<1>4. ASSUME NEW i \in 0 .. n * w - 1
      PROVE  \E m \in Nat, k \in 0 .. w - 1 : i = m * w + k /\ m < n
  <2>1. i \in Nat /\ i < n * w
    BY <1>2
  <2>2. i \div w \in Nat /\ i % w \in 0 .. w - 1 /\ i = (i \div w) * w + (i % w)
    BY <2>1, DivParts
  <2> DEFINE m == i \div w
             k == i % w
  <2> HIDE DEF m, k
  <2>3. m \in Nat /\ k \in 0 .. w - 1 /\ i = m * w + k
    BY <2>2 DEF m, k
  <2>4. m < n
    <3>1. SUFFICES ASSUME m >= n PROVE FALSE
      BY <2>3
    <3>2. (m - n) * w \in Nat /\ m * w = (m - n) * w + n * w
      BY <2>3, <3>1
    <3> QED
      BY <1>2, <2>1, <2>3, <3>2
  <2> QED
    BY <2>3, <2>4
<1> HIDE DEF Read
<1>5. ASSUME NEW i \in ReadSoFar(n, h, w, 0, 0)
      PROVE  i \in 0 .. n * w - 1
  <2>1. PICK m \in Nat, k \in 0 .. w - 1 : i = m * w + k /\ Read(m, k, n, h, 0, 0)
    BY DEF ReadSoFar
  <2> QED
    BY <1>1, <1>3, <2>1
<1>6. ASSUME NEW i \in 0 .. n * w - 1
      PROVE  i \in ReadSoFar(n, h, w, 0, 0)
  <2>1. PICK m \in Nat, k \in 0 .. w - 1 : i = m * w + k /\ m < n
    BY <1>4
  <2>2. i \in Nat
    BY <1>2
  <2> QED
    BY <1>1, <2>1, <2>2 DEF ReadSoFar
<1> QED
  BY <1>5, <1>6

(* The invariant of the chunks, action by action.                          *)
LEMMA InitPicture == Init => PictureInv
<1> SUFFICES ASSUME Init PROVE PictureInv
  OBVIOUS
<1>1. /\ cfg \in Pictures /\ whole \in BOOLEAN /\ phase = "start" /\ status = "decoding"
      /\ sx = 0 /\ sy = 0 /\ y = 0 /\ used = {} /\ DOMAIN slice = 0 .. Height - 1
  BY DEF Init, Height
<1>2. Columns \in Nat \ {0} /\ Rows \in Nat \ {0} /\ Height \in Nat \ {0}
  BY <1>1, SlicesOfPicture DEF Height
<1>3. PictureTypeOK
  BY <1>1, <1>2 DEF PictureTypeOK
<1>4. IsFiniteSet(used) /\ Cardinality(used) = 0
  BY <1>1, FS_EmptySet
<1>5. Gathered = 0 /\ SlicesDone * Height = 0 /\ sy * Height = 0
  BY <1>1, <1>2 DEF Gathered, SlicesDone
<1>6. ReadSoFar(0, Height, Columns, 0, 0) = {}
  <2> DEFINE w == Columns
             h == Height
  <2>1. w \in Nat \ {0} /\ h \in Nat /\ 0 * w = 0
    BY <1>2
  <2> HIDE DEF w, h
  <2>2. ReadSoFar(0, h, w, 0, 0) = 0 .. 0 * w - 1
    BY <2>1, WholeLines
  <2> QED
    BY <2>1, <2>2 DEF w, h
<1>7. ChunksInv
  BY <1>1, <1>4, <1>5, <1>6 DEF ChunksInv
<1> QED
  BY <1>3, <1>7 DEF PictureInv

(* One line more is gathered.                                              *)
LEMMA GatherKeeps == PictureInv /\ GatherLine => PictureInv'
<1> SUFFICES ASSUME PictureInv, GatherLine PROVE PictureInv'
  OBVIOUS
<1> DEFINE C == Columns
           H == Height
           B == sy * Height
           i == Source
<1>1. PictureTypeOK /\ ChunksInv /\ phase = "gather" /\ status = "decoding"
  BY DEF PictureInv, GatherLine, PictureTypeOK
<1>2. /\ C \in Nat \ {0} /\ Rows \in Nat /\ H \in Nat \ {0} /\ B \in Nat /\ sx \in Nat /\ sx < C
      /\ y \in Nat /\ y < H /\ SlicesDone \in Nat
  BY <1>1, NumbersOfPicture
<1>3. /\ UNCHANGED <<cfg, whole, length, status, sx, sy, out>>
      /\ slice' = [slice EXCEPT ![y] = i] /\ used' = used \cup {i}
      /\ IF y + 1 < H THEN y' = y + 1 /\ phase' = phase ELSE y' = 0 /\ phase' = "decode"
  BY DEF GatherLine, Height
<1>4. Columns' = Columns /\ Rows' = Rows /\ Height' = Height /\ SlicesDone' = SlicesDone
      /\ (sy * Height)' = B
  BY <1>3 DEF Columns, Rows, Height, SlicesDone
<1>5. i = (B + y) * C + sx
  <2>1. i = B * C + y * C + sx
    BY DEF Source, Height
  <2> HIDE DEF B, C, i
  <2> QED
    BY <1>2, <2>1
<1>6. Gathered = y /\ Gathered' = y + 1
  <2>1. Gathered' = IF phase' \in {"decode", "put"} THEN H ELSE y'
    BY <1>4 DEF Gathered
  <2> QED
    BY <1>1, <1>2, <1>3, <2>1 DEF Gathered
<1>7. PictureTypeOK'
  <2>1. y' \in 0 .. H - 1
    BY <1>2, <1>3
  <2>2. DOMAIN slice' = DOMAIN slice
    BY <1>3
  <2> QED
    BY <1>1, <1>3, <1>4, <2>1, <2>2 DEF PictureTypeOK
<1>8. /\ IsFiniteSet(used) /\ Cardinality(used) = SlicesDone * H + y
      /\ used = ReadSoFar(B, H, C, sx, y)
      /\ \A l \in 0 .. y - 1 : slice[l] = (B + l) * C + sx
  BY <1>1, <1>6 DEF ChunksInv
<1> HIDE DEF i
<1>9. ReadSoFar(B, H, C, sx, y + 1) = ReadSoFar(B, H, C, sx, y) \cup {i} /\ i \notin used
  <2> DEFINE m == B + y
  <2> HIDE DEF B, H, C
  <2> DEFINE more == y + 1
  <2>1. m = B + y /\ more = y + 1 /\ i = m * C + sx /\ sx \in 0 .. C - 1 /\ H \in Nat
    BY <1>2, <1>5
  <2> HIDE DEF m, more
  <2>2. /\ C \in Nat \ {0} /\ H \in Nat /\ B \in Nat /\ y \in Nat /\ y < H
        /\ used = ReadSoFar(B, H, C, sx, y)
    BY <1>2, <1>8, <2>1
  <2>3. /\ ReadSoFar(B, H, C, sx, more) = ReadSoFar(B, H, C, sx, y) \cup {i}
        /\ i \notin ReadSoFar(B, H, C, sx, y)
    BY <2>1, <2>2, OneLineMore, SMTT(60)
  <2> QED
    BY <2>2, <2>3 DEF more
<1>11. IsFiniteSet(used') /\ Cardinality(used') = SlicesDone * H + (y + 1)
  <2>1. IsFiniteSet(used') /\ Cardinality(used') = Cardinality(used) + 1
    BY <1>3, <1>8, <1>9, FS_AddElement
  <2> HIDE DEF H
  <2> QED
    BY <1>2, <1>8, <2>1
<1>12. used' = ReadSoFar(B, H, C, sx, y + 1)
  BY <1>3, <1>8, <1>9
<1>13. \A l \in 0 .. y : slice'[l] = (B + l) * C + sx
  <2> TAKE l \in 0 .. y
  <2>1. l \in DOMAIN slice
    BY <1>1, <1>2 DEF PictureTypeOK
  <2>2. CASE l = y
    BY <1>3, <1>5, <2>1, <2>2
  <2>3. CASE l # y
    <3>1. l \in 0 .. y - 1
      BY <1>2, <2>3
    <3> HIDE DEF B, C
    <3> QED
      BY <1>3, <1>8, <2>1, <2>3, <3>1
  <2> QED
    BY <2>2, <2>3
<1>14. ChunksInv'
  <2>1. Gathered' - 1 = y
    BY <1>2, <1>6
  <2>2. /\ status' \in {"decoding", "ok"} =>
             /\ IsFiniteSet(used')
             /\ Cardinality(used') = SlicesDone' * Height' + Gathered'
             /\ used' = ReadSoFar((sy * Height)', Height', Columns', sx', Gathered')
    BY <1>3, <1>4, <1>6, <1>11, <1>12
  <2>3. \A l \in 0 .. Gathered' - 1 : slice'[l] = ((sy * Height)' + l) * Columns' + sx'
    <3> DEFINE D == (sy * Height)'
    <3>1. D = B /\ Columns' = C /\ sx' = sx
      BY <1>3, <1>4
    <3> HIDE DEF B, C, D
    <3>2. \A l \in 0 .. y : slice'[l] = (D + l) * Columns' + sx'
      BY <1>13, <3>1
    <3> QED
      BY <2>1, <3>2 DEF D
  <2> QED
    BY <2>2, <2>3 DEF ChunksInv
<1> QED
  BY <1>7, <1>14 DEF PictureInv

(* What neither gathers nor puts keeps the rest.                           *)
LEMMA QuietPicture ==
    ASSUME PictureInv, UNCHANGED <<cfg, whole, sx, sy, y, slice, used>>,
           \/ phase' = phase /\ status' = status
           \/ phase' = "done" /\ status' \notin {"decoding", "ok"}
           \/ phase = "start" /\ phase' = "gather" /\ status' = status /\ y = 0
           \/ phase = "decode" /\ phase' = "put" /\ status' = status
    PROVE  PictureInv'
<1>1. PictureTypeOK /\ ChunksInv
  BY DEF PictureInv
<1>2. Columns' = Columns /\ Rows' = Rows /\ Height' = Height /\ SlicesDone' = SlicesDone
      /\ sy' * Height' = sy * Height
  BY DEF Columns, Rows, Height, SlicesDone
<1>3. PictureTypeOK'
  BY <1>1, <1>2 DEF PictureTypeOK
<1>4. status' \in {"decoding", "ok"} => Gathered' = Gathered /\ status' = status
  BY <1>2 DEF Gathered
<1>5. /\ phase' \in {"gather", "decode"} => phase' = phase \/ (phase = "start" /\ y = 0)
      /\ status' \in {"decoding", "ok"} \/ phase' \notin {"gather", "decode"}
  BY <1>1, <1>3 DEF PictureTypeOK
<1>6. /\ status' \in {"decoding", "ok"} =>
           /\ IsFiniteSet(used')
           /\ Cardinality(used') = SlicesDone' * Height' + Gathered'
           /\ used' = ReadSoFar(sy' * Height', Height', Columns', sx', Gathered')
  BY <1>1, <1>2, <1>4 DEF ChunksInv
<1>7. phase' \in {"gather", "decode"} =>
          \A l \in 0 .. Gathered' - 1 : slice'[l] = (sy' * Height' + l) * Columns' + sx'
  <2>1. CASE phase' = phase
    BY <1>1, <1>2, <2>1 DEF ChunksInv, Gathered
  <2>2. CASE phase = "start" /\ phase' = "gather" /\ y = 0
    <3>1. Gathered' = 0
      BY <2>2 DEF Gathered
    <3>2. \A l \in 0 .. 0 - 1 : FALSE
      OBVIOUS
    <3> QED
      BY <3>1, <3>2
  <2> QED
    BY <1>5, <2>1, <2>2
<1> QED
  BY <1>3, <1>6, <1>7 DEF PictureInv, ChunksInv

(* The next slice has nothing gathered yet.                                *)
LEMMA PutKeeps == PictureInv /\ PutSlice => PictureInv'
<1> SUFFICES ASSUME PictureInv, PutSlice PROVE PictureInv'
  OBVIOUS
<1> DEFINE C == Columns
           H == Height
           B == sy * Height
<1>1. PictureTypeOK /\ ChunksInv /\ phase = "put" /\ status = "decoding" /\ y = 0 /\ sy < Rows
  BY DEF PictureInv, PutSlice, PictureTypeOK
<1>2. /\ C \in Nat \ {0} /\ Rows \in Nat /\ H \in Nat \ {0} /\ B \in Nat /\ sx \in Nat /\ sx < C
      /\ sy \in Nat
  BY <1>1, NumbersOfPicture
<1>3. /\ UNCHANGED <<cfg, whole, length, y, slice, used>>
      /\ \/ sx + 1 < C /\ sx' = sx + 1 /\ sy' = sy
         \/ ~(sx + 1 < C) /\ sx' = 0 /\ sy' = sy + 1
      /\ \/ sy' < Rows /\ phase' = "gather" /\ status' = status
         \/ ~(sy' < Rows) /\ phase' = "done" /\ status' = "ok"
  BY DEF PutSlice, NextSlice, Continue, Finish
<1>4. Columns' = C /\ Rows' = Rows /\ Height' = H
  BY <1>3 DEF Columns, Rows, Height
<1>5. Gathered = H /\ Gathered' = 0
  BY <1>1, <1>3, <1>4 DEF Gathered
<1>6. IsFiniteSet(used) /\ Cardinality(used) = SlicesDone * H + H /\ used = ReadSoFar(B, H, C, sx, H)
  BY <1>1, <1>5 DEF ChunksInv
<1>7. sx \in 0 .. C - 1 /\ H \in Nat
  BY <1>2
<1>8. /\ sx' \in 0 .. C - 1 /\ sy' \in 0 .. Rows
      /\ ~(sy' < Rows) => sy' = Rows /\ sx' = 0
  <2> HIDE DEF C
  <2> QED
    BY <1>1, <1>2, <1>3
<1>9. SlicesDone' = SlicesDone + 1
  <2>1. SlicesDone = sy * C + sx /\ SlicesDone' = sy' * C + sx'
    BY <1>4 DEF SlicesDone
  <2> HIDE DEF C
  <2> QED
    BY <1>2, <1>3, <2>1
<1>10. (SlicesDone + 1) * H = SlicesDone * H + H
  <2>1. SlicesDone \in Nat
    BY <1>1, NumbersOfPicture
  <2> HIDE DEF H
  <2> QED
    BY <1>2, <2>1
<1>11. used = ReadSoFar(sy' * H, H, C, sx', 0)
  <2>1. CASE sx + 1 < C /\ sx' = sx + 1 /\ sy' = sy
    <3>1. sy' * H = B
      BY <2>1
    <3> HIDE DEF B, C, H
    <3>2. ReadSoFar(B, H, C, sx + 1, 0) = ReadSoFar(B, H, C, sx, H)
      BY <1>2, <1>7, OneSliceMore, SMTT(60)
    <3> QED
      BY <1>6, <2>1, <3>1, <3>2
  <2>2. CASE ~(sx + 1 < C) /\ sx' = 0 /\ sy' = sy + 1
    <3>1. sy' * H = B + H
      <4> HIDE DEF H
      <4>1. (sy + 1) * H = sy * H + H
        BY <1>2
      <4> QED
        BY <2>2, <4>1 DEF H
    <3> HIDE DEF B, C, H
    <3>2. sx + 1 = C
      BY <1>2, <2>2
    <3>3. ReadSoFar(B + H, H, C, 0, 0) = ReadSoFar(B, H, C, sx, H)
      BY <1>2, <1>7, <3>2, OneSliceMore, SMTT(60)
    <3> QED
      BY <1>6, <2>2, <3>1, <3>3
  <2> QED
    BY <1>3, <2>1, <2>2
<1>12. PictureTypeOK'
  <2>1. /\ phase' \in {"gather", "done"}
        /\ phase' = "gather" => sy' < Rows /\ status' = "decoding"
        /\ phase' = "done" => status' = "ok"
        /\ status' = "ok" => phase' = "done" /\ sy' = Rows /\ sx' = 0
    BY <1>1, <1>3, <1>8
  <2> QED
    BY <1>1, <1>3, <1>4, <1>8, <2>1 DEF PictureTypeOK
<1>13. ChunksInv'
  <2>1. /\ IsFiniteSet(used')
        /\ Cardinality(used') = SlicesDone' * Height' + Gathered'
        /\ used' = ReadSoFar(sy' * Height', Height', Columns', sx', Gathered')
    <3>1. used' = used
      BY <1>3
    <3>2. SlicesDone' * H + 0 = Cardinality(used)
      <4> HIDE DEF H
      <4>1. SlicesDone * H \in Nat
        <5>1. SlicesDone \in Nat
          BY <1>1, NumbersOfPicture
        <5> QED
          BY <1>2, <5>1
      <4> QED
        BY <1>2, <1>6, <1>9, <1>10, <4>1
    <3> QED
      BY <1>4, <1>5, <1>6, <1>11, <3>1, <3>2
  <2>2. \A l \in 0 .. Gathered' - 1 : slice'[l] = (sy' * Height' + l) * Columns' + sx'
    <3>1. \A l \in 0 .. 0 - 1 : FALSE
      OBVIOUS
    <3> QED
      BY <1>5, <3>1
  <2> QED
    BY <2>1, <2>2 DEF ChunksInv
<1> QED
  BY <1>12, <1>13 DEF PictureInv

(* Every step keeps the invariant.                                         *)
LEMMA StepPicture == PictureInv /\ [Next]_vars => PictureInv'
<1> SUFFICES ASSUME PictureInv, [Next]_vars PROVE PictureInv'
  OBVIOUS
<1>1. PictureTypeOK
  BY DEF PictureInv
<1>2. CASE Start
  <2>1. phase = "start" /\ y = 0 /\ UNCHANGED <<cfg, whole, sx, sy, y, slice, used>>
    BY <1>1, <1>2 DEF Start, PictureTypeOK
  <2>2. \/ phase' = "done" /\ status' \notin {"decoding", "ok"}
        \/ phase' = "gather" /\ status' = status
    BY <1>2 DEF Start, Finish
  <2> QED
    BY <2>1, <2>2, QuietPicture
<1>3. CASE GatherLine
  BY <1>3, GatherKeeps
<1>4. CASE DecodeSlice
  <2>1. phase = "decode" /\ UNCHANGED <<cfg, whole, sx, sy, y, slice, used>>
    BY <1>4 DEF DecodeSlice
  <2>2. \/ phase' = "done" /\ status' \notin {"decoding", "ok"}
        \/ phase' = "put" /\ status' = status
    BY <1>4 DEF DecodeSlice, Finish
  <2> QED
    BY <2>1, <2>2, QuietPicture
<1>5. CASE PutSlice
  BY <1>5, PutKeeps
<1>6. CASE UNCHANGED vars
  <2>1. UNCHANGED <<cfg, whole, sx, sy, y, slice, used>> /\ phase' = phase /\ status' = status
    BY <1>6 DEF vars
  <2> QED
    BY <2>1, QuietPicture
<1> QED
  BY <1>2, <1>3, <1>4, <1>5, <1>6 DEF Next

(* The counters, the chunks used and the lines of the slice always agree.  *)
LEMMA PictureInvariant == Spec => []PictureInv
<1> QED
  BY InitPicture, StepPicture, PTL DEF Spec

(* The transport order follows from the numbers of the chunks.             *)
LEMMA InvChunksOnce == PictureInv => ChunksOnce
<1> SUFFICES ASSUME PictureInv PROVE ChunksOnce
  OBVIOUS
<1> DEFINE C == Columns
           H == Height
           B == sy * Height
<1>1. PictureTypeOK /\ ChunksInv
  BY DEF PictureInv
<1>2. /\ C \in Nat \ {0} /\ Rows \in Nat /\ H \in Nat \ {0} /\ B \in Nat /\ sx \in Nat /\ sx < C
      /\ sy \in Nat
  BY <1>1, NumbersOfPicture
<1>3. status = "decoding" =>
          Cardinality(used) = SlicesDone * cfg.slice_height
                              + (IF phase \in {"decode", "put"} THEN cfg.slice_height ELSE y)
  BY <1>1 DEF ChunksInv, Gathered, Height
<1>4. phase = "decode" =>
          \A l \in DOMAIN slice : slice[l] % C = sx /\ slice[l] \div C = B + l
  <2> SUFFICES ASSUME phase = "decode", NEW l \in DOMAIN slice
               PROVE  slice[l] % C = sx /\ slice[l] \div C = B + l
    OBVIOUS
  <2>1. l \in 0 .. H - 1 /\ Gathered = H
    BY <1>1 DEF PictureTypeOK, Gathered
  <2>2. slice[l] = (B + l) * C + sx
    BY <1>1, <2>1 DEF ChunksInv
  <2> DEFINE m == B + l
             a == slice[l]
  <2> HIDE DEF B, C, H
  <2>3. m \in Nat /\ a = m * C + sx /\ sx \in 0 .. C - 1
    BY <1>2, <2>1, <2>2
  <2> HIDE DEF m, a
  <2>4. a \in Nat
    BY <1>2, <2>3
  <2>5. a \div C = m /\ a % C = sx
    BY <1>2, <2>3, <2>4, Quotient
  <2> QED
    BY <2>5 DEF m, a
<1>5. status = "ok" => used = 0 .. C * Rows * H - 1
  <2> SUFFICES ASSUME status = "ok" PROVE used = 0 .. C * Rows * H - 1
    OBVIOUS
  <2>1. sy = Rows /\ sx = 0 /\ Gathered = 0
    BY <1>1 DEF PictureTypeOK, Gathered
  <2>2. used = ReadSoFar(B, H, C, 0, 0)
    BY <1>1, <2>1 DEF ChunksInv
  <2>3. B = Rows * H
    BY <2>1
  <2> HIDE DEF B, C, H
  <2>4. ReadSoFar(B, H, C, 0, 0) = 0 .. B * C - 1
    BY <1>2, WholeLines
  <2>5. B * C = C * Rows * H
    BY <1>2, <2>3
  <2> QED
    BY <2>2, <2>4, <2>5
<1> QED
  BY <1>3, <1>4, <1>5 DEF ChunksOnce, Height

(* decode_picture: every chunk of the data is copied once, into the line   *)
(* and the slice that the transport order gives it to.                     *)
THEOREM EveryChunkOnce == Spec => []ChunksOnce
<1> QED
  BY InvChunksOnce, PictureInvariant, PTL

-----------------------------------------------------------------------------
(* The samples.                                                            *)

LumaX(p, px)  == IF p > 0 /\ HalfWidth THEN 2 * px ELSE px
Line(p, py)   == IF cfg.format = "native_420" /\ p > 0 THEN 2 * py + (p - 1) ELSE py
Across(i)     == IF Native THEN i \div 2 ELSE i
UnitOf(p, i)  == IF p = 0 THEN (IF Native /\ i % 2 = 1 THEN OddLumaUnit ELSE 0)
                 ELSE IF cfg.format = "native_420" THEN 2 ELSE p

(* The sample of plane p at (px, py), from its origin.                     *)
Placed(p, px, py) == Sample(p, px, py, SampleOrigin(p, px, py))

(* A number is in the slice from q * w on if its quotient is q.            *)
InSlice(a, w, q, from) == /\ a \div w = q <=> from <= a /\ a < from + w
                          /\ a \div w = q => a % w = a - from

LEMMA Within ==
    ASSUME NEW a \in Nat, NEW w \in Nat \ {0}, NEW q \in Nat, NEW from, from = q * w
    PROVE  InSlice(a, w, q, from)
<1>1. from \in Nat
  OBVIOUS
<1>2. a \div w \in Nat /\ a % w \in 0 .. w - 1 /\ a = (a \div w) * w + (a % w)
  BY DivParts
<1>3. ASSUME a \div w = q
      PROVE  from <= a /\ a < from + w /\ a % w = a - from
  <2> DEFINE r == a % w
  <2>1. r \in 0 .. w - 1 /\ a = from + r
    BY <1>2, <1>3
  <2> HIDE DEF r
  <2>2. from <= a /\ a < from + w /\ r = a - from
    BY <1>1, <2>1
  <2> QED
    BY <2>2 DEF r
<1>4. ASSUME from <= a, a < from + w
      PROVE  a \div w = q
  <2> DEFINE k == a - from
  <2>1. k \in 0 .. w - 1 /\ a = q * w + k
    BY <1>1, <1>4
  <2> HIDE DEF k
  <2> QED
    BY <2>1, Quotient
<1> QED
  BY <1>3, <1>4 DEF InSlice

(* What validate leaves of a format.                                       *)
LEMMA FormatFacts ==
    ASSUME cfg \in Pictures
    PROVE  /\ cfg.slice_width \in Nat \ {0} /\ cfg.slice_height \in Nat \ {0}
           /\ cfg.format \in {"rgb", "444", "simple_422", "native_422", "native_420"}
           /\ HalfWidth => cfg.slice_width % 2 = 0
           /\ cfg.format = "native_420" => cfg.slice_height % 2 = 0
           /\ Native <=> cfg.format \in {"native_422", "native_420"}
           /\ HalfWidth <=> cfg.format \in {"simple_422", "native_422", "native_420"}
<1>1. ValidPicture(cfg)
  BY PicturesAssumption
<1> QED
  BY <1>1 DEF ValidPicture, Native, HalfWidth

(* A multiple of an even number is even.                                   *)
LEMMA EvenMultiple ==
    ASSUME NEW q \in Nat, NEW w \in Nat, w % 2 = 0
    PROVE  (q * w) % 2 = 0
<1> DEFINE v == w \div 2
<1>1. v \in Nat /\ w = 2 * v
  OBVIOUS
<1> HIDE DEF v
<1>2. q * v \in Nat /\ q * w = 2 * (q * v)
  BY <1>1
<1> DEFINE t == q * v
<1>3. t \in Nat /\ q * w = 2 * t
  BY <1>2
<1> HIDE DEF t
<1>4. (2 * t) % 2 = 0
  BY <1>3
<1> QED
  BY <1>3, <1>4

(* The sample of plane p at pixel a of line b, with origin o, comes from   *)
(* the slice (sx, sy) if it lies there, and from this pixel of the slice.  *)
FromHere(p, a, b, o) ==
    /\ a \in Nat /\ b \in Nat
    /\ (o.sx = sx /\ o.sy = sy) <=> /\ X0 <= a /\ a < X0 + cfg.slice_width
                                    /\ Y0 <= b /\ b < Y0 + cfg.slice_height
    /\ o.sx = sx /\ o.sy = sy => o = Origin(Across(a - X0), b - Y0, UnitOf(p, a - X0))

LEMMA OriginHere ==
    ASSUME cfg \in Pictures, sx \in Nat, sy \in Nat,
           NEW p \in 0 .. 2, NEW px \in Nat, NEW py \in Nat,
           NEW a, a = LumaX(p, px), NEW b, b = Line(p, py), NEW o, o = SampleOrigin(p, px, py)
    PROVE  FromHere(p, a, b, o)
<1> DEFINE w == cfg.slice_width
           h == cfg.slice_height
<1>1. a \in Nat /\ b \in Nat
  BY DEF LumaX, Line
<1>2. w \in Nat \ {0} /\ h \in Nat \ {0}
  BY FormatFacts
<1>3. o = [sx |-> a \div w, sy |-> b \div h, x |-> Across(a % w), y |-> b % h,
           unit |-> UnitOf(p, a % w)]
  BY DEF SampleOrigin, LumaX, Line, Across, UnitOf
<1>4. X0 = sx * w /\ Y0 = sy * h
  BY DEF X0, Y0
<1> HIDE DEF w, h
<1> DEFINE f == X0
           g == Y0
<1> HIDE DEF f, g
<1>8. f = sx * w /\ g = sy * h /\ sx \in Nat /\ sy \in Nat
  BY <1>4 DEF f, g
<1>9. InSlice(a, w, sx, f)
  BY <1>1, <1>2, <1>8, Within
<1>10. InSlice(b, h, sy, g)
  BY <1>1, <1>2, <1>8, Within
<1>5. /\ a \div w = sx <=> X0 <= a /\ a < X0 + w
      /\ a \div w = sx => a % w = a - X0
      /\ b \div h = sy <=> Y0 <= b /\ b < Y0 + h
      /\ b \div h = sy => b % h = b - Y0
  BY <1>9, <1>10 DEF f, g, InSlice
<1>6. o.sx = a \div w /\ o.sy = b \div h
  BY <1>3
<1>7. ASSUME a \div w = sx, b \div h = sy
      PROVE  o = Origin(Across(a - X0), b - Y0, UnitOf(p, a - X0))
  BY <1>3, <1>5, <1>7 DEF Origin
<1> QED
  BY <1>1, <1>5, <1>6, <1>7 DEF w, h, FromHere

-----------------------------------------------------------------------------
(* The writes.                                                             *)

Writes(x, l) == IF Native THEN NativeWrites(x, l) ELSE PlainWrites(x, l)

(* s is the sample of plane p at (px, py) and comes from pixel x of line l *)
(* of the coded slice at (sx, sy).                                         *)
FromPixel(s, p, px, py, x, l) ==
    \E i \in 0 .. cfg.slice_width - 1 :
        /\ LumaX(p, px) = X0 + i /\ Across(i) = x
        /\ Line(p, py) = Y0 + l
        /\ s = Sample(p, px, py, Origin(x, l, UnitOf(p, i)))

(* Halves of numbers.                                                      *)
LEMMA Halves ==
    ASSUME NEW n \in Nat
    PROVE  /\ n \div 2 \in Nat /\ n % 2 \in {0, 1} /\ n = 2 * (n \div 2) + (n % 2)
           /\ (2 * n) \div 2 = n /\ (2 * n) % 2 = 0
           /\ (2 * n + 1) \div 2 = n /\ (2 * n + 1) % 2 = 1
<1>1. /\ n \div 2 \in Nat /\ n % 2 \in {0, 1} /\ n = 2 * (n \div 2) + (n % 2)
  <2> DEFINE q == n \div 2
             r == n % 2
             b == 2
  <2>1. b \in Nat \ {0}
    OBVIOUS
  <2> HIDE DEF b
  <2>2. n \div b \in Nat /\ n % b \in 0 .. b - 1 /\ n = (n \div b) * b + (n % b)
    BY <2>1, DivParts
  <2>3. q \in Nat /\ r \in 0 .. 1 /\ n = q * 2 + r
    BY <2>2 DEF b
  <2> HIDE DEF q, r
  <2>4. q \in Nat /\ r \in {0, 1} /\ n = 2 * q + r
    BY <2>3
  <2> QED
    BY <2>4 DEF q, r
<1>2. (2 * n) \div 2 = n /\ (2 * n) % 2 = 0
  OBVIOUS
<1>3. (2 * n + 1) \div 2 = n /\ (2 * n + 1) % 2 = 1
  OBVIOUS
<1> QED
  BY <1>1, <1>2, <1>3

(* Where a slice starts.                                                   *)
LEMMA StartOfSlice ==
    ASSUME cfg \in Pictures, sx \in Nat, sy \in Nat
    PROVE  /\ X0 \in Nat /\ Y0 \in Nat
           /\ HalfWidth => /\ X0 \div 2 \in Nat /\ X0 = 2 * (X0 \div 2)
                           /\ cfg.slice_width \div 2 \in Nat
                           /\ cfg.slice_width = 2 * (cfg.slice_width \div 2)
<1>1. /\ cfg.slice_width \in Nat \ {0} /\ cfg.slice_height \in Nat \ {0}
      /\ HalfWidth => cfg.slice_width % 2 = 0
  BY FormatFacts
<1> DEFINE w == cfg.slice_width
           h == cfg.slice_height
           X == X0
           Y == Y0
<1>2. X = sx * w /\ Y = sy * h
  BY DEF X0, Y0
<1>3. w \in Nat /\ h \in Nat /\ (HalfWidth => w % 2 = 0)
  BY <1>1
<1> HIDE DEF w, h, X, Y
<1>4. X \in Nat /\ Y \in Nat
  BY <1>2, <1>3
<1>5. HalfWidth => X % 2 = 0
  BY <1>2, <1>3, EvenMultiple
<1>6. HalfWidth => X \div 2 \in Nat /\ X = 2 * (X \div 2)
  BY <1>4, <1>5
<1>7. HalfWidth => w \div 2 \in Nat /\ w = 2 * (w \div 2)
  BY <1>3
<1> QED
  BY <1>4, <1>6, <1>7 DEF w, X, Y

(* One sample to a plane for each pixel.                                   *)
LEMMA FullWrites ==
    ASSUME cfg \in Pictures, sx \in Nat, sy \in Nat, cfg.format \in {"rgb", "444"},
           NEW s, NEW x, NEW l
    PROVE  (x \in 0 .. CodedWidth - 1 /\ l \in 0 .. cfg.slice_height - 1 /\ s \in Writes(x, l)) <=>
           (\E p \in Planes, px \in Nat, py \in Nat :
               l \in 0 .. cfg.slice_height - 1 /\ FromPixel(s, p, px, py, x, l))
<1> DEFINE w == cfg.slice_width
           h == cfg.slice_height
           X == X0
           Y == Y0
<1>1. X \in Nat /\ Y \in Nat /\ w \in Nat \ {0} /\ h \in Nat \ {0}
  BY StartOfSlice, FormatFacts
<1>2. /\ ~Native /\ ~HalfWidth /\ cfg.format \notin {"simple_422", "native_422", "native_420"}
      /\ CodedWidth = w
      /\ 0 \in Planes /\ \A p \in Planes : p \in Nat
  BY DEF Native, HalfWidth, CodedWidth, Planes
<1>3. Writes(x, l) = {Sample(0, X + x, Y + l, Origin(x, l, 0))}
                     \cup {Sample(p, X + x, Y + l, Origin(x, l, p)) : p \in Planes \ {0}}
  BY <1>2 DEF Writes, PlainWrites
<1>4. \A p \in Planes : \A px, py, i :
         LumaX(p, px) = px /\ Line(p, py) = py /\ Across(i) = i /\ UnitOf(p, i) = p
  BY <1>2 DEF LumaX, Line, Across, UnitOf
<1>5. \A p \in Planes : \A px, py :
         FromPixel(s, p, px, py, x, l) <=>
            \E i \in 0 .. w - 1 : /\ px = X + i /\ i = x /\ py = Y + l
                                  /\ s = Sample(p, px, py, Origin(x, l, p))
  BY <1>4 DEF FromPixel
<1> HIDE DEF w, h, X, Y
<1>6. ASSUME x \in 0 .. CodedWidth - 1, l \in 0 .. h - 1, s \in Writes(x, l)
      PROVE  \E p \in Planes, px \in Nat, py \in Nat : FromPixel(s, p, px, py, x, l)
  <2>1. PICK p \in Planes : s = Sample(p, X + x, Y + l, Origin(x, l, p))
    BY <1>2, <1>3, <1>6
  <2>2. X + x \in Nat /\ Y + l \in Nat /\ x \in 0 .. w - 1
    BY <1>1, <1>2, <1>6
  <2>3. FromPixel(s, p, X + x, Y + l, x, l)
    BY <1>5, <2>1, <2>2
  <2> QED
    BY <2>2, <2>3
<1>7. ASSUME NEW p \in Planes, NEW px \in Nat, NEW py \in Nat, FromPixel(s, p, px, py, x, l)
      PROVE  x \in 0 .. CodedWidth - 1 /\ s \in Writes(x, l)
  <2>1. /\ x \in 0 .. w - 1 /\ px = X + x /\ py = Y + l
        /\ s = Sample(p, px, py, Origin(x, l, p))
    BY <1>5, <1>7
  <2> QED
    BY <1>2, <1>3, <2>1
<1> QED
  BY <1>6, <1>7 DEF h

(* Chroma on the even positions.                                           *)
LEMMA SimpleWrites ==
    ASSUME cfg \in Pictures, sx \in Nat, sy \in Nat, cfg.format = "simple_422",
           NEW s, NEW x, NEW l
    PROVE  (x \in 0 .. CodedWidth - 1 /\ l \in 0 .. cfg.slice_height - 1 /\ s \in Writes(x, l)) <=>
           (\E p \in Planes, px \in Nat, py \in Nat :
               l \in 0 .. cfg.slice_height - 1 /\ FromPixel(s, p, px, py, x, l))
<1> DEFINE w == cfg.slice_width
           h == cfg.slice_height
           X == X0
           Y == Y0
<1>1. X \in Nat /\ Y \in Nat /\ w \in Nat \ {0} /\ h \in Nat \ {0}
  BY StartOfSlice, FormatFacts
<1>2. /\ ~Native /\ HalfWidth /\ cfg.format # "native_420"
      /\ CodedWidth = w /\ Planes = {0, 1, 2}
  BY DEF Native, HalfWidth, CodedWidth, Planes
<1>3. Writes(x, l) = {Sample(0, X + x, Y + l, Origin(x, l, 0))}
                     \cup IF (X + x) % 2 = 0
                          THEN {Sample(p, (X + x) \div 2, Y + l, Origin(x, l, p)) : p \in 1 .. 2}
                          ELSE {}
  BY <1>2 DEF Writes, PlainWrites
<1>4. \A p \in Planes : \A px, py, i :
         /\ LumaX(p, px) = (IF p = 0 THEN px ELSE 2 * px)
         /\ Line(p, py) = py /\ Across(i) = i /\ UnitOf(p, i) = p
  BY <1>2 DEF LumaX, Line, Across, UnitOf
<1>5. \A p \in Planes : \A px, py :
         FromPixel(s, p, px, py, x, l) <=>
            \E i \in 0 .. w - 1 : /\ (IF p = 0 THEN px ELSE 2 * px) = X + i /\ i = x /\ py = Y + l
                                  /\ s = Sample(p, px, py, Origin(x, l, p))
  BY <1>4 DEF FromPixel
<1> HIDE DEF w, h, X, Y
<1>6. ASSUME x \in 0 .. CodedWidth - 1, l \in 0 .. h - 1, s \in Writes(x, l)
      PROVE  \E p \in Planes, px \in Nat, py \in Nat : FromPixel(s, p, px, py, x, l)
  <2>1. X + x \in Nat /\ Y + l \in Nat /\ x \in 0 .. w - 1
    BY <1>1, <1>2, <1>6
  <2>2. CASE s = Sample(0, X + x, Y + l, Origin(x, l, 0))
    <3>1. FromPixel(s, 0, X + x, Y + l, x, l)
      BY <1>2, <1>5, <2>1, <2>2
    <3> QED
      BY <1>2, <2>1, <3>1
  <2>3. CASE (X + x) % 2 = 0 /\ \E p \in 1 .. 2 : s = Sample(p, (X + x) \div 2, Y + l, Origin(x, l, p))
    <3>1. PICK p \in 1 .. 2 : s = Sample(p, (X + x) \div 2, Y + l, Origin(x, l, p))
      BY <2>3
    <3> DEFINE c == (X + x) \div 2
    <3>2. c \in Nat /\ 2 * c = X + x
      <4> DEFINE n == X + x
      <4>1. n \in Nat /\ n % 2 = 0
        BY <2>1, <2>3
      <4> HIDE DEF n
      <4>2. n \div 2 \in Nat /\ n = 2 * (n \div 2)
        BY <4>1, Halves
      <4> QED
        BY <4>2 DEF n
    <3> HIDE DEF c
    <3>3. s = Sample(p, c, Y + l, Origin(x, l, p)) /\ p \in Planes /\ p # 0
      BY <1>2, <3>1 DEF c
    <3>4. FromPixel(s, p, c, Y + l, x, l)
      BY <1>5, <2>1, <3>2, <3>3
    <3> QED
      BY <2>1, <3>2, <3>3, <3>4
  <2> QED
    BY <1>3, <1>6, <2>2, <2>3
<1>7. ASSUME NEW p \in Planes, NEW px \in Nat, NEW py \in Nat, FromPixel(s, p, px, py, x, l)
      PROVE  x \in 0 .. CodedWidth - 1 /\ s \in Writes(x, l)
  <2>1. /\ x \in 0 .. w - 1 /\ (IF p = 0 THEN px ELSE 2 * px) = X + x /\ py = Y + l
        /\ s = Sample(p, px, py, Origin(x, l, p))
    BY <1>5, <1>7
  <2>2. CASE p = 0
    BY <1>2, <1>3, <2>1, <2>2
  <2>3. CASE p # 0
    <3>1. p \in 1 .. 2
      BY <1>2, <2>3
    <3>2. (2 * px) \div 2 = px /\ (2 * px) % 2 = 0
      BY Halves
    <3>3. (X + x) \div 2 = px /\ (X + x) % 2 = 0
      BY <2>1, <2>3, <3>2
    <3>4. s = Sample(p, (X + x) \div 2, Y + l, Origin(x, l, p))
      BY <2>1, <3>3
    <3> QED
      BY <1>2, <1>3, <2>1, <3>1, <3>3, <3>4
  <2> QED
    BY <2>2, <2>3
<1> QED
  BY <1>6, <1>7 DEF h

(* Two luma samples to a pixel, and the chroma between them.               *)
LEMMA NativeSamples ==
    ASSUME cfg \in Pictures, sx \in Nat, sy \in Nat, Native,
           NEW s, NEW x, NEW l
    PROVE  (x \in 0 .. CodedWidth - 1 /\ l \in 0 .. cfg.slice_height - 1 /\ s \in Writes(x, l)) <=>
           (\E p \in Planes, px \in Nat, py \in Nat :
               l \in 0 .. cfg.slice_height - 1 /\ FromPixel(s, p, px, py, x, l))
<1> DEFINE w == cfg.slice_width
           h == cfg.slice_height
           X == X0
           Y == Y0
           C == X0 \div 2
           v == cfg.slice_width \div 2
           Odd == OddLumaUnit
           is420 == cfg.format = "native_420"
<1>1. /\ X \in Nat /\ Y \in Nat /\ w \in Nat \ {0} /\ h \in Nat \ {0}
      /\ C \in Nat /\ X = 2 * C /\ v \in Nat /\ w = 2 * v
  BY StartOfSlice, FormatFacts DEF HalfWidth
<1>2. /\ HalfWidth /\ CodedWidth = v /\ Planes = {0, 1, 2}
      /\ ~is420 => cfg.format = "native_422"
      /\ is420 => cfg.format # "native_422"
  BY DEF Native, HalfWidth, CodedWidth, Planes
<1>3. Writes(x, l) =
         {Sample(0, X + 2 * x, Y + l, Origin(x, l, 0)),
          Sample(0, X + 2 * x + 1, Y + l, Origin(x, l, Odd))}
         \cup IF ~is420 THEN {Sample(p, C + x, Y + l, Origin(x, l, p)) : p \in 1 .. 2}
              ELSE {Sample(IF (Y + l) % 2 = 1 THEN 2 ELSE 1, C + x, (Y + l) \div 2, Origin(x, l, 2))}
  BY <1>2 DEF Writes, NativeWrites
<1>4. /\ \A px, py, i : /\ LumaX(0, px) = px /\ Line(0, py) = py
                        /\ UnitOf(0, i) = (IF i % 2 = 1 THEN Odd ELSE 0)
      /\ \A p \in 1 .. 2 : \A px, py, i :
            /\ LumaX(p, px) = 2 * px
            /\ Line(p, py) = (IF is420 THEN 2 * py + (p - 1) ELSE py)
            /\ UnitOf(p, i) = (IF is420 THEN 2 ELSE p)
      /\ \A i : Across(i) = i \div 2
  BY <1>2 DEF LumaX, Line, Across, UnitOf
<1>5. /\ \A px, py :
            FromPixel(s, 0, px, py, x, l) <=>
              \E i \in 0 .. w - 1 :
                 /\ px = X + i /\ i \div 2 = x /\ py = Y + l
                 /\ s = Sample(0, px, py, Origin(x, l, IF i % 2 = 1 THEN Odd ELSE 0))
      /\ \A p \in 1 .. 2 : \A px, py :
            FromPixel(s, p, px, py, x, l) <=>
              \E i \in 0 .. w - 1 :
                 /\ 2 * px = X + i /\ i \div 2 = x
                 /\ (IF is420 THEN 2 * py + (p - 1) ELSE py) = Y + l
                 /\ s = Sample(p, px, py, Origin(x, l, IF is420 THEN 2 ELSE p))
  BY <1>4 DEF FromPixel
<1> HIDE DEF w, h, X, Y, C, v, Odd, is420
<1>6. ASSUME x \in 0 .. CodedWidth - 1, l \in 0 .. h - 1, s \in Writes(x, l)
      PROVE  \E p \in Planes, px \in Nat, py \in Nat : FromPixel(s, p, px, py, x, l)
  <2> DEFINE i == 2 * x
             c == C + x
             b == Y + l
  <2>1. /\ x \in Nat /\ i \in 0 .. w - 1 /\ i + 1 \in 0 .. w - 1
        /\ X + i \in Nat /\ c \in Nat /\ b \in Nat /\ 2 * c = X + i
    BY <1>1, <1>2, <1>6
  <2>2. i \div 2 = x /\ i % 2 = 0 /\ (i + 1) \div 2 = x /\ (i + 1) % 2 = 1
    BY <2>1, Halves
  <2>3. \/ s = Sample(0, X + i, b, Origin(x, l, 0))
        \/ s = Sample(0, X + i + 1, b, Origin(x, l, Odd))
        \/ ~is420 /\ \E p \in 1 .. 2 : s = Sample(p, c, b, Origin(x, l, p))
        \/ is420 /\ s = Sample(IF b % 2 = 1 THEN 2 ELSE 1, c, b \div 2, Origin(x, l, 2))
    BY <1>3, <1>6
  <2>4. b = Y + l
    OBVIOUS
  <2> HIDE DEF i, c, b
  <2>5. CASE s = Sample(0, X + i, b, Origin(x, l, 0))
    <3>1. FromPixel(s, 0, X + i, b, x, l)
      BY <1>5, <2>1, <2>2, <2>4, <2>5
    <3> QED
      BY <1>2, <2>1, <3>1
  <2>6. CASE s = Sample(0, X + i + 1, b, Origin(x, l, Odd))
    <3> DEFINE j == i + 1
               px == X + j
    <3>1. j \in 0 .. w - 1 /\ j \div 2 = x /\ j % 2 = 1
      BY <2>1, <2>2
    <3>2. px = X + j /\ px \in Nat /\ px = X + i + 1
      BY <1>1, <2>1
    <3> HIDE DEF j, px
    <3>3. s = Sample(0, px, b, Origin(x, l, Odd))
      BY <2>6, <3>2
    <3>4. FromPixel(s, 0, px, b, x, l)
      BY <1>5, <2>4, <3>1, <3>2, <3>3
    <3> QED
      BY <1>2, <2>1, <3>2, <3>4
  <2>7. CASE ~is420 /\ \E p \in 1 .. 2 : s = Sample(p, c, b, Origin(x, l, p))
    <3>1. PICK p \in 1 .. 2 : s = Sample(p, c, b, Origin(x, l, p))
      BY <2>7
    <3>2. FromPixel(s, p, c, b, x, l)
      BY <1>5, <2>1, <2>2, <2>4, <2>7, <3>1
    <3> QED
      BY <1>2, <2>1, <3>2
  <2>8. CASE is420 /\ s = Sample(IF b % 2 = 1 THEN 2 ELSE 1, c, b \div 2, Origin(x, l, 2))
    <3> DEFINE p == IF b % 2 = 1 THEN 2 ELSE 1
               q == b \div 2
    <3>1. p \in 1 .. 2 /\ q \in Nat /\ 2 * q + (p - 1) = b
      <4>1. q \in Nat /\ b % 2 \in {0, 1} /\ b = 2 * q + (b % 2)
        BY <2>1, Halves
      <4> HIDE DEF q
      <4>2. CASE b % 2 = 1
        <5>1. p = 2 /\ b = 2 * q + 1
          BY <4>1, <4>2
        <5> HIDE DEF p
        <5> QED
          BY <4>1, <5>1
      <4>3. CASE b % 2 = 0
        <5>1. p = 1 /\ b = 2 * q
          BY <4>1, <4>3
        <5> HIDE DEF p
        <5> QED
          BY <4>1, <5>1
      <4> QED
        BY <4>1, <4>2, <4>3
    <3>2. s = Sample(p, c, q, Origin(x, l, 2))
      BY <2>8
    <3> HIDE DEF p, q
    <3>3. FromPixel(s, p, c, q, x, l)
      BY <1>5, <2>1, <2>2, <2>4, <2>8, <3>1, <3>2
    <3> QED
      BY <1>2, <2>1, <3>1, <3>3
  <2> QED
    BY <2>3, <2>5, <2>6, <2>7, <2>8
<1>7. ASSUME NEW p \in Planes, NEW px \in Nat, NEW py \in Nat, FromPixel(s, p, px, py, x, l)
      PROVE  x \in 0 .. CodedWidth - 1 /\ s \in Writes(x, l)
  <2>1. \A i \in 0 .. w - 1 : i \div 2 = x =>
            /\ x \in 0 .. v - 1 /\ i % 2 \in {0, 1} /\ i = 2 * x + (i % 2)
    <3> SUFFICES ASSUME NEW i \in 0 .. w - 1, i \div 2 = x
                 PROVE  x \in 0 .. v - 1 /\ i % 2 \in {0, 1} /\ i = 2 * x + (i % 2)
      OBVIOUS
    <3>1. i \in Nat
      OBVIOUS
    <3>2. x \in Nat /\ i % 2 \in {0, 1} /\ i = 2 * x + (i % 2)
      BY <3>1, Halves
    <3> QED
      BY <1>1, <3>2
  <2>2. CASE p = 0
    <3>1. PICK i \in 0 .. w - 1 :
              /\ px = X + i /\ i \div 2 = x /\ py = Y + l
              /\ s = Sample(0, px, py, Origin(x, l, IF i % 2 = 1 THEN Odd ELSE 0))
      BY <1>5, <1>7, <2>2
    <3>2. x \in 0 .. v - 1 /\ i % 2 \in {0, 1} /\ i = 2 * x + (i % 2)
      BY <2>1, <3>1
    <3>3. CASE i % 2 = 0
      <4>1. px = X + 2 * x
        BY <1>1, <3>1, <3>2, <3>3
      <4>2. s = Sample(0, X + 2 * x, Y + l, Origin(x, l, 0))
        BY <3>1, <3>3, <4>1
      <4> QED
        BY <1>2, <1>3, <3>2, <4>2
    <3>4. CASE i % 2 = 1
      <4>1. px = X + 2 * x + 1
        BY <1>1, <3>1, <3>2, <3>4
      <4>2. s = Sample(0, X + 2 * x + 1, Y + l, Origin(x, l, Odd))
        BY <3>1, <3>4, <4>1
      <4> QED
        BY <1>2, <1>3, <3>2, <4>2
    <3> QED
      BY <3>2, <3>3, <3>4
  <2>3. CASE p \in 1 .. 2
    <3>1. PICK i \in 0 .. w - 1 :
              /\ 2 * px = X + i /\ i \div 2 = x
              /\ (IF is420 THEN 2 * py + (p - 1) ELSE py) = Y + l
              /\ s = Sample(p, px, py, Origin(x, l, IF is420 THEN 2 ELSE p))
      BY <1>5, <1>7, <2>3
    <3>2. x \in 0 .. v - 1 /\ i % 2 \in {0, 1} /\ i = 2 * x + (i % 2)
      BY <2>1, <3>1
    <3>3. px = C + x
      BY <1>1, <3>1, <3>2
    <3>4. CASE ~is420
      BY <1>2, <1>3, <2>3, <3>1, <3>2, <3>3, <3>4
    <3>5. CASE is420
      <4>1. (2 * py) \div 2 = py /\ (2 * py) % 2 = 0 /\ (2 * py + 1) \div 2 = py /\ (2 * py + 1) % 2 = 1
        BY Halves
      <4>2. p = (IF (Y + l) % 2 = 1 THEN 2 ELSE 1) /\ py = (Y + l) \div 2
        <5>1. CASE p = 1
          <6>1. Y + l = 2 * py
            BY <3>1, <3>5, <5>1
          <6> QED
            BY <4>1, <5>1, <6>1
        <5>2. CASE p = 2
          <6>1. Y + l = 2 * py + 1
            BY <3>1, <3>5, <5>2
          <6> QED
            BY <4>1, <5>2, <6>1
        <5> QED
          BY <2>3, <5>1, <5>2
      <4>3. s = Sample(p, px, py, Origin(x, l, 2))
        BY <3>1, <3>5
      <4> QED
        BY <1>2, <1>3, <3>2, <3>3, <3>5, <4>2, <4>3
    <3> QED
      BY <3>4, <3>5
  <2> QED
    BY <1>2, <2>2, <2>3
<1> QED
  BY <1>6, <1>7 DEF h

(* The writes of a slice are the samples with an origin in it.             *)
LEMMA WritesOfSlice ==
    ASSUME cfg \in Pictures, sx \in Nat, sy \in Nat, NEW s
    PROVE  (\E x \in 0 .. CodedWidth - 1, l \in 0 .. cfg.slice_height - 1 : s \in Writes(x, l)) <=>
           (\E p \in Planes, px \in Nat, py \in Nat :
               s = Placed(p, px, py) /\ s.from.sx = sx /\ s.from.sy = sy)
<1> DEFINE w == cfg.slice_width
           h == cfg.slice_height
           X == X0
           Y == Y0
<1>1. X \in Nat /\ Y \in Nat /\ w \in Nat \ {0} /\ h \in Nat \ {0}
  BY StartOfSlice, FormatFacts
<1>2. \A p \in Planes : p \in 0 .. 2
  BY DEF Planes
<1>3. ASSUME NEW x, NEW l
      PROVE  (x \in 0 .. CodedWidth - 1 /\ l \in 0 .. h - 1 /\ s \in Writes(x, l)) <=>
             (\E p \in Planes, px \in Nat, py \in Nat :
                 l \in 0 .. h - 1 /\ FromPixel(s, p, px, py, x, l))
  <2>1. CASE cfg.format \in {"rgb", "444"}
    BY <2>1, FullWrites
  <2>2. CASE cfg.format = "simple_422"
    BY <2>2, SimpleWrites
  <2>3. CASE Native
    BY <2>3, NativeSamples
  <2> QED
    BY <2>1, <2>2, <2>3, FormatFacts
<1>4. ASSUME NEW p \in Planes, NEW px \in Nat, NEW py \in Nat
      PROVE  FromHere(p, LumaX(p, px), Line(p, py), SampleOrigin(p, px, py))
  BY <1>2, OriginHere
<1>5. ASSUME NEW x \in 0 .. CodedWidth - 1, NEW l \in 0 .. h - 1, s \in Writes(x, l)
      PROVE  \E p \in Planes, px \in Nat, py \in Nat :
                s = Placed(p, px, py) /\ s.from.sx = sx /\ s.from.sy = sy
  <2>1. PICK p \in Planes, px \in Nat, py \in Nat : FromPixel(s, p, px, py, x, l)
    BY <1>3, <1>5
  <2>2. PICK i \in 0 .. w - 1 : /\ LumaX(p, px) = X + i /\ Across(i) = x
                                /\ Line(p, py) = Y + l
                                /\ s = Sample(p, px, py, Origin(x, l, UnitOf(p, i)))
    BY <2>1 DEF FromPixel
  <2> DEFINE a == LumaX(p, px)
             b == Line(p, py)
             o == SampleOrigin(p, px, py)
  <2>3. a = X + i /\ b = Y + l
    BY <2>2
  <2>4. /\ (o.sx = sx /\ o.sy = sy) <=> /\ X <= a /\ a < X + w
                                        /\ Y <= b /\ b < Y + h
        /\ o.sx = sx /\ o.sy = sy => o = Origin(Across(a - X), b - Y, UnitOf(p, a - X))
    <3>1. FromHere(p, a, b, o)
      BY <1>4
    <3> HIDE DEF a, b, o
    <3> QED
      BY <3>1 DEF FromHere
  <2> HIDE DEF w, h, X, Y, a, b, o
  <2>5. o.sx = sx /\ o.sy = sy /\ a - X = i /\ b - Y = l
    BY <1>1, <2>3, <2>4
  <2>6. o = Origin(x, l, UnitOf(p, i))
    BY <2>2, <2>4, <2>5
  <2>7. s = Placed(p, px, py) /\ s.from = o
    BY <2>2, <2>6 DEF Placed, Sample, o
  <2> QED
    BY <2>5, <2>7
<1>6. ASSUME NEW p \in Planes, NEW px \in Nat, NEW py \in Nat,
             s = Placed(p, px, py), s.from.sx = sx, s.from.sy = sy
      PROVE  \E x \in 0 .. CodedWidth - 1, l \in 0 .. h - 1 : s \in Writes(x, l)
  <2> DEFINE a == LumaX(p, px)
             b == Line(p, py)
             o == SampleOrigin(p, px, py)
             i == a - X
             l == b - Y
  <2>1. s = Sample(p, px, py, o) /\ s.from = o
    BY <1>6 DEF Placed, Sample
  <2>2. o.sx = sx /\ o.sy = sy
    BY <1>6, <2>1
  <2>3. /\ a \in Nat /\ b \in Nat /\ X <= a /\ a < X + w /\ Y <= b /\ b < Y + h
        /\ o = Origin(Across(i), l, UnitOf(p, i))
    <3>1. FromHere(p, a, b, o)
      BY <1>4
    <3> HIDE DEF a, b, o
    <3> QED
      BY <2>2, <3>1 DEF FromHere
  <2>4. i \in 0 .. w - 1 /\ l \in 0 .. h - 1 /\ a = X + i /\ b = Y + l
    <3> HIDE DEF w, h, X, Y, a, b
    <3> QED
      BY <1>1, <2>3
  <2>5. FromPixel(s, p, px, py, Across(i), l)
    <3> HIDE DEF i, l, o
    <3> QED
      BY <2>1, <2>3, <2>4 DEF FromPixel
  <2> DEFINE x == Across(i)
  <2>6. FromPixel(s, p, px, py, x, l) /\ l \in 0 .. h - 1
    BY <2>4, <2>5
  <2> HIDE DEF h, l, x
  <2>7. x \in 0 .. CodedWidth - 1 /\ l \in 0 .. h - 1 /\ s \in Writes(x, l)
    BY <1>3, <2>6
  <2> QED
    BY <2>7
<1> QED
  BY <1>5, <1>6

(* The sizes of the planes.                                                *)
LEMMA SizesOfPlanes ==
    ASSUME cfg \in Pictures, whole \in BOOLEAN, NEW p \in Planes
    PROVE  PlaneWidth(p) \in Nat \ {0} /\ PlaneHeight(p) \in Nat \ {0}
<1>1. /\ cfg.slice_height \in Nat \ {0} /\ cfg.slice_width \in Nat \ {0}
      /\ cfg.pic_height \in Nat \ {0} /\ cfg.pic_width \in Nat \ {0}
  BY SlicesOfPicture
<1>2. \A a \in Nat \ {0} : CeilDiv(a, 2) \in Nat \ {0}
  BY CeilDivBounds
<1> QED
  BY <1>1, <1>2 DEF PlaneWidth, PlaneHeight

(* put_slice writes the samples of the picture that come from its slice.   *)
LEMMA SliceSamples ==
    ASSUME cfg \in Pictures, whole \in BOOLEAN, sx \in Nat, sy \in Nat
    PROVE  SliceWrites = {s \in PictureSamples : s.from.sx = sx /\ s.from.sy = sy}
<1>1. ASSUME NEW s
      PROVE  s \in SliceWrites <=>
                InPlane(s) /\ \E x \in 0 .. CodedWidth - 1, l \in 0 .. cfg.slice_height - 1 :
                                 s \in Writes(x, l)
  <2>1. SliceWrites = {t \in UNION {Writes(x, l) : x \in 0 .. CodedWidth - 1,
                                                   l \in 0 .. cfg.slice_height - 1} : InPlane(t)}
    BY DEF SliceWrites, Writes
  <2> HIDE DEF Writes
  <2> QED
    BY <2>1
<1>2. \A p, px, py : LET s == Placed(p, px, py)
                     IN  s.plane = p /\ s.x = px /\ s.y = py
  BY DEF Placed, Sample
<1>3. ASSUME NEW s
      PROVE  s \in PictureSamples <=>
                InPlane(s) /\ \E p \in Planes, px \in Nat, py \in Nat : s = Placed(p, px, py)
  <2>1. PictureSamples = UNION {{Placed(p, px, py) : px \in 0 .. PlaneWidth(p) - 1,
                                                     py \in 0 .. PlaneHeight(p) - 1} : p \in Planes}
    BY DEF PictureSamples, Placed
  <2> HIDE DEF Placed
  <2>2. s \in PictureSamples <=>
          \E p \in Planes : \E px \in 0 .. PlaneWidth(p) - 1, py \in 0 .. PlaneHeight(p) - 1 :
             s = Placed(p, px, py)
    BY <2>1
  <2>3. ASSUME NEW p \in Planes, NEW px, NEW py, s = Placed(p, px, py)
        PROVE  (px \in 0 .. PlaneWidth(p) - 1 /\ py \in 0 .. PlaneHeight(p) - 1) <=>
               (px \in Nat /\ py \in Nat /\ InPlane(s))
    <3>1. InPlane(s) <=> px < PlaneWidth(p) /\ py < PlaneHeight(p)
      BY <1>2, <2>3 DEF InPlane
    <3>2. PlaneWidth(p) \in Nat \ {0} /\ PlaneHeight(p) \in Nat \ {0}
      BY SizesOfPlanes
    <3> QED
      BY <3>1, <3>2
  <2> QED
    BY <2>2, <2>3
<1>4. ASSUME NEW s
      PROVE  s \in SliceWrites <=> s \in PictureSamples /\ s.from.sx = sx /\ s.from.sy = sy
  BY <1>1, <1>3, WritesOfSlice
<1> QED
  BY <1>4

(* Below n times w, the quotient is below n.                               *)
LEMMA QuotientBelow ==
    ASSUME NEW a \in Nat, NEW w \in Nat \ {0}, NEW n \in Nat, a < n * w
    PROVE  a \div w \in 0 .. n - 1
<1> DEFINE q == a \div w
           r == a % w
<1>1. q \in Nat /\ r \in 0 .. w - 1 /\ a = q * w + r
  BY DivParts
<1> HIDE DEF q, r
<1>2. q < n
  <2>1. SUFFICES ASSUME q >= n PROVE FALSE
    BY <1>1
  <2>2. (q - n) * w \in Nat /\ q * w = (q - n) * w + n * w
    BY <1>1, <2>1
  <2>3. n * w \in Nat
    OBVIOUS
  <2> QED
    BY <1>1, <2>2, <2>3
<1>3. q \in 0 .. n - 1
  BY <1>1, <1>2
<1> QED
  BY <1>3 DEF q

(* Half the samples, rounded up, on a line of n.                           *)
LEMMA HalfBelow ==
    ASSUME NEW n \in Nat \ {0}, NEW k \in Nat, k < CeilDiv(n, 2)
    PROVE  2 * k + 1 <= n
<1> DEFINE m == n + 1
<1>1. m \in Nat /\ m = n + 1 /\ CeilDiv(n, 2) = m \div 2
  <2>1. n + 2 - 1 = n + 1
    OBVIOUS
  <2> QED
    BY <2>1 DEF CeilDiv
<1> HIDE DEF m
<1>2. m \div 2 \in Nat /\ m % 2 \in {0, 1} /\ m = 2 * (m \div 2) + (m % 2)
  BY <1>1, Halves
<1> QED
  BY <1>1, <1>2

(* Every sample of the picture comes from one of its slices.               *)
LEMMA OriginInside ==
    ASSUME cfg \in Pictures, whole \in BOOLEAN, NEW s \in PictureSamples
    PROVE  s.from.sx \in 0 .. Columns - 1 /\ s.from.sy \in 0 .. Rows - 1
<1> DEFINE w == cfg.slice_width
           h == cfg.slice_height
           W == IF whole THEN cfg.pic_width ELSE w
           H == IF whole THEN cfg.pic_height ELSE h
           C == Columns
           R == Rows
<1>9. PICK p \in Planes : \E px \in 0 .. PlaneWidth(p) - 1, py \in 0 .. PlaneHeight(p) - 1 :
          s = Sample(p, px, py, SampleOrigin(p, px, py))
  BY DEF PictureSamples
<1>1. PICK px \in 0 .. PlaneWidth(p) - 1, py \in 0 .. PlaneHeight(p) - 1 :
          s = Sample(p, px, py, SampleOrigin(p, px, py))
  BY <1>9
<1>2. /\ w \in Nat \ {0} /\ h \in Nat \ {0} /\ W \in Nat \ {0} /\ H \in Nat \ {0}
      /\ C \in Nat \ {0} /\ R \in Nat \ {0}
  BY SlicesOfPicture
<1>3. W <= C * w /\ H <= R * h
  <2>1. CASE whole
    <3>1. C = CeilDiv(cfg.pic_width, w) /\ R = CeilDiv(cfg.pic_height, h)
      BY <2>1 DEF Columns, Rows
    <3>2. W = cfg.pic_width /\ H = cfg.pic_height
      BY <2>1
    <3> HIDE DEF w, h, W, H, C, R
    <3> QED
      BY <1>2, <3>1, <3>2, CeilDivBounds
  <2>2. CASE ~whole
    <3>1. C = 1 /\ R = 1 /\ W = w /\ H = h
      BY <2>2 DEF Columns, Rows
    <3> HIDE DEF w, h, W, H, C, R
    <3> QED
      BY <1>2, <3>1
  <2> QED
    BY <2>1, <2>2
<1>4. px \in Nat /\ py \in Nat /\ px < PlaneWidth(p) /\ py < PlaneHeight(p) /\ p \in 0 .. 2
  BY <1>1, SizesOfPlanes DEF Planes
<1>5. LumaX(p, px) \in Nat /\ LumaX(p, px) < C * w
  <2>1. C * w \in Nat
    <3> HIDE DEF C, w
    <3> QED
      BY <1>2
  <2>2. CASE p > 0 /\ HalfWidth
    <3>1. LumaX(p, px) = 2 * px /\ px < CeilDiv(W, 2)
      BY <1>4, <2>2 DEF LumaX, PlaneWidth
    <3> HIDE DEF w, W, C
    <3>2. 2 * px + 1 <= W
      BY <1>2, <1>4, <3>1, HalfBelow
    <3> QED
      BY <1>2, <1>3, <1>4, <2>1, <3>1, <3>2
  <2>3. CASE ~(p > 0 /\ HalfWidth)
    <3>1. LumaX(p, px) = px /\ px < W
      BY <1>4, <2>3 DEF LumaX, PlaneWidth
    <3> HIDE DEF w, W, C
    <3> QED
      BY <1>2, <1>3, <1>4, <2>1, <3>1
  <2> QED
    BY <2>2, <2>3
<1>6. Line(p, py) \in Nat /\ Line(p, py) < R * h
  <2>1. R * h \in Nat
    <3> HIDE DEF R, h
    <3> QED
      BY <1>2
  <2>2. CASE cfg.format = "native_420" /\ p > 0
    <3>1. Line(p, py) = 2 * py + (p - 1) /\ py < CeilDiv(H, 2)
      BY <1>4, <2>2 DEF Line, PlaneHeight
    <3>2. h % 2 = 0
      BY <2>2, FormatFacts
    <3> HIDE DEF h, H, R
    <3>3. 2 * py + 1 <= H
      BY <1>2, <1>4, <3>1, HalfBelow
    <3>4. (R * h) % 2 = 0
      BY <1>2, <3>2, EvenMultiple
    <3> DEFINE n == R * h
               m == n \div 2
    <3>5. n \in Nat /\ n % 2 = 0 /\ H <= n
      BY <1>3, <2>1, <3>4
    <3> HIDE DEF n
    <3>6. m \in Nat /\ n = 2 * m
      BY <3>5, Halves
    <3> HIDE DEF m
    <3>7. 2 * py + 2 <= n
      BY <1>2, <1>4, <3>3, <3>5, <3>6
    <3>8. 2 * py + (p - 1) \in Nat /\ 2 * py + (p - 1) < n
      BY <1>4, <2>2, <3>5, <3>7
    <3> QED
      BY <3>1, <3>8 DEF n
  <2>3. CASE ~(cfg.format = "native_420" /\ p > 0)
    <3>1. Line(p, py) = py /\ py < H
      BY <1>4, <2>3 DEF Line, PlaneHeight
    <3> HIDE DEF h, H, R
    <3> QED
      BY <1>2, <1>3, <1>4, <2>1, <3>1
  <2> QED
    BY <2>2, <2>3
<1> HIDE DEF w, h, C, R
<1>7. LumaX(p, px) \div w \in 0 .. C - 1 /\ Line(p, py) \div h \in 0 .. R - 1
  BY <1>2, <1>5, <1>6, QuotientBelow
<1>8. s.from.sx = LumaX(p, px) \div w /\ s.from.sy = Line(p, py) \div h
  BY <1>1 DEF Sample, SampleOrigin, LumaX, Line, w, h
<1> QED
  BY <1>7, <1>8 DEF C, R

-----------------------------------------------------------------------------
(* The planes.                                                             *)

OutputInv == out = {s \in PictureSamples : s.from.sy * Columns + s.from.sx < SlicesDone}

(* The samples are those of the configuration.                             *)
LEMMA SameSamples ==
    ASSUME UNCHANGED <<cfg, whole>>
    PROVE  PictureSamples' = PictureSamples /\ Columns' = Columns /\ Rows' = Rows
<1>1. /\ Planes' = Planes /\ Columns' = Columns /\ Rows' = Rows
      /\ HalfWidth' = HalfWidth /\ Native' = Native /\ OddLumaUnit' = OddLumaUnit
  BY DEF Planes, Columns, Rows, HalfWidth, Native, OddLumaUnit
<1>2. ASSUME NEW p
      PROVE  PlaneWidth(p)' = PlaneWidth(p) /\ PlaneHeight(p)' = PlaneHeight(p)
  BY <1>1 DEF PlaneWidth, PlaneHeight
<1>3. ASSUME NEW p, NEW px, NEW py
      PROVE  Sample(p, px, py, SampleOrigin(p, px, py))' = Sample(p, px, py, SampleOrigin(p, px, py))
  BY <1>1 DEF Sample, SampleOrigin
<1> QED
  BY <1>1, <1>2, <1>3 DEF PictureSamples

(* put_slice counts one slice more.                                        *)
LEMMA PutCounts ==
    ASSUME PictureTypeOK, PutSlice
    PROVE  SlicesDone' = SlicesDone + 1
<1> DEFINE C == Columns
           n == SlicesDone
<1>1. /\ C \in Nat \ {0} /\ sx \in Nat /\ sx < C /\ sy \in Nat /\ n = sy * C + sx
  BY NumbersOfPicture DEF SlicesDone
<1>2. \/ sx + 1 < C /\ sx' = sx + 1 /\ sy' = sy
      \/ ~(sx + 1 < C) /\ sx' = 0 /\ sy' = sy + 1
  BY DEF PutSlice, NextSlice
<1>3. Columns' = C
  BY SameSamples DEF PutSlice
<1>4. SlicesDone' = sy' * C + sx'
  BY <1>3 DEF SlicesDone
<1> HIDE DEF C, n
<1>5. SlicesDone' = n + 1
  BY <1>1, <1>2, <1>4
<1> QED
  BY <1>5 DEF n

(* Slices are put in order: one more slice adds the samples from it.       *)
LEMMA PutOutput ==
    ASSUME PictureInv, OutputInv, PutSlice
    PROVE  OutputInv'
<1> DEFINE C == Columns
           n == SlicesDone
           Num(s) == s.from.sy * Columns + s.from.sx
<1>1. PictureTypeOK /\ UNCHANGED <<cfg, whole>> /\ out' = out \cup SliceWrites
  BY DEF PictureInv, PutSlice
<1>2. /\ C \in Nat \ {0} /\ sx \in 0 .. C - 1 /\ sy \in Nat /\ sx \in Nat
      /\ n \in Nat /\ n = sy * C + sx
      /\ cfg \in Pictures /\ whole \in BOOLEAN
  BY <1>1, NumbersOfPicture DEF PictureTypeOK, SlicesDone
<1>3. SlicesDone' = n + 1 /\ Columns' = C /\ PictureSamples' = PictureSamples
  <2>1. Columns' = C /\ PictureSamples' = PictureSamples
    BY <1>1, SameSamples
  <2> QED
    BY <1>1, <2>1, PutCounts
<1>4. ASSUME NEW s \in PictureSamples
      PROVE  Num(s) < n + 1 <=> Num(s) < n \/ (s.from.sx = sx /\ s.from.sy = sy)
  <2> DEFINE k == s.from.sx
             m == s.from.sy
             i == m * C + k
  <2>1. k \in 0 .. C - 1 /\ m \in Nat
    <3>1. k \in 0 .. Columns - 1 /\ m \in 0 .. Rows - 1
      BY <1>2, OriginInside
    <3> QED
      BY <3>1
  <2>2. Num(s) = i
    OBVIOUS
  <2> HIDE DEF C, n, k, m, Num
  <2>3. i \in Nat
    BY <1>2, <2>1
  <2>4. i = n <=> k = sx /\ m = sy
    BY <1>2, <2>1, OneChunk
  <2> HIDE DEF i
  <2>5. i < n + 1 <=> i < n \/ (k = sx /\ m = sy)
    BY <1>2, <2>3, <2>4
  <2> QED
    BY <2>2, <2>5 DEF k, m
<1>5. out = {s \in PictureSamples : Num(s) < n}
  BY DEF OutputInv
<1>6. SliceWrites = {s \in PictureSamples : s.from.sx = sx /\ s.from.sy = sy}
  BY <1>2, SliceSamples
<1> HIDE DEF n, Num
<1>7. out' = {s \in PictureSamples : Num(s) < n + 1}
  BY <1>1, <1>4, <1>5, <1>6
<1> QED
  BY <1>3, <1>7 DEF OutputInv, Num

(* Only put_slice writes, and nothing else moves the slice counters.       *)
LEMMA StepOutput == PictureInv /\ OutputInv /\ [Next]_vars => OutputInv'
<1> SUFFICES ASSUME PictureInv, OutputInv, [Next]_vars PROVE OutputInv'
  OBVIOUS
<1>1. CASE PutSlice
  BY <1>1, PutOutput
<1>2. CASE Start \/ GatherLine \/ DecodeSlice \/ UNCHANGED vars
  <2>1. UNCHANGED <<cfg, whole, sx, sy, out>>
    BY <1>2 DEF Start, GatherLine, DecodeSlice, vars
  <2>2. PictureSamples' = PictureSamples /\ Columns' = Columns
    BY <2>1, SameSamples
  <2>3. SlicesDone' = SlicesDone
    BY <2>1, <2>2 DEF SlicesDone
  <2> QED
    BY <2>1, <2>2, <2>3 DEF OutputInv
<1> QED
  BY <1>1, <1>2 DEF Next

(* No slice, no sample.                                                    *)
LEMMA InitOutput == Init => OutputInv
<1> SUFFICES ASSUME Init PROVE OutputInv
  OBVIOUS
<1>1. cfg \in Pictures /\ whole \in BOOLEAN /\ sx = 0 /\ sy = 0 /\ out = {}
  BY DEF Init
<1>2. Columns \in Nat \ {0} /\ Rows \in Nat \ {0}
  BY <1>1, SlicesOfPicture
<1>3. SlicesDone = 0
  BY <1>1, <1>2 DEF SlicesDone
<1>4. ASSUME NEW s \in PictureSamples
      PROVE  ~(s.from.sy * Columns + s.from.sx < 0)
  <2> DEFINE k == s.from.sx
             m == s.from.sy
             C == Columns
  <2>1. k \in 0 .. Columns - 1 /\ m \in 0 .. Rows - 1
    BY <1>1, OriginInside
  <2>2. k \in Nat /\ m \in Nat /\ C \in Nat
    BY <1>2, <2>1
  <2> HIDE DEF k, m, C
  <2>3. ~(m * C + k < 0)
    BY <2>2
  <2> QED
    BY <2>3 DEF k, m, C
<1> QED
  BY <1>1, <1>3, <1>4 DEF OutputInv

(* After the last slice, all samples of the picture are there.             *)
LEMMA InvOutputIsPrefix == PictureInv /\ OutputInv => OutputIsPrefix
<1> SUFFICES ASSUME PictureInv, OutputInv PROVE OutputIsPrefix
  OBVIOUS
<1>1. PictureTypeOK
  BY DEF PictureInv
<1>2. cfg \in Pictures /\ whole \in BOOLEAN /\ Columns \in Nat \ {0} /\ Rows \in Nat \ {0}
  BY <1>1, NumbersOfPicture DEF PictureTypeOK
<1>3. ASSUME status = "ok", NEW s \in PictureSamples
      PROVE  s.from.sy * Columns + s.from.sx < SlicesDone
  <2> DEFINE k == s.from.sx
             m == s.from.sy
             C == Columns
             R == Rows
  <2>1. k \in 0 .. C - 1 /\ m \in 0 .. R - 1
    BY <1>2, OriginInside
  <2>2. SlicesDone = R * C + 0
    BY <1>1, <1>3 DEF PictureTypeOK, SlicesDone
  <2>3. C \in Nat \ {0} /\ R \in Nat
    BY <1>2
  <2> HIDE DEF k, m, C, R
  <2>4. (R - m - 1) * C \in Nat /\ R * C = (R - m - 1) * C + m * C + C /\ m * C \in Nat
    BY <2>1, <2>3
  <2>5. m * C + k < R * C + 0
    BY <2>1, <2>3, <2>4
  <2> QED
    BY <2>2, <2>5 DEF k, m, C
<1>4. status = "ok" => out = PictureSamples
  BY <1>3 DEF OutputInv
<1> QED
  BY <1>4 DEF OutputInv, OutputIsPrefix

(* put_slice and put_sample: at every moment the planes hold the samples   *)
(* of the slices decoded so far, each from the pixel that the format gives *)
(* it, none outside the picture and no place from two pixels; a picture    *)
(* that ends with DSC_OK is complete.                                      *)
THEOREM PlanesHoldThePrefix == Spec => []OutputIsPrefix
<1>1. Init => OutputInv
  BY InitOutput
<1>2. PictureInv /\ OutputInv /\ [Next]_vars => OutputInv'
  BY StepOutput
<1>3. PictureInv /\ OutputInv => OutputIsPrefix
  BY InvOutputIsPrefix
<1> QED
  BY <1>1, <1>2, <1>3, PictureInvariant, PTL DEF Spec

-----------------------------------------------------------------------------
(* The end.                                                                *)

(* The steps left, if no slice fails.                                      *)
StepsLeft ==
    LET slices == (Columns * Rows - SlicesDone) * (Height + 2)
    IN  CASE phase = "start"  -> slices + 1
          [] phase = "gather" -> slices - y
          [] phase = "decode" -> slices - Height
          [] phase = "put"    -> slices - Height - 1
          [] OTHER            -> 0

(* A slice that is not done has all its steps to come.                     *)
LEMMA SlicesLeft ==
    ASSUME PictureTypeOK, phase # "done",
           NEW n, n = (Columns * Rows - SlicesDone) * (Height + 2)
    PROVE  n \in Nat /\ n >= Height + 2
<1> DEFINE C == Columns
           R == Rows
           H == Height
<1>1. /\ C \in Nat \ {0} /\ R \in Nat \ {0} /\ H \in Nat \ {0}
      /\ sx \in Nat /\ sx < C /\ sy \in Nat /\ sy < R
  BY NumbersOfPicture DEF PictureTypeOK
<1>2. n = (C * R - (sy * C + sx)) * (H + 2)
  BY DEF SlicesDone
<1> HIDE DEF C, R, H
<1> DEFINE left == C * R - (sy * C + sx)
<1>3. left \in Nat \ {0}
  <2>1. (R - sy - 1) * C \in Nat /\ C * R = (R - sy - 1) * C + sy * C + C /\ sy * C \in Nat
    BY <1>1
  <2> QED
    BY <1>1, <2>1
<1>4. n = left * (H + 2)
  BY <1>2
<1> HIDE DEF left
<1>5. (left - 1) * (H + 2) \in Nat /\ n = (left - 1) * (H + 2) + (H + 2)
  BY <1>1, <1>3, <1>4
<1>6. n \in Nat /\ n >= H + 2
  BY <1>1, <1>5
<1> QED
  BY <1>6 DEF H

LEMMA StepsLeftIsNat == PictureInv => StepsLeft \in Nat
<1> SUFFICES ASSUME PictureInv PROVE StepsLeft \in Nat
  OBVIOUS
<1> DEFINE n == (Columns * Rows - SlicesDone) * (Height + 2)
           H == Height
<1>1. PictureTypeOK /\ H \in Nat /\ y \in Nat /\ y < H
  BY NumbersOfPicture DEF PictureInv
<1>2. phase # "done" => n \in Nat /\ n >= H + 2
  BY <1>1, SlicesLeft
<1>3. StepsLeft = CASE phase = "start"  -> n + 1
                    [] phase = "gather" -> n - y
                    [] phase = "decode" -> n - H
                    [] phase = "put"    -> n - H - 1
                    [] OTHER            -> 0
  BY DEF StepsLeft
<1>4. phase \in {"start", "gather", "decode", "put", "done"}
  BY <1>1 DEF PictureTypeOK
<1> HIDE DEF n, H
<1> QED
  BY <1>1, <1>2, <1>3, <1>4

(* Every step leaves fewer.                                                *)
LEMMA StepsLeftFall == PictureInv /\ Next => StepsLeft' < StepsLeft
<1> SUFFICES ASSUME PictureInv, Next PROVE StepsLeft' < StepsLeft
  OBVIOUS
<1> DEFINE n == (Columns * Rows - SlicesDone) * (Height + 2)
           n1 == n'
           H == Height
<1>1. PictureTypeOK /\ H \in Nat /\ y \in Nat /\ y < H
  BY NumbersOfPicture DEF PictureInv
<1>2. phase # "done" => n \in Nat /\ n >= H + 2
  BY <1>1, SlicesLeft
<1>3. /\ phase = "start"  => StepsLeft = n + 1
      /\ phase = "gather" => StepsLeft = n - y
      /\ phase = "decode" => StepsLeft = n - H
      /\ phase = "put"    => StepsLeft = n - H - 1
  BY DEF StepsLeft
<1>4. UNCHANGED <<cfg, whole>> /\ phase # "done"
  BY DEF Next, Start, GatherLine, DecodeSlice, PutSlice
<1>5. Columns' = Columns /\ Rows' = Rows /\ Height' = Height
  BY <1>4 DEF Columns, Rows, Height
<1>6. UNCHANGED <<sx, sy>> => n1 = n
  BY <1>5 DEF SlicesDone
<1>7. /\ phase' = "gather" => StepsLeft' = n1 - y'
      /\ phase' = "decode" => StepsLeft' = n1 - H
      /\ phase' = "put"    => StepsLeft' = n1 - H - 1
      /\ phase' = "done"   => StepsLeft' = 0
  BY <1>5 DEF StepsLeft
<1> HIDE DEF n, n1, H
<1>8. CASE phase' = "done"
  <2>1. phase \in {"start", "gather", "decode", "put"}
    BY <1>1, <1>4 DEF PictureTypeOK
  <2>2. StepsLeft' = 0
    BY <1>7, <1>8
  <2> QED
    BY <1>1, <1>2, <1>3, <2>1, <2>2
<1>9. CASE Start /\ phase' # "done"
  <2>1. phase = "start" /\ y = 0 /\ phase' = "gather" /\ UNCHANGED <<sx, sy, y>>
    BY <1>1, <1>9 DEF Start, Finish, PictureTypeOK
  <2> QED
    BY <1>2, <1>3, <1>6, <1>7, <2>1
<1>10. CASE GatherLine
  <2>1. /\ phase = "gather" /\ UNCHANGED <<sx, sy>>
        /\ \/ y + 1 < H /\ y' = y + 1 /\ phase' = "gather"
           \/ ~(y + 1 < H) /\ phase' = "decode"
    BY <1>10 DEF GatherLine, H, Height
  <2> QED
    BY <1>1, <1>2, <1>3, <1>6, <1>7, <2>1
<1>11. CASE DecodeSlice /\ phase' # "done"
  <2>1. phase = "decode" /\ phase' = "put" /\ UNCHANGED <<sx, sy>>
    BY <1>11 DEF DecodeSlice, Finish
  <2> QED
    BY <1>1, <1>2, <1>3, <1>6, <1>7, <2>1
<1>12. CASE PutSlice /\ phase' # "done"
  <2>1. phase = "put" /\ phase' = "gather" /\ y' = y /\ y = 0
    BY <1>1, <1>12 DEF PutSlice, Continue, Finish, PictureTypeOK
  <2>2. n1 = n - (H + 2)
    <3>1. SlicesDone' = SlicesDone + 1
      BY <1>12, PutCounts DEF PictureInv
    <3> DEFINE total == Columns * Rows
               done == SlicesDone
    <3>2. n = (total - done) * (H + 2) /\ n1 = (total - (done + 1)) * (H + 2)
      BY <1>5, <3>1 DEF n, n1, H
    <3>3. total \in Int /\ done \in Nat
      BY <1>1, NumbersOfPicture
    <3> HIDE DEF total, done
    <3> QED
      BY <1>1, <3>2, <3>3
  <2> QED
    BY <1>1, <1>2, <1>3, <1>7, <2>1, <2>2
<1> QED
  BY <1>8, <1>9, <1>10, <1>11, <1>12 DEF Next

(* decode_picture, whatever the sizes: a natural number falls with every   *)
(* step, so that the loops over slices and lines come to an end.           *)
THEOREM PictureLoopsEnd == Spec => [](StepsLeft \in Nat) /\ [][StepsLeft' < StepsLeft]_vars
<1>1. PictureInv /\ [Next]_vars => [StepsLeft' < StepsLeft]_vars
  BY StepsLeftFall
<1> QED
  BY <1>1, StepsLeftIsNat, PictureInvariant, PTL DEF Spec

=============================================================================
