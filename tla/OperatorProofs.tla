--------------------------- MODULE OperatorProofs ---------------------------
(***************************************************************************)
(* What the operators that have no state return: the pixel clock's drain   *)
(* (module Drain), for every geometry and under both readings of OQ-3, and *)
(* the updates of the ICH history (module IchList), for every size of it.  *)
(*                                                                         *)
(* Products of two variables are kept opaque (p, p1) in the arithmetic     *)
(* leaves, so that each leaf is linear. The loops of history_update appear *)
(* as Nth, which picks the k-th entry that stays: it is defined and        *)
(* increasing because the numbers of the entries up to each one are an     *)
(* injection of the entries into 1..n, so a bijection.                     *)
(***************************************************************************)
EXTENDS Drain, IchList, TLAPS, FiniteSetTheorems, SequenceTheorems

(* What holds of the chunk reading's accumulators between pixel times: the  *)
(* open chunk holds the bits of its own pixels, to the sixteenth.           *)
ChunkOpen(c, d) ==
    /\ d \in DrainRecord
    /\ d.failed = FALSE
    /\ d.chunk_pixels < c.slice_width
    /\ 16 * d.chunk_bits + d.fractional_bits = d.chunk_pixels * c.bits_per_pixel

(* The padding of a chunk that holds the bits of p sixteenths is 0 to 8.    *)
LEMMA PaddingBound ==
    ASSUME NEW p \in Nat, NEW size \in Int, size = (p + 127) \div 128,
           NEW bits \in Nat, NEW left \in 0..15, 16 * bits + left = p
    PROVE  8 * size - bits \in 0..8
OBVIOUS

(* A chunk size is a number of bytes.                                       *)
LEMMA ChunkSizeInt ==
    ASSUME NEW w \in Nat, NEW b \in 1..1023
    PROVE  /\ w * b \in Nat
           /\ (w * b + 127) \div 128 \in Int
<1> DEFINE p == w * b
<1>1. p \in Nat
  OBVIOUS
<1> HIDE DEF p
<1>2. (p + 127) \div 128 \in Int
  BY <1>1
<1> QED BY <1>1, <1>2 DEF p

LEMMA ValidChunkSize ==
    ASSUME NEW c, ValidChunk(c)
    PROVE  c.slice_chunk_size \in Int
<1> DEFINE w == c.slice_width
           b == c.bits_per_pixel
<1>1. w \in Nat /\ b \in 1..1023 /\ c.slice_chunk_size = (w * b + 127) \div 128
  BY DEF ValidChunk
<1>2. (w * b + 127) \div 128 \in Int
  <2> HIDE DEF w, b
  <2> QED BY <1>1, ChunkSizeInt
<1> QED BY <1>1, <1>2, Zenon

(* drain_pixel keeps an open chunk open, and removes a whole chunk exactly  *)
(* when it completes one.                                                   *)
LEMMA DrainPixelChunk ==
    ASSUME NEW c, ValidChunk(c), NEW pixel \in Nat, NEW d, ChunkOpen(c, d),
           NEW e, e = DrainPixel(c, pixel, CHUNK, d)
    PROVE  /\ ChunkOpen(c, e)
           /\ pixel < c.initial_xmit_delay => e = d
           /\ pixel >= c.initial_xmit_delay /\ d.chunk_pixels + 1 # c.slice_width =>
                /\ e.chunk_pixels = d.chunk_pixels + 1
                /\ e.removed - e.chunk_bits = d.removed - d.chunk_bits
           /\ pixel >= c.initial_xmit_delay /\ d.chunk_pixels + 1 = c.slice_width =>
                /\ e.chunk_pixels = 0
                /\ e.chunk_bits = 0
                /\ e.removed = d.removed - d.chunk_bits + 8 * c.slice_chunk_size
<1> DEFINE w == c.slice_width
           b == c.bits_per_pixel
           delay == c.initial_xmit_delay
           size == c.slice_chunk_size
           k == d.chunk_pixels
           frac == d.fractional_bits
           cb == d.chunk_bits
           rem == d.removed
           p == k * b
           p1 == (k + 1) * b
           whole == (frac + b) \div 16
           left == (frac + b) % 16
           bits == cb + whole
           padding == size * 8 - bits
<1>1. /\ w \in Nat \ {0} /\ b \in 1..1023 /\ delay \in Nat
      /\ size = (w * b + 127) \div 128
  BY DEF ValidChunk
<1>2. /\ frac \in 0..15 /\ cb \in Nat /\ k \in Nat /\ rem \in Int /\ k < w
      /\ 16 * cb + frac = p
      /\ d.failed = FALSE
  BY DEF ChunkOpen, DrainRecord
<1>3. e = IF pixel < delay THEN d
          ELSE IF k + 1 # w THEN Accumulators(left, bits, k + 1, rem + whole, d.failed)
          ELSE IF padding \in 0..8 THEN Accumulators(0, 0, 0, rem + whole + padding, d.failed)
          ELSE Accumulators(left, bits, k + 1, rem, TRUE)
  BY DEF DrainPixel, FractionLeft, FractionResets, FractionAfterChunk, MaxPadding, CHUNK, LITERAL
<1>4. p \in Int /\ p1 \in Int /\ p1 = p + b
  <2>1. k \in Nat /\ b \in 1..1023
    BY <1>1, <1>2
  <2> HIDE DEF k, b
  <2> QED BY <2>1
<1>5. /\ left \in 0..15 /\ bits \in Nat /\ whole \in Nat
      /\ 16 * bits + left = p1
  <2>1. frac \in 0..15 /\ b \in 1..1023 /\ cb \in Nat /\ 16 * cb + frac = p
    BY <1>1, <1>2
  <2> HIDE DEF frac, b, cb, p, p1
  <2> QED BY <2>1, <1>4
<1>6. CASE pixel < delay
  BY <1>3, <1>6, <1>1
<1> HIDE DEF p, whole, left, bits, padding
<1>7. CASE pixel >= delay /\ k + 1 # w
  <2>1. bits - cb = whole
    BY <1>2, <1>5 DEF bits
  <2>2. e = Accumulators(left, bits, k + 1, rem + whole, FALSE)
    <3>1. ~(pixel < delay) /\ d.failed = FALSE
      BY <1>1, <1>2, <1>7
    <3> QED BY <3>1, <1>3, <1>7, Zenon
  <2>3. k + 1 < w /\ k + 1 \in Nat /\ rem + whole \in Int
    BY <1>1, <1>2, <1>5, <1>7
  <2>4. e \in DrainRecord
    BY <2>2, <2>3, <1>5 DEF DrainRecord, Accumulators
  <2>5. ChunkOpen(c, e)
    BY <2>2, <2>3, <2>4, <1>5 DEF ChunkOpen, Accumulators
  <2>6. e.chunk_pixels = k + 1 /\ e.removed - e.chunk_bits = rem - cb
    BY <2>1, <2>2, <1>2, <1>5 DEF Accumulators
  <2> QED BY <2>5, <2>6, <1>1, <1>7
<1>8. CASE pixel >= delay /\ k + 1 = w
  <2>1. size \in Int /\ p1 \in Nat /\ size = (p1 + 127) \div 128
    <3>1. p1 = w * b
      BY <1>8, Zenon
    <3>2. w * b \in Nat /\ (w * b + 127) \div 128 \in Int
      <4>1. w \in Nat /\ b \in 1..1023
        BY <1>1
      <4> HIDE DEF w, b
      <4> QED BY <4>1, ChunkSizeInt
    <3> QED BY <3>1, <3>2, <1>1, ZenonT(60)
  <2> HIDE DEF p1
  <2>2. 8 * size - bits \in 0..8
    <3> HIDE DEF size
    <3> QED BY <2>1, <1>5, PaddingBound
  <2>3. padding \in 0..8 /\ rem + whole + padding = rem - cb + 8 * size
        /\ rem + whole + padding \in Int
    BY <2>1, <2>2, <1>2, <1>5 DEF padding, bits
  <2>4. e = Accumulators(0, 0, 0, rem + whole + padding, FALSE)
    <3>1. ~(pixel < delay) /\ d.failed = FALSE
      BY <1>1, <1>2, <1>8
    <3> QED BY <2>3, <3>1, <1>3, <1>8, Zenon
  <2>5. ChunkOpen(c, e)
    <3>1. e \in DrainRecord
      BY <2>3, <2>4 DEF DrainRecord, Accumulators
    <3>2. 0 * b = 0 /\ 0 < w
      BY <1>1
    <3> QED BY <2>4, <3>1, <3>2 DEF ChunkOpen, Accumulators
  <2>6. e.removed = rem - cb + 8 * size /\ e.chunk_pixels = 0 /\ e.chunk_bits = 0
    BY <2>3, <2>4 DEF Accumulators
  <2> QED BY <2>5, <2>6, <1>1, <1>8
<1>9. pixel < delay \/ (pixel >= delay /\ k + 1 # w) \/ (pixel >= delay /\ k + 1 = w)
  BY <1>1
<1> QED BY <1>6, <1>7, <1>8, <1>9

-----------------------------------------------------------------------------

(* Euclidean division is unique, and steps by one.                          *)
LEMMA ModUnique ==
    ASSUME NEW a \in Nat, NEW w \in Nat \ {0}, NEW q \in Int, NEW k \in 0 .. w - 1,
           a = q * w + k
    PROVE  a % w = k
<1> DEFINE q1 == a \div w
           k1 == a % w
           t  == q - q1
           tw == t * w
<1>1. q1 \in Int /\ k1 \in 0 .. w - 1 /\ a = w * q1 + k1
  OBVIOUS
<1> HIDE DEF q1, k1
<1>2. tw = k1 - k /\ t \in Int
  BY <1>1
<1>3. t >= 1 => tw >= w
  BY <1>1, <1>2
<1>4. t <= -1 => tw <= -w
  BY <1>1, <1>2
<1>5. t = 0 => tw = 0
  BY <1>1, <1>2
<1> HIDE DEF tw, t
<1>6. k1 = k
  BY <1>1, <1>2, <1>3, <1>4, <1>5
<1> QED BY <1>6 DEF k1

LEMMA Quotient ==
    ASSUME NEW a \in Nat, NEW w \in Nat \ {0}, NEW q \in Int, NEW k \in 0 .. w - 1,
           a = q * w + k
    PROVE  a \div w = q /\ a % w = k
<1> DEFINE q1 == a \div w
           t  == q - q1
           tw == t * w
<1>1. a % w = k
  BY ModUnique
<1>2. q1 \in Int /\ a = w * q1 + (a % w)
  OBVIOUS
<1> HIDE DEF q1
<1>3. tw = 0 /\ t \in Int
  BY <1>1, <1>2
<1>4. t >= 1 => tw >= w
  BY <1>2, <1>3
<1>5. t <= -1 => tw <= -w
  BY <1>2, <1>3
<1> HIDE DEF tw
<1>6. t = 0
  BY <1>3, <1>4, <1>5
<1>7. q1 = q
  BY <1>2, <1>6
<1> QED BY <1>1, <1>7 DEF q1

LEMMA ModStep ==
    ASSUME NEW a \in Nat, NEW w \in Nat \ {0}
    PROVE  /\ a % w \in 0 .. w - 1
           /\ (a + 1) % w = IF (a % w) + 1 = w THEN 0 ELSE (a % w) + 1
<1> DEFINE q == a \div w
           k == a % w
<1>1. q \in Int /\ k \in 0 .. w - 1 /\ a = w * q + k
  OBVIOUS
<1> HIDE DEF q, k
<1>2. CASE k + 1 = w
  <2>1. a + 1 = (q + 1) * w + 0 /\ 0 \in 0 .. w - 1 /\ q + 1 \in Int /\ a + 1 \in Nat
    BY <1>1, <1>2
  <2>2. (a + 1) % w = 0
    BY <2>1, ModUnique
  <2> QED BY <1>1, <1>2, <2>2 DEF k
<1>3. CASE k + 1 # w
  <2>1. a + 1 = q * w + (k + 1) /\ k + 1 \in 0 .. w - 1 /\ a + 1 \in Nat
    BY <1>1, <1>3
  <2>2. (a + 1) % w = k + 1
    BY <2>1, <1>1, ModUnique
  <2> QED BY <1>1, <1>3, <2>2 DEF k
<1> QED BY <1>2, <1>3

-----------------------------------------------------------------------------

(* The pixel time that starts the first chunk.                              *)
FirstDrain(c) == IF c.initial_xmit_delay = 0 THEN 1 ELSE c.initial_xmit_delay

(* The fraction that a chunk of the literal reading leaves to the next one. *)
LastFraction(c) == ((c.slice_width - 1) * c.bits_per_pixel) % 16

(* The literal reading drops the fraction at the first pixel of a chunk, or *)
(* at its last one when there is no delay. So a chunk starts with no        *)
(* fraction or with that of the chunk before (f), and has lost what its     *)
(* first pixel dropped (e).                                                 *)
LiteralAccount(c, d) ==
    LET k == d.chunk_pixels
        b == c.bits_per_pixel
    IN  IF c.initial_xmit_delay = 0 THEN 16 * d.chunk_bits + d.fractional_bits = k * b
        ELSE IF k = 0 THEN d.chunk_bits = 0 /\ d.fractional_bits \in {0, LastFraction(c)}
        ELSE /\ d.fractional_bits = ((k - 1) * b) % 16
             /\ \E f \in {0, LastFraction(c)}, e \in 0..15 :
                   16 * d.chunk_bits + d.fractional_bits + e = f + k * b

(* What holds of the literal reading's accumulators after a pixel.          *)
LiteralOpen(c, pixel, d) ==
    /\ d \in DrainRecord
    /\ d.failed = FALSE
    /\ d.chunk_pixels < c.slice_width
    /\ IF pixel + 1 < FirstDrain(c) THEN d.chunk_pixels = 0
       ELSE (pixel + 1 - FirstDrain(c)) % c.slice_width = d.chunk_pixels
    /\ LiteralAccount(c, d)

(* The padding of a chunk that has lost up to 30 sixteenths is 0 to 9.      *)
LEMMA LiteralPaddingBound ==
    ASSUME NEW p \in Nat, NEW size \in Int, size = (p + 127) \div 128,
           NEW bits \in Nat, NEW lost \in 0..30, 16 * bits + lost = p
    PROVE  8 * size - bits \in 0..9
OBVIOUS

LEMMA AccumulatorsType ==
    ASSUME NEW left \in 0..15, NEW bits \in Nat, NEW pixels \in Nat, NEW removed \in Int
    PROVE  Accumulators(left, bits, pixels, removed, FALSE) \in DrainRecord
BY DEF Accumulators, DrainRecord

(* drain_pixel keeps an open chunk of the literal reading open: no padding  *)
(* is impossible.                                                           *)
LEMMA DrainPixelLiteral ==
    ASSUME NEW c, ValidChunk(c), NEW pixel \in Nat, NEW d, LiteralOpen(c, pixel, d),
           NEW e, e = DrainPixel(c, pixel + 1, LITERAL, d)
    PROVE  LiteralOpen(c, pixel + 1, e)
<1> DEFINE w == c.slice_width
           b == c.bits_per_pixel
           delay == c.initial_xmit_delay
           size == c.slice_chunk_size
           F == FirstDrain(c)
           L == LastFraction(c)
           k == d.chunk_pixels
           frac == d.fractional_bits
           cb == d.chunk_bits
           rem == d.removed
           p0 == (k - 1) * b
           p == k * b
           p1 == (k + 1) * b
           whole == (frac + b) \div 16
           drop == (pixel + 1 - delay) % w = 0
           left == IF drop THEN 0 ELSE (frac + b) % 16
           bits == cb + whole
           padding == size * 8 - bits
<1>1. /\ w \in Nat \ {0} /\ b \in 1..1023 /\ delay \in Nat
      /\ size = (w * b + 127) \div 128
  BY DEF ValidChunk
<1>2. /\ frac \in 0..15 /\ cb \in Nat /\ k \in Nat /\ rem \in Int /\ k < w
      /\ d.failed = FALSE
      /\ IF pixel + 1 < F THEN k = 0 ELSE (pixel + 1 - F) % w = k
  BY DEF LiteralOpen, DrainRecord
<1>3. IF delay = 0 THEN 16 * cb + frac = p
      ELSE IF k = 0 THEN cb = 0 /\ frac \in {0, L}
      ELSE frac = p0 % 16 /\ \E f \in {0, L}, x \in 0..15 : 16 * cb + frac + x = f + p
  BY DEF LiteralOpen, LiteralAccount
<1>4. e = IF pixel + 1 < delay THEN d
          ELSE IF k + 1 # w THEN Accumulators(left, bits, k + 1, rem + whole, d.failed)
          ELSE IF padding \in 0..9 THEN Accumulators(left, 0, 0, rem + whole + padding, d.failed)
          ELSE Accumulators(left, bits, k + 1, rem, TRUE)
  <2>1. MaxPadding(LITERAL) = 9
    BY DEF MaxPadding
  <2>2. FractionAfterChunk(LITERAL, left) = left
    <3>1. LITERAL # CHUNK
      BY DEF LITERAL, CHUNK
    <3> QED BY <3>1, Zenon DEF FractionAfterChunk
  <2>3. FractionLeft(c, pixel + 1, LITERAL, frac + b) = left
    <3>1. FractionResets(c, pixel + 1, LITERAL) <=> drop
      BY <1>1 DEF FractionResets
    <3> QED BY <3>1, Zenon DEF FractionLeft
  <2> HIDE DEF left
  <2> QED BY <2>1, <2>2, <2>3, Zenon DEF DrainPixel
<1>5. /\ p0 \in Int /\ p \in Nat /\ p1 \in Nat /\ p = p0 + b /\ p1 = p + b
      /\ k = 0 => p = 0
      /\ k >= 1 => p0 \in Nat
  <2>1. k \in Nat /\ b \in 1..1023
    BY <1>1, <1>2
  <2> HIDE DEF k, b
  <2> QED BY <2>1
<1>6. L \in 0..15 /\ (k + 1 = w => L = p % 16)
  <2>1. w \in Nat \ {0} /\ b \in 1..1023 /\ k \in Nat
    BY <1>1, <1>2
  <2> DEFINE pl == (w - 1) * b
  <2>2. pl \in Nat /\ (k + 1 = w => pl = p)
    <3> HIDE DEF w, b, k
    <3>1. pl \in Nat
      BY <2>1
    <3>2. k + 1 = w => w - 1 = k
      BY <2>1
    <3> QED BY <3>1, <3>2
  <2>3. L = pl % 16
    BY DEF LastFraction
  <2> HIDE DEF pl, p, L
  <2> QED BY <2>2, <2>3
<1>7. F = IF delay = 0 THEN 1 ELSE delay
  BY DEF FirstDrain
<1>8. CASE pixel + 1 < delay
  <2>1. e = d
    BY <1>4, <1>8, Zenon
  <2>2. k = 0 /\ pixel + 1 < F /\ delay # 0 /\ F \in Nat
    BY <1>1, <1>2, <1>7, <1>8
  <2>3. IF pixel + 1 + 1 < F THEN k = 0 ELSE (pixel + 1 + 1 - F) % w = k
    <3>1. ~(pixel + 1 + 1 < F) => pixel + 1 + 1 - F = 0
      BY <2>2
    <3>2. 0 % w = 0
      BY <1>1
    <3> QED BY <2>2, <3>1, <3>2, Zenon
  <2> QED BY <2>1, <2>3 DEF LiteralOpen
<1>9. ASSUME ~(pixel + 1 < delay)
      PROVE  /\ (pixel + 1 + 1 - F) % w = IF k + 1 = w THEN 0 ELSE k + 1
             /\ drop <=> (IF delay = 0 THEN k + 1 = w ELSE k = 0)
             /\ ~(pixel + 1 + 1 < F)
  <2>1. /\ w \in Nat \ {0} /\ delay \in Nat /\ k \in 0 .. w - 1 /\ pixel + 1 >= delay
        /\ (pixel + 1 - F) % w = k /\ ~(pixel + 1 < F) /\ F \in Nat
    BY <1>1, <1>2, <1>7, <1>9
  <2> DEFINE a == pixel + 1 - F
             a1 == pixel + 1 + 1 - F
             a0 == pixel + 1 - delay
  <2> HIDE DEF w, delay, k, F
  <2>2. a \in Nat /\ a1 = a + 1 /\ a0 = IF delay = 0 THEN a1 ELSE a
    BY <2>1, <1>7
  <2>3. a % w = k
    BY <2>1
  <2>4. ~(pixel + 1 + 1 < F)
    BY <2>1
  <2>5. drop <=> a0 % w = 0
    BY DEF drop, delay, w
  <2> HIDE DEF a, a1, a0, drop
  <2>6. (a + 1) % w = IF (a % w) + 1 = w THEN 0 ELSE (a % w) + 1
    BY <2>1, <2>2, ModStep
  <2>7. a1 % w = IF k + 1 = w THEN 0 ELSE k + 1
    BY <2>2, <2>3, <2>6
  <2>8. drop <=> (IF delay = 0 THEN k + 1 = w ELSE k = 0)
    <3>1. CASE delay = 0
      <4>1. a0 = a1
        BY <2>2, <3>1
      <4>2. a0 % w = IF k + 1 = w THEN 0 ELSE k + 1
        BY <2>7, <4>1, Zenon
      <4> QED BY <2>1, <2>5, <3>1, <4>2
    <3>2. CASE delay # 0
      <4>1. a0 = a
        BY <2>2, <3>2
      <4>2. a0 % w = k
        BY <2>3, <4>1, Zenon
      <4> QED BY <2>5, <3>2, <4>2, Zenon
    <3> QED BY <3>1, <3>2
  <2> QED BY <2>4, <2>7, <2>8, Zenon DEF a1
<1>10. /\ left \in 0..15 /\ bits \in Nat /\ whole \in Nat
       /\ ~drop => 16 * bits + left = 16 * cb + frac + b
       /\ ~drop /\ k >= 1 /\ frac = p0 % 16 => left = (p0 + b) % 16
       /\ drop => \E x \in 0..15 : 16 * bits + left + x = 16 * cb + frac + b
       /\ drop => left = 0
  <2>1. frac \in 0..15 /\ cb \in Nat /\ b \in 1..1023 /\ drop \in BOOLEAN
    BY <1>1, <1>2
  <2> HIDE DEF frac, cb, b, drop, p0, k
  <2>2. /\ left \in 0..15 /\ bits \in Nat /\ whole \in Nat
        /\ drop => left = 0
        /\ ~drop => 16 * bits + left = 16 * cb + frac + b
    BY <2>1
  <2>3. ~drop /\ k >= 1 /\ frac = p0 % 16 => left = (p0 + b) % 16
    <3>1. k >= 1 => p0 \in Nat
      BY <1>5
    <3> QED BY <2>1, <3>1
  <2>4. drop => \E x \in 0..15 : 16 * bits + left + x = 16 * cb + frac + b
    <3> DEFINE x == (frac + b) % 16
    <3>1. x \in 0..15 /\ (drop => 16 * bits + left + x = 16 * cb + frac + b)
      BY <2>1
    <3> QED BY <3>1
  <2> QED BY <2>1, <2>2, <2>3, <2>4
<1> HIDE DEF whole, left, bits, padding, drop, p0, p, p1, L, F
<1>11. CASE ~(pixel + 1 < delay) /\ k + 1 # w
  <2>1. e = Accumulators(left, bits, k + 1, rem + whole, FALSE)
    BY <1>2, <1>4, <1>11, Zenon
  <2>2. /\ e.chunk_pixels = k + 1 /\ e.chunk_bits = bits /\ e.fractional_bits = left
        /\ e.failed = FALSE
    BY <2>1 DEF Accumulators
  <2>3. k + 1 < w /\ k + 1 \in Nat /\ rem + whole \in Int
    BY <1>1, <1>2, <1>10, <1>11
  <2>4. e \in DrainRecord
    <3>1. left \in 0..15 /\ bits \in Nat
      BY <1>10
    <3> QED BY <2>1, <2>3, <3>1, AccumulatorsType, Zenon
  <2>5. LiteralAccount(c, e)
    <3>1. CASE delay = 0
      <4>1. ~drop
        BY <1>9, <1>11, <3>1
      <4>2. 16 * bits + left = p1
        BY <4>1, <1>3, <1>5, <1>10, <3>1
      <4> QED BY <4>2, <2>2, <3>1 DEF LiteralAccount, p1
    <3>2. CASE delay # 0
      <4>1. k + 1 # 0 /\ k + 1 - 1 = k
        BY <1>2
      <4>2. left = p % 16 /\ \E f \in {0, L}, x \in 0..15 : 16 * bits + left + x = f + p1
        <5>1. CASE k = 0
          <6>1. drop /\ left = 0
            BY <1>9, <1>10, <1>11, <3>2, <5>1
          <6>2. cb = 0 /\ frac \in {0, L}
            BY <1>3, <3>2, <5>1
          <6>3. p = 0 /\ p1 = b
            BY <1>1, <1>5, <5>1, SMTT(30)
          <6>4. PICK x \in 0..15 : 16 * bits + left + x = 16 * cb + frac + b
            BY <1>10, <6>1
          <6>5. 16 * bits + left + x = frac + p1
            BY <6>2, <6>3, <6>4, <1>1, <1>2
          <6> QED BY <6>1, <6>2, <6>3, <6>5
        <5>2. CASE k # 0
          <6>1. ~drop
            BY <1>9, <1>11, <3>2, <5>2
          <6>2. k >= 1 /\ frac = p0 % 16
            BY <1>2, <1>3, <3>2, <5>2
          <6>3. PICK f \in {0, L}, x \in 0..15 : 16 * cb + frac + x = f + p
            BY <1>3, <3>2, <5>2
          <6>4. 16 * bits + left + x = f + p1
            <7>1. 16 * bits + left = 16 * cb + frac + b /\ bits \in Nat /\ left \in 0..15
              BY <6>1, <1>10
            <7>2. f \in Int
              BY <1>6
            <7>3. cb \in Nat /\ frac \in 0..15 /\ b \in 1..1023
              BY <1>1, <1>2
            <7>4. p \in Nat /\ p1 \in Nat /\ p1 = p + b
              BY <1>5
            <7> HIDE DEF b, cb, frac
            <7> QED BY <6>3, <7>1, <7>2, <7>3, <7>4
          <6>5. left = p % 16
            BY <6>1, <6>2, <1>5, <1>10
          <6> QED BY <6>4, <6>5
        <5> QED BY <5>1, <5>2
      <4>3. PICK f \in {0, L}, x \in 0..15 : 16 * bits + left + x = f + p1
        BY <4>2
      <4>4. /\ e.chunk_pixels # 0
            /\ e.fractional_bits = ((e.chunk_pixels - 1) * b) % 16
        <5>1. e.chunk_pixels - 1 = k /\ e.chunk_pixels # 0
          BY <1>2, <2>2
        <5>2. e.fractional_bits = p % 16
          BY <2>2, <4>2, Zenon
        <5> QED BY <5>1, <5>2, Zenon DEF p
      <4>5. 16 * e.chunk_bits + e.fractional_bits + x = f + e.chunk_pixels * b
        BY <4>3, <2>2, Zenon DEF p1
      <4> QED BY <4>3, <4>4, <4>5, <3>2, Zenon DEF LiteralAccount, L
    <3> QED BY <3>1, <3>2
  <2>6. ~(pixel + 1 + 1 < F) /\ (pixel + 1 + 1 - F) % w = k + 1
    BY <1>9, <1>11
  <2> QED BY <2>2, <2>3, <2>4, <2>5, <2>6 DEF LiteralOpen, F
<1>12. CASE ~(pixel + 1 < delay) /\ k + 1 = w
  <2>1. size \in Int /\ size = (p1 + 127) \div 128
    <3>1. p1 = w * b
      BY <1>12, Zenon DEF p1
    <3> QED BY <3>1, <1>1, ValidChunkSize, Zenon
  <2>2. \E lost \in 0..30 : 16 * bits + lost = p1
    <3>0. /\ cb \in Nat /\ frac \in 0..15 /\ b \in 1..1023
          /\ left \in 0..15 /\ bits \in Nat
          /\ p \in Nat /\ p1 \in Nat /\ p1 = p + b /\ L \in 0..15
      BY <1>1, <1>2, <1>5, <1>6, <1>10
    <3>1. CASE delay = 0
      <4>1. drop /\ 16 * cb + frac = p
        BY <1>3, <1>9, <1>12, <3>1
      <4>2. PICK x \in 0..15 : 16 * bits + left + x = 16 * cb + frac + b
        BY <1>10, <4>1
      <4>3. left + x \in 0..30 /\ 16 * bits + (left + x) = p1
        <5> HIDE DEF cb, frac, b
        <5> QED BY <3>0, <4>1, <4>2
      <4> QED BY <4>3
    <3>2. CASE delay # 0 /\ k = 0
      <4>1. drop /\ left = 0 /\ p = 0
        BY <1>5, <1>9, <1>10, <1>12, <3>2
      <4>2. cb = 0 /\ frac = 0
        <5>1. L = 0
          BY <1>6, <1>12, <4>1
        <5> QED BY <1>3, <3>2, <5>1
      <4>3. PICK x \in 0..15 : 16 * bits + left + x = 16 * cb + frac + b
        BY <1>10, <4>1
      <4>4. x \in 0..30 /\ 16 * bits + x = p1
        <5> HIDE DEF cb, frac, b
        <5> QED BY <3>0, <4>1, <4>2, <4>3
      <4> QED BY <4>4
    <3>3. CASE delay # 0 /\ k # 0
      <4>1. ~drop /\ 16 * bits + left = 16 * cb + frac + b
        BY <1>9, <1>10, <1>12, <3>3
      <4>2. PICK f \in {0, L}, x \in 0..15 : 16 * cb + frac + x = f + p
        BY <1>3, <3>3
      <4>3. left = L
        <5>1. k >= 1 /\ frac = p0 % 16
          BY <1>2, <1>3, <3>3
        <5>2. left = p % 16
          BY <4>1, <5>1, <1>5, <1>10
        <5> QED BY <1>6, <1>12, <5>2
      <4>4. \E lost \in 0..30 : 16 * bits + lost = p1
        <5> HIDE DEF cb, frac, b
        <5>1. 16 * bits + left + x = f + p1 /\ f \in Int
          BY <3>0, <4>1, <4>2
        <5>2. CASE f = 0
          <6>1. left + x \in 0..30 /\ 16 * bits + (left + x) = p1
            BY <3>0, <5>1, <5>2
          <6> QED BY <6>1
        <5>3. CASE f = L
          <6>1. x \in 0..30 /\ 16 * bits + x = p1
            BY <3>0, <4>3, <5>1, <5>3
          <6> QED BY <6>1
        <5> QED BY <5>2, <5>3
      <4> QED BY <4>4
    <3> QED BY <3>1, <3>2, <3>3
  <2>3. /\ padding \in 0..9 /\ rem + whole + padding \in Int
    <3>1. PICK lost \in 0..30 : 16 * bits + lost = p1
      BY <2>2
    <3>2. 8 * size - bits \in 0..9
      <4> HIDE DEF size
      <4> QED BY <2>1, <3>1, <1>5, <1>10, LiteralPaddingBound
    <3> QED BY <2>1, <3>2, <1>2, <1>10 DEF padding
  <2>4. e = Accumulators(left, 0, 0, rem + whole + padding, FALSE)
    BY <1>2, <1>4, <1>12, <2>3, Zenon
  <2>5. /\ e.chunk_pixels = 0 /\ e.chunk_bits = 0 /\ e.fractional_bits = left
        /\ e.failed = FALSE
    BY <2>4 DEF Accumulators
  <2>6. e \in DrainRecord
    <3>1. left \in 0..15 /\ 0 \in Nat
      BY <1>10
    <3> QED BY <2>4, <2>3, <3>1, AccumulatorsType, Zenon
  <2>7. LiteralAccount(c, e)
    <3>1. CASE delay = 0
      <4>1. left = 0
        BY <1>9, <1>10, <1>12, <3>1
      <4>2. b \in Int /\ 0 * b = 0
        BY <1>1, SMTT(30)
      <4>3. 16 * e.chunk_bits + e.fractional_bits = 0
        BY <2>5, <4>1
      <4>4. e.chunk_pixels * b = 0
        BY <2>5, <4>2, Zenon
      <4> QED BY <3>1, <4>3, <4>4, Zenon DEF LiteralAccount
    <3>2. CASE delay # 0
      <4>1. left \in {0, L}
        <5>1. CASE k = 0
          BY <1>9, <1>10, <3>2, <5>1, <1>12
        <5>2. CASE k # 0
          <6>1. ~drop /\ k >= 1 /\ frac = p0 % 16
            BY <1>2, <1>3, <1>9, <1>12, <3>2, <5>2
          <6>2. left = p % 16
            BY <6>1, <1>5, <1>10
          <6> QED BY <1>6, <1>12, <6>2
        <5> QED BY <5>1, <5>2
      <4> QED BY <2>5, <3>2, <4>1, Zenon DEF LiteralAccount, L
    <3> QED BY <3>1, <3>2
  <2>8. ~(pixel + 1 + 1 < F) /\ (pixel + 1 + 1 - F) % w = 0
    BY <1>9, <1>12
  <2> QED BY <1>1, <2>5, <2>6, <2>7, <2>8 DEF LiteralOpen, F
<1> QED BY <1>8, <1>11, <1>12

(* Both readings start with an open chunk.                                  *)
LEMMA DrainStartChunk ==
    ASSUME NEW c, ValidChunk(c)
    PROVE  ChunkOpen(c, DrainStart)
<1>1. c.slice_width \in Nat \ {0} /\ 0 * c.bits_per_pixel = 0
  BY DEF ValidChunk
<1>2. DrainStart \in DrainRecord
  BY DEF DrainStart, DrainRecord
<1> QED BY <1>1, <1>2 DEF ChunkOpen, DrainStart

LEMMA DrainStartLiteral ==
    ASSUME NEW c, ValidChunk(c)
    PROVE  LiteralOpen(c, 0, DrainStart)
<1>1. /\ c.slice_width \in Nat \ {0} /\ 0 * c.bits_per_pixel = 0
      /\ c.initial_xmit_delay \in Nat
  BY DEF ValidChunk
<1>2. /\ DrainStart \in DrainRecord /\ DrainStart.failed = FALSE
      /\ DrainStart.chunk_pixels = 0 /\ DrainStart.chunk_bits = 0
      /\ DrainStart.fractional_bits = 0
  BY DEF DrainStart, DrainRecord
<1>3. 0 % c.slice_width = 0
  BY <1>1
<1>4. ~(0 + 1 < FirstDrain(c)) => 0 + 1 - FirstDrain(c) = 0
  BY <1>1 DEF FirstDrain
<1>5. IF 0 + 1 < FirstDrain(c) THEN DrainStart.chunk_pixels = 0
      ELSE (0 + 1 - FirstDrain(c)) % c.slice_width = DrainStart.chunk_pixels
  BY <1>2, <1>3, <1>4, Zenon
<1>6. 16 * DrainStart.chunk_bits + DrainStart.fractional_bits = 0
  BY <1>2
<1>7. LiteralAccount(c, DrainStart)
  BY <1>1, <1>2, <1>6 DEF LiteralAccount
<1> QED BY <1>1, <1>2, <1>5, <1>7 DEF LiteralOpen

-----------------------------------------------------------------------------
(* The account of the chunks that are complete.                             *)

(* The pixel times up to p that have removed bits.                          *)
DrainTimes(c, p) == IF p < FirstDrain(c) THEN 0 ELSE p - FirstDrain(c) + 1

(* The account of the chunk reading after p pixels of a slice: n chunks are *)
(* complete, each has removed exactly its bytes, and the open one the whole *)
(* bits of its pixels.                                                      *)
ChunksCounted(c, p, d, n) ==
    /\ ChunkOpen(c, d)
    /\ n \in Nat
    /\ d.removed = n * (8 * c.slice_chunk_size) + d.chunk_bits
    /\ DrainTimes(c, p) = n * c.slice_width + d.chunk_pixels

CompletesChunk(c, pixel, d) ==
    pixel >= c.initial_xmit_delay /\ d.chunk_pixels + 1 = c.slice_width

LEMMA CountedPixel ==
    ASSUME NEW c, ValidChunk(c), NEW p \in Nat, NEW d, NEW n, ChunksCounted(c, p, d, n),
           NEW e, e = DrainPixel(c, p + 1, CHUNK, d)
    PROVE  ChunksCounted(c, p + 1, e, IF CompletesChunk(c, p + 1, d) THEN n + 1 ELSE n)
<1> DEFINE w == c.slice_width
           s == 8 * c.slice_chunk_size
           k == d.chunk_pixels
           delay == c.initial_xmit_delay
<1>1. /\ n \in Nat /\ ChunkOpen(c, d)
      /\ d.removed = n * s + d.chunk_bits
      /\ DrainTimes(c, p) = n * w + k
  BY DEF ChunksCounted
<1>2. w \in Nat \ {0} /\ delay \in Nat /\ p + 1 \in Nat
  BY DEF ValidChunk
<1>3. /\ ChunkOpen(c, e)
      /\ p + 1 < delay => e = d
      /\ p + 1 >= delay /\ k + 1 # w =>
           /\ e.chunk_pixels = k + 1
           /\ e.removed - e.chunk_bits = d.removed - d.chunk_bits
      /\ p + 1 >= delay /\ k + 1 = w =>
           /\ e.chunk_pixels = 0
           /\ e.chunk_bits = 0
           /\ e.removed = d.removed - d.chunk_bits + s
  BY <1>1, <1>2, DrainPixelChunk
<1>4. /\ d.chunk_bits \in Nat /\ d.removed \in Int /\ k \in Nat
      /\ e.chunk_bits \in Nat /\ e.removed \in Int /\ e.chunk_pixels \in Nat
  BY <1>1, <1>3 DEF ChunkOpen, DrainRecord
<1>5. s \in Int
  <2>1. c.slice_chunk_size \in Int
    BY ValidChunkSize
  <2> QED BY <2>1
<1>6. DrainTimes(c, p + 1) = IF p + 1 >= delay THEN DrainTimes(c, p) + 1 ELSE DrainTimes(c, p)
  BY <1>2 DEF DrainTimes, FirstDrain
<1>7. /\ n * s \in Int /\ n * w \in Int
      /\ (n + 1) * s = n * s + s /\ (n + 1) * w = n * w + w
  <2> HIDE DEF s, w
  <2> QED BY <1>1, <1>2, <1>5
<1> DEFINE ns == n * s
           nw == n * w
<1> HIDE DEF ns, nw, s, w
<1>8. CASE p + 1 < delay
  <2>1. ~CompletesChunk(c, p + 1, d) /\ e = d /\ DrainTimes(c, p + 1) = DrainTimes(c, p)
    BY <1>2, <1>3, <1>6, <1>8 DEF CompletesChunk
  <2> QED BY <1>1, <2>1 DEF ChunksCounted, s, w
<1>9. CASE p + 1 >= delay /\ k + 1 # w
  <2>1. ~CompletesChunk(c, p + 1, d) /\ DrainTimes(c, p + 1) = nw + k + 1
    BY <1>1, <1>2, <1>4, <1>6, <1>7, <1>9 DEF CompletesChunk, nw, w
  <2>2. e.removed = ns + e.chunk_bits /\ DrainTimes(c, p + 1) = nw + e.chunk_pixels
    BY <1>1, <1>3, <1>4, <1>7, <1>9, <2>1 DEF ns, nw
  <2> QED BY <1>1, <1>3, <2>1, <2>2 DEF ChunksCounted, ns, nw, s, w
<1>10. CASE p + 1 >= delay /\ k + 1 = w
  <2>1. CompletesChunk(c, p + 1, d) /\ DrainTimes(c, p + 1) = nw + w
    <3>1. CompletesChunk(c, p + 1, d)
      BY <1>10 DEF CompletesChunk, w
    <3>2. DrainTimes(c, p + 1) = (nw + k) + 1 /\ nw \in Int
      BY <1>1, <1>6, <1>7, <1>10 DEF nw
    <3> QED BY <1>2, <1>4, <1>10, <3>1, <3>2
  <2>2. e.removed = ns + s /\ e.chunk_pixels = 0 /\ e.chunk_bits = 0
    BY <1>1, <1>3, <1>4, <1>5, <1>7, <1>10 DEF ns
  <2>3. e.removed = (n + 1) * s + e.chunk_bits
        /\ DrainTimes(c, p + 1) = (n + 1) * w + e.chunk_pixels /\ n + 1 \in Nat
    BY <1>1, <1>2, <1>5, <1>7, <2>1, <2>2 DEF ns, nw
  <2> QED BY <1>3, <2>1, <2>3, Zenon DEF ChunksCounted, s, w
<1> QED BY <1>2, <1>8, <1>9, <1>10

LEMMA CountedStart ==
    ASSUME NEW c, ValidChunk(c)
    PROVE  ChunksCounted(c, 0, DrainStart, 0)
<1>1. c.slice_width \in Nat \ {0} /\ c.initial_xmit_delay \in Nat
  BY DEF ValidChunk
<1>2. c.slice_chunk_size \in Int
  BY ValidChunkSize
<1>3. 0 * (8 * c.slice_chunk_size) = 0 /\ 0 * c.slice_width = 0
  BY <1>1, <1>2
<1>4. DrainTimes(c, 0) = 0
  BY <1>1 DEF DrainTimes, FirstDrain
<1> QED BY <1>3, <1>4, DrainStartChunk DEF ChunksCounted, DrainStart

-----------------------------------------------------------------------------

(* Entries up to p: predict.c counts them with n.                          *)
Rank(U, p) == Cardinality({q \in U : q <= p})

(* A part of an interval is finite, and so is what it has up to p.         *)
LEMMA RankType ==
    ASSUME NEW n \in Nat, NEW U \in SUBSET (1..n), NEW p \in Int
    PROVE  /\ IsFiniteSet(U) /\ Cardinality(U) \in Nat
           /\ IsFiniteSet({q \in U : q <= p})
           /\ Rank(U, p) \in 0 .. Cardinality(U)
PROOF
  <1>1. IsFiniteSet(1..n)
    BY FS_Interval, 1 \in Int, n \in Int
  <1>2. IsFiniteSet(U) /\ Cardinality(U) \in Nat
    BY <1>1, FS_Subset, FS_CardinalityType
  <1> DEFINE P == {q \in U : q <= p}
  <1>3. P \in SUBSET U
    OBVIOUS
  <1>4. IsFiniteSet(P) /\ Cardinality(P) <= Cardinality(U)
    BY <1>2, <1>3, FS_Subset
  <1>5. Cardinality(P) \in Nat
    BY <1>4, FS_CardinalityType
  <1> QED
    BY <1>2, <1>4, <1>5 DEF Rank

(* An entry counts itself and all that the entries before it count.        *)
LEMMA RankIncreases ==
    ASSUME NEW n \in Nat, NEW U \in SUBSET (1..n),
           NEW p \in U, NEW q \in U, p < q
    PROVE  Rank(U, p) < Rank(U, q)
PROOF
  <1> DEFINE P == {r \in U : r <= p}
             Q == {r \in U : r <= q}
  <1>1. p \in Int /\ q \in Int
    OBVIOUS
  <1>2. IsFiniteSet(P) /\ IsFiniteSet(Q)
    BY <1>1, RankType
  <1>3. P \in SUBSET Q
    <2> SUFFICES ASSUME NEW r \in U, r <= p
                 PROVE  r <= q
      OBVIOUS
    <2>1. r \in Int
      OBVIOUS
    <2> QED
      BY <1>1, <2>1
  <1>4. P # Q
    <2>1. q \in Q
      BY <1>1
    <2>2. ~(q <= p)
      BY <1>1
    <2> QED
      BY <2>1, <2>2
  <1>6. Cardinality(P) <= Cardinality(Q) /\ Cardinality(Q) # Cardinality(P)
    BY <1>2, <1>3, <1>4, FS_Subset
  <1>5. Cardinality(P) \in Nat /\ Cardinality(Q) \in Nat
    BY <1>2, FS_CardinalityType
  <1> QED
    BY <1>5, <1>6 DEF Rank

(* Every number up to the number of entries is the rank of one.            *)
LEMMA NthProperties ==
    ASSUME NEW n \in Nat, NEW U \in SUBSET (1..n), NEW k \in 1 .. Cardinality(U)
    PROVE  Nth(U, k) \in U /\ Rank(U, Nth(U, k)) = k
PROOF
  <1> DEFINE m == Cardinality(U)
             f == [p \in U |-> Rank(U, p)]
  <1>1. m \in Nat /\ IsFiniteSet(1..m) /\ Cardinality(1..m) = m
    <2>1. m \in Nat
      BY RankType, 0 \in Int
    <2>2. IsFiniteSet(1..m) /\ Cardinality(1..m) = IF 1 > m THEN 0 ELSE m - 1 + 1
      BY <2>1, FS_Interval, 1 \in Int, m \in Int
    <2> QED
      BY <2>1, <2>2
  <1>2. \A p \in U : Rank(U, p) \in 1..m
    <2> TAKE p \in U
    <2>0. p \in Int
      OBVIOUS
    <2>1. Rank(U, p) \in 0..m /\ IsFiniteSet({q \in U : q <= p})
      BY <2>0, RankType
    <2>2. {q \in U : q <= p} # {}
      BY <2>0
    <2>3. Rank(U, p) # 0
      BY <2>1, <2>2, FS_EmptySet DEF Rank
    <2> QED
      BY <2>1, <2>3, <1>1
  <1>3. f \in [U -> 1..m]
    BY <1>2
  <1>4. \A p, q \in U : f[p] = f[q] => p = q
    <2> SUFFICES ASSUME NEW p \in U, NEW q \in U, f[p] = f[q], p # q
                 PROVE  FALSE
      OBVIOUS
    <2>1. p \in Int /\ q \in Int
      OBVIOUS
    <2>2. Rank(U, p) \in 1..m /\ Rank(U, q) \in 1..m
      BY <1>2
    <2>3. CASE p < q
      <3>1. Rank(U, p) < Rank(U, q)
        BY <2>3, RankIncreases
      <3> QED
        BY <3>1, <2>2, <1>1
    <2>4. CASE q < p
      <3>1. Rank(U, q) < Rank(U, p)
        BY <2>4, RankIncreases
      <3> QED
        BY <3>1, <2>2, <1>1
    <2> QED
      BY <2>1, <2>3, <2>4
  <1>5. f \in Injection(U, 1..m)
    BY <1>3, <1>4 DEF Injection, IsInjective
  <1>6. f \in Surjection(U, 1..m)
    BY <1>1, <1>5, FS_Injection
  <1>7. PICK p \in U : f[p] = k
    BY <1>6 DEF Surjection
  <1>8. \E p1 \in U : Cardinality({q \in U : q <= p1}) = k
    BY <1>7 DEF Rank
  <1> QED
    BY <1>8 DEF Nth, Rank

(* The entries that stay keep their order.                                 *)
LEMMA NthIncreases ==
    ASSUME NEW n \in Nat, NEW U \in SUBSET (1..n),
           NEW i \in 1 .. Cardinality(U), NEW k \in 1 .. Cardinality(U), i < k
    PROVE  Nth(U, i) < Nth(U, k)
PROOF
  <1>1. /\ Nth(U, i) \in U /\ Rank(U, Nth(U, i)) = i
        /\ Nth(U, k) \in U /\ Rank(U, Nth(U, k)) = k
    BY NthProperties
  <1>2. Cardinality(U) \in Nat
    BY RankType, 0 \in Int
  <1> DEFINE p == Nth(U, i)
             q == Nth(U, k)
  <1> HIDE DEF p, q
  <1>3. p \in U /\ Rank(U, p) = i /\ q \in U /\ Rank(U, q) = k
    BY <1>1 DEF p, q
  <1>4. p \in Int /\ q \in Int
    BY <1>3
  <1>5. p # q
    BY <1>2, <1>3
  <1>6. ~(q < p)
    <2> SUFFICES ASSUME q < p PROVE FALSE
      OBVIOUS
    <2>1. Rank(U, q) < Rank(U, p)
      BY <1>3, RankIncreases
    <2> QED
      BY <2>1, <1>2, <1>3
  <1>7. p < q
    BY <1>4, <1>5, <1>6
  <1> QED
    BY <1>7 DEF p, q

-----------------------------------------------------------------------------

(* Sequences of one and two entries, joined.                               *)
LEMMA Joins ==
    ASSUME NEW E, NEW x \in E, NEW y \in E, NEW z \in E
    PROVE  /\ <<x>> \o <<>> = <<x>> /\ <<x, y>> \o <<>> = <<x, y>>
           /\ <<x>> \o <<y>> = <<x, y>> /\ <<x, y>> \o <<z>> = <<x, y, z>>
PROOF
  <1>1. <<x>> \in Seq(E) /\ <<x, y>> \in Seq(E) /\ <<z>> \in Seq(E) /\ <<y>> \in Seq(E)
    OBVIOUS
  <1>2. <<x>> \o <<>> = <<x>> /\ <<x, y>> \o <<>> = <<x, y>>
    BY <1>1, ConcatEmptySeq
  <1> DEFINE s == <<x>> \o <<y>>
             t == <<x, y>> \o <<z>>
  <1>3. s \in Seq(E) /\ Len(s) = 2 /\ s[1] = x /\ s[2] = y
    BY <1>1
  <1>4. t \in Seq(E) /\ Len(t) = 3 /\ t[1] = x /\ t[2] = y /\ t[3] = z
    BY <1>1
  <1>5. s = <<x, y>>
    <2>1. <<x, y>> \in Seq(E) /\ Len(<<x, y>>) = 2
      OBVIOUS
    <2>2. \A i \in 1..2 : s[i] = <<x, y>>[i]
      BY <1>3
    <2> HIDE DEF s
    <2> QED
      BY <2>1, <2>2, <1>3, SeqEqual
  <1>6. t = <<x, y, z>>
    <2>1. <<x, y, z>> \in Seq(E) /\ Len(<<x, y, z>>) = 3
      OBVIOUS
    <2>2. \A i \in 1..3 : t[i] = <<x, y, z>>[i]
      BY <1>4
    <2> HIDE DEF t
    <2> QED
      BY <2>1, <2>2, <1>4, SeqEqual
  <1> QED
    BY <1>2, <1>5, <1>6

(* The pixels of a group that enter: one to three of them, the last one    *)
(* first.                                                                  *)
LEMMA FrontParts ==
    ASSUME NEW E, NEW ich \in BOOLEAN, NEW index, NEW pixels \in [0..2 -> E]
    PROVE  LET F == Front(ich, index, pixels)
           IN  /\ F \in Seq(E) /\ Len(F) \in 1..3
               /\ F[1] = pixels[2]
               /\ \/ F = <<pixels[2]>>
                  \/ F = <<pixels[2], pixels[1]>> /\ (ich => ~Repeated(index, 1))
                  \/ F = <<pixels[2], pixels[0]>> /\ (ich => ~Repeated(index, 0))
                  \/ /\ F = <<pixels[2], pixels[1], pixels[0]>>
                     /\ ich => ~Repeated(index, 1) /\ ~Repeated(index, 0)
PROOF
  <1>1. pixels[0] \in E /\ pixels[1] \in E /\ pixels[2] \in E
    OBVIOUS
  <1> DEFINE a == ich /\ Repeated(index, 1)
             b == ich /\ Repeated(index, 0)
             second == IF a THEN <<>> ELSE <<pixels[1]>>
             third == IF b THEN <<>> ELSE <<pixels[0]>>
             F == Front(ich, index, pixels)
  <1>2. F = <<pixels[2]>> \o second \o third
    BY DEF Front
  <1>3. CASE a /\ b
    <2>1. second = <<>> /\ third = <<>>
      BY <1>3
    <2>2. F = <<pixels[2]>>
      BY <1>1, <1>2, <2>1, Joins
    <2>3. <<pixels[2]>> \in Seq(E) /\ Len(<<pixels[2]>>) \in 1..3 /\ <<pixels[2]>>[1] = pixels[2]
      BY <1>1
    <2> QED
      BY <1>3, <2>2, <2>3
  <1>4. CASE a /\ ~b
    <2>1. second = <<>> /\ third = <<pixels[0]>>
      BY <1>4
    <2>2. F = <<pixels[2], pixels[0]>>
      <3>1. F = <<pixels[2]>> \o <<>> \o <<pixels[0]>>
        BY <1>2, <2>1
      <3>2. <<pixels[2]>> \o <<>> = <<pixels[2]>>
        BY <1>1, Joins
      <3>3. <<pixels[2]>> \o <<pixels[0]>> = <<pixels[2], pixels[0]>>
        BY <1>1, Joins
      <3> QED
        BY <3>1, <3>2, <3>3, Zenon
    <2>3. <<pixels[2], pixels[0]>> \in Seq(E) /\ Len(<<pixels[2], pixels[0]>>) \in 1..3 /\ <<pixels[2], pixels[0]>>[1] = pixels[2]
      BY <1>1
    <2> QED
      BY <1>4, <2>2, <2>3
  <1>5. CASE ~a /\ b
    <2>1. second = <<pixels[1]>> /\ third = <<>>
      BY <1>5
    <2>2. F = <<pixels[2], pixels[1]>>
      <3>1. F = <<pixels[2]>> \o <<pixels[1]>> \o <<>>
        BY <1>2, <2>1
      <3>2. <<pixels[2]>> \o <<pixels[1]>> = <<pixels[2], pixels[1]>>
        BY <1>1, Joins
      <3>3. <<pixels[2], pixels[1]>> \o <<>> = <<pixels[2], pixels[1]>>
        BY <1>1, Joins
      <3> QED
        BY <3>1, <3>2, <3>3, Zenon
    <2>3. <<pixels[2], pixels[1]>> \in Seq(E) /\ Len(<<pixels[2], pixels[1]>>) \in 1..3 /\ <<pixels[2], pixels[1]>>[1] = pixels[2]
      BY <1>1
    <2> QED
      BY <1>5, <2>2, <2>3
  <1>6. CASE ~a /\ ~b
    <2>1. second = <<pixels[1]>> /\ third = <<pixels[0]>>
      BY <1>6
    <2>2. F = <<pixels[2], pixels[1], pixels[0]>>
      <3>1. F = <<pixels[2]>> \o <<pixels[1]>> \o <<pixels[0]>>
        BY <1>2, <2>1
      <3>2. <<pixels[2]>> \o <<pixels[1]>> = <<pixels[2], pixels[1]>>
        BY <1>1, Joins
      <3>3. <<pixels[2], pixels[1]>> \o <<pixels[0]>> = <<pixels[2], pixels[1], pixels[0]>>
        BY <1>1, Joins
      <3> QED
        BY <3>1, <3>2, <3>3, Zenon
    <2>3. <<pixels[2], pixels[1], pixels[0]>> \in Seq(E) /\ Len(<<pixels[2], pixels[1], pixels[0]>>) \in 1..3 /\ <<pixels[2], pixels[1], pixels[0]>>[1] = pixels[2]
      BY <1>1
    <2> QED
      BY <1>6, <2>2, <2>3
  <1> QED
    BY <1>3, <1>4, <1>5, <1>6

(* The entries that stay.                                                  *)
LEMMA KeptParts ==
    ASSUME NEW E, NEW history \in Seq(E), NEW ich \in BOOLEAN, NEW index
    PROVE  LET U == Unselected(history, ich, index)
               K == Kept(history, ich, index)
           IN  /\ U \in SUBSET (1 .. Len(history))
               /\ Cardinality(U) \in Nat
               /\ K \in Seq(E) /\ Len(K) = Cardinality(U)
               /\ \A k \in 1 .. Len(K) : Nth(U, k) \in U /\ K[k] = history[Nth(U, k)]
PROOF
  <1> DEFINE U == Unselected(history, ich, index)
             K == Kept(history, ich, index)
  <1>1. U \in SUBSET (1 .. Len(history)) /\ Len(history) \in Nat
    BY DEF Unselected
  <1>2. Cardinality(U) \in Nat
    BY <1>1, RankType, 0 \in Int
  <1>3. \A k \in 1 .. Cardinality(U) : Nth(U, k) \in U
    BY <1>1, NthProperties
  <1>4. \A k \in 1 .. Cardinality(U) : history[Nth(U, k)] \in E
    BY <1>1, <1>3
  <1>5. K = [k \in 1 .. Cardinality(U) |-> history[Nth(U, k)]]
    BY DEF Kept
  <1> HIDE DEF U, K
  <1>6. K \in Seq(E) /\ Len(K) = Cardinality(U)
    BY <1>2, <1>4, <1>5
  <1> QED
    BY <1>1, <1>2, <1>3, <1>5, <1>6 DEF U, K

(* What is in the history after a group: the group's pixels, then entries  *)
(* that it had and that the group did not name, in their old order.        *)
LEMMA UpdatedParts ==
    ASSUME NEW E, NEW history \in Seq(E), NEW ich \in BOOLEAN, NEW index,
           NEW pixels \in [0..2 -> E], NEW capacity \in Nat
    PROVE  LET F == Front(ich, index, pixels)
               U == Unselected(history, ich, index)
               R == Updated(history, ich, index, pixels, capacity)
           IN  /\ R \in Seq(E) /\ Len(R) <= capacity
               /\ \A p \in 1 .. Len(R) :
                    \/ p <= Len(F) /\ R[p] = F[p]
                    \/ /\ p > Len(F)
                       /\ p - Len(F) \in 1 .. Cardinality(U)
                       /\ Nth(U, p - Len(F)) \in U
                       /\ R[p] = history[Nth(U, p - Len(F))]
PROOF
  <1> DEFINE F == Front(ich, index, pixels)
             U == Unselected(history, ich, index)
             K == Kept(history, ich, index)
             n == Minimum(Len(F \o K), capacity)
  <1>1. F \in Seq(E) /\ Len(F) \in 1..3
    BY FrontParts
  <1>2. /\ Cardinality(U) \in Nat /\ K \in Seq(E) /\ Len(K) = Cardinality(U)
        /\ \A k \in 1 .. Len(K) : Nth(U, k) \in U /\ K[k] = history[Nth(U, k)]
    BY KeptParts
  <1>3. Updated(history, ich, index, pixels, capacity) = SubSeq(F \o K, 1, n)
    BY DEF Updated
  <1> HIDE DEF F, U, K
  <1>4. /\ F \o K \in Seq(E) /\ Len(F \o K) = Len(F) + Len(K)
        /\ \A p \in 1 .. Len(F) + Len(K) :
             (F \o K)[p] = IF p <= Len(F) THEN F[p] ELSE K[p - Len(F)]
    BY <1>1, <1>2
  <1>5. n \in Nat /\ n <= capacity /\ n <= Len(F) + Len(K)
    BY <1>1, <1>2, <1>4 DEF Minimum
  <1> DEFINE G == F \o K
             R == SubSeq(G, 1, n)
  <1>6. G \in Seq(E) /\ Len(G) = Len(F) + Len(K)
    BY <1>4
  <1> HIDE DEF G, n
  <1>7. R \in Seq(E) /\ Len(R) = n /\ \A p \in 1 .. n : R[p] = G[p]
    BY <1>1, <1>2, <1>5, <1>6
  <1>8. \A p \in 1 .. n : R[p] = IF p <= Len(F) THEN F[p] ELSE K[p - Len(F)]
    BY <1>1, <1>2, <1>4, <1>5, <1>7 DEF G
  <1>9. ASSUME NEW p \in 1 .. n
        PROVE  \/ p <= Len(F) /\ R[p] = F[p]
               \/ /\ p > Len(F)
                  /\ p - Len(F) \in 1 .. Cardinality(U)
                  /\ Nth(U, p - Len(F)) \in U
                  /\ R[p] = history[Nth(U, p - Len(F))]
    <2>1. CASE p <= Len(F)
      BY <1>8, <2>1
    <2>2. CASE ~(p <= Len(F))
      <3>1. p > Len(F) /\ p - Len(F) \in 1 .. Len(K)
        BY <1>1, <1>2, <1>5, <2>2
      <3>2. R[p] = K[p - Len(F)]
        BY <1>8, <2>2
      <3> QED
        BY <1>2, <3>1, <3>2
    <2> QED
      BY <2>1, <2>2
  <1> QED
    BY <1>3, <1>5, <1>7, <1>9 DEF F, U, K, G

(* What is left at the end of a line.                                      *)
LEMMA AtLineEndParts ==
    ASSUME NEW E, NEW history \in Seq(E), NEW y \in Nat, NEW first \in Nat,
           NEW multiple \in BOOLEAN, Len(history) <= History
    PROVE  LET R == AtLineEnd(history, y, first, multiple)
           IN  /\ R \in Seq(E) /\ Len(R) <= Len(history)
               /\ Len(R) <= Capacity(y, first)
               /\ \A p \in 1 .. Len(R) : R[p] = history[p]
               /\ multiple => R = <<>>
PROOF
  <1> USE HistoryAssumption
  <1>1. CASE multiple
    BY <1>1 DEF AtLineEnd, Capacity
  <1>2. CASE ~multiple /\ y >= first /\ Len(history) > History - Above
    <2>1. AtLineEnd(history, y, first, multiple) = SubSeq(history, 1, History - Above)
      BY <1>2 DEF AtLineEnd
    <2>2. History - Above \in Nat /\ History - Above <= Len(history)
      BY <1>2
    <2> QED
      BY <1>2, <2>1, <2>2 DEF Capacity
  <1>3. CASE ~multiple /\ ~(y >= first /\ Len(history) > History - Above)
    BY <1>3 DEF AtLineEnd, Capacity
  <1> QED
    BY <1>1, <1>2, <1>3

(* Every entry that stays has its place in the list of those that do.      *)
LEMMA NthReaches ==
    ASSUME NEW n \in Nat, NEW U \in SUBSET (1..n), NEW p \in U
    PROVE  Rank(U, p) \in 1 .. Cardinality(U) /\ Nth(U, Rank(U, p)) = p
PROOF
  <1>1. p \in Int
    OBVIOUS
  <1>2. /\ Cardinality(U) \in Nat /\ Rank(U, p) \in 0 .. Cardinality(U)
        /\ IsFiniteSet({q \in U : q <= p})
    BY <1>1, RankType
  <1>3. {q \in U : q <= p} # {}
    BY <1>1
  <1>4. Rank(U, p) # 0
    BY <1>2, <1>3, FS_EmptySet DEF Rank
  <1> DEFINE k == Rank(U, p)
             r == Nth(U, k)
  <1>5. k \in 1 .. Cardinality(U)
    BY <1>2, <1>4
  <1>6. r \in U /\ Rank(U, r) = k
    BY <1>5, NthProperties
  <1>8. k \in Int
    BY <1>2
  <1>81. Rank(U, p) = k
    OBVIOUS
  <1> HIDE DEF k, r
  <1>7. r \in Int
    BY <1>6
  <1>9. ~(p < r)
    <2> SUFFICES ASSUME p < r PROVE FALSE
      OBVIOUS
    <2>1. Rank(U, p) < Rank(U, r)
      BY <1>6, RankIncreases
    <2> QED
      BY <2>1, <1>6, <1>8, <1>81
  <1>10. ~(r < p)
    <2> SUFFICES ASSUME r < p PROVE FALSE
      OBVIOUS
    <2>1. Rank(U, r) < Rank(U, p)
      BY <1>6, RankIncreases
    <2> QED
      BY <2>1, <1>6, <1>8, <1>81
  <1>11. r = p
    BY <1>1, <1>7, <1>9, <1>10
  <1> QED
    BY <1>5, <1>11 DEF k, r

(* The history before it is cut to the capacity.                           *)
Uncut(h, ich, index, pixels) == Front(ich, index, pixels) \o Kept(h, ich, index)

LEMMA UncutParts ==
    ASSUME NEW E, NEW h \in Seq(E), NEW ich \in BOOLEAN, NEW index,
           NEW pixels \in [0..2 -> E]
    PROVE  LET F == Front(ich, index, pixels)
               U == Unselected(h, ich, index)
               L == Uncut(h, ich, index, pixels)
           IN  /\ L \in Seq(E) /\ Len(L) \in Nat
               /\ L = Updated(h, ich, index, pixels, Len(L))
               /\ \A p \in 1 .. Len(F) : p \in 1 .. Len(L) /\ L[p] = F[p]
               /\ \A u \in U : \E p \in 1 .. Len(L) : L[p] = h[u]
PROOF
  <1> DEFINE F == Front(ich, index, pixels)
             U == Unselected(h, ich, index)
             K == Kept(h, ich, index)
             L == F \o K
  <1>1. F \in Seq(E) /\ Len(F) \in 1..3
    BY FrontParts
  <1>2. /\ U \in SUBSET (1 .. Len(h)) /\ Len(h) \in Nat
        /\ Cardinality(U) \in Nat /\ K \in Seq(E) /\ Len(K) = Cardinality(U)
        /\ \A k \in 1 .. Len(K) : Nth(U, k) \in U /\ K[k] = h[Nth(U, k)]
    BY KeptParts
  <1>3. Updated(h, ich, index, pixels, Len(L)) = SubSeq(L, 1, Minimum(Len(L), Len(L)))
    BY DEF Updated
  <1>4. \A u \in U : Rank(U, u) \in 1 .. Len(K) /\ K[Rank(U, u)] = h[u]
    BY <1>2, NthReaches
  <1>a. K \in Seq(E) /\ Len(K) \in Nat
    BY <1>2
  <1> HIDE DEF F, U, K
  <1>5. /\ L \in Seq(E) /\ Len(L) = Len(F) + Len(K)
        /\ \A p \in 1 .. Len(F) + Len(K) :
             L[p] = IF p <= Len(F) THEN F[p] ELSE K[p - Len(F)]
    BY <1>1, <1>a
  <1>6. \A p \in 1 .. Len(F) : p \in 1 .. Len(L) /\ L[p] = F[p]
    BY <1>1, <1>2, <1>5
  <1>7. ASSUME NEW u \in U
        PROVE  \E p \in 1 .. Len(L) : L[p] = h[u]
    <2> DEFINE p == Len(F) + Rank(U, u)
    <2>1. Rank(U, u) \in 1 .. Len(K) /\ K[Rank(U, u)] = h[u]
      BY <1>4
    <2>2. p \in 1 .. Len(F) + Len(K) /\ ~(p <= Len(F)) /\ p - Len(F) = Rank(U, u)
      BY <1>1, <1>2, <2>1
    <2>3. L[p] = h[u]
      BY <1>5, <2>1, <2>2
    <2>4. p \in 1 .. Len(L)
      BY <1>5, <2>2
    <2> HIDE DEF p, L
    <2> QED
      BY <2>3, <2>4
  <1>8. Len(L) \in Nat
    BY <1>1, <1>2, <1>5
  <1>9. L \in Seq(E) /\ Minimum(Len(L), Len(L)) = Len(L)
    BY <1>5 DEF Minimum
  <1> HIDE DEF L
  <1>10. SubSeq(L, 1, Len(L)) = L
    BY <1>8, <1>9, SubSeqFull
  <1> QED
    BY <1>3, <1>6, <1>7, <1>8, <1>9, <1>10 DEF F, U, K, L, Uncut

(* What a cut to the capacity leaves of it.                                *)
LEMMA CutParts ==
    ASSUME NEW E, NEW h, NEW ich, NEW index, NEW pixels, NEW capacity \in Nat,
           Uncut(h, ich, index, pixels) \in Seq(E)
    PROVE  LET L == Uncut(h, ich, index, pixels)
               R == Updated(h, ich, index, pixels, capacity)
           IN  /\ R \in Seq(E) /\ Len(R) = Minimum(Len(L), capacity)
               /\ \A p \in 1 .. Len(R) : R[p] = L[p]
PROOF
  <1> DEFINE L == Uncut(h, ich, index, pixels)
             m == Minimum(Len(L), capacity)
             R == SubSeq(L, 1, m)
  <1>1. Updated(h, ich, index, pixels, capacity) = R
    BY DEF Updated, Uncut
  <1> HIDE DEF L
  <1>2. Len(L) \in Nat /\ m \in Nat /\ m <= Len(L) /\ L \in Seq(E)
    BY DEF Minimum, L
  <1> HIDE DEF m
  <1>3. R \in Seq(E) /\ Len(R) = m /\ \A p \in 1 .. m : R[p] = L[p]
    BY <1>2
  <1> QED
    BY <1>1, <1>3 DEF L, m

(* Every pixel of a group is entered, or in an ICH group a later one with  *)
(* the same index.                                                         *)
LEMMA FrontHolds ==
    ASSUME NEW E, NEW ich \in BOOLEAN, NEW index, NEW pixels \in [0..2 -> E]
    PROVE  LET F == Front(ich, index, pixels)
           IN  \A j \in 0..2 : \E i \in 0..2, p \in 1 .. Len(F) :
                 F[p] = pixels[i] /\ (i = j \/ (ich /\ j < i /\ index[i] = index[j]))
PROOF
  <1> DEFINE F == Front(ich, index, pixels)
             Held(i) == \E p \in 1 .. Len(F) : F[p] = pixels[i]
  <1>1. F[1] = pixels[2] /\ Len(F) \in 1..3
    BY FrontParts
  <1>2. F = <<pixels[2]>> \o (IF ich /\ Repeated(index, 1) THEN <<>> ELSE <<pixels[1]>>)
                         \o (IF ich /\ Repeated(index, 0) THEN <<>> ELSE <<pixels[0]>>)
    BY DEF Front
  <1>3. pixels[0] \in E /\ pixels[1] \in E /\ pixels[2] \in E
    OBVIOUS
  <1>4. Held(2)
    BY <1>1
  <1>5. ~(ich /\ Repeated(index, 1)) => Held(1)
    <2> SUFFICES ASSUME ~(ich /\ Repeated(index, 1)) PROVE Held(1)
      OBVIOUS
    <2>1. \/ F = <<pixels[2], pixels[1]>> \/ F = <<pixels[2], pixels[1], pixels[0]>>
      BY <1>2, <1>3, Joins
    <2>2. F[2] = pixels[1] /\ 2 \in 1 .. Len(F)
      <3> HIDE DEF F
      <3> QED
        BY <2>1
    <2> QED
      BY <2>2
  <1>6. ~(ich /\ Repeated(index, 0)) => Held(0)
    <2> SUFFICES ASSUME ~(ich /\ Repeated(index, 0)) PROVE Held(0)
      OBVIOUS
    <2>1. \/ F = <<pixels[2], pixels[0]>> \/ F = <<pixels[2], pixels[1], pixels[0]>>
      BY <1>2, <1>3, Joins
    <2>2. \/ F[2] = pixels[0] /\ 2 \in 1 .. Len(F)
          \/ F[3] = pixels[0] /\ 3 \in 1 .. Len(F)
      <3> HIDE DEF F
      <3> QED
        BY <2>1
    <2> QED
      BY <2>2
  <1>7. Repeated(index, 1) => index[2] = index[1]
    BY DEF Repeated
  <1>8. Repeated(index, 0) => index[2] = index[0] \/ index[1] = index[0]
    BY DEF Repeated
  <1> HIDE DEF F, Held
  <1>9. ASSUME NEW j \in 0..2
        PROVE  \E i \in 0..2 : Held(i) /\ (i = j \/ (ich /\ j < i /\ index[i] = index[j]))
    <2>1. j = 0 \/ j = 1 \/ j = 2
      OBVIOUS
    <2>2. CASE j = 2
      BY <1>4, <2>2
    <2>3. CASE j = 1
      BY <1>4, <1>5, <1>7, <2>3
    <2>4. CASE j = 0
      <3>1. CASE Held(0)
        BY <2>4, <3>1
      <3>2. CASE ich /\ index[2] = index[0]
        BY <1>4, <2>4, <3>2
      <3>3. CASE ich /\ index[1] = index[0]
        <4>1. CASE Held(1)
          BY <2>4, <3>3, <4>1
        <4>2. CASE ~Held(1)
          BY <1>4, <1>5, <1>7, <2>4, <3>3, <4>2
        <4> QED
          BY <4>1, <4>2
      <3> QED
        BY <1>6, <1>8, <3>1, <3>2, <3>3
    <2> QED
      BY <2>1, <2>2, <2>3, <2>4
  <1> QED
    BY <1>9 DEF F, Held

=============================================================================
