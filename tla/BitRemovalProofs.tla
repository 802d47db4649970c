-------------------------- MODULE BitRemovalProofs --------------------------
(***************************************************************************)
(* Bit removal for every slice geometry: no reading of OQ-3 meets          *)
(* impossible padding, and the chunk reading (the default) accounts for    *)
(* every bit exactly.                                                      *)
(***************************************************************************)
EXTENDS BitRemoval, OperatorProofs

(* The inductive invariant: the open chunk's account, and the account of    *)
(* the chunks completed before it.                                          *)
ChunkInv ==
    /\ cfg \in Configs
    /\ pixels \in Nat
    /\ DOMAIN drain = FracReadings /\ DOMAIN chunks = FracReadings
    /\ ChunksCounted(cfg, pixels, drain[CHUNK], chunks[CHUNK])

LEMMA ChunkInvInit == Init => ChunkInv
<1> SUFFICES ASSUME Init PROVE ChunkInv
  OBVIOUS
<1>1. /\ cfg \in Configs /\ pixels = 0 /\ drain[CHUNK] = DrainStart /\ chunks[CHUNK] = 0
      /\ DOMAIN drain = FracReadings /\ DOMAIN chunks = FracReadings
  BY DEF Init, FracReadings
<1>2. ChunksCounted(cfg, 0, DrainStart, 0)
  BY <1>1, ConfigsAssumption, CountedStart
<1> QED BY <1>1, <1>2 DEF ChunkInv

LEMMA ChunkInvStep == ChunkInv /\ [Next]_vars => ChunkInv'
<1> SUFFICES ASSUME ChunkInv, [Next]_vars PROVE ChunkInv'
  OBVIOUS
<1>1. CASE UNCHANGED vars
  BY <1>1, Zenon DEF ChunkInv, vars
<1>2. CASE PixelTime
  <2> DEFINE d == drain[CHUNK]
             e == DrainPixel(cfg, pixels + 1, CHUNK, d)
             n == chunks[CHUNK]
             m == IF CompletesChunk(cfg, pixels + 1, d) THEN n + 1 ELSE n
  <2>1. cfg \in Configs /\ pixels \in Nat /\ ChunksCounted(cfg, pixels, d, n) /\ ValidChunk(cfg)
    BY ConfigsAssumption DEF ChunkInv
  <2>2. /\ cfg' = cfg /\ pixels' = pixels + 1 /\ drain'[CHUNK] = e /\ chunks'[CHUNK] = m
        /\ DOMAIN drain' = FracReadings /\ DOMAIN chunks' = FracReadings
    BY <1>2 DEF PixelTime, FracReadings, CompletesChunk
  <2>3. ChunksCounted(cfg, pixels + 1, e, m)
    BY <2>1, CountedPixel
  <2>4. pixels + 1 \in Nat
    BY <2>1
  <2> HIDE DEF e, m
  <2> QED BY <2>1, <2>2, <2>3, <2>4, Zenon DEF ChunkInv
<1> QED BY <1>1, <1>2 DEF Next

(* Constant bit rate, for every slice geometry and bit rate: see            *)
(* ExactChunks.                                                             *)
THEOREM ChunksAreExact == Spec => []ExactChunks
<1>1. ChunkInv => ExactChunks
  BY DEF ChunkInv, ChunksCounted, DrainTimes, FirstDrain, ExactChunks, Drained, FirstPixel, ChunkOpen
<1> QED BY <1>1, ChunkInvInit, ChunkInvStep, PTL DEF Spec

(* The literal reading's open chunk, at the clock's position.               *)
LiteralInv ==
    /\ ChunkInv
    /\ LiteralOpen(cfg, pixels, drain[LITERAL])

LEMMA LiteralInvInit == Init => LiteralInv
<1> SUFFICES ASSUME Init PROVE LiteralInv
  OBVIOUS
<1>1. ValidChunk(cfg)
  BY ConfigsAssumption DEF Init
<1>2. pixels = 0 /\ drain[LITERAL] = DrainStart
  BY DEF Init, FracReadings
<1>3. LiteralOpen(cfg, 0, DrainStart)
  BY <1>1, DrainStartLiteral
<1> QED BY <1>2, <1>3, ChunkInvInit, Zenon DEF LiteralInv

LEMMA LiteralInvStep == LiteralInv /\ [Next]_vars => LiteralInv'
<1> SUFFICES ASSUME LiteralInv, [Next]_vars PROVE LiteralInv'
  OBVIOUS
<1>1. ChunkInv'
  BY ChunkInvStep DEF LiteralInv
<1>2. CASE UNCHANGED vars
  BY <1>1, <1>2 DEF LiteralInv, vars
<1>3. CASE PixelTime
  <2> DEFINE d == drain[LITERAL]
             e == DrainPixel(cfg, pixels + 1, LITERAL, d)
  <2>1. ValidChunk(cfg) /\ pixels \in Nat /\ LiteralOpen(cfg, pixels, d)
    BY ConfigsAssumption DEF LiteralInv, ChunkInv
  <2>2. cfg' = cfg /\ pixels' = pixels + 1 /\ drain'[LITERAL] = e
    BY <1>3 DEF PixelTime, FracReadings
  <2> HIDE DEF e
  <2>3. LiteralOpen(cfg, pixels + 1, e)
    BY <2>1, DrainPixelLiteral DEF e
  <2> QED BY <1>1, <2>2, <2>3, Zenon DEF LiteralInv
<1> QED BY <1>2, <1>3 DEF Next

(* The padding failure of drain_pixel (rate_control.c:339) is dead for      *)
(* every validated configuration, in both readings of OQ-3.                 *)
THEOREM PaddingAlwaysPossible == Spec => []PaddingPossible
<1>1. LiteralInv => PaddingPossible
  BY DEF LiteralInv, LiteralOpen, ChunkInv, ChunksCounted, ChunkOpen, PaddingPossible, FracReadings
<1> QED BY <1>1, LiteralInvInit, LiteralInvStep, PTL DEF Spec

(* A pixel of the literal reading that does not fail counts as in the other *)
(* reading: the bits removed less those of the open chunk change only when  *)
(* a chunk is complete, by the bits of a chunk.                             *)
LiteralMove(c, pixel, d, e) ==
    /\ pixel < c.initial_xmit_delay => e = d
    /\ pixel >= c.initial_xmit_delay /\ d.chunk_pixels + 1 # c.slice_width =>
         /\ e.chunk_pixels = d.chunk_pixels + 1
         /\ e.removed - e.chunk_bits = d.removed - d.chunk_bits
    /\ pixel >= c.initial_xmit_delay /\ d.chunk_pixels + 1 = c.slice_width =>
         /\ e.chunk_pixels = 0
         /\ e.removed - e.chunk_bits = d.removed - d.chunk_bits + 8 * c.slice_chunk_size

LEMMA LiteralMoves ==
    ASSUME NEW c, ValidChunk(c), NEW pixel \in Nat, NEW d \in DrainRecord, d.failed = FALSE,
           NEW e, e = DrainPixel(c, pixel, LITERAL, d), e.failed = FALSE
    PROVE  LiteralMove(c, pixel, d, e)
<1> USE DEF LiteralMove
<1> DEFINE w == c.slice_width
           b == c.bits_per_pixel
           delay == c.initial_xmit_delay
           size == c.slice_chunk_size
           k == d.chunk_pixels
           cb == d.chunk_bits
           rem == d.removed
           whole == (d.fractional_bits + b) \div 16
           left == FractionLeft(c, pixel, LITERAL, d.fractional_bits + b)
           bits == cb + whole
           padding == size * 8 - bits
<1>1. /\ w \in Nat \ {0} /\ b \in 1..1023 /\ delay \in Nat /\ size \in Int
      /\ cb \in Nat /\ k \in Nat /\ rem \in Int /\ d.fractional_bits \in 0..15
  BY ValidChunkSize DEF ValidChunk, DrainRecord
<1>2. whole \in Int
  <2> DEFINE frac == d.fractional_bits
  <2>1. frac \in 0..15 /\ b \in 1..1023
    BY <1>1
  <2> HIDE DEF frac, b
  <2>2. (frac + b) \div 16 \in Int
    BY <2>1
  <2> QED BY <2>2 DEF frac, b
<1>3. e = IF pixel < delay THEN d
          ELSE IF k + 1 # w THEN Accumulators(left, bits, k + 1, rem + whole, d.failed)
          ELSE IF padding \in 0..MaxPadding(LITERAL)
               THEN Accumulators(FractionAfterChunk(LITERAL, left), 0, 0, rem + whole + padding, d.failed)
          ELSE Accumulators(left, bits, k + 1, rem, TRUE)
  BY DEF DrainPixel
<1> HIDE DEF whole, left
<1>4. CASE pixel < delay
  BY <1>1, <1>3, <1>4
<1>5. CASE pixel >= delay /\ k + 1 # w
  <2>1. e = Accumulators(left, bits, k + 1, rem + whole, d.failed)
    BY <1>1, <1>3, <1>5
  <2>2. e.chunk_pixels = k + 1 /\ e.removed = rem + whole /\ e.chunk_bits = cb + whole
    BY <2>1 DEF Accumulators
  <2> QED BY <1>1, <1>2, <1>5, <2>2
<1>6. CASE pixel >= delay /\ k + 1 = w
  <2>1. e = Accumulators(FractionAfterChunk(LITERAL, left), 0, 0, rem + whole + padding, d.failed)
    <3>1. ~(pixel < delay)
      BY <1>1, <1>6
    <3>2. e # Accumulators(left, bits, k + 1, rem, TRUE)
      BY DEF Accumulators
    <3> QED BY <1>3, <1>6, <3>1, <3>2, Zenon
  <2>2. e.chunk_pixels = 0 /\ e.removed = rem + whole + (size * 8 - (cb + whole)) /\ e.chunk_bits = 0
    BY <2>1 DEF Accumulators
  <2> QED BY <1>1, <1>2, <1>6, <2>2
<1>7. pixel < delay \/ pixel >= delay
  BY <1>1
<1> QED BY <1>4, <1>5, <1>6, <1>7

(* Both readings count the same chunks and the same pixels of the open one. *)
AgreeInv ==
    /\ LiteralInv
    /\ drain[CHUNK].chunk_pixels = drain[LITERAL].chunk_pixels
    /\ drain[CHUNK].removed - drain[CHUNK].chunk_bits
         = drain[LITERAL].removed - drain[LITERAL].chunk_bits

LEMMA AgreeInvStep == AgreeInv /\ [Next]_vars => AgreeInv'
<1> SUFFICES ASSUME AgreeInv, [Next]_vars PROVE AgreeInv'
  OBVIOUS
<1>1. LiteralInv /\ LiteralInv'
  BY LiteralInvStep DEF AgreeInv
<1>2. CASE UNCHANGED vars
  BY <1>1, <1>2 DEF AgreeInv, vars
<1>3. CASE PixelTime
  <2> DEFINE d == drain[CHUNK]
             e == drain[LITERAL]
             d1 == drain'[CHUNK]
             e1 == drain'[LITERAL]
  <2>1. /\ ValidChunk(cfg) /\ pixels + 1 \in Nat /\ ChunkOpen(cfg, d)
        /\ e \in DrainRecord /\ e.failed = FALSE /\ e1.failed = FALSE
    BY <1>1, ConfigsAssumption DEF LiteralInv, ChunkInv, ChunksCounted, LiteralOpen
  <2>2. /\ d1 = DrainPixel(cfg, pixels + 1, CHUNK, d)
        /\ e1 = DrainPixel(cfg, pixels + 1, LITERAL, e)
    BY <1>3 DEF PixelTime, FracReadings
  <2>3. d.chunk_pixels = e.chunk_pixels /\ d.removed - d.chunk_bits = e.removed - e.chunk_bits
    BY DEF AgreeInv
  <2> HIDE DEF d, e, d1, e1
  <2> DEFINE next == pixels + 1
  <2>4. cfg.initial_xmit_delay \in Nat /\ next \in Nat
    BY <2>1 DEF ValidChunk
  <2>5. /\ next < cfg.initial_xmit_delay => d1 = d
        /\ next >= cfg.initial_xmit_delay /\ d.chunk_pixels + 1 # cfg.slice_width =>
             /\ d1.chunk_pixels = d.chunk_pixels + 1
             /\ d1.removed - d1.chunk_bits = d.removed - d.chunk_bits
        /\ next >= cfg.initial_xmit_delay /\ d.chunk_pixels + 1 = cfg.slice_width =>
             /\ d1.chunk_pixels = 0 /\ d1.chunk_bits = 0
             /\ d1.removed = d.removed - d.chunk_bits + 8 * cfg.slice_chunk_size
    BY <2>1, <2>2, DrainPixelChunk
  <2>6. /\ next < cfg.initial_xmit_delay => e1 = e
        /\ next >= cfg.initial_xmit_delay /\ e.chunk_pixels + 1 # cfg.slice_width =>
             /\ e1.chunk_pixels = e.chunk_pixels + 1
             /\ e1.removed - e1.chunk_bits = e.removed - e.chunk_bits
        /\ next >= cfg.initial_xmit_delay /\ e.chunk_pixels + 1 = cfg.slice_width =>
             /\ e1.chunk_pixels = 0
             /\ e1.removed - e1.chunk_bits = e.removed - e.chunk_bits + 8 * cfg.slice_chunk_size
    <3>1. e1 = DrainPixel(cfg, next, LITERAL, e)
      BY <2>2
    <3> HIDE DEF next
    <3>2. LiteralMove(cfg, next, e, e1)
      BY <2>1, <2>4, <3>1, LiteralMoves
    <3> QED BY <3>2 DEF LiteralMove
  <2>7. /\ cfg.slice_chunk_size \in Int /\ d.removed \in Int /\ d.chunk_bits \in Int
        /\ d1.removed \in Int
    <3>1. d1 \in DrainRecord
      BY <2>1, <2>2, DrainPixelChunk DEF ChunkOpen
    <3> QED BY <2>1, <3>1, ValidChunkSize DEF ChunkOpen, DrainRecord
  <2> HIDE DEF next
  <2>8. d1.chunk_pixels = e1.chunk_pixels /\ d1.removed - d1.chunk_bits = e1.removed - e1.chunk_bits
    <3>1. CASE next < cfg.initial_xmit_delay
      BY <2>3, <2>5, <2>6, <3>1
    <3>2. CASE next >= cfg.initial_xmit_delay /\ d.chunk_pixels + 1 # cfg.slice_width
      BY <2>3, <2>5, <2>6, <3>2
    <3>3. CASE next >= cfg.initial_xmit_delay /\ d.chunk_pixels + 1 = cfg.slice_width
      BY <2>3, <2>5, <2>6, <2>7, <3>3
    <3> QED BY <2>4, <3>1, <3>2, <3>3
  <2> QED BY <1>1, <2>8 DEF AgreeInv, d1, e1
<1> QED BY <1>2, <1>3 DEF Next

(* Sixteenths that are kept, lost or carried in are less than two bits.     *)
LEMMA WithinOneBit ==
    ASSUME NEW p \in Int, NEW cb \in Int, NEW lb \in Int, NEW f \in 0..15, NEW g \in 0..15,
           NEW x \in 0..15, NEW y \in 0..15,
           16 * cb + f = p, 16 * lb + g + x = y + p
    PROVE  cb - lb \in -1..1
OBVIOUS

LEMMA InvAgrees == AgreeInv => ReadingsAgree
<1> SUFFICES ASSUME AgreeInv PROVE ReadingsAgree
  OBVIOUS
<1> DEFINE d == drain[CHUNK]
           e == drain[LITERAL]
           k == d.chunk_pixels
           p == k * cfg.bits_per_pixel
<1>1. /\ ValidChunk(cfg) /\ ChunkOpen(cfg, d) /\ LiteralOpen(cfg, pixels, e)
      /\ e.chunk_pixels = k /\ d.removed - d.chunk_bits = e.removed - e.chunk_bits
  BY ConfigsAssumption DEF AgreeInv, LiteralInv, ChunkInv, ChunksCounted
<1>2. /\ d.chunk_bits \in Nat /\ e.chunk_bits \in Nat /\ d.removed \in Int /\ e.removed \in Int
      /\ d.fractional_bits \in 0..15 /\ e.fractional_bits \in 0..15 /\ k \in Nat
      /\ 16 * d.chunk_bits + d.fractional_bits = p
  BY <1>1 DEF ChunkOpen, LiteralOpen, DrainRecord
<1>3. IF cfg.initial_xmit_delay = 0 THEN 16 * e.chunk_bits + e.fractional_bits = p
      ELSE IF k = 0 THEN e.chunk_bits = 0
      ELSE \E f \in {0, LastFraction(cfg)}, x \in 0..15 : 16 * e.chunk_bits + e.fractional_bits + x = f + p
  BY <1>1 DEF LiteralOpen, LiteralAccount
<1>4. LastFraction(cfg) \in 0..15 /\ p \in Int
  <2> DEFINE b == cfg.bits_per_pixel
             w == cfg.slice_width
             r == (w - 1) * b
  <2>1. b \in 1..1023 /\ w \in Nat \ {0}
    BY <1>1 DEF ValidChunk
  <2> HIDE DEF b, w
  <2>2. r \in Int
    BY <2>1
  <2> HIDE DEF r
  <2>3. r % 16 \in 0..15
    BY <2>2
  <2>4. k \in Int /\ p = k * b
    BY <1>2 DEF b
  <2> HIDE DEF k, p
  <2>5. p \in Int
    BY <2>1, <2>4
  <2> QED BY <2>3, <2>5 DEF LastFraction, r, b, w
<1>5. k = 0 => p = 0
  BY <1>1, SMTT(30) DEF ValidChunk
<1> HIDE DEF d, e, k, p
<1>6. k = 0 => d.chunk_bits = 0 /\ e.chunk_bits = 0
  <2>1. \A n \in Nat, f \in 0..15 : 16 * n + f = 0 => n = 0
    OBVIOUS
  <2>2. k = 0 => d.chunk_bits = 0
    BY <1>2, <1>5, <2>1
  <2>3. k = 0 => e.chunk_bits = 0
    BY <1>2, <1>3, <1>5, <2>1
  <2> QED BY <2>2, <2>3
<1>7. d.chunk_bits - e.chunk_bits \in -1..1
  <2> DEFINE cb == d.chunk_bits
             lb == e.chunk_bits
             f == d.fractional_bits
             g == e.fractional_bits
  <2>1. /\ cb \in Nat /\ lb \in Nat /\ f \in 0..15 /\ g \in 0..15 /\ 16 * cb + f = p
        /\ 0 \in 0..15
    BY <1>2
  <2>2. \/ 16 * lb + g + 0 = 0 + p
        \/ cb = 0 /\ lb = 0
        \/ \E y \in 0..15, x \in 0..15 : 16 * lb + g + x = y + p
    <3>1. CASE cfg.initial_xmit_delay = 0
      <4>1. 16 * lb + g = p
        BY <1>3, <3>1
      <4> HIDE DEF lb, g
      <4> QED BY <1>4, <2>1, <4>1
    <3>2. CASE cfg.initial_xmit_delay # 0
      BY <1>3, <1>4, <1>6, <2>1, <3>2
    <3> QED BY <3>1, <3>2
  <2> HIDE DEF cb, lb, f, g
  <2>3. CASE cb = 0 /\ lb = 0
    BY <2>3, SMTT(30) DEF cb, lb
  <2>4. ASSUME NEW y \in 0..15, NEW x \in 0..15, 16 * lb + g + x = y + p
        PROVE  cb - lb \in -1..1
    <3>1. cb \in Int /\ lb \in Int /\ p \in Int
      BY <1>4, <2>1
    <3> QED BY <2>1, <2>4, <3>1, WithinOneBit
  <2> QED BY <2>1, <2>2, <2>3, <2>4 DEF cb, lb
<1>8. d.removed - e.removed = d.chunk_bits - e.chunk_bits
  BY <1>1, <1>2
<1>9. k = 0 => d.removed = e.removed
  <2>1. k = 0 => d.removed - e.removed = 0
    BY <1>6, <1>8
  <2> QED BY <1>2, <2>1
<1> QED BY <1>7, <1>8, <1>9 DEF ReadingsAgree, d, e, k

(* The choice of OQ-3 moves the buffer by at most one bit, and by none at   *)
(* the end of a chunk, for every slice geometry and bit rate.               *)
THEOREM ReadingsDifferByABit == Spec => []ReadingsAgree
<1>1. Init => AgreeInv
  <2> SUFFICES ASSUME Init PROVE AgreeInv
    OBVIOUS
  <2>1. drain[CHUNK] = DrainStart /\ drain[LITERAL] = DrainStart
    BY DEF Init, FracReadings
  <2> QED BY <2>1, LiteralInvInit DEF AgreeInv
<1> QED BY <1>1, AgreeInvStep, InvAgrees, PTL DEF Spec

=============================================================================
