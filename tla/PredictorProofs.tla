-------------------------- MODULE PredictorProofs --------------------------
(***************************************************************************)
(* The predictor never reads a sample that it should not. The invariant    *)
(* says what each line buffer holds, by the line that is being decoded,    *)
(* which pixel's samples are kept for MPP, and how far into the line a     *)
(* count of block prediction is only possible.                             *)
(***************************************************************************)
EXTENDS Predictor, OperatorProofs

(* The buffers hold the two lines above, as far as the slice has them, and *)
(* the pixels of this line so far.                                         *)
BuffersInStep ==
    \A p \in 0 .. cfg.width - 1 :
        /\ next_y >= 1 => previous[p] = next_y - 1
        /\ next_y >= 2 => older[p] = next_y - 2
        /\ p < next_x => current[p] = next_y

(* The pixel kept for MPP is the one decoded before.                       *)
LastInStep == last = PixelBefore

(* A group that was counted began at hPos 9 or later. A refused group may  *)
(* have been counted and stays where it is.                                *)
CountFromNine ==
    /\ ~Searches => bp_count = 0
    /\ status = "ok" => bp_count = 0 \/ next_x = 0 \/ next_x >= 9 + 3 * bp_count

PredictorInv ==
    /\ PredictorTypeOK
    /\ BuffersInStep
    /\ LastInStep
    /\ CountFromNine
    /\ HistoryBounded
    /\ ReferenceInside
    /\ ReadsAreDecoded

Busy == next_y < cfg.height /\ status = "ok"

-----------------------------------------------------------------------------
(* Arithmetic and shapes.                                                  *)

LEMMA SliceType ==
    ASSUME cfg \in Slices
    PROVE  /\ cfg.width \in Nat /\ cfg.width > 0 /\ cfg.height \in Nat /\ cfg.height > 0
           /\ cfg.multiple \in BOOLEAN /\ cfg.block_prediction \in BOOLEAN
           /\ FirstLines \in {1, 2} /\ 1 \in Units /\ Units \subseteq {1, 2}
           /\ (2 \in Units => FirstLines = 2)
           /\ Room \in {History, History - Above} /\ Room \in Nat /\ Room >= 3 /\ Room <= History
PROOF
  <1>1. /\ cfg.width \in Nat /\ cfg.width > 0 /\ cfg.height \in Nat /\ cfg.height > 0
        /\ cfg.multiple \in BOOLEAN /\ cfg.block_prediction \in BOOLEAN
    BY SlicesAssumption
  <1>2. FirstLines \in {1, 2} /\ 1 \in Units /\ Units \subseteq {1, 2} /\ (2 \in Units => FirstLines = 2)
    BY DEF FirstLines, Units
  <1>3. Room \in {History, History - Above} /\ Room \in Nat /\ Room >= 3 /\ Room <= History
    BY HistoryAssumption DEF Room, Capacity
  <1> QED
    BY <1>1, <1>2, <1>3

LEMMA GroupType ==
    ASSUME PredictorTypeOK
    PROVE  /\ GroupPixels \in 1..3 /\ next_x \in Nat /\ next_y \in Nat
           /\ next_x + GroupPixels <= cfg.width
           /\ next_x + GroupPixels # cfg.width => GroupPixels = 3
PROOF
  BY SliceType DEF PredictorTypeOK, GroupPixels, Minimum

-----------------------------------------------------------------------------
(* What the groups read.                                                   *)

(* Good reads are of the pixel they want.                                  *)
Decoded(S) == \A r \in S : r.pixel = r.wants

LEMMA LookDecoded ==
    ASSUME PredictorTypeOK, BuffersInStep, NEW unit \in Units, HasAbove(unit), NEW p \in Int
    PROVE  Decoded({Look(unit, p)})
PROOF
  <1> DEFINE q == Clamp(p, 0, cfg.width - 1)
  <1>1. q \in 0 .. cfg.width - 1
    <2>1. cfg.width - 1 \in Int /\ 0 <= cfg.width - 1
      BY SliceType DEF PredictorTypeOK
    <2> QED
      BY <2>1 DEF Clamp
  <1>2. next_y \in Nat
    BY GroupType
  <1>3. unit \in {1, 2} /\ next_y >= unit
    BY SliceType DEF PredictorTypeOK, HasAbove
  <1> HIDE DEF q
  <1>4. ReferenceLine(unit)[q] = next_y - unit
    BY <1>1, <1>2, <1>3 DEF ReferenceLine, BuffersInStep
  <1> QED
    BY <1>4 DEF Look, Decoded, q

LEMMA LeftDecoded ==
    ASSUME PredictorTypeOK, BuffersInStep, NEW p \in 0 .. next_x - 1
    PROVE  Decoded({Left(p)})
PROOF
  <1>1. p \in 0 .. cfg.width - 1 /\ p < next_x
    BY GroupType, SliceType DEF PredictorTypeOK
  <1>2. current[p] = next_y
    BY <1>1 DEF BuffersInStep
  <1> QED
    BY <1>2 DEF Left, Decoded

LEMMA BlendedDecoded ==
    ASSUME PredictorTypeOK, BuffersInStep, NEW unit \in Units, HasAbove(unit), NEW p \in Int
    PROVE  Decoded(Blended(unit, p))
PROOF
  <1>1. \A q \in p - 1 .. p + 1 : Decoded({Look(unit, q)})
    BY LookDecoded
  <1> QED
    BY <1>1 DEF Blended, Decoded

LEMMA BpSamplesDecoded ==
    ASSUME PredictorTypeOK, BuffersInStep, NEW unit \in Units, HasAbove(unit),
           NEW from \in Int, NEW to \in Int
    PROVE  Decoded(BpSamples(unit, from, to))
PROOF
  <1>1. \A q \in from .. to : Decoded({Look(unit, q)})
    BY LookDecoded
  <1> QED
    BY <1>1 DEF BpSamples, Decoded

(* The search and the edge test.                                           *)
LEMMA BpReadsDecoded ==
    ASSUME PredictorTypeOK, BuffersInStep, NEW vector
    PROVE  Decoded(BpReads(vector))
PROOF
  <1>1. cfg \in Slices /\ next_x \in Int /\ next_y \in Nat
    BY GroupType DEF PredictorTypeOK
  <1>2. Searches => 1 \in Units /\ HasAbove(1)
    BY <1>1, SliceType DEF Searches, HasAbove
  <1>3. Searches => Decoded(SearchReads)
    BY <1>1, <1>2, BpSamplesDecoded DEF SearchReads
  <1>4. Searches => Decoded(EdgeReads)
    <2> SUFFICES ASSUME Searches PROVE Decoded(EdgeReads)
      OBVIOUS
    <2> DEFINE end == IF cfg.bp_edge = "before" THEN next_x - 1 ELSE next_x + 2
    <2>1. end \in Int /\ end - 3 \in Int
      BY <1>1
    <2>2. \A u \in EdgeUnits : u \in Units /\ HasAbove(u)
      BY <1>2 DEF EdgeUnits
    <2> HIDE DEF end
    <2>3. \A u \in EdgeUnits : Decoded(BpSamples(u, end - 3, end))
      BY <2>1, <2>2, BpSamplesDecoded
    <2>4. EdgeReads = UNION {BpSamples(u, end - 3, end) : u \in EdgeUnits}
      BY DEF EdgeReads, end
    <2> QED
      BY <2>3, <2>4 DEF Decoded
  <1> QED
    BY <1>3, <1>4 DEF BpReads, TestsEdge, Decoded

(* Three counted groups lie 15 pixels into the line.                       *)
LEMMA UsesBpAtFifteen ==
    ASSUME PredictorTypeOK, CountFromNine, Busy, NEW vector \in {-1} \cup -10..-3, NEW edge \in BOOLEAN,
           UsesBp(vector, edge)
    PROVE  next_x >= 15 /\ vector \in -10..-3 /\ Searches /\ GroupPixels = 3
PROOF
  <1>1. Searches /\ vector # -1 /\ Counted(vector) >= 3 /\ GroupPixels = 3
    BY DEF UsesBp, TestsEdge
  <1>2. bp_count \in 0..3 /\ next_x \in Nat
    BY GroupType DEF PredictorTypeOK
  <1>3. next_x >= 15
    BY <1>1, <1>2 DEF Counted, CountFromNine, Busy
  <1> QED
    BY <1>1, <1>3

LEMMA UnitReadsDecoded ==
    ASSUME PredictorTypeOK, BuffersInStep, LastInStep, CountFromNine, Busy, NEW unit \in Units,
           NEW vector \in {-1} \cup -10..-3, NEW edge \in BOOLEAN, NEW mpp \in BOOLEAN
    PROVE  Decoded(UnitReads(unit, mpp, UsesBp(vector, edge), vector))
PROOF
  <1> DEFINE bp == UsesBp(vector, edge)
             left == IF next_x > 0 THEN {Left(next_x - 1)} ELSE {}
             kept == IF mpp THEN {Last} ELSE {}
             above == IF HasAbove(unit)
                      THEN Blended(unit, next_x)
                           \cup (IF next_x > 0 THEN Blended(unit, next_x - 1) ELSE {})
                      ELSE {}
             here == {Left(next_x + j + vector) : j \in 0 .. GroupPixels - 1}
             there == UNION {Blended(unit, next_x + j) : j \in 1 .. GroupPixels - 1}
  <1>1. next_x \in Nat /\ GroupPixels \in 1..3
    BY GroupType
  <1>2. Decoded(left)
    BY <1>1, LeftDecoded DEF Decoded
  <1>3. Decoded(above)
    <2>1. HasAbove(unit) => Decoded(Blended(unit, next_x)) /\ Decoded(Blended(unit, next_x - 1))
      BY <1>1, BlendedDecoded
    <2> QED
      BY <2>1 DEF Decoded
  <1>4. HasAbove(unit) => Decoded(there)
    <2>1. HasAbove(unit) => \A j \in 1 .. GroupPixels - 1 : Decoded(Blended(unit, next_x + j))
      BY <1>1, BlendedDecoded
    <2> QED
      BY <2>1 DEF Decoded
  <1>5. bp => Decoded(here)
    <2> SUFFICES ASSUME bp, NEW j \in 0 .. GroupPixels - 1
                 PROVE  Decoded({Left(next_x + j + vector)})
      BY DEF Decoded
    <2>1. next_x >= 15 /\ vector \in -10..-3
      BY UsesBpAtFifteen
    <2>2. next_x + j + vector \in 0 .. next_x - 1
      BY <1>1, <2>1
    <2> QED
      BY <2>2, LeftDecoded
  <1>6. Decoded(kept)
    BY DEF Decoded, Last, LastInStep
  <1>7. \A r \in UnitReads(unit, mpp, bp, vector) :
          \/ r \in left \/ r \in above \/ r \in kept
          \/ (bp /\ r \in here) \/ (HasAbove(unit) /\ r \in there)
    BY DEF UnitReads
  <1> HIDE DEF left, above, here, there, kept, bp
  <1>8. Decoded(UnitReads(unit, mpp, bp, vector))
    BY <1>2, <1>3, <1>4, <1>5, <1>6, <1>7 DEF Decoded
  <1> QED
    BY <1>8 DEF bp

LEMMA WindowReadsDecoded ==
    ASSUME PredictorTypeOK, BuffersInStep, NEW i \in 0 .. History - 1, i >= Room
    PROVE  Decoded(WindowReads(i))
PROOF
  <1>1. cfg \in Slices /\ next_x \in Nat /\ next_y \in Nat /\ cfg.width \in Nat
    BY GroupType, SliceType DEF PredictorTypeOK
  <1>2. next_y >= FirstLines
    BY <1>1, HistoryAssumption DEF Room, Capacity
  <1>3. \A u \in Units : HasAbove(u)
    BY <1>1, <1>2, SliceType DEF HasAbove
  <1>4. WindowStart \in Int
    BY <1>1 DEF WindowStart, Clamp
  <1> DEFINE q == WindowStart + i - (History - Above)
  <1>5. q \in Int /\ q \div 2 \in Int /\ (q + 1) \div 2 \in Int
    BY <1>4, HistoryAssumption
  <1>6. WindowPixels(i) \subseteq {q, q \div 2, (q + 1) \div 2}
    BY DEF WindowPixels
  <1>7. cfg.native = "420" => 2 \in Units
    BY DEF Units
  <1> HIDE DEF q
  <1>8. 1 \in Units /\ \A p \in WindowPixels(i) : p \in Int
    BY <1>1, <1>5, <1>6, SliceType
  <1>9. \A p \in WindowPixels(i) : Decoded({Look(1, p)})
    BY <1>3, <1>8, LookDecoded
  <1>10. cfg.native = "420" => Decoded({Look(2, (q + 1) \div 2)})
    BY <1>3, <1>5, <1>7, LookDecoded
  <1>11. WindowReads(i) = {Look(1, p) : p \in WindowPixels(i)}
                          \cup (IF cfg.native = "420" THEN {Look(2, (q + 1) \div 2)} ELSE {})
    BY DEF WindowReads, q
  <1> QED
    BY <1>9, <1>10, <1>11 DEF Decoded

-----------------------------------------------------------------------------
(* What a group leaves behind.                                             *)

LEMMA CountedType ==
    ASSUME PredictorTypeOK, CountFromNine, Busy, NEW vector
    PROVE  /\ Counted(vector) \in 0..3
           /\ ~Searches => Counted(vector) = 0
           /\ Counted(vector) = 0 \/ next_x + 3 >= 9 + 3 * Counted(vector)
PROOF
  <1>1. bp_count \in 0..3 /\ next_x \in Nat
    BY GroupType DEF PredictorTypeOK
  <1>2. CASE ~Searches
    BY <1>1, <1>2 DEF Counted, CountFromNine
  <1>3. CASE Searches /\ vector = -1
    BY <1>1, <1>3 DEF Counted
  <1>4. CASE Searches /\ vector # -1
    <2> DEFINE count == IF next_x = 0 THEN 0 ELSE bp_count
    <2>1. count \in 0..3 /\ (count = 0 \/ next_x >= 9 + 3 * count)
      BY <1>1 DEF CountFromNine, Busy
    <2>2. Counted(vector) = IF next_x >= 9 /\ count < 3 THEN count + 1 ELSE count
      BY <1>4 DEF Counted
    <2> HIDE DEF count
    <2> QED
      BY <1>1, <1>4, <2>1, <2>2
  <1> QED
    BY <1>2, <1>3, <1>4

(* The history of the group, still on its line.                            *)
LEMMA EnteredType ==
    ASSUME PredictorTypeOK, HistoryBounded, Busy, NEW ich \in BOOLEAN, NEW index
    PROVE  LET R == Entered(ich, index)
           IN  /\ R \in Seq(Lines) /\ Len(R) <= Room
               /\ cfg.multiple => \A p \in 1 .. Len(R) : R[p] = next_y
PROOF
  <1> DEFINE pixels == [j \in 0..2 |-> next_y]
             F == Front(ich, index, pixels)
             U == Unselected(history, ich, index)
             R == Updated(history, ich, index, pixels, Room)
  <1>1. next_y \in Lines /\ Room \in Nat /\ history \in Seq(Lines)
    BY GroupType, SliceType DEF PredictorTypeOK, Busy, Lines
  <1>2. pixels \in [0..2 -> Lines] /\ pixels \in [0..2 -> {next_y}]
    BY <1>1
  <1>3. Len(F) \in 1..3 /\ F \in Seq({next_y})
    BY <1>2, FrontParts
  <1>4. U \in SUBSET (1 .. Len(history))
    BY <1>1, KeptParts
  <1>5. /\ R \in Seq(Lines) /\ Len(R) <= Room
        /\ \A p \in 1 .. Len(R) :
             \/ p <= Len(F) /\ R[p] = F[p]
             \/ /\ Nth(U, p - Len(F)) \in U
                /\ R[p] = history[Nth(U, p - Len(F))]
    BY <1>1, <1>2, UpdatedParts
  <1> HIDE DEF pixels, F, U, R
  <1>6. ASSUME cfg.multiple, NEW p \in 1 .. Len(R)
        PROVE  R[p] = next_y
    <2>1. CASE p <= Len(F) /\ R[p] = F[p]
      BY <1>3, <2>1
    <2>2. CASE Nth(U, p - Len(F)) \in U /\ R[p] = history[Nth(U, p - Len(F))]
      <3>1. Nth(U, p - Len(F)) \in DOMAIN history
        BY <1>1, <1>4, <2>2
      <3> QED
        BY <1>6, <2>2, <3>1 DEF HistoryBounded
    <2> QED
      BY <1>5, <2>1, <2>2
  <1>7. Entered(ich, index) = R \/ Entered(ich, index) = history
    BY DEF Entered, R, pixels
  <1>8. /\ Len(history) <= Room
        /\ cfg.multiple => \A p \in 1 .. Len(history) : history[p] = next_y
    BY <1>1 DEF HistoryBounded
  <1> QED
    BY <1>1, <1>5, <1>6, <1>7, <1>8

(* The state after the group's pixels are stored.                          *)
LEMMA StoreKeeps ==
    ASSUME PredictorTypeOK, BuffersInStep, HistoryBounded, Busy, NEW ich \in BOOLEAN, NEW index,
           Store(ich, index), UNCHANGED cfg
    PROVE  /\ next_x' \in 0 .. cfg.width - 1 /\ next_y' \in 0 .. cfg.height
           /\ previous' \in Buffers /\ current' \in Buffers /\ older' \in Buffers
           /\ history' \in Seq(Lines)
           /\ BuffersInStep'
           /\ last' \in (0 .. cfg.width - 1) \X (0 .. cfg.height - 1) /\ LastInStep'
           /\ HistoryBounded'
           /\ next_x' = 0 \/ (next_x' = next_x + 3 /\ next_y' = next_y)
           /\ next_y' = 0 => next_y = 0
PROOF
  <1> DEFINE line == [p \in 0 .. cfg.width - 1 |->
                        IF p \in next_x .. next_x + GroupPixels - 1 THEN next_y ELSE current[p]]
             entered == Entered(ich, index)
  <1>1. /\ next_x \in Nat /\ next_y \in Nat /\ next_y < cfg.height /\ GroupPixels \in 1..3
        /\ next_x + GroupPixels <= cfg.width
        /\ cfg.width \in Nat /\ cfg.height \in Nat /\ cfg.width > 0
    BY GroupType, SliceType DEF PredictorTypeOK, Busy
  <1>2. next_y \in Lines /\ current \in Buffers /\ previous \in Buffers /\ older \in Buffers
    BY <1>1 DEF PredictorTypeOK, Lines
  <1>3. line \in Buffers
    BY <1>2 DEF Buffers
  <1>4. \A p \in 0 .. cfg.width - 1 : p < next_x + GroupPixels => line[p] = next_y
    BY <1>1 DEF BuffersInStep
  <1>5. /\ entered \in Seq(Lines) /\ Len(entered) <= Room
        /\ cfg.multiple => \A p \in 1 .. Len(entered) : entered[p] = next_y
    BY EnteredType
  <1>6. Room \in Nat /\ Room <= History /\ FirstLines \in Nat /\ cfg.multiple \in BOOLEAN
    BY SliceType DEF PredictorTypeOK
  <1>7. FirstLines' = FirstLines /\ Room' = Capacity(next_y', FirstLines)
    BY DEF FirstLines, Room
  <1> HIDE DEF line, entered
  <1>7a. last' = <<next_x + GroupPixels - 1, next_y>>
    BY DEF Store, LastPixel
  <1>7b. last' \in (0 .. cfg.width - 1) \X (0 .. cfg.height - 1)
    BY <1>1, <1>7a
  <1>8. CASE next_x + GroupPixels = cfg.width
    <2>1. /\ next_x' = 0 /\ next_y' = next_y + 1 /\ Rotate(line)
          /\ history' = AtLineEnd(entered, next_y + 1, FirstLines, cfg.multiple)
      BY <1>8 DEF Store, line, entered
    <2>2. older' = previous /\ previous' = line /\ current' = older
      BY <2>1 DEF Rotate
    <2>3. /\ history' \in Seq(Lines) /\ Len(history') <= Capacity(next_y + 1, FirstLines)
          /\ cfg.multiple => history' = <<>>
      <3>1. next_y + 1 \in Nat /\ Len(entered) <= History
        BY <1>1, <1>5, <1>6, HistoryAssumption
      <3> QED
        BY <1>5, <1>6, <2>1, <3>1, AtLineEndParts, ZenonT(60)
    <2>4. BuffersInStep'
      <3> SUFFICES ASSUME NEW p \in 0 .. cfg.width - 1
                   PROVE  /\ next_y' >= 1 => previous'[p] = next_y' - 1
                          /\ next_y' >= 2 => older'[p] = next_y' - 2
                          /\ p < next_x' => current'[p] = next_y'
        BY DEF BuffersInStep
      <3>1. line[p] = next_y
        BY <1>1, <1>4, <1>8
      <3>2. next_y >= 1 => previous[p] = next_y - 1
        BY DEF BuffersInStep
      <3> QED
        BY <1>1, <2>1, <2>2, <3>1, <3>2
    <2>5. HistoryBounded'
      BY <1>7, <2>1, <2>3 DEF HistoryBounded
    <2>6. LastInStep'
      <3>1. next_y' > 0 /\ next_y' - 1 = next_y /\ next_x' = 0
        BY <1>1, <2>1
      <3>2. next_x + GroupPixels - 1 = cfg.width - 1
        BY <1>1, <1>8
      <3>3. ~(next_x' > 0)
        BY <3>1
      <3>4. PixelBefore' = <<cfg.width - 1, next_y>>
        BY <3>1, <3>3 DEF PixelBefore
      <3> QED
        BY <1>7a, <3>2, <3>4 DEF LastInStep
    <2> QED
      BY <1>1, <1>2, <1>3, <1>7b, <2>1, <2>2, <2>3, <2>4, <2>5, <2>6
  <1>9. CASE next_x + GroupPixels # cfg.width
    <2>1. /\ next_x' = next_x + GroupPixels /\ next_y' = next_y
          /\ current' = line /\ previous' = previous /\ older' = older
          /\ history' = entered
      BY <1>9 DEF Store, line, entered
    <2>2. GroupPixels = 3
      BY <1>9, GroupType
    <2>3. BuffersInStep'
      <3> SUFFICES ASSUME NEW p \in 0 .. cfg.width - 1
                   PROVE  /\ next_y' >= 1 => previous'[p] = next_y' - 1
                          /\ next_y' >= 2 => older'[p] = next_y' - 2
                          /\ p < next_x' => current'[p] = next_y'
        BY DEF BuffersInStep
      <3> QED
        BY <1>4, <2>1 DEF BuffersInStep
    <2>4. HistoryBounded'
      <3>1. Room' = Room
        BY <1>7, <2>1 DEF Room
      <3>2. DOMAIN history' = 1 .. Len(entered)
        BY <1>5, <2>1
      <3> QED
        BY <1>5, <2>1, <3>1, <3>2 DEF HistoryBounded
    <2>5. LastInStep'
      <3>1. next_x' > 0 /\ next_x' - 1 = next_x + GroupPixels - 1 /\ next_y' = next_y
        BY <1>1, <2>1
      <3> QED
        BY <1>7a, <3>1 DEF LastInStep, PixelBefore
    <2> QED
      BY <1>1, <1>2, <1>3, <1>5, <1>7b, <1>9, <2>1, <2>2, <2>3, <2>4, <2>5
  <1> QED
    BY <1>8, <1>9

-----------------------------------------------------------------------------
(* The invariant.                                                          *)

LEMMA InitPredictor == Init => PredictorInv
PROOF
  <1> SUFFICES ASSUME Init PROVE PredictorInv
    OBVIOUS
  <1>1. /\ cfg \in Slices /\ next_x = 0 /\ next_y = 0 /\ previous = Empty /\ current = Empty
        /\ older = Empty /\ last = NoPixel /\ bp_count = 0 /\ history = <<>> /\ status = "ok" /\ reads = {}
    BY DEF Init
  <1>2. cfg.width \in Nat /\ cfg.width > 0 /\ cfg.height \in Nat /\ Room >= 3 /\ Room \in Nat
    BY <1>1, SliceType
  <1>3. Empty \in Buffers
    BY DEF Empty, Buffers, Lines
  <1>4. PredictorTypeOK
    BY <1>1, <1>2, <1>3 DEF PredictorTypeOK
  <1>5. /\ BuffersInStep /\ LastInStep /\ CountFromNine
        /\ HistoryBounded /\ ReferenceInside /\ ReadsAreDecoded
    BY <1>1, <1>2
       DEF BuffersInStep, LastInStep, PixelBefore, CountFromNine, HistoryBounded, ReferenceInside,
           ReadsAreDecoded
  <1> QED
    BY <1>4, <1>5 DEF PredictorInv

(* A group that is stored, whatever it read.                               *)
LEMMA StoredGroup ==
    ASSUME PredictorInv, Busy, NEW vector, NEW ich \in BOOLEAN, NEW index,
           Store(ich, index), bp_count' = Counted(vector), UNCHANGED <<cfg, status>>,
           Decoded(reads')
    PROVE  PredictorInv'
PROOF
  <1> USE DEF PredictorInv
  <1>1. /\ next_x' \in 0 .. cfg.width - 1 /\ next_y' \in 0 .. cfg.height
        /\ previous' \in Buffers /\ current' \in Buffers /\ older' \in Buffers
        /\ history' \in Seq(Lines)
        /\ BuffersInStep' /\ HistoryBounded'
        /\ last' \in (0 .. cfg.width - 1) \X (0 .. cfg.height - 1) /\ LastInStep'
        /\ next_x' = 0 \/ (next_x' = next_x + 3 /\ next_y' = next_y)
        /\ next_y' = 0 => next_y = 0
    BY StoreKeeps
  <1>2. /\ bp_count' \in 0..3
        /\ ~Searches => bp_count' = 0
        /\ bp_count' = 0 \/ next_x + 3 >= 9 + 3 * bp_count'
    BY CountedType
  <1>3. Buffers' = Buffers /\ Lines' = Lines
    BY DEF Buffers, Lines
  <1>4. PredictorTypeOK'
    BY <1>1, <1>2, <1>3 DEF PredictorTypeOK
  <1>5. CountFromNine'
    <2>1. ~Searches' => ~Searches
      BY <1>1, GroupType DEF Searches, PredictorTypeOK
    <2> QED
      BY <1>1, <1>2, <2>1 DEF CountFromNine
  <1>6. ReferenceInside' /\ ReadsAreDecoded'
    BY DEF ReferenceInside, ReadsAreDecoded, Decoded
  <1> QED
    BY <1>1, <1>4, <1>5, <1>6

(* A group that is refused, but never for its reference.                   *)
LEMMA RefusedKeeps ==
    ASSUME PredictorInv, NEW why \in {"index", "level"}, Refuse(why), UNCHANGED cfg,
           bp_count' \in 0..3, ~Searches => bp_count' = 0
    PROVE  PredictorInv'
PROOF
  <1> USE DEF PredictorInv, Refuse
  <1>1. Buffers' = Buffers /\ Lines' = Lines /\ Searches' = Searches /\ Room' = Room
    BY DEF Buffers, Lines, Searches, Room, FirstLines
  <1>2. PredictorTypeOK'
    BY <1>1 DEF PredictorTypeOK
  <1>3. BuffersInStep' /\ LastInStep' /\ HistoryBounded' /\ CountFromNine'
    BY <1>1 DEF BuffersInStep, LastInStep, PixelBefore, HistoryBounded, CountFromNine
  <1>4. ReferenceInside' /\ ReadsAreDecoded'
    BY DEF ReferenceInside, ReadsAreDecoded
  <1> QED
    BY <1>2, <1>3, <1>4

LEMMA StepPredictor == PredictorInv /\ [Next]_vars => PredictorInv'
PROOF
  <1> SUFFICES ASSUME PredictorInv, [Next]_vars PROVE PredictorInv'
    OBVIOUS
  <1>1. CASE UNCHANGED vars
    <2>1. Buffers' = Buffers /\ Lines' = Lines /\ Searches' = Searches /\ Room' = Room
      BY <1>1 DEF vars, Buffers, Lines, Searches, Room, FirstLines
    <2> QED
      BY <1>1, <2>1 DEF vars, PredictorInv, PredictorTypeOK, BuffersInStep, LastInStep,
         PixelBefore, HistoryBounded, CountFromNine, ReferenceInside, ReadsAreDecoded
  <1>2. CASE Next
    <2> USE DEF PredictorInv
    <2>1. Busy
      BY <1>2 DEF Next, Busy
    <2>2. CASE RefusedLevel
      <3>1. bp_count' \in 0..3 /\ (~Searches => bp_count' = 0) /\ Refuse("level") /\ UNCHANGED cfg
        BY <2>2 DEF RefusedLevel, PredictorTypeOK, CountFromNine
      <3> QED
        BY <3>1, RefusedKeeps
    <2>3. ASSUME NEW vector \in {-1} \cup -10..-3, NEW edge \in BOOLEAN,
                 NEW mpp \in SUBSET Units, ResidualGroup(vector, edge, mpp)
          PROVE  PredictorInv'
      <3> DEFINE R(u) == UnitReads(u, u \in mpp, UsesBp(vector, edge), vector)
      <3>1. /\ bp_count' = Counted(vector) /\ Store(FALSE, <<>>) /\ UNCHANGED <<cfg, status>>
            /\ reads' = BpReads(vector) \cup UNION {R(u) : u \in Units}
        BY <2>3 DEF ResidualGroup
      <3>2. Decoded(BpReads(vector))
        BY BpReadsDecoded
      <3>3. ASSUME NEW u \in Units PROVE Decoded(R(u))
        <4> DEFINE coded == u \in mpp
        <4>1. coded \in BOOLEAN
          OBVIOUS
        <4> HIDE DEF coded
        <4>2. Decoded(UnitReads(u, coded, UsesBp(vector, edge), vector))
          BY <2>1, <4>1, UnitReadsDecoded
        <4> QED
          BY <4>2 DEF coded
      <3> HIDE DEF R
      <3>4. Decoded(reads')
        BY <3>1, <3>2, <3>3 DEF Decoded
      <3> QED
        BY <2>1, <3>1, <3>4, StoredGroup
    <2>4. ASSUME NEW vector \in {-1} \cup -10..-3, NEW edge \in BOOLEAN,
                 RefusedReference(vector, edge)
          PROVE  PredictorInv'
      <3>1. UsesBp(vector, edge) /\ next_x < -vector
        BY <2>4 DEF RefusedReference, RefusesReference
      <3>2. next_x >= 15 /\ vector \in -10..-3
        BY <2>1, <3>1, UsesBpAtFifteen
      <3>3. next_x \in Nat
        BY GroupType
      <3> QED
        BY <3>1, <3>2, <3>3
    <2>5. ASSUME NEW vector \in {-1} \cup -10..-3, NEW index \in Indices,
                 IchGroup(vector, index)
          PROVE  PredictorInv'
      <3> DEFINE far == {k \in Named(index) : k >= Room}
      <3>1. /\ bp_count' = Counted(vector) /\ Store(TRUE, index) /\ UNCHANGED <<cfg, status>>
            /\ reads' = BpReads(vector) \cup UNION {WindowReads(i) : i \in far}
        BY <2>5 DEF IchGroup
      <3>2. Decoded(BpReads(vector))
        BY BpReadsDecoded
      <3>3. index \in [0..2 -> 0 .. History - 1] /\ GroupPixels \in 1..3
        BY IndicesAssumption, GroupType
      <3>4. \A i \in far : i \in 0 .. History - 1 /\ i >= Room
        BY <3>3 DEF Named
      <3>5. \A i \in far : Decoded(WindowReads(i))
        BY <3>4, WindowReadsDecoded
      <3> HIDE DEF far
      <3>6. Decoded(reads')
        BY <3>1, <3>2, <3>5 DEF Decoded
      <3> QED
        BY <2>1, <3>1, <3>6, StoredGroup
    <2>6. ASSUME NEW vector \in {-1} \cup -10..-3, NEW index \in Indices,
                 RefusedIch(vector, index)
          PROVE  PredictorInv'
      <3>1. bp_count' = Counted(vector) /\ Refuse("index") /\ UNCHANGED cfg
        BY <2>6 DEF RefusedIch
      <3>2. Counted(vector) \in 0..3 /\ (~Searches => Counted(vector) = 0)
        BY <2>1, CountedType
      <3> QED
        BY <3>1, <3>2, RefusedKeeps
    <2>7. \A vector \in IF Searches THEN Vectors ELSE {-1} : vector \in {-1} \cup -10..-3
      BY VectorsAssumption
    <2> QED
      BY <1>2, <2>2, <2>3, <2>4, <2>5, <2>6, <2>7 DEF Next
  <1> QED
    BY <1>1, <1>2

LEMMA PredictorInvariant == Spec => []PredictorInv
PROOF
  BY InitPredictor, StepPredictor, PTL DEF Spec

(* Type correctness: in particular bpCount never exceeds three and the     *)
(* position stays inside the slice, for slices of every size.              *)
THEOREM PredictorTypeCorrect == Spec => []PredictorTypeOK
PROOF
  <1>1. PredictorInv => PredictorTypeOK
    BY DEF PredictorInv
  <1> QED
    BY <1>1, PredictorInvariant, PTL

(* No group reads a sample of another line than it should, in any format   *)
(* and under every reading: from the buffers only samples reconstructed in *)
(* this slice, and for MPP the pixel decoded just before, which only the   *)
(* slice's first group does not have.                                      *)
THEOREM OnlyDecodedReads == Spec => []ReadsAreDecoded
PROOF
  <1>1. PredictorInv => ReadsAreDecoded
    BY DEF PredictorInv
  <1> QED
    BY <1>1, PredictorInvariant, PTL

(* The check of the reference of block prediction is dead.                 *)
THEOREM ReferenceCheckIsDead == Spec => []ReferenceInside
PROOF
  <1>1. PredictorInv => ReferenceInside
    BY DEF PredictorInv
  <1> QED
    BY <1>1, PredictorInvariant, PTL

(* The history never reaches the indices of the line above, and with       *)
(* several slices to a line it is of this line.                            *)
THEOREM HistoryStaysBounded == Spec => []HistoryBounded
PROOF
  <1>1. PredictorInv => HistoryBounded
    BY DEF PredictorInv
  <1> QED
    BY <1>1, PredictorInvariant, PTL

(* The window of the line above lies inside the slice and has the pixel    *)
(* above the group, for every width and position.                          *)
THEOREM WindowStaysInside == Spec => []WindowInside
PROOF
  <1> DEFINE far == History - Above .. History - 1
             pixels == UNION {WindowPixels(i) : i \in far}
  <1>1. ASSUME PredictorTypeOK, ~TooNarrow
        PROVE  pixels \subseteq 0 .. cfg.width - 1 /\ next_x \in pixels
    <2>1. next_x \in 0 .. cfg.width - 1 /\ cfg.width \in Nat /\ cfg.width > 0
      BY <1>1, SliceType DEF PredictorTypeOK
    <2>2. History \in Nat /\ Above = 7
      BY HistoryAssumption, WindowAssumption
    <2> DEFINE q(i) == WindowStart + i - (History - Above)
    <2>3. CASE cfg.native = "none"
      <3>1. cfg.width >= 7
        BY <1>1, <2>1, <2>3 DEF TooNarrow
      <3>2. /\ WindowStart \in 0 .. cfg.width - 7
            /\ WindowStart <= next_x /\ next_x <= WindowStart + 6
        BY <2>1, <2>3, <3>1 DEF WindowStart, Clamp
      <3>3. \A i \in far : WindowPixels(i) = {q(i)}
        BY <2>3 DEF WindowPixels
      <3>4. \A i \in far : q(i) \in 0 .. cfg.width - 1
        BY <2>1, <2>2, <3>2
      <3> DEFINE k == next_x - WindowStart + (History - Above)
      <3>5. k \in far /\ q(k) = next_x
        BY <2>1, <2>2, <3>2
      <3> HIDE DEF q, far, k
      <3>6. next_x \in WindowPixels(k)
        BY <3>3, <3>5
      <3> QED
        BY <3>3, <3>4, <3>5, <3>6
    <2>4. CASE cfg.native # "none"
      <3>1. /\ WindowStart \in 0 .. 2 * cfg.width - 8
            /\ WindowStart <= 2 * next_x + 1 /\ 2 * next_x <= WindowStart + 7
        <4>1. CASE cfg.ich_window = "container"
          <5>1. cfg.width >= 5
            BY <1>1, <2>1, <2>4, <4>1 DEF TooNarrow
          <5> QED
            BY <2>1, <2>4, <4>1, <5>1 DEF WindowStart, Clamp
        <4>2. CASE cfg.ich_window # "container"
          <5>1. cfg.width >= 4
            BY <1>1, <2>1, <2>4, <4>2 DEF TooNarrow
          <5> QED
            BY <2>1, <2>4, <4>2, <5>1 DEF WindowStart, Clamp
        <4> QED
          BY <4>1, <4>2
      <3>2. \A i \in far : WindowPixels(i) = {q(i) \div 2, (q(i) + 1) \div 2}
        BY <2>4 DEF WindowPixels
      <3>3. \A i \in far : q(i) \in 0 .. 2 * cfg.width - 2
        BY <2>1, <2>2, <3>1
      <3>4. \A n \in 0 .. 2 * cfg.width - 2 :
              n \div 2 \in 0 .. cfg.width - 1 /\ (n + 1) \div 2 \in 0 .. cfg.width - 1
        BY <2>1
      <3> DEFINE k == IF 2 * next_x = WindowStart + 7 THEN History - 1
                      ELSE IF 2 * next_x < WindowStart THEN History - Above
                      ELSE 2 * next_x - WindowStart + (History - Above)
      <3>5. k \in far /\ q(k) \in {2 * next_x, 2 * next_x - 1, 2 * next_x + 1}
        BY <2>1, <2>2, <3>1
      <3>6. (2 * next_x) \div 2 = next_x /\ (2 * next_x + 1) \div 2 = next_x
            /\ 2 * next_x - 1 + 1 = 2 * next_x
        BY <2>1
      <3> HIDE DEF q, far, k
      <3>7. next_x \in WindowPixels(k)
        BY <3>2, <3>5, <3>6
      <3> QED
        BY <3>2, <3>3, <3>4, <3>5, <3>7
    <2> QED
      BY <2>3, <2>4
  <1>2. PredictorInv => WindowInside
    BY <1>1 DEF PredictorInv, WindowInside
  <1> QED
    BY <1>2, PredictorInvariant, PTL

=============================================================================
