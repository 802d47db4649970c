-------------------------- MODULE SubstreamProofs --------------------------
(***************************************************************************)
(* A substream for every set of accepted configurations, readings, QPs and *)
(* sizes: its state keeps its types, the funnel shifter never overflows,   *)
(* the size of a unit never exceeds what codes it, a prefix below 16 bpc   *)
(* is never refused, and one mux word before a group is enough for it.     *)
(***************************************************************************)
EXTENDS Substream, TLAPS

-----------------------------------------------------------------------------
(* What the configuration gives: the facts about format.c's numbers that   *)
(* the arithmetic below needs, and no more of the configuration.           *)

Bpc == cfg.bits_per_component

LEMMA FormatRange ==
    ASSUME cfg \in Formats, unit \in Units(cfg)
    PROVE  /\ Bpc \in {8, 10, 12, 14, 16}
           /\ unit \in 0..3
           /\ Depth(cfg, unit) \in {Bpc, Bpc + 1}
           /\ unit = 0 \/ Bpc = 16 => Depth(cfg, unit) = Bpc
           /\ MaxQp(cfg) = 15 + 2 * (Bpc - 8)
           /\ FlatTypeQp(cfg) = 7 + 2 * (Bpc - 8)
           /\ Qps(cfg) \subseteq 0 .. MaxQp(cfg)
           /\ MuxWord(cfg) \in {48, 64} /\ (Bpc > 10 => MuxWord(cfg) = 64)
BY FormatsAssumption
   DEF Bpc, ValidFormat, Units, NumUnits, Depth, MaxQp, FlatTypeQp, MuxWord, V12

(* The thresholds; WordReadings is what the 64 of 16 bpc goes with.        *)
LEMMA ThresholdRange ==
    ASSUME cfg \in Formats, unit \in Units(cfg)
    PROVE  /\ Threshold \in Nat
           /\ unit > 0 => Threshold = 4 * Depth(cfg, unit)
           /\ unit = 0 => \/ Threshold = 4 * Bpc + 4
                          \/ Bpc = 16 /\ opt.mux16 = "word" /\ Threshold = 64
           /\ Bpc = 16 /\ opt.mux16 = "word" /\ unit = 0 => Threshold = 64
BY FormatRange DEF Threshold, MaxSe, Bpc, MuxWord

(* A level of the scale, and what the flatness bits say of it: the third of *)
(* them comes with a level that no cut prefix has.                         *)
LEMMA LevelRange ==
    ASSUME cfg \in Formats, unit \in Units(cfg), NEW qp \in Qps(cfg)
    PROVE  /\ Level(qp) \in Nat
           /\ unit = 0 /\ qp >= FlatTypeQp(cfg) => Level(qp) >= 2
           /\ unit = 0 /\ qp = 0 => Level(qp) = 0
<1> DEFINE top == IF qp + 2 = MaxQp(cfg) THEN 1 ELSE 0
           y == (IF qp = 0 THEN 0 ELSE (qp - 1) \div 2) - top
           l == (IF qp = 0 THEN 0 ELSE (qp \div 2) + 1) + top
<1>1. /\ Bpc \in {8, 10, 12, 14, 16} /\ unit \in 0..3 /\ qp \in Nat
      /\ MaxQp(cfg) = 15 + 2 * (Bpc - 8) /\ FlatTypeQp(cfg) = 7 + 2 * (Bpc - 8)
  BY FormatRange
<1>2. y \in Nat /\ l \in Nat
  BY <1>1
<1>3. /\ qp >= FlatTypeQp(cfg) => y >= 2
      /\ qp = 0 => y = 0
  BY <1>1
<1>4. \/ Level(qp) = y
      \/ ~Luma(cfg, unit) /\ Level(qp) = l
      \/ ~Luma(cfg, unit) /\ l > 0 /\ Level(qp) = l - 1
  BY DEF Level, QLevel
<1>5. unit = 0 => Luma(cfg, unit)
  BY DEF Luma
<1> QED
  BY <1>2, <1>3, <1>4, <1>5

-----------------------------------------------------------------------------
(* What a unit's coding is, whatever the prediction is.                    *)

(* A QP that the predictor accepts, in a state of the right types.         *)
Coded(qp) ==
    /\ cfg \in Formats /\ unit \in Units(cfg) /\ qp \in Qps(cfg)
    /\ predicted \in Nat /\ last_level \in Nat
    /\ group \in 0..3
    /\ Level(qp) < Depth(cfg, unit)

LEMMA CodingParts ==
    ASSUME NEW qp, Coded(qp), NEW k, k = Coding(qp)
    PROVE  /\ Level(qp) \in Nat
           /\ k.full = Depth(cfg, unit) - Level(qp) /\ k.full \in Nat \ {0}
           /\ k.pred \in 0 .. k.full - 1
           /\ k.cut \in BOOLEAN
           /\ ~k.cut => k.cap = k.full - k.pred + (IF unit = 0 THEN 1 ELSE 0)
           /\ k.cut => Limited(qp) /\ k.cap \in {13, 15}
           /\ k.flatness \in 0..3
           /\ unit # 0 => k.flatness = 0
           /\ k.flatness = 3 => Level(qp) >= 2
<1> DEFINE full == Depth(cfg, unit) - Level(qp)
           pred == PredictedWidth(Level(qp), full)
           limit == full - pred + (IF unit = 0 THEN 1 ELSE 0)
           most == IF Level(qp) > 0 \/ opt.prefix16 = "15" THEN 15 ELSE 13
           cut == Limited(qp) /\ (opt.prefix16_cut = "always" \/ limit > most)
<1>1. k = [full |-> full, pred |-> pred, cut |-> cut,
           cap |-> IF cut THEN most ELSE limit, flatness |-> FlatnessBits(qp)]
  BY DEF Coding
<1>2. Level(qp) \in Nat /\ (unit = 0 /\ qp >= FlatTypeQp(cfg) => Level(qp) >= 2)
  BY LevelRange DEF Coded
<1>3. Depth(cfg, unit) \in Nat
  BY FormatRange DEF Coded
<1>4. full \in Nat \ {0}
  BY <1>2, <1>3 DEF Coded
<1>5. pred \in 0 .. full - 1
  <2> HIDE DEF full
  <2> QED
    BY <1>2, <1>4 DEF PredictedWidth, UMin, UMax, Coded
<1>6. /\ FlatnessBits(qp) \in 0..3
      /\ unit # 0 => FlatnessBits(qp) = 0
      /\ FlatnessBits(qp) = 3 => unit = 0 /\ qp >= FlatTypeQp(cfg)
  BY DEF FlatnessBits
<1>7. k.cut = cut /\ k.cap = (IF cut THEN most ELSE limit)
  BY <1>1
<1>8. k.cut \in BOOLEAN
  BY <1>7 DEF Limited
<1>9. /\ ~k.cut => k.cap = full - pred + (IF unit = 0 THEN 1 ELSE 0)
      /\ k.cut => Limited(qp) /\ k.cap \in {13, 15}
  BY <1>7
<1> QED
  BY <1>1, <1>2, <1>4, <1>5, <1>6, <1>8, <1>9

(* Where the cut applies, and what it leaves: with the readings of the 64  *)
(* bit threshold, at most 13 zeros at level 0, and no prefix that is longer *)
(* without a cut.                                                          *)
WordReading(o) == o.prefix16 = "13" /\ o.prefix16_scope = "qlevel"

LEMMA CutParts ==
    ASSUME NEW qp, Coded(qp), NEW k, k = Coding(qp)
    PROVE  /\ k.cut => unit = 0 /\ Bpc = 16
           /\ WordReading(opt) /\ unit = 0 /\ Bpc = 16 /\ Level(qp) <= 1
              => k.cap <= (IF Level(qp) = 0 THEN 13 ELSE 15)
<1>1. Limited(qp) => unit = 0 /\ Bpc = 16
  BY DEF Limited, Bpc
<1>2. k.cut => Limited(qp)
  BY CodingParts
<1>3. ASSUME WordReading(opt), unit = 0, Bpc = 16, Level(qp) <= 1
      PROVE  k.cap <= (IF Level(qp) = 0 THEN 13 ELSE 15)
  <2> DEFINE full == Depth(cfg, unit) - Level(qp)
             pred == PredictedWidth(Level(qp), full)
             limit == full - pred + (IF unit = 0 THEN 1 ELSE 0)
             most == IF Level(qp) > 0 \/ opt.prefix16 = "15" THEN 15 ELSE 13
             cut == Limited(qp) /\ (opt.prefix16_cut = "always" \/ limit > most)
  <2>1. k.cap = IF cut THEN most ELSE limit
    BY DEF Coding
  <2>2. Level(qp) \in Nat
    BY CodingParts
  <2>3. most = IF Level(qp) = 0 THEN 13 ELSE 15
    BY <1>3, <2>2 DEF WordReading
  <2>4. Limited(qp)
    BY <1>3, FormatsAssumption DEF Limited, WordReading, Coded, ValidFormat, Bpc
  <2>5. limit \in Int
    BY CodingParts, <2>2 DEF Coding
  <2>6. ~cut => limit <= most
    <3> HIDE DEF limit, most
    <3> QED
      BY <2>3, <2>4, <2>5
  <2> QED
    <3> HIDE DEF limit, most, cut
    <3> QED
      BY <2>1, <2>3, <2>5, <2>6
<1> QED
  BY <1>1, <1>2, <1>3

(* The zeros that a unit may read, as numbers.                             *)
LEMMA ZerosType ==
    ASSUME NEW qp, Coded(qp), NEW k, k = Coding(qp), NEW zeros \in 0 .. k.cap
    PROVE  /\ k.cap \in Nat \ {0} /\ zeros \in Nat
           /\ PrefixBits(k, zeros) \in Nat \ {0}
           /\ PrefixBits(k, zeros) <= zeros + 1 /\ PrefixBits(k, zeros) <= k.cap
           /\ Width(k, zeros) \in Int
<1>1. /\ k.full \in Nat \ {0} /\ k.pred \in 0 .. k.full - 1 /\ k.cut \in BOOLEAN
      /\ ~k.cut => k.cap = k.full - k.pred + (IF unit = 0 THEN 1 ELSE 0)
      /\ k.cut => k.cap \in {13, 15}
  BY CodingParts
<1>2. k.cap \in Nat \ {0}
  BY <1>1
<1> QED
  BY <1>1, <1>2 DEF PrefixBits, Width

(* A width that residuals are read with: a width the unit has, and, but    *)
(* for a cut prefix that has said all it can, one that pays for its zeros. *)
LEMMA WidthParts ==
    ASSUME NEW qp, Coded(qp), NEW k, k = Coding(qp), NEW zeros \in CodesResiduals(k)
    PROVE  /\ Width(k, zeros) \in 0 .. k.full
           /\ \/ k.cut /\ zeros = k.cap /\ Width(k, zeros) = k.full
              \/ k.cut /\ Width(k, zeros) = k.pred + zeros
              \/ ~k.cut /\ unit = 0 /\ was_ich /\ Width(k, zeros) = k.pred + zeros - 1
              \/ ~k.cut /\ ~(unit = 0 /\ was_ich) /\ Width(k, zeros) = k.pred + zeros
<1>1. /\ k.full \in Nat \ {0} /\ k.pred \in 0 .. k.full - 1 /\ k.cut \in BOOLEAN
  BY CodingParts
<1>2. zeros \in 0 .. k.cap /\ ~SelectsIch(k, zeros) /\ Width(k, zeros) <= k.full
  BY DEF CodesResiduals
<1>3. k.cap \in Nat /\ zeros \in Nat
  BY <1>2, ZerosType
<1>4. unit = 0 /\ ~k.cut /\ was_ich => zeros # 0
  BY <1>2 DEF SelectsIch
<1> QED
  BY <1>1, <1>2, <1>3, <1>4 DEF Width

(* The longest residuals: at every prefix and width the unit may read.      *)
LEMMA ResidualsFit ==
    ASSUME NEW qp, Coded(qp), NEW k, k = Coding(qp), NEW zeros \in CodesResiduals(k),
           Bpc = 16 /\ opt.mux16 = "word" => WordReading(opt)
    PROVE  ResidualBits(k, zeros) <= Threshold
<1> DEFINE level == Level(qp)
           w == Width(k, zeros)
           p == PrefixBits(k, zeros)
           d == Depth(cfg, unit)
<1>1. /\ level \in Nat /\ k.full = d - level /\ k.full \in Nat \ {0}
      /\ k.pred \in 0 .. k.full - 1 /\ k.cut \in BOOLEAN
      /\ ~k.cut => k.cap = k.full - k.pred + (IF unit = 0 THEN 1 ELSE 0)
      /\ k.cut => k.cap \in {13, 15}
      /\ k.flatness \in 0..3
      /\ unit # 0 => k.flatness = 0
      /\ k.flatness = 3 => level >= 2
  BY CodingParts
<1>2. /\ k.cut => unit = 0 /\ Bpc = 16
      /\ WordReading(opt) /\ unit = 0 /\ Bpc = 16 /\ level <= 1
           => k.cap <= (IF level = 0 THEN 13 ELSE 15)
  BY CutParts
<1>3. zeros \in 0 .. k.cap
  BY DEF CodesResiduals
<1>4. /\ k.cap \in Nat \ {0} /\ zeros \in Nat /\ p \in Nat
      /\ p <= zeros + 1 /\ p <= k.cap
      /\ p = IF zeros < k.cap THEN zeros + 1 ELSE zeros
  BY <1>3, ZerosType DEF PrefixBits
<1>5. /\ w \in 0 .. k.full
      /\ \/ k.cut
         \/ ~k.cut /\ unit = 0 /\ was_ich /\ w = k.pred + zeros - 1
         \/ ~k.cut /\ ~(unit = 0 /\ was_ich) /\ w = k.pred + zeros
  BY WidthParts
<1>6. ResidualBits(k, zeros) = k.flatness + p + 3 * w
  BY DEF ResidualBits
<1>7. /\ Bpc \in {8, 10, 12, 14, 16} /\ d \in {Bpc, Bpc + 1} /\ unit \in 0..3
      /\ unit = 0 => d = Bpc
  BY FormatRange DEF Coded
<1>8. /\ Threshold \in Nat
      /\ unit > 0 => Threshold = 4 * d
      /\ unit = 0 => \/ Threshold = 4 * Bpc + 4
                     \/ Bpc = 16 /\ opt.mux16 = "word" /\ Threshold = 64
  BY ThresholdRange DEF Coded
<1> HIDE DEF level, w, p, d
<1>9. CASE unit > 0
  <2>1. ~k.cut /\ k.flatness = 0 /\ k.cap = k.full - k.pred /\ w = k.pred + zeros
    BY <1>9, <1>1, <1>2, <1>5
  <2>2. p <= k.full - k.pred
    BY <2>1, <1>4
  <2> QED
    BY <1>9, <2>1, <2>2, <1>1, <1>4, <1>5, <1>6, <1>7, <1>8
<1>10. CASE unit = 0
  (* The prefix and the widths take four times the full width and a bit.    *)
  <2>1. ~k.cut => p + 3 * w <= 4 * k.full + 1
    BY <1>10, <1>1, <1>4, <1>5
  <2>2. 3 * w <= 3 * k.full
    BY <1>1, <1>5
  <2>3. CASE Bpc = 16 /\ opt.mux16 = "word"
    <3>1. WordReading(opt)
      BY <2>3
    <3>2. CASE level = 0
      <4>1. p <= 13 /\ k.flatness <= 2 /\ k.full = 16
        BY <3>1, <3>2, <2>3, <1>10, <1>1, <1>2, <1>4, <1>7
      <4> QED
        BY <4>1, <2>2, <2>3, <1>10, <1>1, <1>4, <1>5, <1>6, <1>8
    <3>3. CASE level = 1
      <4>1. p <= 15 /\ k.flatness <= 2 /\ k.full = 15
        BY <3>1, <3>3, <2>3, <1>10, <1>1, <1>2, <1>4, <1>7
      <4> QED
        BY <4>1, <2>2, <2>3, <1>10, <1>1, <1>4, <1>5, <1>6, <1>8
    <3>4. CASE level >= 2
      <4>1. k.flatness <= 3 /\ k.full <= 14
        BY <3>4, <2>3, <1>10, <1>1, <1>7
      <4>2. k.cut => p <= 15
        BY <1>1, <1>4
      <4> QED
        BY <4>1, <4>2, <2>1, <2>2, <2>3, <1>10, <1>1, <1>4, <1>5, <1>6, <1>8
    <3> QED
      BY <3>2, <3>3, <3>4, <1>1
  <2>4. CASE ~(Bpc = 16 /\ opt.mux16 = "word")
    <3>1. Threshold = 4 * Bpc + 4
      BY <2>4, <1>8, <1>10
    <3>2. k.cut => p <= 15 /\ Bpc = 16
      BY <1>1, <1>2, <1>4
    <3>3. k.flatness <= 2 \/ level >= 2
      BY <1>1
    <3>4. k.full = Bpc - level
      BY <1>1, <1>7, <1>10
    <3>5. CASE k.cut
      BY <3>1, <3>2, <3>3, <3>4, <3>5, <2>2, <1>1, <1>4, <1>5, <1>6, <1>7
    <3>6. CASE ~k.cut
      BY <3>1, <3>6, <3>3, <3>4, <2>1, <1>1, <1>4, <1>5, <1>6, <1>7
    <3> QED
      BY <3>5, <3>6, <1>1
  <2> QED
    BY <2>3, <2>4
<1> QED
  BY <1>7, <1>9, <1>10

(* The escape and its index, and the index alone, are far below it.        *)
LEMMA IndicesFit ==
    ASSUME NEW qp, Coded(qp), NEW k, k = Coding(qp)
    PROVE  /\ \A zeros \in CodesIch(k) : IchBits(k, zeros) <= Threshold
           /\ IndexBits \in {0, 5} /\ IndexBits <= Threshold
<1>1. /\ Bpc \in {8, 10, 12, 14, 16} /\ Depth(cfg, unit) \in {Bpc, Bpc + 1}
      /\ unit \in 0..3 /\ (unit = 0 => Depth(cfg, unit) = Bpc)
  BY FormatRange DEF Coded
<1>2. /\ Threshold \in Nat
      /\ unit > 0 => Threshold = 4 * Depth(cfg, unit)
      /\ unit = 0 => \/ Threshold = 4 * Bpc + 4
                     \/ Bpc = 16 /\ Threshold = 64
  BY ThresholdRange DEF Coded
<1>3. IndexBits \in {0, 5}
  BY DEF IndexBits
<1>4. ASSUME NEW zeros \in CodesIch(k) PROVE IchBits(k, zeros) <= Threshold
  <2>1. zeros \in 0 .. k.cap /\ unit = 0 /\ ~k.cut
    BY DEF CodesIch, SelectsIch
  <2>2. k.cap \in Nat /\ PrefixBits(k, zeros) \in Nat /\ PrefixBits(k, zeros) <= k.cap
    BY <2>1, ZerosType
  <2>3. /\ Level(qp) \in Nat /\ k.full = Depth(cfg, unit) - Level(qp)
        /\ k.pred \in 0 .. k.full - 1
        /\ k.cap = k.full - k.pred + (IF unit = 0 THEN 1 ELSE 0)
        /\ k.flatness \in 0..3
    BY <2>1, CodingParts
  <2>4. PrefixBits(k, zeros) <= Bpc + 1
    BY <2>1, <2>2, <2>3, <1>1
  <2> QED
    BY <2>1, <2>2, <2>3, <2>4, <1>1, <1>2, <1>3 DEF IchBits
<1> QED
  BY <1>1, <1>2, <1>3, <1>4

(* The sizes of three residuals stay within the width they are read with.  *)
LEMMA RequiredRange ==
    ASSUME NEW k, NEW w \in Nat, NEW shape \in Shapes
    PROVE  Required(k, w, shape) \in [0..2 -> 0..w]
<1>1. shape \in [0..2 -> 0..17]
  BY ShapesAssumption
<1> QED
  BY <1>1 DEF Required, UMin

-----------------------------------------------------------------------------
(* The steps: a group keeps the types and leaves less in the funnel than a  *)
(* refilled one holds, and a refusal changes nothing but the status.        *)

SubstreamInv == TypeOK /\ count <= Threshold - 1 + MuxWord(cfg)

LEMMA SubstreamInit == Init => SubstreamInv
<1> SUFFICES ASSUME Init PROVE SubstreamInv
  OBVIOUS
<1>1. cfg \in Formats /\ unit \in Units(cfg)
  BY DEF Init
<1>2. /\ Depth(cfg, unit) \in {Bpc, Bpc + 1} /\ Bpc \in {8, 10, 12, 14, 16}
      /\ MuxWord(cfg) \in {48, 64}
  BY <1>1, FormatRange
<1>3. 0 <= Threshold - 1 + MuxWord(cfg)
  <2>1. Threshold \in Nat
    BY <1>1, ThresholdRange
  <2> QED
    BY <1>2, <2>1
<1>4. predicted \in 0 .. Depth(cfg, unit) /\ last_level \in 0 .. Depth(cfg, unit) - 1
  BY <1>2 DEF Init
<1>5. TypeOK
  <2>1. cfg \in Formats /\ opt \in Readings /\ unit \in Units(cfg)
    BY DEF Init
  <2>2. was_ich = FALSE /\ flat_flag = FALSE
    BY DEF Init
  <2>3. count \in Nat /\ group \in 0..3 /\ status \in {"ok", "starved", "prefix", "level"}
    BY DEF Init
  <2>4. was_ich \in BOOLEAN /\ flat_flag \in BOOLEAN
    BY <2>2, Zenon
  <2> QED
    BY <2>1, <2>3, <2>4, <1>4, Zenon DEF TypeOK
<1>6. count = 0
  BY DEF Init
<1> QED
  BY <1>3, <1>5, <1>6 DEF SubstreamInv

LEMMA CodedNow ==
    ASSUME TypeOK, NEW qp \in Qps(cfg), Level(qp) < Depth(cfg, unit)
    PROVE  Coded(qp)
<1>1. Depth(cfg, unit) \in Int
  BY FormatRange DEF TypeOK
<1> QED
  BY <1>1 DEF TypeOK, Coded

LEMMA RefilledRange ==
    ASSUME SubstreamInv
    PROVE  /\ Refilled(count) \in Nat
           /\ Refilled(count) <= Threshold - 1 + MuxWord(cfg)
           /\ ~(Bpc = 16 /\ opt.mux16 # "word" /\ unit = 0) => Threshold <= Refilled(count)
<1>1. cfg \in Formats /\ unit \in Units(cfg) /\ count \in Nat
      /\ count <= Threshold - 1 + MuxWord(cfg)
  BY DEF SubstreamInv, TypeOK
<1>2. /\ Bpc \in {8, 10, 12, 14, 16}
      /\ Depth(cfg, unit) \in {Bpc, Bpc + 1}
      /\ unit \in 0..3
      /\ unit = 0 \/ Bpc = 16 => Depth(cfg, unit) = Bpc
      /\ MuxWord(cfg) \in {48, 64} /\ (Bpc > 10 => MuxWord(cfg) = 64)
  BY <1>1, FormatRange
<1>3. /\ Threshold \in Nat
      /\ unit > 0 => Threshold = 4 * Depth(cfg, unit)
      /\ unit = 0 => \/ Threshold = 4 * Bpc + 4
                     \/ Bpc = 16 /\ opt.mux16 = "word" /\ Threshold = 64
      /\ Bpc = 16 /\ opt.mux16 = "word" /\ unit = 0 => Threshold = 64
  BY <1>1, ThresholdRange
<1>4. ~(Bpc = 16 /\ opt.mux16 # "word" /\ unit = 0) => Threshold <= MuxWord(cfg)
  BY <1>2, <1>3
<1> QED
  BY <1>1, <1>2, <1>3, <1>4 DEF Refilled

(* What taking bits does, and when it starves.                             *)
LEMMA TakeResult ==
    ASSUME SubstreamInv, NEW n \in Nat, Take(n)
    PROVE  /\ count' \in Nat /\ count' <= Threshold - 1 + MuxWord(cfg)
           /\ status' \in {"ok", "starved"}
           /\ n <= Refilled(count) => status' = "ok"
<1>1. /\ Refilled(count) \in Nat
      /\ Refilled(count) <= Threshold - 1 + MuxWord(cfg)
  BY RefilledRange
<1>2. Threshold \in Nat /\ MuxWord(cfg) \in Nat
  BY FormatRange, ThresholdRange DEF SubstreamInv, TypeOK
<1> QED
  BY <1>1, <1>2 DEF Take

(* The unit of a group: whichever way the prefix is read.                  *)
LEMMA ParseResult ==
    ASSUME SubstreamInv, NEW qp \in Qps(cfg), Level(qp) < Depth(cfg, unit),
           ParseUnit(Coding(qp))
    PROVE  /\ count' \in Nat /\ count' <= Threshold - 1 + MuxWord(cfg)
           /\ status' \in {"ok", "starved"}
           /\ predicted' \in 0 .. Depth(cfg, unit) /\ was_ich' \in BOOLEAN
           /\ (Bpc = 16 => opt.mux16 = "word" /\ WordReading(opt)) => status' = "ok"
<1> DEFINE k == Coding(qp)
           Words == Bpc = 16 => opt.mux16 = "word" /\ WordReading(opt)
<1>1. TypeOK /\ Coded(qp)
  BY CodedNow DEF SubstreamInv
<1>2. /\ k.full \in Nat \ {0} /\ k.flatness \in 0..3
      /\ k.full = Depth(cfg, unit) - Level(qp) /\ Level(qp) \in Nat
  BY <1>1, CodingParts
<1>3. Depth(cfg, unit) \in Nat /\ k.full <= Depth(cfg, unit)
  <2>1. Depth(cfg, unit) \in Nat
    BY <1>1, FormatRange DEF TypeOK
  <2> HIDE DEF k
  <2> QED
    BY <2>1, <1>2
<1>4. Words => Threshold <= Refilled(count)
  BY RefilledRange
<1>5. Threshold \in Nat /\ Refilled(count) \in Nat
  BY <1>1, RefilledRange, ThresholdRange DEF TypeOK
<1>6. IndexBits \in {0, 5} /\ IndexBits <= Threshold
  BY <1>1, IndicesFit
<1> HIDE DEF k
<1>7. ASSUME NEW zeros \in CodesIch(k), IchUnit(IchBits(k, zeros))
      PROVE  /\ count' \in Nat /\ count' <= Threshold - 1 + MuxWord(cfg)
             /\ status' \in {"ok", "starved"}
             /\ predicted' = predicted /\ was_ich' = TRUE
             /\ Words => status' = "ok"
  <2>1. zeros \in 0 .. k.cap
    BY DEF CodesIch
  <2>2. PrefixBits(k, zeros) \in Nat
    BY <2>1, <1>1, ZerosType DEF k
  <2>3. IchBits(k, zeros) \in Nat /\ IchBits(k, zeros) <= Threshold
    BY <2>2, <1>1, <1>2, <1>6, IndicesFit DEF k, IchBits
  <2>4. Words => IchBits(k, zeros) <= Refilled(count)
    BY <2>3, <1>4, <1>5
  <2> QED
    BY <2>3, <2>4, <1>7, TakeResult DEF IchUnit
<1>8. ASSUME NEW zeros \in CodesResiduals(k), ResidualUnit(k, zeros)
      PROVE  /\ count' \in Nat /\ count' <= Threshold - 1 + MuxWord(cfg)
             /\ status' \in {"ok", "starved"}
             /\ predicted' \in 0 .. Depth(cfg, unit) /\ was_ich' = FALSE
             /\ Words => status' = "ok"
  <2>1. zeros \in 0 .. k.cap
    BY DEF CodesResiduals
  <2>2. PrefixBits(k, zeros) \in Nat
    BY <2>1, <1>1, ZerosType DEF k
  <2>3. Width(k, zeros) \in 0 .. k.full
    BY <1>1, WidthParts DEF k
  <2>4. ResidualBits(k, zeros) \in Nat
    BY <2>2, <2>3, <1>2 DEF ResidualBits
  <2>5. Words => ResidualBits(k, zeros) <= Threshold
    BY <1>1, ResidualsFit DEF k
  <2>6. Words => ResidualBits(k, zeros) <= Refilled(count)
    BY <2>4, <2>5, <1>4, <1>5
  <2>7. PICK shape \in Shapes :
          LET r == Required(k, Width(k, zeros), shape)
          IN  predicted' = (r[0] + r[1] + 2 * r[2] + 2) \div 4
    BY <1>8 DEF ResidualUnit
  <2>8. Required(k, Width(k, zeros), shape) \in [0..2 -> 0 .. Width(k, zeros)]
    BY <2>3, <1>2, RequiredRange
  <2>9. predicted' \in 0 .. Depth(cfg, unit)
    <3> DEFINE r == Required(k, Width(k, zeros), shape)
               w == Width(k, zeros)
    <3>1. r[0] \in 0..w /\ r[1] \in 0..w /\ r[2] \in 0..w /\ w \in Nat /\ w <= Depth(cfg, unit)
      BY <2>8, <2>3, <1>2, <1>3
    <3>2. predicted' = (r[0] + r[1] + 2 * r[2] + 2) \div 4
      BY <2>7
    <3> HIDE DEF r, w
    <3> QED
      BY <3>1, <3>2, <1>3
  <2> QED
    BY <2>4, <2>6, <2>9, <1>8, TakeResult DEF ResidualUnit
<1>9. ASSUME unit > 0, IchUnit(IndexBits)
      PROVE  /\ count' \in Nat /\ count' <= Threshold - 1 + MuxWord(cfg)
             /\ status' \in {"ok", "starved"}
             /\ predicted' = predicted /\ was_ich' = TRUE
             /\ Words => status' = "ok"
  <2>1. IndexBits \in Nat /\ (Words => IndexBits <= Refilled(count))
    BY <1>4, <1>5, <1>6
  <2> QED
    BY <2>1, <1>9, TakeResult DEF IchUnit
<1>10. predicted \in 0 .. Depth(cfg, unit)
  BY <1>1 DEF TypeOK
<1>11. \/ \E zeros \in CodesIch(k) : IchUnit(IchBits(k, zeros))
       \/ \E zeros \in CodesResiduals(k) : ResidualUnit(k, zeros)
       \/ unit > 0 /\ IchUnit(IndexBits)
  BY DEF ParseUnit, k
<1> QED
  BY <1>7, <1>8, <1>9, <1>10, <1>11

LEMMA GroupKeeps ==
    ASSUME SubstreamInv, NEW qp \in Qps(cfg), Group(qp), UNCHANGED <<cfg, opt, unit>>
    PROVE  /\ SubstreamInv' /\ status' # "prefix"
           /\ (Bpc = 16 => opt.mux16 = "word" /\ WordReading(opt)) => status' = "ok"
<1>1. /\ Level(qp) < Depth(cfg, unit) /\ ParseUnit(Coding(qp)) /\ FlatFlagRead(qp)
      /\ last_level' = Level(qp)
      /\ group' = IF unit = 0 THEN (group + 1) % 4 ELSE group
  BY DEF Group
<1>2. /\ count' \in Nat /\ count' <= Threshold - 1 + MuxWord(cfg)
      /\ status' \in {"ok", "starved"}
      /\ predicted' \in 0 .. Depth(cfg, unit) /\ was_ich' \in BOOLEAN
      /\ (Bpc = 16 => opt.mux16 = "word" /\ WordReading(opt)) => status' = "ok"
  BY <1>1, ParseResult
<1>3. flat_flag' \in BOOLEAN
  BY <1>1 DEF FlatFlagRead, SubstreamInv, TypeOK
<1>4. last_level' \in 0 .. Depth(cfg, unit) - 1
  <2>1. Level(qp) \in Nat /\ Depth(cfg, unit) \in Nat
    BY LevelRange, FormatRange DEF SubstreamInv, TypeOK
  <2> QED
    BY <1>1, <2>1
<1>5. group' \in 0..3
  BY <1>1 DEF SubstreamInv, TypeOK
<1>6. cfg' = cfg /\ opt' = opt /\ unit' = unit
  OBVIOUS
<1>7. /\ Depth(cfg, unit)' = Depth(cfg, unit) /\ MuxWord(cfg)' = MuxWord(cfg)
      /\ Threshold' = Threshold /\ Units(cfg)' = Units(cfg)
  BY <1>6 DEF Threshold
<1>8. TypeOK'
  <2>1. cfg' \in Formats /\ opt' \in Readings /\ unit' \in Units(cfg')
    BY <1>6 DEF SubstreamInv, TypeOK
  <2> QED
    BY <2>1, <1>2, <1>3, <1>4, <1>5, <1>7 DEF TypeOK
<1> QED
  BY <1>2, <1>7, <1>8 DEF SubstreamInv

LEMMA RejectKeeps ==
    ASSUME SubstreamInv, NEW why \in {"prefix", "level"}, Reject(why),
           UNCHANGED <<cfg, opt, unit>>
    PROVE  SubstreamInv'
<1>1. /\ cfg' = cfg /\ opt' = opt /\ unit' = unit /\ count' = count
      /\ predicted' = predicted /\ last_level' = last_level
      /\ was_ich' = was_ich /\ flat_flag' = flat_flag /\ group' = group
      /\ status' = why
  BY DEF Reject
<1> QED
  BY <1>1 DEF SubstreamInv, TypeOK, Threshold

(* A prefix that is not cut says nothing that the unit cannot be: its       *)
(* zeros end at the full width, or one after it with the ICH escape.        *)
LEMMA UncutPrefixRead ==
    ASSUME NEW qp, Coded(qp), NEW k, k = Coding(qp), ~k.cut
    PROVE  0 .. k.cap = CodesIch(k) \cup CodesResiduals(k)
<1>1. /\ k.full \in Nat \ {0} /\ k.pred \in 0 .. k.full - 1
      /\ k.cap = k.full - k.pred + (IF unit = 0 THEN 1 ELSE 0)
  BY CodingParts
<1>2. ASSUME NEW zeros \in 0 .. k.cap, ~SelectsIch(k, zeros)
      PROVE  Width(k, zeros) <= k.full
  BY <1>1, <1>2 DEF SelectsIch, Width
<1> QED
  BY <1>2 DEF CodesIch, CodesResiduals

LEMMA SubstreamStep ==
    SubstreamInv /\ [Next]_vars => SubstreamInv'
<1> SUFFICES ASSUME SubstreamInv, [Next]_vars PROVE SubstreamInv'
  OBVIOUS
<1>1. CASE UNCHANGED vars
  BY <1>1 DEF vars, SubstreamInv, TypeOK, Threshold
<1>2. CASE Next
  <2>1. PICK qp \in Qps(cfg) : Group(qp) \/ RejectPrefix(qp) \/ RejectLevel(qp)
    BY <1>2 DEF Next
  <2>2. UNCHANGED <<cfg, opt, unit>>
    BY <1>2 DEF Next
  <2>3. CASE Group(qp)
    BY <2>2, <2>3, GroupKeeps
  <2>4. CASE RejectPrefix(qp)
    BY <2>2, <2>4, RejectKeeps DEF RejectPrefix
  <2>5. CASE RejectLevel(qp)
    BY <2>2, <2>5, RejectKeeps DEF RejectLevel
  <2> QED
    BY <2>1, <2>3, <2>4, <2>5
<1> QED
  BY <1>1, <1>2

LEMMA SubstreamInvariant == Spec => []SubstreamInv
<1> QED
  BY SubstreamInit, SubstreamStep, PTL DEF Spec

-----------------------------------------------------------------------------

(* The state of a substream keeps its types: the prediction of the next    *)
(* width never exceeds the sample, and the last level always leaves a bit. *)
THEOREM SubstreamTypeCorrect == Spec => []TypeOK
<1>1. SubstreamInv => TypeOK
  BY DEF SubstreamInv
<1> QED
  BY <1>1, SubstreamInvariant, PTL

(* refill never asks for more than the funnel shifter holds (decode.c:15), *)
(* with any reading, even one that starves.                                *)
THEOREM FunnelNeverOverflows == Spec => []FunnelFits
<1>1. SubstreamInv => FunnelFits
  <2> SUFFICES ASSUME SubstreamInv PROVE FunnelFits
    OBVIOUS
  <2>1. cfg \in Formats /\ unit \in Units(cfg)
    BY DEF SubstreamInv, TypeOK
  <2>2. /\ Refilled(count) \in Nat
        /\ Refilled(count) <= Threshold - 1 + MuxWord(cfg)
    BY RefilledRange
  <2>3. /\ Bpc \in {8, 10, 12, 14, 16} /\ unit \in 0..3
        /\ Depth(cfg, unit) \in {Bpc, Bpc + 1} /\ MuxWord(cfg) \in {48, 64}
        /\ (unit = 0 \/ Bpc = 16 => Depth(cfg, unit) = Bpc)
    BY <2>1, FormatRange
  <2>4. Threshold \in Nat /\ Threshold <= 68
    BY <2>1, <2>3, ThresholdRange
  <2> QED
    BY <2>2, <2>3, <2>4 DEF FunnelFits
<1> QED
  BY <1>1, SubstreamInvariant, PTL

(* "rcSizeGroup never exceeds codedGroupSize" (rate_control.c:144), unit by *)
(* unit: three residuals of the greatest size fit in what codes them, and   *)
(* the escape of an ICH group is at least one bit.                          *)
THEOREM SizesNeverExceed == Spec => []SizeWithinCoded
<1>1. SubstreamInv => SizeWithinCoded
  <2> SUFFICES ASSUME SubstreamInv PROVE SizeWithinCoded
    OBVIOUS
  <2>1. ASSUME NEW k \in Codings
        PROVE  /\ \A zeros \in CodesResiduals(k), shape \in Shapes :
                     RcSize(Required(k, Width(k, zeros), shape))
                       <= ResidualBits(k, zeros) - k.flatness
               /\ \A zeros \in CodesIch(k) : 16 <= PrefixBits(k, zeros) + 15
    <3>1. PICK qp \in Qps(cfg) : Level(qp) < Depth(cfg, unit) /\ k = Coding(qp)
      BY <2>1 DEF Codings
    <3>2. Coded(qp)
      BY <3>1, CodedNow DEF SubstreamInv
    <3>3. k.full \in Nat /\ k.flatness \in 0..3
      BY <3>1, <3>2, CodingParts
    <3>4. ASSUME NEW zeros \in CodesResiduals(k), NEW shape \in Shapes
          PROVE  RcSize(Required(k, Width(k, zeros), shape))
                   <= ResidualBits(k, zeros) - k.flatness
      <4> DEFINE w == Width(k, zeros)
                 r == Required(k, w, shape)
      <4>1. w \in Nat
        BY <3>1, <3>2, <3>3, WidthParts
      <4>2. PrefixBits(k, zeros) \in Nat \ {0}
        BY <3>1, <3>2, ZerosType DEF CodesResiduals
      <4>3. r \in [0..2 -> 0..w]
        BY <4>1, RequiredRange
      <4>4. r[0] \in 0..w /\ r[1] \in 0..w /\ r[2] \in 0..w
        BY <4>3
      <4>5. ResidualBits(k, zeros) = k.flatness + PrefixBits(k, zeros) + 3 * w
        BY DEF ResidualBits
      <4> HIDE DEF w, r
      <4>6. RcSize(r) <= 3 * w + 1
        BY <4>1, <4>4 DEF RcSize, UMax
      <4>7. RcSize(r) \in Int
        BY <4>4, <4>1 DEF RcSize, UMax
      <4>8. RcSize(r) <= ResidualBits(k, zeros) - k.flatness
        BY <4>1, <4>2, <4>5, <4>6, <4>7, <3>3
      <4> QED
        BY <4>8 DEF r, w
    <3>5. ASSUME NEW zeros \in CodesIch(k)
          PROVE  16 <= PrefixBits(k, zeros) + 15
      <4>1. PrefixBits(k, zeros) \in Nat \ {0}
        BY <3>1, <3>2, ZerosType DEF CodesIch
      <4> QED
        BY <4>1
    <3> QED
      BY <3>4, <3>5
  <2> QED
    BY <2>1 DEF SizeWithinCoded
<1> QED
  BY <1>1, SubstreamInvariant, PTL

(* The error return for a width that the unit does not have (decode.c:257) *)
(* is dead but for the cut luma prefixes of 16 bpc.                        *)
THEOREM OnlyCutPrefixRefused == Spec => []PrefixNeverInvalid
<1>1. Init => PrefixNeverInvalid
  BY DEF Init, PrefixNeverInvalid
<1>2. SubstreamInv /\ PrefixNeverInvalid /\ [Next]_vars => PrefixNeverInvalid'
  <2> SUFFICES ASSUME SubstreamInv, PrefixNeverInvalid, [Next]_vars
               PROVE  PrefixNeverInvalid'
    OBVIOUS
  <2>1. CASE UNCHANGED vars
    BY <2>1 DEF vars, PrefixNeverInvalid
  <2>2. CASE Next
    <3>1. PICK qp \in Qps(cfg) : Group(qp) \/ RejectPrefix(qp) \/ RejectLevel(qp)
      BY <2>2 DEF Next
    <3>2. UNCHANGED <<cfg, opt, unit>>
      BY <2>2 DEF Next
    <3>3. CASE Group(qp)
      BY <3>2, <3>3, GroupKeeps DEF PrefixNeverInvalid
    <3>4. CASE RejectPrefix(qp)
      <4>1. /\ Level(qp) < Depth(cfg, unit)
            /\ 0 .. Coding(qp).cap # CodesIch(Coding(qp)) \cup CodesResiduals(Coding(qp))
        BY <3>4 DEF RejectPrefix
      <4>2. Coded(qp)
        BY <4>1, CodedNow DEF SubstreamInv
      <4>3. Coding(qp).cut
        BY <4>1, <4>2, UncutPrefixRead
      <4>4. unit = 0 /\ Bpc = 16
        BY <4>2, <4>3, CutParts
      <4> QED
        BY <3>2, <4>4 DEF PrefixNeverInvalid, Bpc
    <3>5. CASE RejectLevel(qp)
      BY <3>5 DEF RejectLevel, Reject, PrefixNeverInvalid
    <3> QED
      BY <3>1, <3>3, <3>4, <3>5
  <2> QED
    BY <2>1, <2>2
<1> QED
  BY <1>1, <1>2, SubstreamInvariant, PTL DEF Spec

(* The readings that a threshold of 64 bits needs at 16 bpc. The other two  *)
(* of RESEARCH.md's tables, OQ-21's 15 and OQ-35's QP 0, make an element of *)
(* 65 and of 67 bits: run prefix15 shows the first.                         *)
WordKept == Bpc = 16 /\ opt.mux16 = "word" => WordReading(opt)

(* max_se is the longest element (format.c:8-15): whatever was read before, *)
(* no group of a unit is longer than its refill threshold.                  *)
THEOREM LongestElement == Spec /\ WordKept => []ElementFits
<1>1. Init /\ WordKept => WordKept
  OBVIOUS
<1>2. WordKept /\ [Next]_vars => WordKept'
  BY DEF Next, vars, WordKept, Bpc
<1>3. SubstreamInv /\ WordKept => ElementFits
  <2> SUFFICES ASSUME SubstreamInv, WordKept, NEW k \in Codings
               PROVE  /\ \A zeros \in CodesResiduals(k) : ResidualBits(k, zeros) <= Threshold
                      /\ \A zeros \in CodesIch(k) : IchBits(k, zeros) <= Threshold
    BY DEF ElementFits
  <2>1. PICK qp \in Qps(cfg) : Level(qp) < Depth(cfg, unit) /\ k = Coding(qp)
    BY DEF Codings
  <2>2. Coded(qp)
    BY <2>1, CodedNow DEF SubstreamInv
  <2>3. \A zeros \in CodesResiduals(k) : ResidualBits(k, zeros) <= Threshold
    BY <2>1, <2>2, ResidualsFit DEF WordKept
  <2>4. \A zeros \in CodesIch(k) : IchBits(k, zeros) <= Threshold
    BY <2>1, <2>2, IndicesFit
  <2> QED
    BY <2>3, <2>4
<1> QED
  BY <1>2, <1>3, SubstreamInvariant, PTL DEF Spec

(* At 16 bpc the threshold must also be no more than the word that refills: *)
(* the 68 bits of OQ-33's other reading starve a funnel that was empty.     *)
WordRead == Bpc = 16 => opt.mux16 = "word" /\ WordReading(opt)

(* One mux word before a group is enough for it (format.c:12-20): with the  *)
(* readings of the 64 bit threshold at 16 bpc, and with every reading below *)
(* 16 bpc, no stream starves a substream, however long.                     *)
THEOREM OneWordSuffices == Spec /\ WordRead => []NeverStarves
<1>1. Init => NeverStarves
  BY DEF Init, NeverStarves
<1>2. WordRead /\ [Next]_vars => WordRead'
  BY DEF Next, vars, WordRead, Bpc
<1>3. SubstreamInv /\ WordRead /\ NeverStarves /\ [Next]_vars => NeverStarves'
  <2> SUFFICES ASSUME SubstreamInv, WordRead, NeverStarves, [Next]_vars
               PROVE  NeverStarves'
    OBVIOUS
  <2>1. CASE UNCHANGED vars
    BY <2>1 DEF vars, NeverStarves
  <2>2. CASE Next
    <3>1. PICK qp \in Qps(cfg) : Group(qp) \/ RejectPrefix(qp) \/ RejectLevel(qp)
      BY <2>2 DEF Next
    <3>2. UNCHANGED <<cfg, opt, unit>>
      BY <2>2 DEF Next
    <3>3. CASE Group(qp)
      BY <3>2, <3>3, GroupKeeps DEF NeverStarves, WordRead
    <3>4. CASE RejectPrefix(qp) \/ RejectLevel(qp)
      BY <3>4 DEF RejectPrefix, RejectLevel, Reject, NeverStarves
    <3> QED
      BY <3>1, <3>3, <3>4
  <2> QED
    BY <2>1, <2>2
<1> QED
  BY <1>1, <1>2, <1>3, SubstreamInvariant, PTL DEF Spec

============================================================================
