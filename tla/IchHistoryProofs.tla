-------------------------- MODULE IchHistoryProofs --------------------------
(***************************************************************************)
(* The ICH history is ordered by last use and has no pixel twice, for      *)
(* every history length, slice and set of indices.                         *)
(*                                                                         *)
(* Each entry of the history after a group is a pixel of the group or one  *)
(* that stayed (OperatorProofs). Two pixels of the group are in order by    *)
(* their places, two that stayed as before, and a pixel of the group was   *)
(* used after any that stayed. As for origins, a new one is later than     *)
(* all others, which needs that no origin is later than the last use; and  *)
(* an old one that a group names is not among those that stay.             *)
(*                                                                         *)
(* From that order follows that the list implements the set of the entries *)
(* used last (RecentUses): before it is cut it holds exactly the last uses *)
(* of the old entries and of the group's pixels, and the first n entries   *)
(* of an ordered list are the n used last.                                 *)
(***************************************************************************)
EXTENDS IchHistory, OperatorProofs

Entry(e, c) == e.origin \in Nat /\ e.used \in Nat /\ e.origin <= e.used /\ e.used < c

Before(e, f) == e.used > f.used /\ e.origin # f.origin

Ordered(h, c) ==
    /\ \A p \in 1 .. Len(h) : Entry(h[p], c)
    /\ \A p, q \in 1 .. Len(h) : p < q => Before(h[p], h[q])

(* Pixels of a group that may both be entered.                             *)
Differ(ich, index, i, j) == ich => index[i] # index[j]

(* An old origin is that of an entry that the group names.                 *)
FromHistory(h, ich, index, j, origin) ==
    ich /\ \E p \in 1 .. Len(h) : index[j] = p - 1 /\ origin = h[p].origin

(* What is known of the pixels that a group enters: their places, where    *)
(* their origins come from, and that two of them have one origin when they *)
(* have one index.                                                         *)
GroupOf(h, c, ich, index, pixels) ==
    /\ \A j \in 0..2 : pixels[j].used = c + j /\ pixels[j].origin <= c + j
    /\ \A j \in 0..2 : \/ pixels[j].origin >= c
                       \/ FromHistory(h, ich, index, j, pixels[j].origin)
    /\ \A j \in 0..2 : \/ pixels[j].origin = c + j
                       \/ \E i \in 0 .. j - 1 : pixels[j].origin = pixels[i].origin
                       \/ FromHistory(h, ich, index, j, pixels[j].origin)
    /\ \A i, j \in 0..2 : j < i /\ Differ(ich, index, i, j) /\ pixels[j].origin >= c
                           => pixels[i].origin # pixels[j].origin
    /\ ich => \A i, j \in 0..2 : index[i] = index[j] => pixels[i].origin = pixels[j].origin
    /\ ich => \A j \in 0..2, p \in 1 .. Len(h) :
                index[j] = p - 1 => pixels[j].origin = h[p].origin

HistoryInv ==
    /\ HistoryTypeOK
    /\ Len(history) <= Room
    /\ Ordered(history, clock)

-----------------------------------------------------------------------------

(* The pixels of a group are entered from the last to the first, and of    *)
(* two that an ICH group enters the indices differ.                        *)
LEMMA FrontOrder ==
    ASSUME NEW E, NEW ich \in BOOLEAN, NEW index, NEW pixels \in [0..2 -> E]
    PROVE  LET F == Front(ich, index, pixels)
           IN  /\ \A p \in 1 .. Len(F) : \E i \in 0..2 : F[p] = pixels[i]
               /\ \A p, q \in 1 .. Len(F) : p < q =>
                    \E i, j \in 0..2 : /\ j < i /\ F[p] = pixels[i] /\ F[q] = pixels[j]
                                       /\ Differ(ich, index, i, j)
PROOF
  <1> DEFINE F == Front(ich, index, pixels)
             Good(G) ==
               /\ \A p \in 1 .. Len(G) : \E i \in 0..2 : G[p] = pixels[i]
               /\ \A p, q \in 1 .. Len(G) : p < q =>
                    \E i, j \in 0..2 : /\ j < i /\ G[p] = pixels[i] /\ G[q] = pixels[j]
                                       /\ Differ(ich, index, i, j)
  <1>1. \/ F = <<pixels[2]>>
        \/ F = <<pixels[2], pixels[1]>> /\ (ich => ~Repeated(index, 1))
        \/ F = <<pixels[2], pixels[0]>> /\ (ich => ~Repeated(index, 0))
        \/ /\ F = <<pixels[2], pixels[1], pixels[0]>>
           /\ ich => ~Repeated(index, 1) /\ ~Repeated(index, 0)
    BY FrontParts
  <1>2. ich /\ ~Repeated(index, 1) => index[2] # index[1]
    BY DEF Repeated
  <1>3. ich /\ ~Repeated(index, 0) => index[2] # index[0] /\ index[1] # index[0]
    BY DEF Repeated
  <1>4. Good(<<pixels[2]>>)
    OBVIOUS
  <1>5. (ich => ~Repeated(index, 1)) => Good(<<pixels[2], pixels[1]>>)
    <2> SUFFICES ASSUME ich => index[2] # index[1]
                 PROVE  Good(<<pixels[2], pixels[1]>>)
      BY <1>2
    <2>1. \A p \in 1..2 : p = 1 \/ p = 2
      OBVIOUS
    <2> QED
      BY <2>1 DEF Differ
  <1>6. (ich => ~Repeated(index, 0)) => Good(<<pixels[2], pixels[0]>>)
    <2> SUFFICES ASSUME ich => index[2] # index[0]
                 PROVE  Good(<<pixels[2], pixels[0]>>)
      BY <1>3
    <2>1. \A p \in 1..2 : p = 1 \/ p = 2
      OBVIOUS
    <2> QED
      BY <2>1 DEF Differ
  <1>7. (ich => ~Repeated(index, 1) /\ ~Repeated(index, 0))
          => Good(<<pixels[2], pixels[1], pixels[0]>>)
    <2> SUFFICES ASSUME ich => /\ index[2] # index[1] /\ index[2] # index[0]
                               /\ index[1] # index[0]
                 PROVE  Good(<<pixels[2], pixels[1], pixels[0]>>)
      BY <1>2, <1>3
    <2>1. \A p \in 1..3 : p = 1 \/ p = 2 \/ p = 3
      OBVIOUS
    <2> QED
      BY <2>1 DEF Differ
  <1> HIDE DEF F, Good
  <1>8. Good(F)
    BY <1>1, <1>4, <1>5, <1>6, <1>7
  <1> QED
    BY <1>8 DEF F, Good

(* What a group does to an ordered history.                                *)
LEMMA UpdatedOrdered ==
    ASSUME NEW h \in Seq(Entries), NEW c \in Nat, Ordered(h, c),
           NEW ich \in BOOLEAN, NEW index, NEW pixels \in [0..2 -> Entries],
           NEW capacity \in Nat, GroupOf(h, c, ich, index, pixels)
    PROVE  Ordered(Updated(h, ich, index, pixels, capacity), c + 3)
PROOF
  <1> DEFINE F == Front(ich, index, pixels)
             U == Unselected(h, ich, index)
             R == Updated(h, ich, index, pixels, capacity)
             kept(p) == Nth(U, p - Len(F))
  <1>0. /\ \A j \in 0..2 : pixels[j].used = c + j /\ pixels[j].origin <= c + j
        /\ \A j \in 0..2 : \/ pixels[j].origin >= c
                           \/ FromHistory(h, ich, index, j, pixels[j].origin)
        /\ \A i, j \in 0..2 : j < i /\ Differ(ich, index, i, j) /\ pixels[j].origin >= c
                               => pixels[i].origin # pixels[j].origin
    BY DEF GroupOf
  <1>1. F \in Seq(Entries) /\ Len(F) \in 1..3
    BY FrontParts
  <1>2. /\ \A p \in 1 .. Len(F) : \E i \in 0..2 : F[p] = pixels[i]
        /\ \A p, q \in 1 .. Len(F) : p < q =>
             \E i, j \in 0..2 : /\ j < i /\ F[p] = pixels[i] /\ F[q] = pixels[j]
                                /\ Differ(ich, index, i, j)
    BY FrontOrder
  <1>3. U \in SUBSET (1 .. Len(h)) /\ Cardinality(U) \in Nat /\ Len(h) \in Nat
    BY KeptParts
  <1>4. /\ R \in Seq(Entries) /\ Len(R) <= capacity
        /\ \A p \in 1 .. Len(R) :
             \/ p <= Len(F) /\ R[p] = F[p]
             \/ /\ p > Len(F) /\ p - Len(F) \in 1 .. Cardinality(U)
                /\ kept(p) \in U /\ R[p] = h[kept(p)]
    BY UpdatedParts
  <1>5. \A u \in U : ich => \A j \in 0..2 : index[j] # u - 1
    BY DEF Unselected
  <1>6. \A u \in U : Entry(h[u], c)
    BY <1>3 DEF Ordered
  <1>7. \A j \in 0..2 : Entry(pixels[j], c + 3)
    <2>1. \A j \in 0..2 : pixels[j].origin \in Nat
      BY DEF Entries
    <2> QED
      BY <1>0, <2>1 DEF Entry
  <1> HIDE DEF F, U, R
  (* A pixel of the group and an entry that stayed.                        *)
  <1>8. ASSUME NEW j \in 0..2, NEW u \in U
        PROVE  Before(pixels[j], h[u])
    <2>1. pixels[j].used = c + j /\ pixels[j].origin \in Nat /\ Entry(h[u], c)
      BY <1>0, <1>6 DEF Entries
    <2>2. CASE pixels[j].origin >= c
      BY <2>1, <2>2 DEF Before, Entry
    <2>3. CASE FromHistory(h, ich, index, j, pixels[j].origin)
      <3>1. PICK p \in 1 .. Len(h) : index[j] = p - 1 /\ pixels[j].origin = h[p].origin
        BY <2>3 DEF FromHistory
      <3>2. index[j] # u - 1
        BY <1>5, <2>3 DEF FromHistory
      <3>5. u \in 1 .. Len(h) /\ p # u
        BY <1>3, <3>1, <3>2
      <3>3. Before(h[p], h[u]) \/ Before(h[u], h[p])
        BY <1>3, <3>5 DEF Ordered
      <3>4. h[p].origin # h[u].origin
        BY <3>3 DEF Before
      <3> QED
        BY <2>1, <3>1, <3>4 DEF Before, Entry
    <2> QED
      BY <1>0, <2>2, <2>3
  (* Two pixels of the group.                                              *)
  <1>9. ASSUME NEW i \in 0..2, NEW j \in 0..2, j < i, Differ(ich, index, i, j)
        PROVE  Before(pixels[i], pixels[j])
    <2>1. pixels[i].used > pixels[j].used
      BY <1>0, <1>9
    <2>2. pixels[i].origin # pixels[j].origin
      <3>1. \A p \in 1 .. Len(h) : h[p].origin \in Nat /\ h[p].origin < c
        <4>1. \A p \in 1 .. Len(h) : Entry(h[p], c)
          BY DEF Ordered
        <4> QED
          BY <4>1 DEF Entry
      <3>2. CASE pixels[j].origin >= c
        BY <1>0, <1>9, <3>2
      <3>3. CASE pixels[i].origin >= c /\ FromHistory(h, ich, index, j, pixels[j].origin)
        <4>1. PICK q \in 1 .. Len(h) : pixels[j].origin = h[q].origin
          BY <3>3 DEF FromHistory
        <4> QED
          BY <3>1, <3>3, <4>1
      <3>4. CASE /\ FromHistory(h, ich, index, i, pixels[i].origin)
                 /\ FromHistory(h, ich, index, j, pixels[j].origin)
        <4>1. PICK p \in 1 .. Len(h) : index[i] = p - 1 /\ pixels[i].origin = h[p].origin
          BY <3>4 DEF FromHistory
        <4>2. PICK q \in 1 .. Len(h) : index[j] = q - 1 /\ pixels[j].origin = h[q].origin
          BY <3>4 DEF FromHistory
        <4>3. index[i] # index[j]
          BY <1>9, <3>4 DEF Differ, FromHistory
        <4>4. p # q
          BY <4>1, <4>2, <4>3
        <4>5. Before(h[p], h[q]) \/ Before(h[q], h[p])
          BY <1>3, <4>4 DEF Ordered
        <4> QED
          BY <4>1, <4>2, <4>5 DEF Before
      <3> QED
        BY <1>0, <3>2, <3>3, <3>4
    <2> QED
      BY <2>1, <2>2 DEF Before
  <1>10. ASSUME NEW p \in 1 .. Len(R)
         PROVE  Entry(R[p], c + 3)
    <2>1. CASE p <= Len(F) /\ R[p] = F[p]
      <3>1. PICK i \in 0..2 : F[p] = pixels[i]
        BY <1>1, <1>2, <2>1
      <3> QED
        BY <1>7, <2>1, <3>1
    <2>2. CASE kept(p) \in U /\ R[p] = h[kept(p)]
      <3>1. Entry(R[p], c)
        BY <1>6, <2>2
      <3> QED
        BY <3>1 DEF Entry
    <2> QED
      BY <1>4, <2>1, <2>2
  <1>11. ASSUME NEW p \in 1 .. Len(R), NEW q \in 1 .. Len(R), p < q
         PROVE  Before(R[p], R[q])
    <2>0. Len(R) \in Nat
      BY <1>4
    <2>1. CASE p <= Len(F) /\ R[p] = F[p] /\ q <= Len(F) /\ R[q] = F[q]
      <3>1. PICK i \in 0..2, j \in 0..2 : /\ j < i /\ F[p] = pixels[i] /\ F[q] = pixels[j]
                                          /\ Differ(ich, index, i, j)
        BY <1>1, <1>2, <1>11, <2>0, <2>1
      <3>2. Before(pixels[i], pixels[j])
        BY <1>9, <3>1
      <3> QED
        BY <2>1, <3>1, <3>2
    <2>2. CASE p <= Len(F) /\ R[p] = F[p] /\ kept(q) \in U /\ R[q] = h[kept(q)]
      <3>1. PICK i \in 0..2 : F[p] = pixels[i]
        BY <1>1, <1>2, <2>0, <2>2
      <3> QED
        BY <1>8, <2>2, <3>1
    <2>3. CASE /\ p - Len(F) \in 1 .. Cardinality(U) /\ kept(p) \in U /\ R[p] = h[kept(p)]
               /\ q - Len(F) \in 1 .. Cardinality(U) /\ kept(q) \in U /\ R[q] = h[kept(q)]
      <3>1. p - Len(F) < q - Len(F)
        BY <1>1, <1>11, <2>0
      <3>2. kept(p) < kept(q)
        BY <1>3, <2>3, <3>1, NthIncreases
      <3>3. kept(p) \in 1 .. Len(h) /\ kept(q) \in 1 .. Len(h)
        BY <1>3, <2>3
      <3> QED
        BY <2>3, <3>2, <3>3 DEF Ordered
    <2>4. CASE p > Len(F) /\ q <= Len(F)
      BY <1>1, <1>11, <2>0, <2>4
    <2> QED
      BY <1>4, <2>1, <2>2, <2>3, <2>4
  <1>12. Ordered(R, c + 3)
    BY <1>10, <1>11 DEF Ordered
  <1> QED
    BY <1>12 DEF R

-----------------------------------------------------------------------------

LEMMA StateType ==
    ASSUME HistoryTypeOK
    PROVE  /\ cfg.width \in Nat /\ cfg.height \in Nat /\ cfg.multiple \in BOOLEAN
           /\ cfg.first_lines \in Nat
           /\ next_x \in Nat /\ next_y \in Nat /\ GroupPixels \in 1..3
           /\ next_x + GroupPixels <= cfg.width
           /\ Enters => GroupPixels = 3
           /\ Room \in Nat /\ Room <= History /\ History \in Nat
PROOF
  <1>1. /\ cfg.width \in Nat /\ cfg.height \in Nat /\ cfg.multiple \in BOOLEAN
        /\ cfg.first_lines \in {1, 2}
    BY SlicesAssumption DEF HistoryTypeOK
  <1>2. next_x \in 0 .. cfg.width - 1 /\ next_y \in 0 .. cfg.height
    BY DEF HistoryTypeOK
  <1>3. GroupPixels \in 1..3 /\ next_x + GroupPixels <= cfg.width /\ (Enters => GroupPixels = 3)
    BY <1>1, <1>2 DEF GroupPixels, Minimum, Enters
  <1>4. Room \in Nat /\ Room <= History /\ History \in Nat
    BY HistoryAssumption DEF Room, Capacity
  <1> QED
    BY <1>1, <1>2, <1>3, <1>4

(* A group that is decoded, with what it leaves of the history.            *)
LEMMA AdvanceKeeps ==
    ASSUME HistoryTypeOK, next_y < cfg.height, NEW entered \in Seq(Entries), Len(entered) <= Room,
           Ordered(entered, clock + GroupPixels), Advance(entered), UNCHANGED <<cfg, status>>,
           group' \in [0..2 -> Nat]
    PROVE  HistoryInv'
PROOF
  <1>1. /\ cfg.width \in Nat /\ cfg.height \in Nat /\ cfg.multiple \in BOOLEAN
        /\ cfg.first_lines \in Nat
        /\ next_x \in Nat /\ next_y \in Nat /\ GroupPixels \in 1..3
        /\ next_x + GroupPixels <= cfg.width
        /\ Room \in Nat /\ Room <= History /\ History \in Nat
    BY StateType
  <1>2. clock' = clock + GroupPixels /\ clock' \in Nat
    BY <1>1 DEF Advance, HistoryTypeOK
  <1>3. cfg \in Slices /\ status \in {"ok", "refused"} /\ Len(entered) \in Nat
    BY DEF HistoryTypeOK
  <1>4. CASE next_x + GroupPixels = cfg.width
    <2>1. /\ next_x' = 0 /\ next_y' = next_y + 1
          /\ history' = AtLineEnd(entered, next_y + 1, cfg.first_lines, cfg.multiple)
      BY <1>4 DEF Advance
    <2>2. next_y + 1 \in Nat /\ Len(entered) <= History
      BY <1>1, <1>3
    <2>3. /\ history' \in Seq(Entries) /\ Len(history') <= Len(entered)
          /\ Len(history') <= Capacity(next_y + 1, cfg.first_lines)
          /\ \A p \in 1 .. Len(history') : history'[p] = entered[p]
      <3> DEFINE y == next_y + 1
                 first == cfg.first_lines
                 multiple == cfg.multiple
                 R == AtLineEnd(entered, y, first, multiple)
      <3>1. y \in Nat /\ first \in Nat /\ multiple \in BOOLEAN /\ entered \in Seq(Entries)
        BY <1>1, <2>2
      <3>2. history' = R
        BY <2>1
      <3> HIDE DEF y, first, multiple
      <3>3. R \in Seq(Entries) /\ Len(R) <= Len(entered) /\ Len(R) <= Capacity(y, first)
        BY <2>2, <3>1, AtLineEndParts
      <3>4. \A p \in 1 .. Len(R) : R[p] = entered[p]
        BY <2>2, <3>1, AtLineEndParts
      <3> HIDE DEF R
      <3> QED
        BY <3>2, <3>3, <3>4 DEF y, first
    <2>4. Len(history') <= Room'
      BY <2>1, <2>3 DEF Room
    <2>5. \A p \in 1 .. Len(history') : p \in 1 .. Len(entered)
      BY <1>3, <2>3
    <2>6. Ordered(history', clock')
      BY <1>2, <2>3, <2>5 DEF Ordered
    <2>7. HistoryTypeOK'
      BY <1>1, <1>2, <1>3, <1>4, <2>1, <2>3, SMTT(30) DEF HistoryTypeOK, Entries
    <2> QED
      BY <2>4, <2>6, <2>7 DEF HistoryInv, Ordered, Entry, Before
  <1>5. CASE next_x + GroupPixels # cfg.width
    <2>1. next_x' = next_x + GroupPixels /\ next_y' = next_y /\ history' = entered
      BY <1>5 DEF Advance
    <2>2. Room' = Room
      BY <2>1 DEF Room
    <2>3. HistoryTypeOK'
      BY <1>1, <1>2, <1>3, <1>5, <2>1 DEF HistoryTypeOK, Entries
    <2>4. Ordered(history', clock')
      BY <1>2, <2>1
    <2> QED
      BY <2>1, <2>2, <2>3, <2>4 DEF HistoryInv, Ordered, Entry, Before
  <1> QED
    BY <1>4, <1>5

(* What a group that is not entered leaves.                                *)
LEMMA NotEntered ==
    ASSUME HistoryInv
    PROVE  Ordered(history, clock + GroupPixels)
PROOF
  <1>1. clock \in Nat /\ GroupPixels \in 1..3 /\ history \in Seq(Entries)
    BY StateType DEF HistoryInv, HistoryTypeOK
  <1>2. \A p \in 1 .. Len(history) : Entry(history[p], clock)
    BY DEF HistoryInv, Ordered
  <1>3. \A p \in 1 .. Len(history) : Entry(history[p], clock + GroupPixels)
    BY <1>1, <1>2 DEF Entry
  <1> QED
    BY <1>3 DEF HistoryInv, Ordered

(* What a group that is entered leaves.                                    *)
LEMMA GroupEntered ==
    ASSUME HistoryInv, Enters, NEW ich \in BOOLEAN, NEW index,
           NEW pixels \in [0..2 -> Entries], GroupOf(history, clock, ich, index, pixels)
    PROVE  LET R == Updated(history, ich, index, pixels, Room)
           IN  R \in Seq(Entries) /\ Len(R) <= Room /\ Ordered(R, clock + GroupPixels)
PROOF
  <1> DEFINE R == Updated(history, ich, index, pixels, Room)
  <1>1. clock \in Nat /\ history \in Seq(Entries) /\ GroupPixels = 3 /\ Room \in Nat
    BY StateType DEF HistoryInv, HistoryTypeOK
  <1>2. Ordered(history, clock)
    BY DEF HistoryInv
  <1>3. Ordered(R, clock + 3)
    BY <1>1, <1>2, UpdatedOrdered
  <1>4. R \in Seq(Entries) /\ Len(R) <= Room
    BY <1>1, UpdatedParts
  <1> QED
    BY <1>1, <1>3, <1>4

(* The pixels of a residual group are new.                                 *)
LEMMA NewPixelsParts ==
    ASSUME clock \in Nat
    PROVE  /\ NewPixels \in [0..2 -> Entries]
           /\ GroupOf(history, clock, FALSE, <<>>, NewPixels)
PROOF
  <1> DEFINE X == NewPixels
  <1>1. \A j \in 0..2 : X[j].used = clock + j /\ X[j].origin = clock + j
    BY DEF NewPixels
  <1>2. X \in [0..2 -> Entries]
    BY DEF NewPixels, Entries
  <1> HIDE DEF X
  <1>3. \A i, j \in 0..2 : j < i => X[i].origin # X[j].origin
    BY <1>1
  <1>4. /\ \A j \in 0..2 : X[j].used = clock + j /\ X[j].origin <= clock + j
        /\ \A j \in 0..2 : X[j].origin >= clock
    BY <1>1
  <1>5. GroupOf(history, clock, FALSE, <<>>, X)
    <2>1. \A i, j \in 0..2 : j < i /\ Differ(FALSE, <<>>, i, j) /\ X[j].origin >= clock
                             => X[i].origin # X[j].origin
      BY <1>3
    <2> QED
      BY <1>1, <1>4, <2>1, Zenon DEF GroupOf
  <1> QED
    BY <1>2, <1>5 DEF X

(* The first pixel with an index is one up to it, and one for each index.  *)
LEMMA FirstNamedParts ==
    ASSUME NEW index, NEW j \in 0..2
    PROVE  /\ FirstNamed(index, j) \in 0..j
           /\ index[FirstNamed(index, j)] = index[j]
           /\ \A i \in 0..2 : index[i] = index[j] => FirstNamed(index, i) = FirstNamed(index, j)
PROOF
  BY DEF FirstNamed

(* The pixels of an ICH group are new or those of the entries it names.    *)
LEMMA IchPixelsParts ==
    ASSUME HistoryInv, Enters, NEW index \in Indices, ~Refuses(index)
    PROVE  /\ IchPixels(index) \in [0..2 -> Entries]
           /\ GroupOf(history, clock, TRUE, index, IchPixels(index))
PROOF
  <1> DEFINE X == IchPixels(index)
             first(j) == FirstNamed(index, j)
  <1>0. /\ HistoryTypeOK /\ Len(history) <= Room /\ Ordered(history, clock)
        /\ clock \in Nat /\ history \in Seq(Entries)
    BY DEF HistoryInv, HistoryTypeOK
  <1>1. GroupPixels = 3
    BY <1>0, StateType
  <1>2. index \in [0..2 -> 0 .. History - 1] /\ Room \in Nat /\ History \in Nat
    BY <1>0, IndicesAssumption, StateType
  <1>3. \A j \in 0..2 : index[j] < Room => index[j] + 1 \in 1 .. Len(history)
    BY <1>0, <1>1, <1>2 DEF Refuses
  <1>4. \A j \in 0..2 : /\ X[j].used = clock + j
                        /\ index[j] < Room => X[j].origin = history[index[j] + 1].origin
                        /\ ~(index[j] < Room) => X[j].origin = clock + first(j)
                        /\ X[j] = [origin |-> X[j].origin, used |-> X[j].used]
    BY DEF IchPixels
  <1>5. \A p \in 1 .. Len(history) : history[p].origin \in Nat /\ history[p].origin < clock
    <2>1. \A p \in 1 .. Len(history) : Entry(history[p], clock)
      BY <1>0 DEF Ordered
    <2> QED
      BY <1>0, <2>1 DEF Entry
  <1>6. X = [j \in 0..2 |-> X[j]]
    BY DEF IchPixels
  <1>7. \A j \in 0..2 : first(j) \in 0..j /\ index[first(j)] = index[j]
    BY FirstNamedParts
  <1>8. \A i, j \in 0..2 : index[i] = index[j] => first(i) = first(j)
    BY FirstNamedParts
  <1> HIDE DEF X, first
  (* Old origins.                                                          *)
  <1>9. ASSUME NEW j \in 0..2, index[j] < Room
        PROVE  /\ X[j].origin \in Nat /\ X[j].origin < clock
               /\ FromHistory(history, TRUE, index, j, X[j].origin)
    <2> DEFINE place == index[j] + 1
    <2>1. place \in 1 .. Len(history) /\ X[j].origin = history[place].origin
      BY <1>3, <1>4, <1>9
    <2>2. index[j] = place - 1
      <3>1. index[j] \in Int
        BY <1>2
      <3> QED
        BY <3>1
    <2> HIDE DEF place
    <2> QED
      BY <1>5, <2>1, <2>2 DEF FromHistory
  (* New ones.                                                             *)
  <1>10. ASSUME NEW j \in 0..2, ~(index[j] < Room)
         PROVE  /\ X[j].origin = clock + first(j) /\ first(j) \in 0..j
                /\ X[j].origin \in Nat /\ X[j].origin >= clock /\ X[j].origin <= clock + j
    <2>1. X[j].origin = clock + first(j) /\ first(j) \in 0..j
      BY <1>4, <1>7, <1>10
    <2> QED
      BY <1>0, <2>1
  <1>11. ASSUME NEW j \in 0..2
         PROVE  /\ X[j].origin \in Nat /\ X[j].used \in Nat
                /\ X[j].used = clock + j /\ X[j].origin <= clock + j
    <2>1. X[j].used = clock + j /\ clock + j \in Nat
      BY <1>0, <1>4
    <2>2. X[j].origin \in Nat /\ (X[j].origin < clock \/ X[j].origin <= clock + j)
      BY <1>9, <1>10
    <2> QED
      BY <1>0, <2>1, <2>2
  <1>12. X \in [0..2 -> Entries]
    <2>1. \A j \in 0..2 : X[j] \in Entries
      BY <1>4, <1>11 DEF Entries
    <2> QED
      BY <1>6, <2>1
  <1>13. \A j \in 0..2 : \/ X[j].origin >= clock
                         \/ FromHistory(history, TRUE, index, j, X[j].origin)
    BY <1>9, <1>10
  <1>14. ASSUME NEW i \in 0..2, NEW j \in 0..2, index[i] = index[j]
         PROVE  X[i].origin = X[j].origin
    <2>1. CASE index[j] < Room
      BY <1>4, <1>14, <2>1
    <2>2. CASE ~(index[j] < Room)
      BY <1>4, <1>8, <1>14, <2>2
    <2> QED
      BY <2>1, <2>2
  <1>15. ASSUME NEW j \in 0..2
         PROVE  \/ X[j].origin = clock + j
                \/ \E i \in 0 .. j - 1 : X[j].origin = X[i].origin
                \/ FromHistory(history, TRUE, index, j, X[j].origin)
    <2>1. CASE index[j] < Room
      BY <1>9, <2>1
    <2>2. CASE ~(index[j] < Room) /\ first(j) = j
      BY <1>10, <2>2
    <2>3. CASE first(j) # j
      <3>1. first(j) \in 0 .. j - 1 /\ first(j) \in 0..2 /\ index[first(j)] = index[j]
        <4>1. first(j) \in 0..j
          BY <1>7
        <4> QED
          BY <1>7, <2>3, <4>1
      <3>2. X[j].origin = X[first(j)].origin
        BY <1>14, <3>1
      <3> QED
        BY <3>1, <3>2
    <2> QED
      BY <2>1, <2>2, <2>3
  <1>16. ASSUME NEW i \in 0..2, NEW j \in 0..2, index[i] # index[j], X[j].origin >= clock
         PROVE  X[i].origin # X[j].origin
    <2>1. ~(index[j] < Room)
      <3>1. CASE index[j] < Room
        <4>1. X[j].origin \in Nat /\ X[j].origin < clock
          BY <1>9, <3>1
        <4> QED
          BY <1>0, <1>16, <4>1
      <3> QED
        BY <3>1
    <2>2. CASE index[i] < Room
      <3>1. X[i].origin \in Nat /\ X[i].origin < clock
        BY <1>9, <2>2
      <3> QED
        BY <1>0, <1>16, <3>1
    <2>3. CASE ~(index[i] < Room)
      <3>1. X[i].origin = clock + first(i) /\ X[j].origin = clock + first(j)
        BY <1>10, <2>1, <2>3
      <3>2. first(i) # first(j) /\ first(i) \in 0..i /\ first(j) \in 0..j
        BY <1>7, <1>16
      <3> QED
        BY <1>0, <3>1, <3>2
    <2> QED
      BY <2>2, <2>3
  <1>17. ASSUME NEW j \in 0..2, NEW p \in 1 .. Len(history), index[j] = p - 1
         PROVE  X[j].origin = history[p].origin
    <2>1. index[j] < Room /\ index[j] + 1 = p
      BY <1>0, <1>2, <1>17
    <2> QED
      BY <1>4, <2>1
  <1>18. GroupOf(history, clock, TRUE, index, X)
    <2>1. \A i, j \in 0..2 : j < i /\ Differ(TRUE, index, i, j) /\ X[j].origin >= clock
                             => X[i].origin # X[j].origin
      BY <1>16 DEF Differ
    <2> QED
      BY <1>11, <1>13, <1>14, <1>15, <1>17, <2>1 DEF GroupOf
  <1> QED
    BY <1>12, <1>18 DEF X

(* The origins that are remembered of a group.                             *)
LEMMA OriginsType ==
    ASSUME NEW pixels \in [0..2 -> Entries], group \in [0..2 -> Nat]
    PROVE  Origins(pixels) \in [0..2 -> Nat]
PROOF
  <1>1. \A j \in 0..2 : pixels[j].origin \in Nat
    BY DEF Entries
  <1> QED
    BY <1>1 DEF Origins

LEMMA InitHistory == Init => HistoryInv
PROOF
  <1> SUFFICES ASSUME Init PROVE HistoryInv
    OBVIOUS
  <1>1. cfg \in Slices /\ cfg.width \in Nat \ {0} /\ cfg.height \in Nat \ {0}
    BY SlicesAssumption DEF Init
  <1>2. HistoryTypeOK
    BY <1>1 DEF Init, HistoryTypeOK
  <1>3. Len(history) = 0
    BY DEF Init
  <1>4. Room \in Nat
    BY <1>2, StateType
  <1> QED
    BY <1>2, <1>3, <1>4 DEF HistoryInv, Ordered

LEMMA StepHistory == HistoryInv /\ [Next]_vars => HistoryInv'
PROOF
  <1> SUFFICES ASSUME HistoryInv, [Next]_vars PROVE HistoryInv'
    OBVIOUS
  <1>0. /\ HistoryTypeOK /\ Len(history) <= Room /\ Ordered(history, clock)
        /\ clock \in Nat /\ history \in Seq(Entries) /\ group \in [0..2 -> Nat]
    BY DEF HistoryInv, HistoryTypeOK
  <1>1. CASE UNCHANGED vars
    <2>1. Room' = Room
      BY <1>1 DEF vars, Room
    <2> QED
      BY <1>0, <1>1, <2>1 DEF vars, HistoryInv, HistoryTypeOK, Entries, Ordered, Entry, Before
  <1>2. CASE Next
    <2>1. next_y < cfg.height
      BY <1>2 DEF Next
    <2>2. CASE ResidualGroup
      <3> DEFINE R == Updated(history, FALSE, <<>>, NewPixels, Room)
      <3>1. /\ Advance(IF Enters THEN R ELSE history) /\ UNCHANGED <<cfg, status>>
            /\ group' \in [0..2 -> Nat]
        BY <1>0, <2>2, NewPixelsParts, OriginsType DEF ResidualGroup
      <3>2. ASSUME Enters
            PROVE  R \in Seq(Entries) /\ Len(R) <= Room /\ Ordered(R, clock + GroupPixels)
        <4>1. FALSE \in BOOLEAN
          OBVIOUS
        <4> QED
          BY <1>0, <3>2, <4>1, NewPixelsParts, GroupEntered
      <3>3. Ordered(history, clock + GroupPixels)
        BY NotEntered
      <3> HIDE DEF R
      <3>4. CASE Enters
        <4>1. Advance(R)
          BY <3>1, <3>4
        <4> QED
          BY <1>0, <2>1, <3>1, <3>2, <3>4, <4>1, AdvanceKeeps
      <3>5. CASE ~Enters
        <4>1. Advance(history)
          BY <3>1, <3>5
        <4> QED
          BY <1>0, <2>1, <3>1, <3>3, <4>1, AdvanceKeeps
      <3> QED
        BY <3>4, <3>5
    <2>3. ASSUME NEW index \in Indices, IchGroup(index)
          PROVE  HistoryInv'
      <3> DEFINE R == Updated(history, TRUE, index, IchPixels(index), Room)
      <3>1. /\ Advance(IF Enters THEN R ELSE history) /\ UNCHANGED <<cfg, status>>
            /\ ~Refuses(index) /\ group' = Origins(IchPixels(index))
        BY <2>3 DEF IchGroup
      <3>1a. group' \in [0..2 -> Nat]
        <4>1. CASE Enters
          BY <1>0, <3>1, <4>1, IchPixelsParts, OriginsType
        <4>2. CASE ~Enters
          BY <1>0, <3>1, <4>2 DEF Origins
        <4> QED
          BY <4>1, <4>2
      <3>2. ASSUME Enters
            PROVE  R \in Seq(Entries) /\ Len(R) <= Room /\ Ordered(R, clock + GroupPixels)
        <4> DEFINE X == IchPixels(index)
        <4>1. X \in [0..2 -> Entries] /\ GroupOf(history, clock, TRUE, index, X)
          BY <3>1, <3>2, IchPixelsParts
        <4>2. TRUE \in BOOLEAN
          OBVIOUS
        <4> HIDE DEF X
        <4>3. LET S == Updated(history, TRUE, index, X, Room)
              IN  S \in Seq(Entries) /\ Len(S) <= Room /\ Ordered(S, clock + GroupPixels)
          BY <3>2, <4>1, <4>2, GroupEntered
        <4> QED
          BY <4>3 DEF X
      <3>3. Ordered(history, clock + GroupPixels)
        BY NotEntered
      <3> HIDE DEF R
      <3>4. CASE Enters
        <4>1. Advance(R)
          BY <3>1, <3>4
        <4> QED
          BY <1>0, <2>1, <3>1, <3>1a, <3>2, <3>4, <4>1, AdvanceKeeps
      <3>5. CASE ~Enters
        <4>1. Advance(history)
          BY <3>1, <3>5
        <4> QED
          BY <1>0, <2>1, <3>1, <3>1a, <3>3, <4>1, AdvanceKeeps
      <3> QED
        BY <3>4, <3>5
    <2>4. ASSUME NEW index \in Indices, RefusedGroup(index)
          PROVE  HistoryInv'
      <3>1. status' = "refused" /\ UNCHANGED <<cfg, next_x, next_y, history, clock, group>>
        BY <2>4 DEF RefusedGroup
      <3>2. Room' = Room
        BY <3>1 DEF Room
      <3> QED
        BY <1>0, <3>1, <3>2 DEF HistoryInv, HistoryTypeOK, Entries, Ordered, Entry, Before
    <2> QED
      BY <1>2, <2>2, <2>3, <2>4 DEF Next
  <1> QED
    BY <1>1, <1>2

LEMMA HistoryInvariant == Spec => []HistoryInv
PROOF
  BY InitHistory, StepHistory, PTL DEF Spec

(* Type correctness of the history's state.                                *)
THEOREM HistoryTypeCorrect == Spec => []HistoryTypeOK
PROOF
  <1>1. HistoryInv => HistoryTypeOK
    BY DEF HistoryInv
  <1> QED
    BY <1>1, HistoryInvariant, PTL

(* The history is ordered by last use and has no pixel twice, whatever the *)
(* groups named, for every length of the history and every slice.          *)
THEOREM OrderedByLastUse == Spec => []MostRecentFirst
PROOF
  <1>1. HistoryInv => MostRecentFirst
    <2> SUFFICES ASSUME HistoryInv PROVE MostRecentFirst
      OBVIOUS
    <2>1. history \in Seq(Entries) /\ Len(history) <= Room /\ Ordered(history, clock)
      BY DEF HistoryInv, HistoryTypeOK
    <2>2. DOMAIN history = 1 .. Len(history)
      BY <2>1
    <2> QED
      BY <2>1, <2>2 DEF MostRecentFirst, Ordered, Entry, Before
  <1> QED
    BY <1>1, HistoryInvariant, PTL

-----------------------------------------------------------------------------

(* The instance's own name for the library's operator.                      *)
LEMMA SameCardinality ==
    ASSUME NEW S
    PROVE  Lru!Cardinality(S) = Cardinality(S)
PROOF
  BY DEF Lru!Cardinality, Cardinality

(* The entries of a list.                                                  *)
Items(s) == {s[p] : p \in 1 .. Len(s)}

(* As many entries were used after one as precede it.                       *)
LEMMA LaterOnes ==
    ASSUME NEW h \in Seq(Entries), NEW c, Ordered(h, c), NEW p \in 1 .. Len(h)
    PROVE  Cardinality({f \in Items(h) : f.used > h[p].used}) = p - 1
PROOF
  <1> DEFINE D == {f \in Items(h) : f.used > h[p].used}
             b == [q \in 1 .. p - 1 |-> h[q]]
  <1>1. Len(h) \in Nat /\ p \in Nat /\ p - 1 \in Nat
    OBVIOUS
  <1>2. \A q \in 1 .. Len(h) : h[q].used \in Nat
    BY DEF Ordered, Entry
  <1>3. \A q, r \in 1 .. Len(h) : q < r => h[q].used > h[r].used
    BY DEF Ordered, Before
  <1>4. \A q \in 1 .. p - 1 : q \in 1 .. Len(h) /\ q < p
    BY <1>1
  <1>5. b \in [1 .. p - 1 -> D]
    <2>1. \A q \in 1 .. p - 1 : h[q] \in D
      BY <1>3, <1>4 DEF Items
    <2> QED
      BY <2>1
  <1>6. ASSUME NEW q \in 1 .. p - 1, NEW r \in 1 .. p - 1, b[q] = b[r]
        PROVE  q = r
    <2>1. h[q] = h[r] /\ q \in 1 .. Len(h) /\ r \in 1 .. Len(h)
      BY <1>4, <1>6
    <2>2. h[q].used = h[r].used /\ h[q].used \in Nat
      BY <1>2, <2>1
    <2>3. ~(q < r) /\ ~(r < q)
      BY <1>3, <2>1, <2>2
    <2> QED
      BY <2>3
  <1>7. ASSUME NEW f \in D PROVE \E q \in 1 .. p - 1 : b[q] = f
    <2>1. PICK q \in 1 .. Len(h) : f = h[q]
      BY DEF Items
    <2>2. h[q].used > h[p].used /\ h[q].used \in Nat /\ h[p].used \in Nat
      BY <1>2, <2>1
    <2>3. ~(p < q) /\ p # q
      BY <1>3, <2>2
    <2>4. q \in 1 .. p - 1
      BY <1>1, <2>3
    <2> QED
      BY <2>1, <2>4
  <1> HIDE DEF b, D
  <1>8. b \in Bijection(1 .. p - 1, D)
    <2>1. b \in Injection(1 .. p - 1, D)
      BY <1>5, <1>6 DEF Injection, IsInjective
    <2>2. b \in Surjection(1 .. p - 1, D)
      BY <1>5, <1>7 DEF Surjection
    <2> QED
      BY <2>1, <2>2 DEF Bijection
  <1>9. ExistsBijection(1 .. p - 1, D)
    BY <1>8 DEF ExistsBijection
  <1>10. IsFiniteSet(1 .. p - 1) /\ Cardinality(1 .. p - 1) = p - 1
    <2> DEFINE m == p - 1
    <2>1. m \in Nat
      BY <1>1
    <2> HIDE DEF m
    <2>2. IsFiniteSet(1 .. m) /\ Cardinality(1 .. m) = IF 1 > m THEN 0 ELSE m - 1 + 1
      BY <2>1, FS_Interval, 1 \in Int, m \in Int
    <2>3. IsFiniteSet(1 .. m) /\ Cardinality(1 .. m) = m
      BY <2>1, <2>2
    <2> QED
      BY <2>3 DEF m
  <1>11. Cardinality(D) = p - 1
    BY <1>9, <1>10, FS_Bijection
  <1> QED
    BY <1>11 DEF D

(* The entries used last are the first ones of the list.                    *)
LEMMA LatestAreFirst ==
    ASSUME NEW h \in Seq(Entries), NEW c, Ordered(h, c), NEW n \in Nat,
           NEW g \in Seq(Entries), Len(g) = Minimum(Len(h), n),
           \A p \in 1 .. Len(g) : g[p] = h[p]
    PROVE  Items(g) = Lru!Latest(Items(h), n)
PROOF
  <1>1. Len(h) \in Nat /\ Len(g) \in Nat
    OBVIOUS
  <1>2. \A p \in 1 .. Len(h) :
          Cardinality({f \in Items(h) : f.used > h[p].used}) = p - 1
    BY LaterOnes
  <1>3. Lru!Latest(Items(h), n)
          = {e \in Items(h) : Cardinality({f \in Items(h) : f.used > e.used}) < n}
    BY SameCardinality DEF Lru!Latest
  <1> DEFINE after(e) == Cardinality({f \in Items(h) : f.used > e.used})
  <1>4. \A p \in 1 .. Len(h) : after(h[p]) = p - 1
    BY <1>2
  <1>5. Lru!Latest(Items(h), n) = {e \in Items(h) : after(e) < n}
    BY <1>3
  <1> HIDE DEF after
  <1>6. \A p \in 1 .. Len(g) : p \in 1 .. Len(h) /\ p - 1 < n
    BY <1>1 DEF Minimum
  <1>7. \A p \in 1 .. Len(h) : p - 1 < n => p \in 1 .. Len(g)
    BY <1>1 DEF Minimum
  <1>8. Items(g) \subseteq Lru!Latest(Items(h), n)
    <2> SUFFICES ASSUME NEW e \in Items(g) PROVE e \in Lru!Latest(Items(h), n)
      OBVIOUS
    <2>1. PICK p \in 1 .. Len(g) : e = g[p]
      BY DEF Items
    <2>2. p \in 1 .. Len(h) /\ p - 1 < n /\ e = h[p]
      BY <1>6, <2>1
    <2>3. after(e) < n
      BY <1>4, <2>2
    <2>4. e \in Items(h)
      BY <2>2 DEF Items
    <2> QED
      BY <1>5, <2>3, <2>4
  <1>9. Lru!Latest(Items(h), n) \subseteq Items(g)
    <2> SUFFICES ASSUME NEW e \in Lru!Latest(Items(h), n) PROVE e \in Items(g)
      OBVIOUS
    <2>1. e \in Items(h) /\ after(e) < n
      BY <1>5
    <2>2. PICK p \in 1 .. Len(h) : e = h[p]
      BY <2>1 DEF Items
    <2>3. p - 1 < n
      BY <1>4, <2>1, <2>2
    <2>4. p \in 1 .. Len(g)
      BY <1>7, <2>3
    <2>5. e = g[p]
      BY <2>2, <2>4
    <2> QED
      BY <2>4, <2>5 DEF Items
  <1> QED
    BY <1>8, <1>9

(* The entries without a later use, in the words of this module.           *)
LEMMA LastUsesMembers ==
    ASSUME NEW S
    PROVE  Lru!LastUses(S) = {e \in S : ~\E f \in S : f.origin = e.origin /\ f.used > e.used}
PROOF
  BY DEF Lru!LastUses

(* Before it is cut, the list is the last uses of what was there and of     *)
(* what the group used.                                                     *)
LEMMA ListIsLastUses ==
    ASSUME NEW h \in Seq(Entries), NEW c \in Nat, Ordered(h, c),
           NEW ich \in BOOLEAN, NEW index, NEW pixels \in [0..2 -> Entries],
           GroupOf(h, c, ich, index, pixels)
    PROVE  LET F == Front(ich, index, pixels)
               L == Uncut(h, ich, index, pixels)
           IN  /\ Items(L) = Lru!LastUses(Items(h) \cup Items(F))
               /\ Ordered(L, c + 3)
PROOF
  <1> DEFINE F == Front(ich, index, pixels)
             U == Unselected(h, ich, index)
             L == Uncut(h, ich, index, pixels)
             kept(p) == Nth(U, p - Len(F))
  <1>0. /\ \A j \in 0..2 : pixels[j].used = c + j
        /\ ich => \A i, j \in 0..2 : index[i] = index[j] => pixels[i].origin = pixels[j].origin
        /\ ich => \A j \in 0..2, p \in 1 .. Len(h) :
                    index[j] = p - 1 => pixels[j].origin = h[p].origin
    BY DEF GroupOf
  <1>1. F \in Seq(Entries) /\ Len(F) \in 1..3
    BY FrontParts
  <1>2. U \in SUBSET (1 .. Len(h)) /\ Len(h) \in Nat
    BY KeptParts
  <1>3. /\ L \in Seq(Entries) /\ Len(L) \in Nat
        /\ L = Updated(h, ich, index, pixels, Len(L))
        /\ \A p \in 1 .. Len(F) : p \in 1 .. Len(L) /\ L[p] = F[p]
        /\ \A u \in U : \E p \in 1 .. Len(L) : L[p] = h[u]
    BY UncutParts
  <1>4. Ordered(L, c + 3)
    <2> DEFINE n == Len(L)
    <2>1. Ordered(Updated(h, ich, index, pixels, n), c + 3)
      <3>1. n \in Nat
        BY <1>3
      <3> HIDE DEF n
      <3> QED
        BY <3>1, UpdatedOrdered
    <2> QED
      BY <1>3, <2>1
  <1>5. \A p \in 1 .. Len(L) : \/ p <= Len(F) /\ L[p] = F[p]
                               \/ kept(p) \in U /\ L[p] = h[kept(p)]
    <2> DEFINE n == Len(L)
               R == Updated(h, ich, index, pixels, n)
    <2>1. \A p \in 1 .. Len(R) : \/ p <= Len(F) /\ R[p] = F[p]
                                 \/ kept(p) \in U /\ R[p] = h[kept(p)]
      <3>1. n \in Nat
        BY <1>3
      <3> HIDE DEF n
      <3> QED
        BY <3>1, UpdatedParts
    <2>2. L = R
      BY <1>3
    <2> HIDE DEF L, R, F, U, kept
    <2> QED
      BY <2>1, <2>2
  <1>6. \A p \in 1 .. Len(F) : \E i \in 0..2 : F[p] = pixels[i]
    BY FrontOrder
  <1>7. ich => \A j \in 0..2 : \E i \in 0..2, p \in 1 .. Len(F) :
                                index[i] = index[j] /\ F[p] = pixels[i]
    <2>1. \A j \in 0..2 : \E i \in 0..2, p \in 1 .. Len(F) :
            F[p] = pixels[i] /\ (i = j \/ (ich /\ j < i /\ index[i] = index[j]))
      BY FrontHolds
    <2> HIDE DEF F
    <2> QED
      BY <2>1
  <1>8. \A p \in 1 .. Len(h) : Entry(h[p], c)
    BY DEF Ordered
  <1>9. \A u \in 1 .. Len(h) : u \notin U => ich /\ \E j \in 0..2 : index[j] = u - 1
    BY DEF Unselected
  <1> HIDE DEF F, U, L
  <1> DEFINE all == Items(h) \cup Items(F)
  <1>10. \A p \in 1 .. Len(F) : F[p].used \in Nat /\ F[p].used >= c
    <2> TAKE p \in 1 .. Len(F)
    <2>1. PICK i \in 0..2 : F[p] = pixels[i]
      BY <1>6
    <2> QED
      BY <1>0, <2>1
  <1>11. \A p \in 1 .. Len(h) : h[p].used \in Nat /\ h[p].used < c
    BY <1>8 DEF Entry
  <1>12. ASSUME NEW p \in 1 .. Len(L), NEW f \in all,
                f.origin = L[p].origin, f.used > L[p].used
         PROVE  FALSE
    <2>1. CASE f \in Items(F)
      <3>1. PICK q \in 1 .. Len(F) : f = F[q]
        BY <2>1 DEF Items
      <3>2. q \in 1 .. Len(L) /\ f = L[q]
        BY <1>3, <3>1
      <3>3. p # q
        <4>1. L[q].used \in Nat
          BY <3>2, <1>4 DEF Ordered, Entry
        <4> QED
          BY <1>12, <3>2, <4>1
      <3>4. Before(L[p], L[q]) \/ Before(L[q], L[p])
        <4>1. p < q \/ q < p
          BY <3>2, <3>3, <1>3
        <4> QED
          BY <1>4, <3>2, <4>1 DEF Ordered
      <3> QED
        BY <1>12, <3>2, <3>4 DEF Before
    <2>2. CASE f \in Items(h)
      <3>1. PICK q \in 1 .. Len(h) : f = h[q]
        BY <2>2 DEF Items
      <3>2. CASE p <= Len(F) /\ L[p] = F[p]
        <4>1. p \in 1 .. Len(F)
          BY <1>1, <1>3, <3>2
        <4> QED
          BY <1>10, <1>11, <1>12, <3>1, <3>2, <4>1
      <3>3. CASE kept(p) \in U /\ L[p] = h[kept(p)]
        <4> DEFINE u == kept(p)
        <4>1. u \in 1 .. Len(h) /\ L[p] = h[u]
          BY <1>2, <3>3
        <4> HIDE DEF u
        <4>2. u # q
          BY <1>11, <1>12, <3>1, <4>1
        <4>3. Before(h[u], h[q]) \/ Before(h[q], h[u])
          <5>1. u < q \/ q < u
            BY <1>2, <3>1, <4>1, <4>2
          <5> QED
            BY <3>1, <4>1, <5>1 DEF Ordered
        <4> QED
          BY <1>12, <3>1, <4>1, <4>3 DEF Before
      <3> QED
        BY <1>5, <3>2, <3>3
    <2> QED
      BY <2>1, <2>2
  <1>13. ASSUME NEW p \in 1 .. Len(L)
         PROVE  L[p] \in Items(h) \cup Items(F)
    <2>1. CASE p <= Len(F) /\ L[p] = F[p]
      <3>1. p \in 1 .. Len(F)
        BY <1>1, <1>3, <2>1
      <3> QED
        BY <2>1, <3>1 DEF Items
    <2>2. CASE kept(p) \in U /\ L[p] = h[kept(p)]
      <3>1. kept(p) \in 1 .. Len(h)
        BY <1>2, <2>2
      <3> QED
        BY <2>2, <3>1 DEF Items
    <2> QED
      BY <1>5, <2>1, <2>2
  <1>14. ASSUME NEW e \in Items(h), ~\E f \in all : f.origin = e.origin /\ f.used > e.used
         PROVE  e \in Items(L)
    <2>1. PICK u \in 1 .. Len(h) : e = h[u]
      BY DEF Items
    <2>2. CASE u \in U
      <3>1. PICK p \in 1 .. Len(L) : L[p] = h[u]
        BY <1>3, <2>2
      <3> QED
        BY <2>1, <3>1 DEF Items
    <2>3. CASE u \notin U
      <3>1. ich
        BY <1>9, <2>3
      <3>2. PICK j \in 0..2 : index[j] = u - 1
        BY <1>9, <2>3
      <3>3. PICK i \in 0..2, q \in 1 .. Len(F) : index[i] = index[j] /\ F[q] = pixels[i]
        BY <1>7, <3>1
      <3>4. pixels[i].origin = h[u].origin
        BY <1>0, <3>1, <3>2, <3>3
      <3>5. F[q].used > h[u].used
        BY <1>10, <1>11
      <3>6. F[q] \in all /\ F[q].origin = e.origin /\ F[q].used > e.used
        BY <2>1, <3>3, <3>4, <3>5 DEF Items
      <3> QED
        BY <1>14, <3>6
    <2> QED
      BY <2>2, <2>3
  <1>15. ASSUME NEW e \in Items(F) PROVE e \in Items(L)
    <2>1. PICK p \in 1 .. Len(F) : e = F[p]
      BY DEF Items
    <2>2. p \in 1 .. Len(L) /\ e = L[p]
      BY <1>3, <2>1
    <2> QED
      BY <2>2 DEF Items
  <1>16. Lru!LastUses(all) = {e \in all : ~\E f \in all : f.origin = e.origin /\ f.used > e.used}
    BY LastUsesMembers
  <1>17. Items(L) \subseteq Lru!LastUses(all)
    <2> SUFFICES ASSUME NEW e \in Items(L) PROVE e \in Lru!LastUses(all)
      OBVIOUS
    <2>1. PICK p \in 1 .. Len(L) : e = L[p]
      BY DEF Items
    <2>2. e \in all
      BY <1>13, <2>1
    <2>3. ~\E f \in all : f.origin = e.origin /\ f.used > e.used
      BY <1>12, <2>1
    <2> HIDE DEF all
    <2> QED
      BY <1>16, <2>2, <2>3
  <1>18. Lru!LastUses(all) \subseteq Items(L)
    <2> SUFFICES ASSUME NEW e \in Lru!LastUses(all) PROVE e \in Items(L)
      OBVIOUS
    <2>1. e \in all /\ ~\E f \in all : f.origin = e.origin /\ f.used > e.used
      BY <1>16
    <2> QED
      BY <1>14, <1>15, <2>1
  <1> QED
    BY <1>4, <1>17, <1>18 DEF F, L

(* An element with a later use of its origin next to it may be left out.   *)
LEMMA SameLastUses ==
    ASSUME NEW H, NEW P \in SUBSET Entries, NEW F \in SUBSET P,
           \A e \in P : e \in F \/ \E f \in F : f.origin = e.origin /\ f.used > e.used,
           \A e \in H : e.used \in Nat
    PROVE  Lru!LastUses(H \cup P) = Lru!LastUses(H \cup F)
PROOF
  <1> DEFINE Later(S, e) == \E f \in S : f.origin = e.origin /\ f.used > e.used
  <1>1. /\ Lru!LastUses(H \cup P) = {e \in H \cup P : ~Later(H \cup P, e)}
        /\ Lru!LastUses(H \cup F) = {e \in H \cup F : ~Later(H \cup F, e)}
    BY LastUsesMembers
  <1>2. \A e \in H \cup P : e.used \in Nat
    BY DEF Entries
  <1>3. \A e \in H \cup P : Later(H \cup P, e) => Later(H \cup F, e)
    <2> SUFFICES ASSUME NEW e \in H \cup P, NEW f \in H \cup P,
                        f.origin = e.origin, f.used > e.used
                 PROVE  Later(H \cup F, e)
      OBVIOUS
    <2>1. CASE f \in H \cup F
      BY <2>1
    <2>2. CASE f \notin H \cup F
      <3>1. PICK g \in F : g.origin = f.origin /\ g.used > f.used
        BY <2>2
      <3>2. g.used > e.used
        BY <1>2, <3>1
      <3> QED
        BY <3>1, <3>2
    <2> QED
      BY <2>1, <2>2
  <1>4. \A e \in H \cup P : Later(H \cup F, e) => Later(H \cup P, e)
    OBVIOUS
  <1>5. \A e \in H \cup P : ~Later(H \cup P, e) => e \in H \cup F
    OBVIOUS
  <1> HIDE DEF Later
  <1> QED
    BY <1>1, <1>3, <1>4, <1>5

(* What the refinement mapping takes for the set.                          *)
LEMMA RecentItems ==
    ASSUME NEW h \in Seq(Entries)
    PROVE  {h[p] : p \in DOMAIN h} = Items(h)
PROOF
  <1>1. DOMAIN h = 1 .. Len(h)
    OBVIOUS
  <1> QED
    BY <1>1 DEF Items

(* A group that is entered uses its pixels.                                *)
LEMMA EnteredUses ==
    ASSUME HistoryInv, Enters, NEW ich \in BOOLEAN, NEW index,
           NEW pixels \in [0..2 -> Entries],
           GroupOf(history, clock, ich, index, pixels),
           Advance(Updated(history, ich, index, pixels, Room)), group' = Origins(pixels),
           UNCHANGED cfg
    PROVE  Lru!Use
PROOF
  <1> DEFINE F == Front(ich, index, pixels)
             L == Uncut(history, ich, index, pixels)
             R == Updated(history, ich, index, pixels, Room)
             P == {pixels[j] : j \in 0..2}
             uses == {[origin |-> group'[j], used |-> clock + j] : j \in 0..2}
  <1>1. /\ clock \in Nat /\ history \in Seq(Entries) /\ Ordered(history, clock)
        /\ GroupPixels = 3 /\ Room \in Nat /\ 3 <= Room
    <2>1. HistoryTypeOK /\ Ordered(history, clock) /\ clock \in Nat /\ history \in Seq(Entries)
      BY DEF HistoryInv, HistoryTypeOK
    <2>2. 3 <= Room
      BY HistoryAssumption DEF Room, Capacity
    <2> QED
      BY <2>1, <2>2, StateType
  <1>2. clock' = clock + 3 /\ history' = R /\ Room' = Room /\ cfg' = cfg
    <2>1. next_x + GroupPixels # cfg.width
      BY <1>1, StateType DEF Enters, HistoryInv
    <2> QED
      BY <1>1, <2>1 DEF Advance, Room
  <1>3. L \in Seq(Entries) /\ Len(L) \in Nat
    BY <1>1, UncutParts
  <1>4. /\ R \in Seq(Entries) /\ Len(R) = Minimum(Len(L), Room)
        /\ \A p \in 1 .. Len(R) : R[p] = L[p]
    BY <1>1, <1>3, CutParts
  <1>5. Items(L) = Lru!LastUses(Items(history) \cup Items(F)) /\ Ordered(L, clock + 3)
    BY <1>1, ListIsLastUses
  <1>6. \A j \in 0..2 : /\ group'[j] = pixels[j].origin /\ pixels[j].used = clock + j
                        /\ pixels[j] = [origin |-> pixels[j].origin, used |-> pixels[j].used]
    BY DEF Origins, GroupOf, Entries
  <1>7. \A p \in 1 .. Len(F) : \E i \in 0..2 : F[p] = pixels[i]
    BY FrontOrder
  <1>8. \A j \in 0..2 : \E i \in 0..2, p \in 1 .. Len(F) :
          F[p] = pixels[i] /\ (i = j \/ (ich /\ j < i /\ index[i] = index[j]))
    BY FrontHolds
  <1> HIDE DEF F, L, R
  <1>9. Items(R) = Lru!Latest(Items(L), Room)
    <2> DEFINE c == clock + 3
    <2>1. Ordered(L, c)
      BY <1>5
    <2> HIDE DEF c
    <2> QED
      BY <1>1, <1>3, <1>4, <2>1, LatestAreFirst
  <1>10. uses = P
    BY <1>6
  <1>11. \A e \in P : \/ e \in Items(F)
                      \/ \E f \in Items(F) : f.origin = e.origin /\ f.used > e.used
    <2> SUFFICES ASSUME NEW j \in 0..2
                 PROVE  \/ pixels[j] \in Items(F)
                        \/ \E f \in Items(F) : /\ f.origin = pixels[j].origin
                                              /\ f.used > pixels[j].used
      OBVIOUS
    <2>1. PICK i \in 0..2, p \in 1 .. Len(F) :
            F[p] = pixels[i] /\ (i = j \/ (ich /\ j < i /\ index[i] = index[j]))
      BY <1>8
    <2>2. pixels[i] \in Items(F)
      BY <2>1 DEF Items
    <2>3. CASE i = j
      BY <2>2, <2>3
    <2>4. CASE ich /\ j < i /\ index[i] = index[j]
      <3>1. pixels[i].origin = pixels[j].origin
        BY <2>4 DEF GroupOf
      <3>2. pixels[i].used > pixels[j].used
        BY <1>1, <1>6, <2>4
      <3> QED
        BY <2>2, <3>1, <3>2
    <2> QED
      BY <2>1, <2>3, <2>4
  <1>12. Lru!LastUses(Items(history) \cup P) = Lru!LastUses(Items(history) \cup Items(F))
    <2>1. P \in SUBSET Entries
      OBVIOUS
    <2>2. Items(F) \in SUBSET P
      <3>1. ASSUME NEW e \in Items(F) PROVE e \in P
        <4>1. PICK p \in 1 .. Len(F) : e = F[p]
          BY DEF Items
        <4>2. PICK i \in 0..2 : F[p] = pixels[i]
          BY <1>7
        <4> QED
          BY <4>1, <4>2
      <3> HIDE DEF P
      <3>2. \A e : e \in Items(F) => e \in P
        BY <3>1
      <3> QED
        BY <3>2, Zenon
    <2>3. ASSUME NEW e \in Items(history) PROVE e.used \in Nat
      <3>1. PICK p \in 1 .. Len(history) : e = history[p]
        BY DEF Items
      <3> QED
        BY <1>1, <3>1 DEF Ordered, Entry
    <2> HIDE DEF P
    <2> QED
      BY <1>11, <2>1, <2>2, <2>3, SameLastUses
  <1>13. ASSUME NEW j \in 0..2
         PROVE  \/ group'[j] = clock + j
                \/ \E i \in 0 .. j - 1 : group'[j] = group'[i]
                \/ \E f \in Items(history) : f.origin = group'[j]
    <2>1. CASE pixels[j].origin = clock + j
      BY <1>6, <2>1
    <2>2. ASSUME NEW i \in 0 .. j - 1, pixels[j].origin = pixels[i].origin
          PROVE  \E k \in 0 .. j - 1 : group'[j] = group'[k]
      BY <1>6, <2>2
    <2>3. CASE FromHistory(history, ich, index, j, pixels[j].origin)
      <3>1. PICK q \in 1 .. Len(history) : pixels[j].origin = history[q].origin
        BY <2>3 DEF FromHistory
      <3>2. history[q] \in Items(history)
        BY DEF Items
      <3> QED
        BY <1>6, <3>1, <3>2
    <2> QED
      BY <2>1, <2>2, <2>3 DEF GroupOf
  <1>14. Items(R) = Lru!Latest(Lru!LastUses(Items(history) \cup uses), Room)
    BY <1>5, <1>9, <1>10, <1>12
  <1>15. /\ {history[p] : p \in DOMAIN history} = Items(history)
         /\ {history'[p] : p \in DOMAIN history'} = Items(R)
    BY <1>1, <1>2, <1>4, RecentItems
  <1>16. cfg'.multiple = cfg.multiple
    BY <1>2
  <1> QED
    BY <1>2, <1>13, <1>14, <1>15, <1>16 DEF Lru!Use

(* The last group of a line forgets what the next line cannot name.        *)
LEMMA LastGroupEndsLine ==
    ASSUME HistoryInv, ~Enters, Advance(history), UNCHANGED <<cfg, group>>
    PROVE  Lru!EndLine
PROOF
  <1>1. /\ clock \in Nat /\ history \in Seq(Entries) /\ Ordered(history, clock)
        /\ GroupPixels \in 1..3 /\ Len(history) <= Room /\ Room <= History /\ History \in Nat
        /\ Room \in Nat
        /\ cfg.multiple \in BOOLEAN /\ cfg.first_lines \in Nat /\ next_y + 1 \in Nat
        /\ Len(history) \in Nat
    <2>1. /\ HistoryTypeOK /\ Ordered(history, clock) /\ clock \in Nat
          /\ history \in Seq(Entries) /\ Len(history) <= Room
      BY DEF HistoryInv, HistoryTypeOK
    <2> QED
      BY <2>1, StateType
  <1>2. next_x + GroupPixels = cfg.width
    BY StateType DEF Enters, HistoryInv
  <1> DEFINE R == AtLineEnd(history, next_y + 1, cfg.first_lines, cfg.multiple)
             n == Capacity(next_y + 1, cfg.first_lines)
  <1>3. /\ clock' = clock + GroupPixels /\ history' = R /\ Room' = n
        /\ cfg'.multiple = cfg.multiple
    BY <1>2 DEF Advance, Room
  <1>4. clock' \in clock + 1 .. clock + 3
    BY <1>1, <1>3
  <1>5. R \in Seq(Entries) /\ n \in Nat
    BY <1>1, HistoryAssumption DEF AtLineEnd, Capacity
  <1>6. cfg.multiple => Items(R) = {}
    BY DEF AtLineEnd, Items
  <1>7. ASSUME ~cfg.multiple PROVE Items(R) = Lru!Latest(Items(history), n)
    <2>1. Len(R) = Minimum(Len(history), n) /\ \A p \in 1 .. Len(R) : R[p] = history[p]
      <3>1. /\ Len(history) <= History /\ History - Above \in Nat
            /\ n = IF next_y + 1 >= cfg.first_lines THEN History - Above ELSE History
        <4>1. Len(history) <= History
          <5> HIDE DEF R, n
          <5> QED
            BY <1>1
        <4>2. History - Above \in Nat
          BY HistoryAssumption
        <4>3. n = IF next_y + 1 >= cfg.first_lines THEN History - Above ELSE History
          BY DEF Capacity
        <4> QED
          BY <4>1, <4>2, <4>3
      <3>2. CASE next_y + 1 >= cfg.first_lines /\ Len(history) > History - Above
        <4>1. R = SubSeq(history, 1, n) /\ n < Len(history)
          BY <1>7, <3>1, <3>2 DEF AtLineEnd
        <4> HIDE DEF R, n
        <4>2. Len(R) = n /\ \A p \in 1 .. n : R[p] = history[p]
          BY <1>1, <1>5, <4>1
        <4> QED
          BY <1>1, <1>5, <4>1, <4>2 DEF Minimum
      <3>3. CASE ~(next_y + 1 >= cfg.first_lines /\ Len(history) > History - Above)
        <4>1. R = history
          BY <1>7, <3>3 DEF AtLineEnd
        <4>2. Len(history) <= n
          BY <1>1, <3>1, <3>3
        <4> HIDE DEF R, n
        <4> QED
          BY <1>1, <1>5, <4>1, <4>2 DEF Minimum
      <3> QED
        BY <3>2, <3>3
    <2> HIDE DEF R, n
    <2> QED
      BY <1>1, <1>5, <2>1, LatestAreFirst
  <1>8. /\ {history[p] : p \in DOMAIN history} = Items(history)
        /\ {history'[p] : p \in DOMAIN history'} = Items(R)
    BY <1>1, <1>3, <1>5, RecentItems
  <1> HIDE DEF R, n
  <1> QED
    BY <1>3, <1>4, <1>6, <1>7, <1>8 DEF Lru!EndLine

(* The last group of a line ends it and any other one uses its pixels.     *)
LEMMA GroupUsesOrEnds ==
    ASSUME HistoryInv, NEW R, Advance(IF Enters THEN R ELSE history), UNCHANGED cfg,
           ~Enters => group' = group,
           Enters /\ Advance(R) => Lru!Use
    PROVE  Lru!Next
PROOF
  BY LastGroupEndsLine DEF Lru!Next

(* A slice starts without a history.                                       *)
LEMMA InitForgets == Init => Lru!Start
PROOF
  BY DEF Init, Lru!Start

(* Each step of the shift register is a step of the set, or leaves it.     *)
LEMMA StepUses ==
    HistoryInv /\ [Next]_vars
      => [Lru!Next]_<<{history[p] : p \in DOMAIN history}, clock, group, Room, cfg.multiple>>
PROOF
  <1> DEFINE set == <<{history[p] : p \in DOMAIN history}, clock, group, Room, cfg.multiple>>
  <1> SUFFICES ASSUME HistoryInv, [Next]_vars
               PROVE  Lru!Next \/ UNCHANGED set
    OBVIOUS
  <1>1. ASSUME UNCHANGED <<cfg, next_y, history, clock, group>> PROVE UNCHANGED set
    BY <1>1 DEF Room
  <1>2. CASE UNCHANGED vars
    BY <1>1, <1>2 DEF vars
  <1>3. CASE ResidualGroup
    <2> DEFINE R == Updated(history, FALSE, <<>>, NewPixels, Room)
    <2>1. /\ Advance(IF Enters THEN R ELSE history) /\ UNCHANGED cfg
          /\ group' = Origins(NewPixels)
      BY <1>3 DEF ResidualGroup
    <2>2. /\ NewPixels \in [0..2 -> Entries]
          /\ GroupOf(history, clock, FALSE, <<>>, NewPixels)
      <3>1. clock \in Nat
        BY DEF HistoryInv, HistoryTypeOK
      <3> QED
        BY <3>1, NewPixelsParts
    <2>3. ASSUME Enters, Advance(R) PROVE Lru!Use
      <3>1. FALSE \in BOOLEAN
        OBVIOUS
      <3> QED
        BY <2>1, <2>2, <2>3, <3>1, EnteredUses
    <2>4. ~Enters => group' = group
      BY <2>1 DEF Origins
    <2> HIDE DEF R
    <2> QED
      BY <2>1, <2>3, <2>4, GroupUsesOrEnds
  <1>4. ASSUME NEW index \in Indices, IchGroup(index) PROVE Lru!Next
    <2> DEFINE X == IchPixels(index)
               R == Updated(history, TRUE, index, X, Room)
    <2>1. /\ Advance(IF Enters THEN R ELSE history) /\ UNCHANGED cfg /\ ~Refuses(index)
          /\ group' = Origins(X)
      BY <1>4 DEF IchGroup
    <2>2. ASSUME Enters, Advance(R) PROVE Lru!Use
      <3>1. X \in [0..2 -> Entries] /\ GroupOf(history, clock, TRUE, index, X)
        BY <2>1, <2>2, IchPixelsParts
      <3>2. TRUE \in BOOLEAN
        OBVIOUS
      <3> HIDE DEF X
      <3> QED
        BY <2>1, <2>2, <3>1, <3>2, EnteredUses
    <2>3. ~Enters => group' = group
      BY <2>1 DEF Origins
    <2> HIDE DEF R
    <2> QED
      BY <2>1, <2>2, <2>3, GroupUsesOrEnds
  <1>5. ASSUME NEW index \in Indices, RefusedGroup(index) PROVE UNCHANGED set
    BY <1>1, <1>5 DEF RefusedGroup
  <1> HIDE DEF set
  <1> QED
    BY <1>2, <1>3, <1>4, <1>5 DEF Next

(* The shift register of history_update, its index arithmetic and its      *)
(* shift loops keep exactly the entries that were used last, as many as a  *)
(* group can name, whatever the groups name and wherever the line ends.    *)
THEOREM KeepsTheLastUses == Spec => ImplementsRecentUses
PROOF
  <1>1. Init => Lru!Start
    BY InitForgets
  <1>2. HistoryInv /\ [Next]_vars
          => [Lru!Next]_<<{history[p] : p \in DOMAIN history}, clock, group, Room, cfg.multiple>>
    BY StepUses
  <1> QED
    BY <1>1, <1>2, HistoryInvariant, PTL DEF Spec, ImplementsRecentUses, Lru!Spec

=============================================================================
