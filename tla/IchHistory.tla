----------------------------- MODULE IchHistory -----------------------------
(***************************************************************************)
(* The ICH history over the groups of one slice (predict.c,                *)
(* dsc_predict_group_units): what enters it, what an index may name, and   *)
(* what is left of it at the end of a line.                                *)
(*                                                                         *)
(* An entry is known by its origin, the place of the pixel that put it     *)
(* into the history, and carries the place of its last use. A place is the *)
(* number of pixels decoded before.                                        *)
(***************************************************************************)
EXTENDS IchList

CONSTANTS Slices,       \* widths, heights, first_lines and multiple
          Indices       \* the indices of the three pixels of an ICH group

ASSUME SlicesAssumption ==
    \A c \in Slices : /\ c.width \in Nat \ {0} /\ c.height \in Nat \ {0}
                      /\ c.first_lines \in {1, 2} /\ c.multiple \in BOOLEAN

ASSUME IndicesAssumption == Indices \subseteq [0..2 -> 0 .. History - 1]

VARIABLES cfg, next_x, next_y, history, status,
          clock,        \* history variable: the pixels decoded
          group         \* history variable: the origins of the pixels entered last

vars == <<cfg, next_x, next_y, history, status, clock, group>>

Init ==
    /\ cfg \in Slices
    /\ next_x = 0 /\ next_y = 0
    /\ history = <<>>
    /\ status = "ok"
    /\ clock = 0
    /\ group = [j \in 0..2 |-> 0]

-----------------------------------------------------------------------------

(* Mutant: every group has three pixels.                                   *)
ThreePixels == 3

GroupPixels == Minimum(cfg.width - next_x, 3)
Room        == Capacity(next_y, cfg.first_lines)

(* The pixels looked up are the real ones: an index of padding is not.     *)
Refuses(index) ==
    \E j \in 0 .. GroupPixels - 1 : Len(history) <= index[j] /\ index[j] < Room

(* A pixel of a residual group is a new entry.                             *)
NewPixels == [j \in 0..2 |-> [origin |-> clock + j, used |-> clock + j]]

(* The first pixel of the group with the index of pixel j.                 *)
FirstNamed(index, j) ==
    IF index[0] = index[j] THEN 0 ELSE IF index[1] = index[j] THEN 1 ELSE 2

(* An index of the history names an entry of it; one of the line above     *)
(* makes a new entry, of which a second one in the group is a use.         *)
IchPixels(index) ==
    [j \in 0..2 |->
        [origin |-> IF index[j] < Room THEN history[index[j] + 1].origin
                    ELSE clock + FirstNamed(index, j),
         used   |-> clock + j]]

(* Mutant: the last group of a line is entered, when it is full.           *)
EntersWhenFull == GroupPixels = 3

(* "Section 6.5.2 excludes every last group, including a full final group" *)
(* (predict.c:471).                                                        *)
Enters == next_x + GroupPixels < cfg.width

(* The history after a group, and after its line when it is the last one.  *)
Advance(entered) ==
    /\ clock' = clock + GroupPixels
    /\ IF next_x + GroupPixels = cfg.width
       THEN /\ next_x' = 0 /\ next_y' = next_y + 1
            /\ history' = AtLineEnd(entered, next_y + 1, cfg.first_lines, cfg.multiple)
       ELSE /\ next_x' = next_x + GroupPixels /\ next_y' = next_y
            /\ history' = entered

Origins(pixels) == IF Enters THEN [j \in 0..2 |-> pixels[j].origin] ELSE group

ResidualGroup ==
    /\ Advance(IF Enters THEN Updated(history, FALSE, <<>>, NewPixels, Room) ELSE history)
    /\ group' = Origins(NewPixels)
    /\ UNCHANGED <<cfg, status>>

IchGroup(index) ==
    /\ ~Refuses(index)
    /\ Advance(IF Enters THEN Updated(history, TRUE, index, IchPixels(index), Room)
               ELSE history)
    /\ group' = Origins(IchPixels(index))
    /\ UNCHANGED <<cfg, status>>

(* decode_slice gives up the slice.                                        *)
RefusedGroup(index) ==
    /\ Refuses(index)
    /\ status' = "refused"
    /\ UNCHANGED <<cfg, next_x, next_y, history, clock, group>>

Next ==
    /\ status = "ok" /\ next_y < cfg.height
    /\ \/ ResidualGroup
       \/ \E index \in Indices : IchGroup(index) \/ RefusedGroup(index)

Spec == Init /\ [][Next]_vars

-----------------------------------------------------------------------------

Entries == [origin : Nat, used : Nat]

HistoryTypeOK ==
    /\ cfg \in Slices
    /\ next_x \in 0 .. cfg.width - 1 /\ next_y \in 0 .. cfg.height
    /\ history \in Seq(Entries)
    /\ status \in {"ok", "refused"}
    /\ clock \in Nat
    /\ group \in [0..2 -> Nat]

(* The history is ordered by last use, the latest first, whatever the      *)
(* groups named and however often; no pixel is in it twice; and it never   *)
(* reaches the indices that name the line above, so that an index of the   *)
(* line above cannot take an entry out of it (predict.c:270-286, 497-502). *)
MostRecentFirst ==
    /\ Len(history) <= Room
    /\ \A p \in DOMAIN history : history[p].used < clock
    /\ \A p, q \in DOMAIN history :
         p < q => /\ history[p].used > history[q].used
                  /\ history[p].origin # history[q].origin

Lru == INSTANCE RecentUses
         WITH recent <- {history[p] : p \in DOMAIN history}, size <- Room,
              forgets <- cfg.multiple

(* The shift register implements the set of the entries used last: the     *)
(* loops of history_update (predict.c:250-291) enter all three pixels of   *)
(* the group, each entry once whatever indices repeat, lose none of the    *)
(* entries used last and keep no other, also where the number that is kept *)
(* changes between two lines (predict.c:497-502).                          *)
ImplementsRecentUses == Lru!Spec

=============================================================================
