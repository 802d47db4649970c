----------------------------- MODULE RecentUses -----------------------------
(***************************************************************************)
(* What the ICH history promises, as a set: the entries that were used     *)
(* most recently, each with the place of its last use, as many as the next *)
(* group can name.                                                         *)
(***************************************************************************)
EXTENDS Integers, FiniteSets

VARIABLES recent,   \* records of an entry's origin and its last use
          clock,    \* pixels so far
          group,    \* the origins of the three pixels used last
          size,     \* entries that a group can name
          forgets   \* every line starts anew

(* The n entries used last.                                                *)
Latest(S, n) == {e \in S : Cardinality({f \in S : f.used > e.used}) < n}

(* One entry for each origin, at its last use.                             *)
LastUses(S) == {e \in S : ~\E f \in S : f.origin = e.origin /\ f.used > e.used}

Start == recent = {} /\ clock = 0

(* Three pixels, each a new entry, an earlier one of the three again, or   *)
(* one that the history held.                                              *)
Use ==
    LET uses == {[origin |-> group'[j], used |-> clock + j] : j \in 0..2}
    IN  /\ \A j \in 0..2 : \/ group'[j] = clock + j
                           \/ \E i \in 0 .. j - 1 : group'[j] = group'[i]
                           \/ \E f \in recent : f.origin = group'[j]
        /\ clock' = clock + 3
        /\ recent' = Latest(LastUses(recent \cup uses), size)
        /\ UNCHANGED <<size, forgets>>

(* The last group of a line is not entered.                                *)
EndLine ==
    /\ clock' \in clock + 1 .. clock + 3
    /\ recent' = IF forgets THEN {} ELSE Latest(recent, size')
    /\ UNCHANGED <<group, forgets>>

Next == Use \/ EndLine

Spec == Start /\ [][Next]_<<recent, clock, group, size, forgets>>

=============================================================================
