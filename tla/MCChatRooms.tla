----------------------------- MODULE MCChatRooms -----------------------------
(***************************************************************************)
(* Instances of ChatRooms for TLC.                                         *)
(***************************************************************************)
EXTENDS ChatRooms, TLC

MCTexts == {"", "stocks", "forex"}

Typed(text, padded, upper) ==
    [text |-> text, padded |-> padded, upper |-> upper]

(* Two names and a blank one.                                              *)
TwoNames == {Typed(t, FALSE, FALSE) : t \in MCTexts}

(* One name in two spellings, the same with a blank after it, and a blank  *)
(* one.                                                                    *)
OneName ==
    {Typed("", FALSE, FALSE), Typed("stocks", TRUE, FALSE)}
        \cup {Typed("stocks", FALSE, u) : u \in BOOLEAN}

(* Below, at, inside and above what the validator accepts; and the least   *)
(* that shows a room that fills up, alone or beside one that is refused.   *)
MCCapacities == {1, 2, 3, 31}

TightCapacities == {0, 2}

LeastCapacity == {2}

Symmetry == Permutations(Users) \cup Permutations(Workers)
                \cup Permutations(Rooms)
=============================================================================
