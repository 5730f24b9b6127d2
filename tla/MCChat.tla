------------------------------- MODULE MCChat -------------------------------
(***************************************************************************)
(* Instances of Chat for TLC.                                              *)
(***************************************************************************)
EXTENDS Chat, TLC

CONSTANTS hello, ping, stock, long, bad, other

AllKinds ==
    hello :> "text" @@ ping :> "ping" @@ stock :> "stock"
        @@ long :> "longStock" @@ bad :> "badStock" @@ other :> "unknown"

MCKind == [p \in Posts |-> AllKinds[p]]

Symmetry == Permutations(Slots)
=============================================================================
