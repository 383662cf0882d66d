--------------------------- MODULE MCClaimLedger ---------------------------
(* Instances of ClaimLedger small enough for TLC. *)
EXTENDS ClaimLedger, TLC

CONSTANTS a1, a2, p1, p2, seatA, seatB, gate

\* One seat on one flight and two on another.
SeatResources == {seatA, seatB}
SeatCapacity == (seatA :> 1) @@ (seatB :> 2)
SeatGroup == (seatA :> "seat") @@ (seatB :> "seat")

\* A gate that anybody may use, next to a seat.
MixedResources == {seatA, gate}
MixedCapacity == (seatA :> 1) @@ (gate :> 2)
MixedGroup == (seatA :> "seat") @@ (gate :> NoGroup)
=============================================================================
