----------------------------- MODULE MCSessions -----------------------------
(* Sessions on a small instance: seconds of five bits, at both ends of the *)
(* range and in the middle.                                                *)
EXTENDS Sessions, TLC

MCDevicesOf == ("self" :> {"device"}) @@ ("other" :> {"elsewhere"})
MCSeconds == (-16)..(-13) \cup (-5)..2 \cup 12..15
MCMinTime == -16
MCOffsets == {0, 3}
=============================================================================
