----------------------------- MODULE MCDdsBridge -----------------------------
(* DdsBridge with three participants: p1 has no route and does not repeat, so *)
(* it forwards to p2 and p3; p2 is routed to p3 alone; p3 is a repeater and   *)
(* forwards to all three, itself included.                                    *)
EXTENDS DdsBridge, TLC

CONSTANTS p1, p2, p3

const_RouteOf == (p2 :> {p3})
=============================================================================
