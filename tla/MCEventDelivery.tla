--------------------------- MODULE MCEventDelivery ----------------------------
(* EventDelivery with two events, one of them malformed.                       *)
EXTENDS EventDelivery

CONSTANTS good, bad
MCMessages == {good, bad}
MCMalformed == {bad}
===============================================================================
