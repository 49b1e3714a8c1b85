------------------------------ MODULE MCEventBus ------------------------------
(* EventBus.tla for TLC: one stream. Streams share nothing but the events, so *)
(* a second one could not disturb it.                                         *)
EXTENDS EventBus

CONSTANTS viewer

OneStream == {viewer}
=============================================================================
