----------------------------- MODULE MCDisplay -----------------------------
(* Instances of Display for TLC: two formats, modes that differ in width,  *)
(* in height and in format only, and a surface of each format.             *)
EXTENDS Display

Tall == [w |-> 1, h |-> 2, fmt |-> "CLUT"]
Square == [w |-> 2, h |-> 2, fmt |-> "ARGB"]
Wide == [w |-> 2, h |-> 1, fmt |-> "ARGB"]

MCModes == {Tall, Square, Wide}
MCSurfaces == {[mem |-> "screen1", fmt |-> "CLUT"], [mem |-> "screen2", fmt |-> "ARGB"]}
=============================================================================
