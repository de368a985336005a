--------------------------- MODULE MCCircularVector ---------------------------
(* Model checking of the ring: three places and three different elements,    *)
(* so that head and tail wrap around the array at every relative position.   *)
EXTENDS CircularVector
=============================================================================
