------------------------- MODULE MCCachingAllocator -------------------------
(* A small segment of four blocks; small segments of two blocks and a rest *)
(* on two devices; and large segments of two blocks, whose rest is not     *)
(* split off.                                                              *)
EXTENDS CachingAllocator

OneDevice == [s \in Streams |-> "gpu0"]
TwoDevices == [s \in Streams |-> IF s = "a" THEN "gpu0" ELSE "gpu1"]

Quarters == [device |-> OneDevice, capacity |-> kSmallBuffer, sizes |-> {524288}]
Apart == [device |-> TwoDevices, capacity |-> kSmallBuffer, sizes |-> {699300}]
Large == [device |-> OneDevice, capacity |-> 2 * kLargeBuffer, sizes |-> {10000000}]
AllPrograms == {Quarters, Apart, Large}
=============================================================================
