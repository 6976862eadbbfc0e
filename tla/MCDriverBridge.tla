--------------------------- MODULE MCDriverBridge ---------------------------
(* DriverBridge for TLC: pictures of two sizes, and a stream of each of    *)
(* the formats the bridge treats differently.                              *)
EXTENDS DriverBridge

Sizes == {"small", "large"}
Areas == [s \in Sizes |-> IF s = "small" THEN 1 ELSE 2]
Streams ==
  {[size |-> "large", format |-> "nv12"],
   [size |-> "small", format |-> "rgb32"]}
=============================================================================
