------------------------- MODULE MCCapturePin -------------------------
(***************************************************************************)
(* CapturePin with two pins, two aspects of one range each and a third     *)
(* range that belongs to no aspect, as the 720p ranges do.  The larger     *)
(* picture has the shorter header, so that one change of format outgrows   *)
(* the framing and the other one the header.                               *)
(***************************************************************************)
EXTENDS CapturePin

CONSTANTS wide, tall, hd

MCRange == {wide, tall, hd}
MCSizeOf == (wide :> 3) @@ (tall :> 2) @@ (hd :> 1)
MCAspectOrder == <<"16_9", "3_4">>
MCAspectRanges == ("16_9" :> <<wide>>) @@ ("3_4" :> <<tall>>)
MCFormat == {[range |-> wide, header |-> 1], [range |-> tall, header |-> 2]}
MCInitialTable == <<wide, tall, hd>>
=============================================================================
