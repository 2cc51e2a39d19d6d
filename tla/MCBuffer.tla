------------------------------ MODULE MCBuffer ------------------------------
(* Messages of two sizes for three future views, in a buffer with room for *)
(* a message of each, and a third small one.                               *)
EXTENDS ProgressMessageBuffer, TLC

MCSizes == "HotStuff" :> 3 @@ "Pacemaker" :> 2
=============================================================================
