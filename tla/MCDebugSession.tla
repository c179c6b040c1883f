--------------------------- MODULE MCDebugSession ---------------------------
(* Small programs for the debug session.                                   *)
EXTENDS DebugSession

Seq0(s) == [i \in 0..(Len(s) - 1) |-> s[i + 1]]

(* Call f (line 0).  Module f: Declare Integer x; Input x (line 2), which  *)
(* fails at the end of the input; a library call that can fail (line 3).   *)
SmallOp     == Seq0(<<"call", "leave", "input", "lib", "leave">>)
SmallLine   == Seq0(<<0, 1, 2, 3, 4>>)
SmallTarget == Seq0(<<2, 0, 0, 0, 0>>)

(* Do: Display (line 0); Input (line 1); While (line 2), then a library    *)
(* call that can fail (line 3) and a call (line 4), which overflows a      *)
(* stack of one frame.                                                     *)
LoopOp     == Seq0(<<"output", "input", "jump", "lib", "call", "leave">>)
LoopLine   == Seq0(<<0, 1, 2, 3, 4, 5>>)
LoopTarget == Seq0(<<0, 0, 0, 0, 0, 0>>)
=============================================================================
