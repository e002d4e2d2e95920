---------------------------- MODULE MCEventLoop ----------------------------
(* EventLoop with handlers that remove what the loop is on and register,   *)
(* with handlers that do all there is but register, with handlers that     *)
(* leave the loop its node and the signals their life, and with handlers   *)
(* that do one thing only, for what the code does not keep.                *)
EXTENDS EventLoop

Kinds == {"selfStop", "rearm", "disconnectLast", "activDuringRun", "die", "rebuild"}

MCUsage == {{"selfStop", "rearm", "die"}, Kinds \ {"rearm"},
            {"rearm", "disconnectLast"}, {"rearm", "activDuringRun"}}

OnlySelfStop == {{"selfStop"}}

OnlyActivDuringRun == {{"activDuringRun"}}
=============================================================================
