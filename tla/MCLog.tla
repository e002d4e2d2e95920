------------------------------- MODULE MCLog -------------------------------
(* A line of two cells, one place with a << Once of two ticks, strings     *)
(* of one character and of one more than their length can count; and the   *)
(* conversions with eight bits: every number of them, fractions with       *)
(* leading, inner and no zeros.  The conversions keep nothing: they are    *)
(* called while the logger is as it was at the start.                      *)
EXTENDS Log, Converters

MCInit == Init /\ ConvertersInit
MCNext ==
    \/ call = NoCall /\ Next /\ UNCHANGED call
    \/ Init /\ allowed = {} /\ Convert /\ UNCHANGED logVars
MCSpec == MCInit /\ [][MCNext]_<<logVars, call>>

MCUnsigned == 0 .. 255
MCSigned == -128 .. 127
MCWhole == {0, 5, 10, 99, 100, 255}
MCFraction == {0, 1, 7, 10, 50, 99, 100, 205, 999}

MCUsage == {{}, {"interrupt"}, {"overlap"}, {"longString"}, {"consoleNumber"}, {"docPort"},
            {"interrupt", "once"}, {"interrupt", "once", "nestedOnce"}}
=============================================================================
