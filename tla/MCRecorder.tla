---------------------------- MODULE MCRecorder ----------------------------
(* Recorder for TLC.                                                       *)
EXTENDS Recorder

Var(size, trgOnly, type, varThr, above, below, level) ==
    [size |-> size, trgOnly |-> trgOnly, type |-> type, varThr |-> varThr,
     above |-> above, below |-> below, level |-> level]

\* Recorded only; recorded and a trigger; a trigger only, on a level of a floating
\* variable; and one of a size that is refused.
SomeVars ==
    {Var(1, FALSE, "none", TRUE, FALSE, FALSE, FALSE),
     Var(2, FALSE, "sint", FALSE, TRUE, FALSE, FALSE),
     Var(4, TRUE, "float", TRUE, FALSE, TRUE, TRUE),
     Var(3, FALSE, "uint", FALSE, TRUE, TRUE, FALSE)}

Mem(n, total, pre, div) ==
    [varCount |-> n, totalSmps |-> total, preTrigger |-> pre, timeDiv |-> div]

\* One variable or two, a number of samples asked for or as many as fit, a place of
\* the trigger inside the buffer or behind its end, with every sample and every other.
MCMemCfgs == {Mem(1, 0, 1, 0), Mem(1, 2, 7, 1), Mem(1, 2, 1, 0), Mem(1, 0, 7, 0),
              Mem(2, 0, 1, 1), Mem(2, 2, 1, 0), Mem(2, 0, 7, 0), Mem(2, 2, 7, 1)}
=============================================================================
