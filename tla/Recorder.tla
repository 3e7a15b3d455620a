----------------------------- MODULE Recorder -----------------------------
(***************************************************************************)
(* One recorder (freemaster_rec.c).  The host configures its memory and    *)
(* its variables (SETREC), starts it and stops it; the application may do  *)
(* the same and may pull the trigger.  FMSTR_Recorder, called at a regular *)
(* pace, copies the variables to a circular buffer and looks for the       *)
(* trigger; once that is pulled it counts the samples that are still       *)
(* wanted and stops.  A GETREC request brings the configuration up to date *)
(* and reports which points the buffer holds.                              *)
(*                                                                         *)
(* Every call is atomic.  The bytes of a variable and of its threshold are *)
(* one raw number each, which the type of the trigger reads as unsigned,   *)
(* signed or floating; a byte of the buffer is known by its age, the       *)
(* number of samples taken since the one that wrote it.                    *)
(***************************************************************************)
EXTENDS Integers, FiniteSets, FiniteSetsExt, Sequences

CONSTANTS
    MemSize,   \* bytes behind the FMSTR_REC structure
    VarSize,   \* sizeof(FMSTR_REC_VAR_DATA)
    SizeRange, \* FMSTR_SIZE counts modulo this
    MemCfgs,   \* bound: what FMSTR_REC_CFG is filled with
    VarCfgs,   \* bound: the variable configurations, as records (see VarCfgAssumption)
    RawRange,  \* a variable or a threshold is a number below this
    Thresholds, \* bound: the constant thresholds a host asks for
    FloatTrig  \* FMSTR_REC_FLOAT_TRIG

ASSUME SizesAssumption ==
    /\ MemSize \in Nat /\ VarSize \in Nat /\ SizeRange \in Nat \ {0}
    /\ MemCfgs \subseteq [varCount : Nat, totalSmps : 0 .. SizeRange - 1,
                          preTrigger : 0 .. SizeRange - 1, timeDiv : 0 .. SizeRange - 1]
    /\ \A c \in MemCfgs : c.varCount * VarSize <= MemSize  \* the FMSTR_ASSERT of RecMemCfg

ASSUME VarCfgAssumption ==
    /\ VarCfgs \subseteq [size : Nat, trgOnly : BOOLEAN,
                          type : {"none", "uint", "sint", "float"}, varThr : BOOLEAN,
                          above : BOOLEAN, below : BOOLEAN, level : BOOLEAN]
    /\ RawRange \in {2 ^ w : w \in 1 .. 8} /\ Thresholds \subseteq 0 .. RawRange - 1
    /\ FloatTrig \in BOOLEAN

VARIABLES
    rec,  \* the FMSTR_REC structure
    cell, \* the age of every byte of the sampling area
    hist  \* history: the present run, the samples it has taken, and its trigger

vars == <<rec, cell, hist>>

ValidSizes == {1, 2, 4, 8}

\* A variable that has been cleared.
NoVar == [cfg |-> [size |-> 0, trgOnly |-> FALSE, type |-> "none", varThr |-> FALSE,
                   above |-> FALSE, below |-> FALSE, level |-> FALSE],
          thresholdVal |-> 0, trgLastState |-> FALSE]

Triggering(v) == v.cfg.type # "none"

BuffSize(n) == MemSize - n * VarSize

Age(n) == [b \in 0 .. n - 1 |-> n]  \* n: older than any point the buffer can hold

\* Who pulled the trigger: nobody, a call of the API, or the variable with that number.
NotPulled == 0
ByCall    == -1

\* A run that has taken no sample: seen is the last comparison of each variable.
NewRun(run, n) == [run |-> run, taken |-> 0, by |-> NotPulled, since |-> -1,
                   seen |-> [i \in 1 .. n |-> FALSE]]

Cleared(cfg) ==
    [config |-> cfg, varDescr |-> [i \in 1 .. cfg.varCount |-> NoVar],
     totalSmplsCnt |-> 0, timeDivCtr |-> 0, postTrigger |-> 0, stopRecCountDown |-> 0,
     writePtr |-> 0, endBuffPtr |-> 0, pointSize |-> 0,
     isConfigured |-> FALSE, hasData |-> FALSE, isRunning |-> FALSE,
     isVirginCycle |-> FALSE, isStopping |-> FALSE]

Init ==
    /\ rec = Cleared([varCount |-> 0, totalSmps |-> 0, preTrigger |-> 0, timeDiv |-> 0])
    /\ cell = Age(BuffSize(0))
    /\ hist = NewRun("none", 0)
-----------------------------------------------------------------------------
(* _FMSTR_CheckConfiguration.                                              *)

\* The sum of the sizes of those of the first n variables that are recorded.
PointBytes(descr, n) ==
    LET sum[i \in 0 .. n] ==
            IF i = 0 THEN 0
            ELSE sum[i - 1] + IF descr[i].cfg.trgOnly THEN 0 ELSE descr[i].cfg.size
    IN  sum[n]

Size(n) == n % SizeRange

Configurable(r) ==
    LET pointSize == PointBytes(r.varDescr, r.config.varCount)
    IN  /\ \A i \in DOMAIN r.varDescr : r.varDescr[i].cfg.size \in ValidSizes
        /\ pointSize > 0 /\ pointSize <= BuffSize(r.config.varCount)

PostTrigger(total, pre) == IF pre < total THEN total - pre - 1 ELSE total - 1

CheckConfiguration(r) ==
    LET pointSize == PointBytes(r.varDescr, r.config.varCount)
        wanted    == Size(r.config.totalSmps * pointSize)
        asked     == r.config.totalSmps # 0 /\ wanted <= BuffSize(r.config.varCount)
        total     == IF asked THEN r.config.totalSmps
                              ELSE BuffSize(r.config.varCount) \div pointSize
    IN  IF r.isConfigured \/ ~Configurable(r) THEN r
        ELSE [r EXCEPT !.totalSmplsCnt = total,
                       !.postTrigger = PostTrigger(total, r.config.preTrigger),
                       !.endBuffPtr = IF asked THEN wanted ELSE Size(total * pointSize),
                       !.pointSize = pointSize,
                       !.isConfigured = TRUE, !.hasData = FALSE, !.isRunning = FALSE,
                       !.isVirginCycle = FALSE, !.isStopping = FALSE]
-----------------------------------------------------------------------------
(* Requests and calls.                                                     *)

\* Everything is cleared, a recorder that runs as well.
RecMemCfg(cfg) ==
    /\ rec' = Cleared(cfg)
    /\ cell' = Age(BuffSize(cfg.varCount))
    /\ hist' = NewRun("none", cfg.varCount)

\* Mutant: a variable is changed after the configuration has been taken over.
UnusedOnly(r) == ~r.isRunning

\* flags.all == 0
Untouched(r) ==
    ~(r.isConfigured \/ r.hasData \/ r.isRunning \/ r.isVirginCycle \/ r.isStopping)

Comparable(cfg) == cfg.type = "float" => FloatTrig /\ cfg.size \in {4, 8}

VarConfigured(r, i, cfg) ==
    IF Untouched(r) /\ cfg.size \in ValidSizes /\ Comparable(cfg)
    THEN [r EXCEPT !.varDescr[i].cfg = cfg]
    ELSE r

\* FMSTR_RecorderAddVariable: the threshold is a variable of the application.
AddVariable(i, cfg) ==
    /\ i \in DOMAIN rec.varDescr /\ cfg.varThr
    /\ rec' = VarConfigured(rec, i, cfg)
    /\ UNCHANGED <<cell, hist>>

\* CFGVAR: a constant threshold is in its place before the configuration is checked.
SetRecVar(i, cfg, threshold) ==
    /\ i \in DOMAIN rec.varDescr /\ cfg.size <= 8
    /\ ~cfg.varThr /\ cfg.type = "float" => FloatTrig
    /\ LET r == IF cfg.varThr THEN rec
                ELSE [rec EXCEPT !.varDescr[i].thresholdVal = threshold]
       IN  rec' = VarConfigured(r, i, cfg)
    /\ UNCHANGED <<cell, hist>>

\* Mutant: the stop of the run before is not forgotten.
StartedStopping(r) ==
    [r EXCEPT !.writePtr = 0, !.timeDivCtr = 0, !.isRunning = TRUE,
              !.hasData = FALSE, !.isVirginCycle = TRUE]

Started(r) ==
    [r EXCEPT !.writePtr = 0, !.timeDivCtr = 0, !.isRunning = TRUE,
              !.hasData = FALSE, !.isVirginCycle = TRUE, !.isStopping = FALSE]

\* What Start does: nothing but the configuration when that fails or the recorder runs.
StartRec ==
    LET r == CheckConfiguration(rec)
        n == r.config.varCount
    IN  IF r.isConfigured /\ ~r.isRunning
        THEN rec' = Started(r) /\ cell' = Age(BuffSize(n)) /\ hist' = NewRun("on", n)
        ELSE rec' = r /\ UNCHANGED <<cell, hist>>

\* Mutant: a trigger that comes again starts the countdown again.
TriggeredAgain(r) ==
    IF r.isConfigured /\ r.isRunning
    THEN [r EXCEPT !.isStopping = TRUE, !.stopRecCountDown = r.postTrigger]
    ELSE r

Triggered(r) ==
    IF r.isConfigured /\ r.isRunning /\ ~r.isStopping
    THEN [r EXCEPT !.isStopping = TRUE, !.stopRecCountDown = r.postTrigger]
    ELSE r

\* The history of a trigger that has just been pulled in s and was not in r.
Pulled(r, s, h, by) == IF s.isStopping /\ ~r.isStopping THEN [h EXCEPT !.by = by] ELSE h

TriggerRec ==
    /\ rec' = Triggered(rec)
    /\ hist' = Pulled(rec, Triggered(rec), hist, ByCall)
    /\ UNCHANGED cell

AbortRec ==
    /\ rec.isConfigured /\ rec.isRunning
    /\ rec' = [rec EXCEPT !.isRunning = FALSE, !.isStopping = FALSE]
    /\ hist' = [hist EXCEPT !.run = "aborted"]
    /\ UNCHANGED cell

\* FMSTR_GetRecCmd, STATUS and INFO.
GetRec == rec' = CheckConfiguration(rec) /\ UNCHANGED <<cell, hist>>
-----------------------------------------------------------------------------
(* The comparisons.                                                        *)

Raw == 0 .. RawRange - 1
Half == RawRange \div 2

\* Two's complement.
Signed(raw) == IF raw < Half THEN raw ELSE raw - RawRange

\* A sign and a magnitude; the largest magnitude is that of the NaNs.
IsNaN(raw)    == raw % Half = Half - 1
Floating(raw) == IF raw < Half THEN raw ELSE Half - raw

Less(type, v, t) ==
    CASE type = "uint"  -> v < t
      [] type = "sint"  -> Signed(v) < Signed(t)
      [] type = "float" -> ~IsNaN(v) /\ ~IsNaN(t) /\ Floating(v) < Floating(t)

CMP(type, v, t) == ~Less(type, v, t)

\* What a comparison with t may come to, whatever the variable holds.
Results == [type \in {"uint", "sint", "float"}, t \in Raw |-> {CMP(type, v, t) : v \in Raw}]

Outcomes(d) ==
    IF ~Triggering(d) THEN {FALSE}
    ELSE UNION {Results[d.cfg.type, t] : t \in IF d.cfg.varThr THEN Raw ELSE {d.thresholdVal}}
-----------------------------------------------------------------------------
(* FMSTR_Recorder.                                                         *)

\* Mutant: an edge is seen again for as long as the comparison lasts.
FiresOnLevel(v, cmp) == Triggering(v) /\ (IF cmp THEN v.cfg.above ELSE v.cfg.below)

Fires(v, cmp) ==
    /\ Triggering(v)
    /\ IF cmp THEN v.cfg.above ELSE v.cfg.below
    /\ v.cfg.level \/ v.trgLastState # cmp

Looking(r) == ~r.isStopping /\ ~r.isVirginCycle

\* The variables that pull the trigger, were they asked; the first of them does.
Firing(r, cmp) == {i \in DOMAIN cmp : Looking(r) /\ Fires(r.varDescr[i], cmp[i])}

\* The variables up to the one that pulls the trigger keep their comparison.
Compared(r, cmp) ==
    [i \in DOMAIN cmp |->
        IF Triggering(r.varDescr[i]) /\ ~r.isStopping /\ \A j \in Firing(r, cmp) : i <= j
        THEN [r.varDescr[i] EXCEPT !.trgLastState = cmp[i]]
        ELSE r.varDescr[i]]

\* Mutant: the buffer is never taken for full.
WrapStaysVirgin(r) == IF r.writePtr >= r.endBuffPtr THEN [r EXCEPT !.writePtr = 0] ELSE r

WrapAround(r) ==
    IF r.writePtr >= r.endBuffPtr
    THEN [r EXCEPT !.writePtr = 0, !.isVirginCycle = FALSE]
    ELSE r

CountDown(r) ==
    IF ~r.isStopping THEN r
    ELSE IF r.stopRecCountDown = 0 THEN [r EXCEPT !.isRunning = FALSE]
    ELSE [r EXCEPT !.stopRecCountDown = @ - 1]

\* A sample the divisor skips.
Skip ==
    /\ rec.isRunning /\ rec.timeDivCtr > 0
    /\ rec' = [rec EXCEPT !.timeDivCtr = @ - 1]
    /\ UNCHANGED <<cell, hist>>

\* Counts of samples stop at more than the buffer can hold.
OneMore(n) == IF n < Cardinality(DOMAIN cell) THEN n + 1 ELSE n

\* The bytes from writePtr get the new sample, every other one grows older.
Written(r) ==
    [b \in DOMAIN cell |->
        IF b \in r.writePtr .. r.writePtr + r.pointSize - 1 THEN 0
        ELSE OneMore(cell[b])]

Sample(cmp) ==
    LET fired == Firing(rec, cmp)
        r     == [rec EXCEPT !.timeDivCtr = rec.config.timeDiv,
                             !.varDescr = Compared(rec, cmp)]
        s     == IF fired = {} THEN r ELSE Triggered(r)
        h     == IF fired = {} THEN hist ELSE Pulled(rec, s, hist, Min(fired))
    IN  /\ rec.isRunning /\ rec.timeDivCtr = 0
        /\ rec' = CountDown(WrapAround([s EXCEPT !.writePtr = @ + PointBytes(s.varDescr, s.config.varCount),
                                                 !.hasData = TRUE]))
        /\ cell' = Written(rec)
        /\ hist' = [h EXCEPT !.taken = OneMore(@),
                             !.since = IF h.by = NotPulled THEN @ ELSE OneMore(@),
                             !.seen = cmp]

Recorder ==
    \/ Skip
    \/ \E cmp \in [DOMAIN rec.varDescr -> BOOLEAN] :
          /\ \A i \in DOMAIN cmp : cmp[i] \in Outcomes(rec.varDescr[i])
          /\ Sample(cmp)
-----------------------------------------------------------------------------
MemCfg == \E cfg \in MemCfgs : RecMemCfg(cfg)

VarCfg ==
    \E i \in 1 .. rec.config.varCount, cfg \in VarCfgs :
        \/ AddVariable(i, cfg)
        \/ \E threshold \in Thresholds : SetRecVar(i, cfg, threshold)

Next ==
    \/ MemCfg \/ VarCfg
    \/ StartRec \/ TriggerRec \/ AbortRec \/ GetRec
    \/ Recorder

Spec == Init /\ [][Next]_vars

\* The application keeps calling FMSTR_Recorder.
FairSpec == Spec /\ WF_vars(Recorder)
-----------------------------------------------------------------------------
(* What FMSTR_GetRecCmd reports.                                           *)

CurrIx     == IF rec.pointSize > 0 THEN rec.writePtr \div rec.pointSize ELSE 0
RecFirstPnt == IF rec.isVirginCycle THEN 0 ELSE CurrIx
RecPntCnt  == IF rec.isVirginCycle THEN CurrIx ELSE rec.totalSmplsCnt

\* _FMSTR_CalcRecStatus.
Status ==
    CASE ~rec.isConfigured -> "not configured"
      [] rec.isConfigured /\ rec.isRunning -> "running"
      [] rec.isConfigured /\ ~rec.isRunning /\ ~rec.hasData -> "no data"
      [] OTHER -> IF rec.isVirginCycle THEN "some data" ELSE "all data"

\* Point k of those reported, counted from the oldest, as the bytes it consists of.
Point(k) ==
    LET at == ((RecFirstPnt + k) % rec.totalSmplsCnt) * rec.pointSize
    IN  at .. at + rec.pointSize - 1
-----------------------------------------------------------------------------
(* Properties.                                                             *)

\* What CheckConfiguration has computed stays true of the variables that are
\* sampled, so a sample that is taken fits in the circular buffer.
LayoutIsFresh ==
    rec.isConfigured =>
        /\ rec.pointSize = PointBytes(rec.varDescr, rec.config.varCount)
        /\ rec.endBuffPtr = rec.totalSmplsCnt * rec.pointSize
        /\ rec.isRunning => rec.writePtr + rec.pointSize <= rec.endBuffPtr

\* At any time the points a GETREC response reports are the latest samples of the
\* run, all that the buffer has room for, whole and oldest first; and the status says
\* that all are there only when the buffer is full of this run's.
PointsInOrder ==
    rec.hasData =>
        /\ RecPntCnt = IF hist.taken < rec.totalSmplsCnt THEN hist.taken ELSE rec.totalSmplsCnt
        /\ Status = "all data" <=> ~rec.isRunning /\ hist.taken >= rec.totalSmplsCnt
        /\ \A k \in 0 .. RecPntCnt - 1 : \A b \in Point(k) : cell[b] = RecPntCnt - 1 - k

\* A run that nobody aborts stops after the trigger was pulled, when the asked-for
\* number of samples follows the one the trigger came with: a trigger that a variable
\* pulls is the point preTrigger of a full buffer.
TriggerInPlace ==
    hist.run = "on" /\ ~rec.isRunning =>
        /\ hist.by # NotPulled
        /\ rec.totalSmplsCnt - 1 - hist.since =
              IF rec.config.preTrigger < rec.totalSmplsCnt THEN rec.config.preTrigger ELSE 0
        /\ hist.by > 0 => RecPntCnt = rec.totalSmplsCnt /\ hist.taken >= rec.totalSmplsCnt

\* A variable that triggers on an edge pulls the trigger only in a sample whose
\* comparison differs from that of the sample before it in the same run.
EdgeHappened ==
    hist'.by > 0 /\ hist.by = NotPulled =>
        \/ rec.varDescr[hist'.by].cfg.level
        \/ hist.taken > 0 /\ hist'.seen[hist'.by] # hist.seen[hist'.by]

TriggersOnEdges == [][EdgeHappened]_vars

\* The variables that a constant threshold is compared with in every sample.
ConstantTriggers(r) ==
    {i \in DOMAIN r.varDescr : LET cfg == r.varDescr[i].cfg
                              IN  cfg.type # "none" /\ ~cfg.varThr /\ (cfg.above \/ cfg.below)}

\* "Cannot change variable configuration when recorder is already configured (or
\* even running)", says _FMSTR_RecVarCfg, which CFGVAR calls: a recorder that is
\* configured keeps the constant thresholds that its triggers are compared with.
ThresholdsStay ==
    [][rec.isConfigured /\ rec'.isConfigured =>
          \A i \in ConstantTriggers(rec) : rec'.varDescr[i].thresholdVal = rec.varDescr[i].thresholdVal]_vars

\* Once the trigger is pulled the run ends.
EventuallyStops == (rec.isRunning /\ rec.isStopping) ~> ~rec.isRunning
=============================================================================
