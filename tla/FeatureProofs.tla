--------------------------- MODULE FeatureProofs ---------------------------
(***************************************************************************)
(* Two features behind the protocol that the application takes part in,    *)
(* the recorder and the application commands, and the digests by which     *)
(* passwords are shown.                                                    *)
(*                                                                         *)
(* One recorder, for every size of its memory, every configuration and     *)
(* every sequence of requests, calls and samples: what is computed when it *)
(* is configured stays true of what it samples, the points it reports are  *)
(* the latest of the run in their order, and the trigger lies where it was *)
(* asked for and is pulled by edges that happened.                         *)
(*                                                                         *)
(* Application commands, for any command codes, sizes of the buffers,      *)
(* lengths, and numbers of commands and lost responses: each runs once,    *)
(* and the one buffer holds the arguments, then the response data, of it.  *)
(*                                                                         *)
(* Digests, for every size of a block and of the length, and data of any   *)
(* length in any pieces: the blocks are those of the padded whole.         *)
(***************************************************************************)
EXTENDS Recorder, AppCmd, Digest, FiniteSetTheorems, SequenceTheorems, WellFoundedInduction, TLAPS

\* No product of a number of samples and the size of one wraps in FMSTR_SIZE.
NoWrap ==
    /\ MemSize < SizeRange
    /\ \A c \in MemCfgs : c.totalSmps * (8 * c.varCount) < SizeRange

RecFields ==
    {"config", "varDescr", "totalSmplsCnt", "timeDivCtr", "postTrigger", "stopRecCountDown",
     "writePtr", "endBuffPtr", "pointSize", "isConfigured", "hasData", "isRunning",
     "isVirginCycle", "isStopping"}
VarFields  == {"cfg", "thresholdVal", "trgLastState"}
HistFields == {"run", "taken", "by", "since", "seen"}

Room(r) == BuffSize(r.config.varCount)
-----------------------------------------------------------------------------
(* Arithmetic.                                                             *)

LEMMA LeastNat ==
    ASSUME NEW S \in SUBSET Nat, S # {}
    PROVE  \E i \in S : \A j \in S : i <= j
  <1> DEFINE R == {ss \in Nat \X Nat : ss[1] < ss[2]}
  <1>1. IsWellFoundedOn(R, Nat)
    BY NatLessThanWellFounded DEF OpToRel
  <1> HIDE DEF R
  <1>2. PICK i \in S : \A j \in S : <<j, i>> \notin R
    BY <1>1, WFMin
  <1>3. ASSUME NEW j \in S PROVE i <= j
    <2>1. ~(j < i)
      BY <1>2 DEF R
    <2> QED BY <2>1
  <1> QED BY <1>3

LEMMA Product == ASSUME NEW a \in Nat, NEW b \in Nat PROVE a * b \in Nat
  OBVIOUS

LEMMA Mono ==
    ASSUME NEW a \in Nat, NEW b \in Nat, NEW c \in Nat, b <= c
    PROVE  b * a <= c * a
  <1>1. PICK d \in Nat : c = b + d
    <2>1. c - b \in Nat /\ c = b + (c - b)
      OBVIOUS
    <2> QED BY <2>1
  <1>2. c * a = b * a + d * a
    BY <1>1
  <1>3. d * a >= 0 /\ b * a \in Int /\ d * a \in Int
    OBVIOUS
  <1> QED BY <1>2, <1>3

LEMMA Quotient ==
    ASSUME NEW a \in Nat \ {0}, NEW x \in Nat
    PROVE  /\ x \div a \in Nat /\ (x \div a) * a <= x
           /\ a <= x => x \div a # 0
  OBVIOUS

LEMMA Exact ==
    ASSUME NEW a \in Nat \ {0}, NEW w \in Nat
    PROVE  (w * a) \div a = w
  OBVIOUS

LEMMA Around ==
    ASSUME NEW m \in Nat \ {0}, NEW w \in 0 .. m - 1, NEW k \in 0 .. m - 1
    PROVE  (w + k) % m = IF w + k < m THEN w + k ELSE w + k - m
  OBVIOUS

LEMMA AroundZero ==
    ASSUME NEW m \in Nat \ {0}, NEW k \in 0 .. m - 1
    PROVE  (0 + k) % m = k
  OBVIOUS

\* The cells of point j of size a.
Slot(j, a) == j * a .. j * a + a - 1

LEMMA SlotLemma ==
    ASSUME NEW a \in Nat \ {0}, NEW m \in Nat, NEW j \in 0 .. m - 1
    PROVE  /\ j * a \in Nat /\ j * a + a <= m * a
           /\ (j + 1) * a = j * a + a
           /\ \A w \in 0 .. m - 1 : w # j => \A b \in Slot(j, a) : b \notin Slot(w, a)
  <1>1. \A i \in Nat : i * a \in Nat /\ (i + 1) * a = i * a + a
    OBVIOUS
  <1>2. (j + 1) * a <= m * a
    BY Mono
  <1>3. ASSUME NEW w \in 0 .. m - 1, w # j, NEW b \in Slot(j, a)
        PROVE  b \notin Slot(w, a)
    <2>1. CASE w < j
      <3>1. (w + 1) * a <= j * a
        BY <2>1, Mono
      <3> QED BY <1>1, <3>1 DEF Slot
    <2>2. CASE j < w
      <3>1. (j + 1) * a <= w * a
        BY <2>2, Mono
      <3> QED BY <1>1, <3>1 DEF Slot
    <2> QED BY <1>3, <2>1, <2>2
  <1> QED BY <1>1, <1>2, <1>3
-----------------------------------------------------------------------------
(* The size of a point.                                                    *)

Recorded(v) == IF v.cfg.trgOnly THEN 0 ELSE v.cfg.size

\* g is the sum of what is recorded of the first m variables.
Sums(g, descr, m) ==
    \A i \in 0 .. m : g[i] = IF i = 0 THEN 0 ELSE g[i - 1] + Recorded(descr[i])

LEMMA SumsLemma ==
    ASSUME NEW descr, NEW n \in Nat
    PROVE  \E g : Sums(g, descr, n) /\ PointBytes(descr, n) = g[n]
  <1> DEFINE Loop(g) == [i \in 0 .. n |-> IF i = 0 THEN 0
                            ELSE g[i - 1] + IF descr[i].cfg.trgOnly THEN 0 ELSE descr[i].cfg.size]
             Bad == {m \in Nat : ~\E g : Sums(g, descr, m)}
  <1>1. Bad = {}
    <2>1. SUFFICES ASSUME Bad # {} PROVE FALSE
      OBVIOUS
    <2>2. PICK m \in Bad : \A j \in Bad : m <= j
      <3>1. Bad \in SUBSET Nat
        OBVIOUS
      <3> HIDE DEF Bad
      <3> QED BY <2>1, <3>1, LeastNat
    <2>3. CASE m = 0
      <3>1. Sums([i \in 0 .. 0 |-> 0], descr, 0)
        BY DEF Sums
      <3> QED BY <2>2, <2>3, <3>1
    <2>4. CASE m # 0
      <3>1. m \in Nat /\ m - 1 \in Nat /\ m - 1 \notin Bad
        BY <2>2, <2>4
      <3>2. PICK g : Sums(g, descr, m - 1)
        BY <3>1
      <3>3. PICK h : h = [i \in 0 .. m |-> IF i = m THEN g[m - 1] + Recorded(descr[m]) ELSE g[i]]
        OBVIOUS
      <3>4. ASSUME NEW i \in 0 .. m
            PROVE  h[i] = IF i = 0 THEN 0 ELSE h[i - 1] + Recorded(descr[i])
        <4>1. CASE i = m
          BY <2>4, <3>1, <3>3, <4>1
        <4>2. CASE i # m
          <5>1. i \in 0 .. m - 1 /\ (i # 0 => i - 1 \in 0 .. m - 1)
            BY <3>1, <4>2
          <5> QED BY <3>2, <3>3, <4>2, <5>1 DEF Sums
        <4> QED BY <4>1, <4>2
      <3>5. Sums(h, descr, m)
        BY <3>4 DEF Sums
      <3> QED BY <2>2, <3>5
    <2> QED BY <2>3, <2>4
  <1>2. PICK f : Sums(f, descr, n)
    BY <1>1
  <1>3. PICK g : g = [i \in 0 .. n |-> f[i]]
    OBVIOUS
  <1>4. g = Loop(g)
    BY <1>2, <1>3 DEF Sums, Recorded
  <1>5. PICK s : s = CHOOSE h : h = Loop(h)
    OBVIOUS
  <1>6. s = Loop(s)
    <2> HIDE DEF Loop
    <2> QED BY <1>4, <1>5
  <1>7. Sums(s, descr, n)
    BY <1>6 DEF Sums, Recorded
  <1>8. PointBytes(descr, n) = s[n]
    BY <1>5 DEF PointBytes
  <1> QED BY <1>7, <1>8

\* A point is no larger than its variables, and depends on nothing but their
\* configuration.
LEMMA PointBytesLemma ==
    ASSUME NEW n \in Nat, NEW descr,
           \A i \in 1 .. n : descr[i].cfg.size \in ValidSizes
    PROVE  PointBytes(descr, n) \in 0 .. 8 * n
  <1>1. PICK g : Sums(g, descr, n) /\ PointBytes(descr, n) = g[n]
    BY SumsLemma
  <1>2. \A i \in 1 .. n : Recorded(descr[i]) \in 0 .. 8
    BY DEF Recorded, ValidSizes
  <1> DEFINE Bad == {i \in 0 .. n : g[i] \notin 0 .. 8 * i}
  <1>3. Bad = {}
    <2>1. SUFFICES ASSUME Bad # {} PROVE FALSE
      OBVIOUS
    <2>2. PICK i \in Bad : \A j \in Bad : i <= j
      <3>1. Bad \in SUBSET Nat
        OBVIOUS
      <3> HIDE DEF Bad
      <3> QED BY <2>1, <3>1, LeastNat
    <2>3. i # 0
      BY <1>1, <2>2 DEF Sums
    <2>4. i \in 1 .. n /\ i - 1 \in 0 .. n /\ g[i - 1] \in 0 .. 8 * (i - 1)
      BY <2>2, <2>3
    <2>5. g[i] = g[i - 1] + Recorded(descr[i])
      BY <1>1, <2>3, <2>4 DEF Sums
    <2> QED BY <1>2, <2>2, <2>4, <2>5
  <1> QED BY <1>1, <1>3

LEMMA SameBytes ==
    ASSUME NEW n \in Nat, NEW descr, NEW other,
           \A i \in 1 .. n : other[i].cfg = descr[i].cfg
    PROVE  PointBytes(other, n) = PointBytes(descr, n)
  <1>1. PICK g : Sums(g, descr, n) /\ PointBytes(descr, n) = g[n]
    BY SumsLemma
  <1>2. PICK h : Sums(h, other, n) /\ PointBytes(other, n) = h[n]
    BY SumsLemma
  <1>3. \A i \in 1 .. n : Recorded(other[i]) = Recorded(descr[i])
    BY DEF Recorded
  <1> DEFINE Bad == {i \in 0 .. n : h[i] # g[i]}
  <1>4. Bad = {}
    <2>1. SUFFICES ASSUME Bad # {} PROVE FALSE
      OBVIOUS
    <2>2. PICK i \in Bad : \A j \in Bad : i <= j
      <3>1. Bad \in SUBSET Nat
        OBVIOUS
      <3> HIDE DEF Bad
      <3> QED BY <2>1, <3>1, LeastNat
    <2>3. i # 0
      BY <1>1, <1>2, <2>2 DEF Sums
    <2>4. i \in 1 .. n /\ i - 1 \in 0 .. n /\ h[i - 1] = g[i - 1]
      BY <2>2, <2>3
    <2>5. g[i] = g[i - 1] + Recorded(descr[i]) /\ h[i] = h[i - 1] + Recorded(other[i])
      BY <1>1, <1>2, <2>3, <2>4 DEF Sums
    <2> QED BY <1>3, <2>2, <2>4, <2>5
  <1> QED BY <1>1, <1>2, <1>4
-----------------------------------------------------------------------------
(* The inductive invariant, of a recorder r, the ages c of its cells and   *)
(* the history h of its run.                                               *)

ConfigOK(cfg) ==
    /\ cfg.varCount \in Nat /\ cfg.totalSmps \in Nat /\ cfg.preTrigger \in Nat
    /\ cfg.varCount * VarSize <= MemSize
    /\ NoWrap => cfg.totalSmps * (8 * cfg.varCount) < SizeRange

VarOK(v) == DOMAIN v = VarFields /\ v.trgLastState \in BOOLEAN

RecOK(r) ==
    /\ DOMAIN r = RecFields /\ ConfigOK(r.config)
    /\ r.varDescr = [i \in 1 .. r.config.varCount |-> r.varDescr[i]]
    /\ \A i \in 1 .. r.config.varCount : VarOK(r.varDescr[i])
    /\ r.isConfigured \in BOOLEAN /\ r.hasData \in BOOLEAN /\ r.isRunning \in BOOLEAN
    /\ r.isVirginCycle \in BOOLEAN /\ r.isStopping \in BOOLEAN

\* What CheckConfiguration computes; until then no flag is set.
Layout(r) ==
    /\ r.isConfigured =>
          /\ r.pointSize = PointBytes(r.varDescr, r.config.varCount)
          /\ r.pointSize \in 1 .. Room(r) /\ r.totalSmplsCnt \in Nat \ {0}
          /\ r.postTrigger = PostTrigger(r.totalSmplsCnt, r.config.preTrigger)
          /\ NoWrap => /\ r.endBuffPtr = r.totalSmplsCnt * r.pointSize
                       /\ r.totalSmplsCnt * r.pointSize <= Room(r)
    /\ ~r.isConfigured =>
          ~r.hasData /\ ~r.isRunning /\ ~r.isVirginCycle /\ ~r.isStopping

CellsOK(r, c) ==
    /\ c = [b \in 0 .. Room(r) - 1 |-> c[b]]
    /\ \A b \in 0 .. Room(r) - 1 : c[b] \in Nat

HistOK(h) == DOMAIN h = HistFields /\ h.taken \in Nat /\ h.since \in Int /\ h.by \in Int

\* The age of point j of m when the next one to be written is w.
AgeOf(j, w, m) == IF j < w THEN w - 1 - j ELSE w - 1 - j + m

\* Point w is the next one; those behind it are the latest, back to the first
\* of the run or all around the buffer.
At(r, c, h, w) ==
    /\ r.writePtr = w * r.pointSize
    /\ IF r.isVirginCycle THEN h.taken = w ELSE h.taken >= r.totalSmplsCnt
    /\ \A j \in 0 .. r.totalSmplsCnt - 1 :
          (r.isVirginCycle => j < w) =>
              \A b \in Slot(j, r.pointSize) : c[b] = AgeOf(j, w, r.totalSmplsCnt)

Position(r, c, h) ==
    r.isRunning \/ r.hasData => \E w \in 0 .. r.totalSmplsCnt - 1 : At(r, c, h, w)

\* A run goes on until the samples behind its trigger are counted.
Run(r, h) ==
    /\ r.isRunning => h.run = "on"
    /\ h.run = "on" => r.isConfigured
    /\ h.by > 0 => ~r.isVirginCycle
    /\ r.isRunning /\ ~r.isStopping => h.by = NotPulled /\ h.since = -1

Counted(r, h) ==
    /\ r.isRunning /\ r.isStopping =>
          /\ h.by # NotPulled /\ h.since >= -1 /\ r.stopRecCountDown \in Nat
          /\ r.stopRecCountDown + h.since = r.postTrigger - 1
    /\ h.run = "on" /\ ~r.isRunning =>
          h.by # NotPulled /\ h.since = r.postTrigger /\ r.hasData

\* Each variable's last state is its comparison in the sample before.
Edges(r, h) ==
    r.isRunning /\ ~r.isStopping =>
        /\ ~r.isVirginCycle => h.taken > 0
        /\ h.taken > 0 => \A i \in 1 .. r.config.varCount :
              Triggering(r.varDescr[i]) => r.varDescr[i].trgLastState = h.seen[i]

\* What holds in the middle of a sample, too.
Core(r, c, h) ==
    /\ RecOK(r) /\ Layout(r) /\ CellsOK(r, c) /\ HistOK(h) /\ Run(r, h)
    /\ NoWrap => Position(r, c, h) /\ Counted(r, h)

Inv(r, c, h) == Core(r, c, h) /\ Edges(r, h)

IInv == Inv(rec, cell, hist)

LEMMA RoomLemma ==
    ASSUME NEW r, ConfigOK(r.config)
    PROVE  Room(r) \in Nat
  <1>1. PICK n \in Nat : n = r.config.varCount
    BY DEF ConfigOK
  <1>2. n * VarSize \in Nat
    BY <1>1, SizesAssumption, Product
  <1> QED BY <1>1, <1>2, SizesAssumption DEF ConfigOK, Room, BuffSize

LEMMA AgeLemma ==
    ASSUME NEW r, ConfigOK(r.config), NEW c, c = Age(BuffSize(r.config.varCount))
    PROVE  CellsOK(r, c)
  <1>1. PICK n \in Nat : n = BuffSize(r.config.varCount)
    BY RoomLemma DEF Room
  <1>2. c = [b \in 0 .. n - 1 |-> n]
    BY <1>1 DEF Age
  <1> QED BY <1>1, <1>2 DEF CellsOK, Room

LEMMA NewRunLemma ==
    ASSUME NEW run, NEW n, NEW h, h = NewRun(run, n)
    PROVE  HistOK(h) /\ h.run = run /\ h.taken = 0 /\ h.by = NotPulled /\ h.since = -1
  BY DEF NewRun, HistOK, HistFields, NotPulled

LEMMA ClearedLemma ==
    ASSUME NEW cfg, ConfigOK(cfg), NEW q, q = Cleared(cfg),
           NEW c, c = Age(BuffSize(cfg.varCount)), NEW h, h = NewRun("none", cfg.varCount)
    PROVE  Inv(q, c, h)
  <1>1. /\ DOMAIN q = RecFields /\ q.config = cfg
        /\ q.varDescr = [i \in 1 .. cfg.varCount |-> NoVar]
    BY DEF Cleared, RecFields
  <1>2. q.isConfigured = FALSE /\ q.hasData = FALSE
    BY DEF Cleared
  <1>3. q.isRunning = FALSE /\ q.isVirginCycle = FALSE /\ q.isStopping = FALSE
    BY DEF Cleared
  <1>4. VarOK(NoVar)
    BY DEF VarOK, NoVar, VarFields
  <1>5. RecOK(q)
    <2>1. /\ q.isConfigured \in BOOLEAN /\ q.hasData \in BOOLEAN /\ q.isRunning \in BOOLEAN
          /\ q.isVirginCycle \in BOOLEAN /\ q.isStopping \in BOOLEAN
      BY <1>2, <1>3, Zenon
    <2>2. \A i \in 1 .. q.config.varCount : VarOK(q.varDescr[i])
      BY <1>1, <1>4
    <2>3. q.varDescr = [i \in 1 .. q.config.varCount |-> q.varDescr[i]]
      BY <1>1
    <2> QED BY <1>1, <2>1, <2>2, <2>3 DEF RecOK
  <1>6. Layout(q)
    BY <1>2, <1>3 DEF Layout
  <1>7. CellsOK(q, c)
    BY <1>1, AgeLemma
  <1>8. HistOK(h) /\ h.run = "none" /\ h.by = NotPulled
    BY NewRunLemma
  <1>9. Run(q, h)
    BY <1>3, <1>8 DEF Run, NotPulled
  <1>10. Edges(q, h)
    BY <1>3 DEF Edges
  <1>11. Position(q, c, h) /\ Counted(q, h)
    BY <1>2, <1>3, <1>8 DEF Position, Counted
  <1> QED BY <1>5, <1>6, <1>7, <1>8, <1>9, <1>10, <1>11 DEF Inv, Core

\* q has the configuration of r and all that is computed from it.
Keeps(q, r) ==
    /\ DOMAIN q = RecFields /\ q.config = r.config /\ q.varDescr = r.varDescr
    /\ q.totalSmplsCnt = r.totalSmplsCnt /\ q.postTrigger = r.postTrigger
    /\ q.endBuffPtr = r.endBuffPtr /\ q.pointSize = r.pointSize
    /\ q.isConfigured = r.isConfigured

LEMMA KeepsLemma ==
    ASSUME NEW r, RecOK(r), Layout(r), r.isConfigured, NEW q, Keeps(q, r),
           q.hasData \in BOOLEAN, q.isRunning \in BOOLEAN,
           q.isVirginCycle \in BOOLEAN, q.isStopping \in BOOLEAN
    PROVE  RecOK(q) /\ Layout(q) /\ Room(q) = Room(r)
  BY DEF Keeps, RecOK, Layout, Room

LEMMA StartedFields ==
    ASSUME NEW r, DOMAIN r = RecFields, NEW q, q = Started(r)
    PROVE  /\ Keeps(q, r) /\ q.writePtr = 0
           /\ q.isRunning /\ ~q.hasData /\ q.isVirginCycle /\ ~q.isStopping
           /\ q.hasData \in BOOLEAN /\ q.isRunning \in BOOLEAN
           /\ q.isVirginCycle \in BOOLEAN /\ q.isStopping \in BOOLEAN
  <1>1. Keeps(q, r) /\ q.writePtr = 0
    BY DEF Started, RecFields, Keeps
  <1>2. q.isRunning = TRUE /\ q.hasData = FALSE /\ q.isVirginCycle = TRUE /\ q.isStopping = FALSE
    BY DEF Started, RecFields
  <1> QED BY <1>1, <1>2, Zenon

LEMMA StartedLemma ==
    ASSUME NEW r, NEW c, NEW h, Inv(r, c, h), r.isConfigured,
           NEW q, q = Started(r),
           NEW d, d = Age(BuffSize(r.config.varCount)), NEW g, g = NewRun("on", r.config.varCount)
    PROVE  Inv(q, d, g)
  <1>1. RecOK(r) /\ Layout(r)
    BY DEF Inv, Core
  <1>2. /\ Keeps(q, r) /\ q.writePtr = 0
        /\ q.isRunning /\ ~q.hasData /\ q.isVirginCycle /\ ~q.isStopping
        /\ q.hasData \in BOOLEAN /\ q.isRunning \in BOOLEAN
        /\ q.isVirginCycle \in BOOLEAN /\ q.isStopping \in BOOLEAN
    BY <1>1, StartedFields DEF RecOK
  <1>3. RecOK(q) /\ Layout(q)
    BY <1>1, <1>2, KeepsLemma
  <1>4. q.isConfigured
    BY <1>2 DEF Keeps
  <1>5. CellsOK(q, d)
    BY <1>2, <1>3, AgeLemma DEF Keeps, RecOK
  <1>6. HistOK(g) /\ g.run = "on" /\ g.taken = 0 /\ g.by = NotPulled /\ g.since = -1
    BY NewRunLemma
  <1>7. Run(q, g)
    BY <1>2, <1>4, <1>6 DEF Run, NotPulled
  <1>8. Edges(q, g)
    BY <1>2, <1>6 DEF Edges
  <1>9. Counted(q, g)
    BY <1>2 DEF Counted
  <1>10. Position(q, d, g)
    <2>1. q.totalSmplsCnt \in Nat \ {0} /\ q.pointSize \in Nat
      <3>1. Room(q) \in Nat
        BY <1>3, RoomLemma DEF RecOK
      <3> QED BY <1>3, <1>4, <3>1 DEF Layout
    <2>2. At(q, d, g, 0)
      BY <1>2, <1>6, <2>1 DEF At
    <2> QED BY <2>1, <2>2 DEF Position
  <1> QED BY <1>3, <1>5, <1>6, <1>7, <1>8, <1>9, <1>10 DEF Inv, Core

\* What CheckConfiguration makes of a recorder it accepts.
Accepted(r, total, post, end, pointSize) ==
    [r EXCEPT !.totalSmplsCnt = total, !.postTrigger = post, !.endBuffPtr = end,
              !.pointSize = pointSize, !.isConfigured = TRUE, !.hasData = FALSE,
              !.isRunning = FALSE, !.isVirginCycle = FALSE, !.isStopping = FALSE]

LEMMA AcceptedLemma ==
    ASSUME NEW r, DOMAIN r = RecFields, NEW total, NEW post, NEW end, NEW pointSize,
           NEW q, q = Accepted(r, total, post, end, pointSize)
    PROVE  /\ DOMAIN q = RecFields /\ q.config = r.config /\ q.varDescr = r.varDescr
           /\ q.totalSmplsCnt = total /\ q.postTrigger = post
           /\ q.endBuffPtr = end /\ q.pointSize = pointSize
           /\ q.isConfigured /\ ~q.hasData /\ ~q.isRunning /\ ~q.isVirginCycle /\ ~q.isStopping
           /\ q.isConfigured \in BOOLEAN /\ q.hasData \in BOOLEAN /\ q.isRunning \in BOOLEAN
           /\ q.isVirginCycle \in BOOLEAN /\ q.isStopping \in BOOLEAN
  <1>1. /\ DOMAIN q = RecFields /\ q.config = r.config /\ q.varDescr = r.varDescr
        /\ q.totalSmplsCnt = total /\ q.postTrigger = post
        /\ q.endBuffPtr = end /\ q.pointSize = pointSize
    BY DEF Accepted, RecFields
  <1>2. /\ q.isConfigured = TRUE /\ q.hasData = FALSE /\ q.isRunning = FALSE
        /\ q.isVirginCycle = FALSE /\ q.isStopping = FALSE
    BY DEF Accepted, RecFields
  <1> QED BY <1>1, <1>2, Zenon

LEMMA SizeLemma ==
    ASSUME NEW x \in Nat, x < SizeRange
    PROVE  Size(x) = x
  BY SizesAssumption DEF Size

Chosen(r, size, wanted, total, end) ==
    \/ /\ r.config.totalSmps # 0 /\ wanted <= Room(r)
       /\ total = r.config.totalSmps /\ end = wanted
    \/ /\ ~(r.config.totalSmps # 0 /\ wanted <= Room(r))
       /\ total = Room(r) \div size /\ end = Size(total * size)

\* The number of samples is the one asked for if the buffer has room for it,
\* and otherwise what it has room for; in either case all of them fit.
LEMMA TotalLemma ==
    ASSUME NEW r, ConfigOK(r.config), NEW size \in 1 .. Room(r), size <= 8 * r.config.varCount,
           NEW wanted, wanted = Size(r.config.totalSmps * size),
           NEW total, NEW end, Chosen(r, size, wanted, total, end)
    PROVE  /\ total \in Nat \ {0}
           /\ NoWrap => end = total * size /\ total * size <= Room(r)
  <1>1. PICK room \in Nat : room = Room(r)
    BY RoomLemma
  <1>2. PICK n \in Nat, m \in Nat : n = r.config.varCount /\ m = r.config.totalSmps
    BY DEF ConfigOK
  <1>3. size \in Nat \ {0} /\ size <= room
    BY <1>1
  <1>4. total \in Nat \ {0}
    BY <1>1, <1>2, <1>3, Quotient DEF Chosen
  <1>5. ASSUME NoWrap PROVE end = total * size /\ total * size <= Room(r)
    <2>1. room < SizeRange
      <3>1. n * VarSize \in Nat
        BY <1>2, SizesAssumption, Product
      <3> QED BY <1>1, <1>2, <1>5, <3>1, SizesAssumption DEF Room, BuffSize, NoWrap
    <2>2. CASE r.config.totalSmps # 0 /\ wanted <= Room(r)
      <3>1. size * m <= (8 * n) * m
        BY <1>2, <1>3, Mono
      <3>2. m * (8 * n) < SizeRange
        BY <1>2, <1>5 DEF ConfigOK
      <3>3. m * size \in Nat /\ m * size = size * m /\ m * (8 * n) = (8 * n) * m
        BY <1>3, Product
      <3>4. m * size < SizeRange
        BY <3>1, <3>2, <3>3, SizesAssumption
      <3>5. wanted = m * size
        BY <1>2, <3>3, <3>4, SizeLemma
      <3>6. total = m /\ end = wanted
        BY <1>2, <2>2 DEF Chosen
      <3> QED BY <1>1, <2>2, <3>5, <3>6
    <2>3. CASE ~(r.config.totalSmps # 0 /\ wanted <= Room(r))
      <3>1. total * size <= room /\ total * size \in Nat
        BY <1>1, <1>3, <1>4, <2>3, Quotient, Product DEF Chosen
      <3>2. total * size < SizeRange
        BY <1>1, <2>1, <3>1, SizesAssumption
      <3>3. end = Size(total * size)
        BY <2>3 DEF Chosen
      <3>4. end = total * size
        BY <3>1, <3>2, <3>3, SizeLemma
      <3> QED BY <1>1, <3>1, <3>4
    <2> QED BY <2>2, <2>3
  <1> QED BY <1>4, <1>5

LEMMA CheckedLemma ==
    ASSUME NEW r, NEW c, NEW h, Inv(r, c, h), NEW q, q = CheckConfiguration(r)
    PROVE  /\ Inv(q, c, h) /\ q.config = r.config
           /\ q.isRunning => r.isRunning
           /\ r.isConfigured => q = r
  <1>1. CASE r.isConfigured \/ ~Configurable(r)
    BY <1>1 DEF CheckConfiguration
  <1>2. CASE ~r.isConfigured /\ Configurable(r)
    <2>1. PICK size : size = PointBytes(r.varDescr, r.config.varCount)
      OBVIOUS
    <2>2. PICK wanted : wanted = Size(r.config.totalSmps * size)
      OBVIOUS
    <2>3. PICK asked \in BOOLEAN :
            asked = (r.config.totalSmps # 0 /\ wanted <= BuffSize(r.config.varCount))
      OBVIOUS
    <2>4. PICK total : total = IF asked THEN r.config.totalSmps
                               ELSE BuffSize(r.config.varCount) \div size
      OBVIOUS
    <2>5. PICK post, end : /\ post = PostTrigger(total, r.config.preTrigger)
                           /\ end = IF asked THEN wanted ELSE Size(total * size)
      OBVIOUS
    <2>6. q = Accepted(r, total, post, end, size)
      BY <1>2, <2>1, <2>2, <2>3, <2>4, <2>5 DEF CheckConfiguration, Accepted
    <2>7. RecOK(r) /\ ConfigOK(r.config) /\ DOMAIN r = RecFields
      BY DEF Inv, Core, RecOK
    <2>8. /\ DOMAIN q = RecFields /\ q.config = r.config /\ q.varDescr = r.varDescr
          /\ q.totalSmplsCnt = total /\ q.postTrigger = post
          /\ q.endBuffPtr = end /\ q.pointSize = size
          /\ q.isConfigured /\ ~q.hasData /\ ~q.isRunning /\ ~q.isVirginCycle /\ ~q.isStopping
          /\ q.isConfigured \in BOOLEAN /\ q.hasData \in BOOLEAN /\ q.isRunning \in BOOLEAN
          /\ q.isVirginCycle \in BOOLEAN /\ q.isStopping \in BOOLEAN
      BY <2>6, <2>7, AcceptedLemma
    <2>9. size \in 1 .. Room(r) /\ size <= 8 * r.config.varCount
      <3>1. PICK n \in Nat : n = r.config.varCount
        BY <2>7 DEF ConfigOK
      <3>2. \A i \in 1 .. n : r.varDescr[i].cfg.size \in ValidSizes
        BY <1>2, <2>7, <3>1 DEF Configurable, RecOK
      <3>3. size \in 0 .. 8 * n
        BY <2>1, <3>1, <3>2, PointBytesLemma
      <3>4. size > 0 /\ size <= Room(r) /\ Room(r) \in Nat
        BY <1>2, <2>1, <2>7, RoomLemma DEF Configurable, Room
      <3> QED BY <3>1, <3>3, <3>4
    <2>10. /\ total \in Nat \ {0}
           /\ NoWrap => end = total * size /\ total * size <= Room(r)
      <3>1. BuffSize(r.config.varCount) = Room(r)
        BY DEF Room
      <3>2. ConfigOK(r.config) /\ size \in 1 .. Room(r) /\ size <= 8 * r.config.varCount
        BY <2>7, <2>9
      <3>3. Chosen(r, size, wanted, total, end)
        BY <2>3, <2>4, <2>5, <3>1 DEF Chosen
      <3> QED BY <2>2, <3>2, <3>3, TotalLemma
    <2>11. RecOK(q) /\ Room(q) = Room(r)
      BY <2>7, <2>8 DEF RecOK, Room
    <2>12. Layout(q)
      BY <2>1, <2>5, <2>8, <2>9, <2>10, <2>11 DEF Layout
    <2>13. CellsOK(q, c) /\ HistOK(h)
      BY <2>11 DEF Inv, Core, CellsOK
    <2>14. h.run # "on"
      BY <1>2 DEF Inv, Core, Run
    <2>15. Run(q, h) /\ Edges(q, h) /\ Position(q, c, h) /\ Counted(q, h)
      BY <2>8, <2>14 DEF Run, Edges, Position, Counted
    <2> QED BY <1>2, <2>8, <2>11, <2>12, <2>13, <2>15 DEF Inv, Core
  <1> QED BY <1>1, <1>2

LEMMA TriggeredFields ==
    ASSUME NEW r, RecOK(r), NEW q, q = Triggered(r)
    PROVE  IF r.isConfigured /\ r.isRunning /\ ~r.isStopping
           THEN /\ Keeps(q, r) /\ q.writePtr = r.writePtr
                /\ q.isStopping = TRUE /\ q.stopRecCountDown = r.postTrigger
                /\ q.hasData = r.hasData /\ q.isRunning = r.isRunning
                /\ q.isVirginCycle = r.isVirginCycle
           ELSE q = r
  <1>1. DOMAIN r = RecFields
    BY DEF RecOK
  <1>2. CASE r.isConfigured /\ r.isRunning /\ ~r.isStopping
    <2>1. q = [r EXCEPT !.isStopping = TRUE, !.stopRecCountDown = r.postTrigger]
      BY <1>2 DEF Triggered
    <2>2. /\ Keeps(q, r) /\ q.writePtr = r.writePtr /\ q.stopRecCountDown = r.postTrigger
          /\ q.hasData = r.hasData /\ q.isRunning = r.isRunning
          /\ q.isVirginCycle = r.isVirginCycle
      BY <1>1, <2>1 DEF Keeps, RecFields
    <2>3. q.isStopping = TRUE
      BY <1>1, <2>1 DEF RecFields
    <2> QED BY <1>2, <2>2, <2>3, Zenon
  <1>3. CASE ~(r.isConfigured /\ r.isRunning /\ ~r.isStopping)
    BY <1>3 DEF Triggered
  <1> QED BY <1>2, <1>3

\* The history h with another trigger.
WithBy(h, by) == [h EXCEPT !.by = by]

LEMMA WithByLemma ==
    ASSUME NEW h, DOMAIN h = HistFields, NEW by, NEW g, g = WithBy(h, by)
    PROVE  /\ DOMAIN g = HistFields /\ g.by = by /\ g.run = h.run /\ g.taken = h.taken
           /\ g.since = h.since /\ g.seen = h.seen
  BY DEF WithBy, HistFields

LEMMA PostLemma ==
    ASSUME NEW r, RecOK(r), Layout(r), r.isConfigured
    PROVE  r.postTrigger \in 0 .. r.totalSmplsCnt - 1
  BY DEF RecOK, ConfigOK, Layout, PostTrigger

\* A trigger, pulled by a call or by a variable.
LEMMA TriggeredLemma ==
    ASSUME NEW r, NEW c, NEW h, Core(r, c, h), NEW q, q = Triggered(r),
           NEW by \in Int, by # NotPulled, by > 0 => ~r.isVirginCycle,
           NEW g, g = Pulled(r, q, h, by)
    PROVE  Core(q, c, g) /\ (Edges(r, h) => Edges(q, g))
  <1>1. RecOK(r) /\ Layout(r) /\ HistOK(h)
    BY DEF Core
  <1>2. CASE ~(r.isConfigured /\ r.isRunning /\ ~r.isStopping)
    <2>1. q = r
      BY <1>1, <1>2, TriggeredFields
    <2>2. g = h
      BY <2>1 DEF Pulled
    <2> QED BY <2>1, <2>2
  <1>3. CASE r.isConfigured /\ r.isRunning /\ ~r.isStopping
    <2>1. /\ Keeps(q, r) /\ q.writePtr = r.writePtr
          /\ q.isStopping = TRUE /\ q.stopRecCountDown = r.postTrigger
          /\ q.hasData = r.hasData /\ q.isRunning = r.isRunning
          /\ q.isVirginCycle = r.isVirginCycle
      BY <1>1, <1>3, TriggeredFields
    <2>2. q.isStopping \in BOOLEAN /\ q.isStopping
      BY <2>1, Zenon
    <2>3. RecOK(q) /\ Layout(q) /\ Room(q) = Room(r)
      <3>1. /\ q.hasData \in BOOLEAN /\ q.isRunning \in BOOLEAN
            /\ q.isVirginCycle \in BOOLEAN
        BY <1>1, <2>1, Zenon DEF RecOK
      <3> QED BY <1>1, <1>3, <2>1, <2>2, <3>1, KeepsLemma
    <2>4. g = WithBy(h, by)
      BY <1>3, <2>2 DEF Pulled, WithBy
    <2>5. /\ DOMAIN g = HistFields /\ g.by = by /\ g.run = h.run /\ g.taken = h.taken
          /\ g.since = h.since /\ g.seen = h.seen
      BY <1>1, <2>4, WithByLemma DEF HistOK
    <2>6. CellsOK(q, c) /\ HistOK(g)
      BY <1>1, <2>3, <2>5 DEF Core, CellsOK, HistOK
    <2>7. Run(q, g)
      BY <1>3, <2>1, <2>2, <2>5 DEF Core, Run, Keeps
    <2>8. Edges(q, g)
      BY <2>2 DEF Edges
    <2>9. ASSUME NoWrap PROVE Position(q, c, g)
      <3>1. \A w \in 0 .. r.totalSmplsCnt - 1 : At(r, c, h, w) => At(q, c, g, w)
        BY <2>1, <2>5 DEF At, Keeps
      <3>2. Position(r, c, h)
        BY <2>9 DEF Core
      <3> QED BY <2>1, <3>1, <3>2 DEF Position, Keeps
    <2>10. Counted(q, g)
      <3>1. h.since = -1
        BY <1>3 DEF Core, Run
      <3>2. q.postTrigger = r.postTrigger /\ r.postTrigger \in Nat
        BY <1>1, <1>3, <2>1, PostLemma DEF Keeps, Layout
      <3>3. q.isRunning
        BY <1>3, <2>1
      <3> QED BY <2>1, <2>2, <2>5, <3>1, <3>2, <3>3 DEF Counted
    <2> QED BY <2>3, <2>6, <2>7, <2>8, <2>9, <2>10 DEF Core
  <1> QED BY <1>2, <1>3
-----------------------------------------------------------------------------
(* Steps that change variables, and the calls.                             *)

\* q has all that the invariant knows of r but the variables.
Else(q, r) ==
    /\ DOMAIN q = RecFields /\ q.config = r.config
    /\ q.totalSmplsCnt = r.totalSmplsCnt /\ q.postTrigger = r.postTrigger
    /\ q.stopRecCountDown = r.stopRecCountDown /\ q.writePtr = r.writePtr
    /\ q.endBuffPtr = r.endBuffPtr /\ q.pointSize = r.pointSize
    /\ q.isConfigured = r.isConfigured /\ q.hasData = r.hasData
    /\ q.isRunning = r.isRunning /\ q.isVirginCycle = r.isVirginCycle
    /\ q.isStopping = r.isStopping

VarsOK(d, n) == d = [i \in 1 .. n |-> d[i]] /\ \A i \in 1 .. n : VarOK(d[i])

SameCfg(d, e, n)   == \A i \in 1 .. n : d[i].cfg = e[i].cfg
SameState(d, e, n) == \A i \in 1 .. n : d[i].trgLastState = e[i].trgLastState

\* The configuration of a variable changes only before it is taken over.
LEMMA VarsLemma ==
    ASSUME NEW r, NEW c, NEW h, Core(r, c, h), NEW q, Else(q, r),
           VarsOK(q.varDescr, r.config.varCount),
           r.isConfigured => SameCfg(q.varDescr, r.varDescr, r.config.varCount)
    PROVE  /\ Core(q, c, h)
           /\ SameState(q.varDescr, r.varDescr, r.config.varCount) /\ Edges(r, h) => Edges(q, h)
  <1>1. RecOK(r) /\ Layout(r)
    BY DEF Core
  <1>2. RecOK(q) /\ Room(q) = Room(r)
    BY <1>1 DEF RecOK, Else, VarsOK, Room
  <1>3. ASSUME r.isConfigured
        PROVE  PointBytes(q.varDescr, q.config.varCount) = PointBytes(r.varDescr, r.config.varCount)
    <2>1. PICK n \in Nat : n = r.config.varCount
      BY <1>1 DEF RecOK, ConfigOK
    <2>2. \A i \in 1 .. n : q.varDescr[i].cfg = r.varDescr[i].cfg
      BY <1>3, <2>1 DEF SameCfg
    <2>3. q.config = r.config
      BY DEF Else
    <2>4. PICK d, e : d = q.varDescr /\ e = r.varDescr
      OBVIOUS
    <2>5. PointBytes(d, n) = PointBytes(e, n)
      <3>1. n \in Nat /\ \A i \in 1 .. n : d[i].cfg = e[i].cfg
        BY <2>1, <2>2, <2>4
      <3> QED BY <3>1, SameBytes
    <2> QED BY <2>1, <2>3, <2>4, <2>5
  <1>4. Layout(q)
    BY <1>1, <1>2, <1>3 DEF Layout, Else
  <1>5. CellsOK(q, c) /\ HistOK(h)
    BY <1>2 DEF Core, CellsOK
  <1>6. Run(q, h)
    BY DEF Core, Run, Else
  <1>7. ASSUME NoWrap PROVE Position(q, c, h) /\ Counted(q, h)
    <2>1. Position(r, c, h) /\ Counted(r, h)
      BY <1>7 DEF Core
    <2>2. \A w : At(r, c, h, w) => At(q, c, h, w)
      BY DEF At, Else
    <2> QED BY <2>1, <2>2 DEF Position, Counted, Else
  <1>8. ASSUME SameState(q.varDescr, r.varDescr, r.config.varCount), Edges(r, h)
        PROVE  Edges(q, h)
    <2>1. CASE r.isConfigured
      BY <1>8, <2>1 DEF Edges, Else, SameState, SameCfg, Triggering
    <2>2. CASE ~r.isConfigured
      BY <1>1, <2>2 DEF Edges, Else, Layout
    <2> QED BY <2>1, <2>2
  <1> QED BY <1>2, <1>4, <1>5, <1>6, <1>7, <1>8 DEF Core

\* r with another d for its variables.
WithVars(r, d) == [r EXCEPT !.varDescr = d]

LEMMA WithVarsLemma ==
    ASSUME NEW r, DOMAIN r = RecFields, NEW d, NEW q, q = WithVars(r, d)
    PROVE  Else(q, r) /\ q.varDescr = d
  BY DEF WithVars, Else, RecFields

WithCfg(v, cfg)  == [v EXCEPT !.cfg = cfg]
WithThr(v, thr)  == [v EXCEPT !.thresholdVal = thr]
WithState(v, st) == [v EXCEPT !.trgLastState = st]

LEMMA WithCfgLemma ==
    ASSUME NEW v, VarOK(v), NEW cfg, NEW u, u = WithCfg(v, cfg)
    PROVE  VarOK(u) /\ u.trgLastState = v.trgLastState
  BY DEF VarOK, VarFields, WithCfg

LEMMA WithThrLemma ==
    ASSUME NEW v, VarOK(v), NEW thr, NEW u, u = WithThr(v, thr)
    PROVE  VarOK(u) /\ u.trgLastState = v.trgLastState /\ u.cfg = v.cfg
  BY DEF VarOK, VarFields, WithThr

LEMMA WithStateLemma ==
    ASSUME NEW v, VarOK(v), NEW st \in BOOLEAN, NEW u, u = WithState(v, st)
    PROVE  VarOK(u) /\ u.trgLastState = st /\ u.cfg = v.cfg
  <1>1. DOMAIN u = VarFields /\ u.trgLastState = st /\ u.cfg = v.cfg
    BY DEF VarOK, VarFields, WithState
  <1> QED BY <1>1, Zenon DEF VarOK

LEMMA NewVarLemma ==
    ASSUME NEW r, NEW c, NEW h, Inv(r, c, h), NEW i \in 1 .. r.config.varCount, NEW v, VarOK(v),
           v.trgLastState = r.varDescr[i].trgLastState,
           ~r.isConfigured \/ v.cfg = r.varDescr[i].cfg,
           NEW q, q = WithVars(r, [r.varDescr EXCEPT ![i] = v])
    PROVE  Inv(q, c, h)
  <1>1. RecOK(r)
    BY DEF Inv, Core
  <1>2. PICK n : n = r.config.varCount
    OBVIOUS
  <1>3. PICK d : d = [r.varDescr EXCEPT ![i] = v]
    OBVIOUS
  <1>4. Else(q, r) /\ q.varDescr = d
    BY <1>1, <1>3, WithVarsLemma DEF RecOK
  <1>5. /\ d = [j \in 1 .. n |-> d[j]]
        /\ \A j \in 1 .. n : d[j] = IF j = i THEN v ELSE r.varDescr[j]
    BY <1>1, <1>2, <1>3 DEF RecOK
  <1>6. VarsOK(d, n) /\ SameState(d, r.varDescr, n)
    BY <1>1, <1>2, <1>5 DEF VarsOK, SameState, RecOK
  <1>7. r.isConfigured => SameCfg(d, r.varDescr, n)
    BY <1>5 DEF SameCfg
  <1> QED BY <1>2, <1>4, <1>6, <1>7, VarsLemma DEF Inv

LEMMA ConfiguredLemma ==
    ASSUME NEW r, NEW c, NEW h, Inv(r, c, h), NEW i \in 1 .. r.config.varCount, NEW cfg,
           NEW q, q = VarConfigured(r, i, cfg)
    PROVE  Inv(q, c, h)
  <1>1. CASE q = r
    BY <1>1
  <1>2. CASE q # r
    <2>1. Untouched(r) /\ q = [r EXCEPT !.varDescr[i].cfg = cfg]
      BY <1>2 DEF VarConfigured
    <2>2. PICK v : v = WithCfg(r.varDescr[i], cfg)
      OBVIOUS
    <2>3. q = WithVars(r, [r.varDescr EXCEPT ![i] = v])
      BY <2>1, <2>2 DEF WithVars, WithCfg
    <2>4. VarOK(r.varDescr[i])
      BY DEF Inv, Core, RecOK
    <2>5. VarOK(v) /\ v.trgLastState = r.varDescr[i].trgLastState
      BY <2>2, <2>4, WithCfgLemma
    <2>6. ~r.isConfigured
      BY <2>1 DEF Untouched
    <2> QED BY <2>3, <2>5, <2>6, NewVarLemma
  <1> QED BY <1>1, <1>2

LEMMA ThresholdLemma ==
    ASSUME NEW r, NEW c, NEW h, Inv(r, c, h), NEW i \in 1 .. r.config.varCount, NEW thr,
           NEW q, q = [r EXCEPT !.varDescr[i].thresholdVal = thr]
    PROVE  Inv(q, c, h) /\ q.config = r.config
  <1>1. PICK v : v = WithThr(r.varDescr[i], thr)
    OBVIOUS
  <1>2. PICK d : d = [r.varDescr EXCEPT ![i] = v]
    OBVIOUS
  <1>3. q = WithVars(r, d)
    BY <1>1, <1>2 DEF WithVars, WithThr
  <1>4. VarOK(r.varDescr[i]) /\ DOMAIN r = RecFields
    BY DEF Inv, Core, RecOK
  <1>5. VarOK(v) /\ v.trgLastState = r.varDescr[i].trgLastState /\ v.cfg = r.varDescr[i].cfg
    BY <1>1, <1>4, WithThrLemma
  <1>6. Inv(q, c, h)
    BY <1>2, <1>3, <1>5, NewVarLemma
  <1>7. q.config = r.config
    BY <1>3, <1>4, WithVarsLemma DEF Else
  <1> QED BY <1>6, <1>7

LEMMA InitLemma == Init => IInv
  <1> SUFFICES ASSUME Init PROVE IInv
    OBVIOUS
  <1>1. PICK cfg : cfg = [varCount |-> 0, totalSmps |-> 0, preTrigger |-> 0, timeDiv |-> 0]
    OBVIOUS
  <1>2. cfg.varCount = 0 /\ cfg.totalSmps = 0 /\ cfg.preTrigger = 0
    BY <1>1
  <1>3. ConfigOK(cfg)
    BY <1>2, SizesAssumption DEF ConfigOK
  <1> QED BY <1>1, <1>2, <1>3, ClearedLemma DEF Init, IInv

LEMMA MemCfgLemma == ASSUME MemCfg PROVE IInv'
  <1>1. PICK cfg \in MemCfgs : RecMemCfg(cfg)
    BY DEF MemCfg
  <1>2. ConfigOK(cfg)
    BY SizesAssumption DEF ConfigOK, NoWrap
  <1> QED BY <1>1, <1>2, ClearedLemma DEF RecMemCfg, IInv

LEMMA VarCfgLemma == ASSUME IInv, VarCfg PROVE IInv'
  <1>1. PICK i \in 1 .. rec.config.varCount, cfg \in VarCfgs :
            AddVariable(i, cfg) \/ \E threshold \in Thresholds : SetRecVar(i, cfg, threshold)
    BY DEF VarCfg
  <1>2. CASE AddVariable(i, cfg)
    BY <1>2, ConfiguredLemma DEF AddVariable, IInv
  <1>3. ASSUME NEW threshold \in Thresholds, SetRecVar(i, cfg, threshold) PROVE IInv'
    <2>1. PICK r : r = IF cfg.varThr THEN rec
                       ELSE [rec EXCEPT !.varDescr[i].thresholdVal = threshold]
      OBVIOUS
    <2>2. Inv(r, cell, hist) /\ r.config = rec.config
      BY <2>1, ThresholdLemma DEF IInv
    <2>3. rec' = VarConfigured(r, i, cfg) /\ cell' = cell /\ hist' = hist
      BY <1>3, <2>1 DEF SetRecVar
    <2> QED BY <2>2, <2>3, ConfiguredLemma DEF IInv
  <1> QED BY <1>1, <1>2, <1>3

LEMMA StartLemma == ASSUME IInv, StartRec PROVE IInv'
  <1>1. PICK r : r = CheckConfiguration(rec)
    OBVIOUS
  <1>2. Inv(r, cell, hist)
    BY <1>1, CheckedLemma DEF IInv
  <1>3. CASE r.isConfigured /\ ~r.isRunning
    <2>1. /\ rec' = Started(r) /\ cell' = Age(BuffSize(r.config.varCount))
          /\ hist' = NewRun("on", r.config.varCount)
      BY <1>1, <1>3 DEF StartRec
    <2> QED BY <1>2, <1>3, <2>1, StartedLemma DEF IInv
  <1>4. CASE ~(r.isConfigured /\ ~r.isRunning)
    <2>1. rec' = r /\ cell' = cell /\ hist' = hist
      BY <1>1, <1>4 DEF StartRec
    <2> QED BY <1>2, <2>1 DEF IInv
  <1> QED BY <1>3, <1>4

LEMMA TriggerLemma == ASSUME IInv, TriggerRec PROVE IInv'
  <1>1. PICK q : q = Triggered(rec)
    OBVIOUS
  <1>2. rec' = q /\ hist' = Pulled(rec, q, hist, ByCall) /\ cell' = cell
    BY <1>1 DEF TriggerRec
  <1>3. ByCall \in Int /\ ByCall # NotPulled /\ ~(ByCall > 0)
    BY DEF ByCall, NotPulled
  <1> QED BY <1>1, <1>2, <1>3, TriggeredLemma DEF IInv, Inv

LEMMA GetLemma == ASSUME IInv, GetRec PROVE IInv'
  BY CheckedLemma DEF GetRec, IInv

LEMMA SkipLemma == ASSUME IInv, Skip PROVE IInv'
  <1>1. RecOK(rec)
    BY DEF IInv, Inv, Core
  <1>2. Else(rec', rec) /\ rec'.varDescr = rec.varDescr
    BY <1>1 DEF Skip, Else, RecOK, RecFields
  <1>3. VarsOK(rec.varDescr, rec.config.varCount)
    BY <1>1 DEF VarsOK, RecOK
  <1>4. /\ SameCfg(rec.varDescr, rec.varDescr, rec.config.varCount)
        /\ SameState(rec.varDescr, rec.varDescr, rec.config.varCount)
    BY DEF SameCfg, SameState
  <1>5. cell' = cell /\ hist' = hist
    BY DEF Skip
  <1> QED BY <1>2, <1>3, <1>4, <1>5, VarsLemma DEF IInv, Inv

LEMMA AbortLemma == ASSUME IInv, AbortRec PROVE IInv'
  <1>1. RecOK(rec) /\ Layout(rec) /\ HistOK(hist) /\ CellsOK(rec, cell)
    BY DEF IInv, Inv, Core
  <1>2. Keeps(rec', rec) /\ rec'.writePtr = rec.writePtr
    BY <1>1 DEF AbortRec, Keeps, RecOK, RecFields
  <1>3. rec'.hasData = rec.hasData /\ rec'.isVirginCycle = rec.isVirginCycle
    BY <1>1 DEF AbortRec, RecOK, RecFields
  <1>4. rec'.isRunning = FALSE /\ rec'.isStopping = FALSE
    BY <1>1 DEF AbortRec, RecOK, RecFields
  <1>5. /\ DOMAIN hist' = HistFields /\ hist'.run = "aborted" /\ hist'.by = hist.by
        /\ hist'.taken = hist.taken /\ hist'.since = hist.since
    BY <1>1 DEF AbortRec, HistOK, HistFields
  <1>6. rec.isConfigured /\ rec.isRunning /\ cell' = cell
    BY DEF AbortRec
  <1>7. RecOK(rec') /\ Layout(rec') /\ Room(rec') = Room(rec)
    <2>1. /\ rec'.hasData \in BOOLEAN /\ rec'.isRunning \in BOOLEAN
          /\ rec'.isVirginCycle \in BOOLEAN /\ rec'.isStopping \in BOOLEAN
      BY <1>1, <1>3, <1>4, Zenon DEF RecOK
    <2> QED BY <1>1, <1>2, <1>6, <2>1, KeepsLemma
  <1>8. CellsOK(rec', cell') /\ HistOK(hist')
    BY <1>1, <1>5, <1>6, <1>7 DEF CellsOK, HistOK
  <1>9. Run(rec', hist')
    BY <1>3, <1>4, <1>5 DEF IInv, Inv, Core, Run
  <1>10. ASSUME NoWrap PROVE Position(rec', cell', hist')
    <2>1. \A w : At(rec, cell, hist, w) => At(rec', cell', hist', w)
      BY <1>2, <1>3, <1>5, <1>6 DEF At, Keeps
    <2>2. Position(rec, cell, hist)
      BY <1>10 DEF IInv, Inv, Core
    <2> QED BY <1>2, <1>6, <2>1, <2>2 DEF Position, Keeps
  <1>11. Counted(rec', hist') /\ Edges(rec', hist')
    BY <1>4, <1>5 DEF Counted, Edges
  <1> QED BY <1>7, <1>8, <1>9, <1>10, <1>11 DEF IInv, Inv, Core
-----------------------------------------------------------------------------
(* A sample.                                                               *)

\* Counts of samples stop only at more than the buffer can hold.
LEMMA OneMoreLemma ==
    ASSUME NEW r, RecOK(r), CellsOK(r, cell), NEW n \in Int
    PROVE  /\ Room(r) \in Nat /\ OneMore(n) = IF n < Room(r) THEN n + 1 ELSE n
           /\ n \in Nat => OneMore(n) \in Nat
  <1>1. PICK m \in Nat : m = Room(r)
    BY RoomLemma DEF RecOK
  <1>2. DOMAIN cell = 0 .. m - 1
    BY <1>1 DEF CellsOK
  <1>3. Cardinality(DOMAIN cell) = m
    <2>1. PICK lo \in Int, hi \in Int : lo = 0 /\ hi = m - 1
      BY <1>1
    <2>2. Cardinality(lo .. hi) = IF lo > hi THEN 0 ELSE hi - lo + 1
      BY FS_Interval, Zenon
    <2> QED BY <1>1, <1>2, <2>1, <2>2
  <1> QED BY <1>1, <1>3 DEF OneMore

\* The ages c have become d once point w has got the sample.
Older(c, d, room, w, a) ==
    \A b \in 0 .. room - 1 :
        d[b] = IF b \in Slot(w, a) THEN 0
               ELSE IF c[b] < room THEN c[b] + 1 ELSE c[b]

Aged(c, j, w, m, a) == \A b \in Slot(j, a) : c[b] = AgeOf(j, w, m)

LEMMA AgesLemma ==
    ASSUME NEW m \in Nat \ {0}, NEW a \in Nat \ {0}, NEW room \in Nat, m * a <= room,
           NEW w \in 0 .. m - 1, NEW j \in 0 .. m - 1,
           NEW c, NEW d,
           Older(c, d, room, w, a), j # w => Aged(c, j, w, m, a),
           NEW x, x = IF w + 1 = m THEN 0 ELSE w + 1
    PROVE  Aged(d, j, x, m, a)
  <1> SUFFICES ASSUME NEW b \in Slot(j, a) PROVE d[b] = AgeOf(j, x, m)
    BY DEF Aged
  <1>1. b \in 0 .. room - 1
    <2>1. j * a \in Nat /\ j * a + a <= m * a /\ m * a \in Nat
      BY SlotLemma, Product
    <2> QED BY <2>1 DEF Slot
  <1>2. m <= room
    <2>1. m <= m * a
      <3>1. 1 * m <= a * m /\ a * m = m * a
        BY Mono
      <3> QED BY <3>1
    <2>2. m * a \in Nat
      BY Product
    <2> QED BY <2>1, <2>2
  <1>3. CASE j = w
    <2>1. d[b] = 0
      BY <1>1, <1>3 DEF Older
    <2>2. AgeOf(j, x, m) = 0
      BY <1>3 DEF AgeOf
    <2> QED BY <2>1, <2>2
  <1>4. CASE j # w
    <2>1. b \notin Slot(w, a)
      BY <1>4, SlotLemma
    <2>2. c[b] = AgeOf(j, w, m)
      BY <1>4 DEF Aged
    <2>3. AgeOf(j, w, m) \in 0 .. m - 1 /\ AgeOf(j, x, m) = AgeOf(j, w, m) + 1
      BY <1>4 DEF AgeOf
    <2> QED BY <1>1, <1>2, <2>1, <2>2, <2>3 DEF Older
  <1> QED BY <1>3, <1>4

\* The recorder q in which s has written its sample.
Advanced(s) ==
    CountDown(WrapAround([s EXCEPT !.writePtr = @ + PointBytes(s.varDescr, s.config.varCount),
                                   !.hasData = TRUE]))

LEMMA AdvancedFields ==
    ASSUME NEW s, RecOK(s), Layout(s), s.isRunning, NEW q, q = Advanced(s),
           NEW p, p = s.writePtr + s.pointSize
    PROVE  /\ Keeps(q, s) /\ q.hasData /\ q.isStopping = s.isStopping
           /\ q.writePtr = IF p >= s.endBuffPtr THEN 0 ELSE p
           /\ q.isVirginCycle <=> s.isVirginCycle /\ ~(p >= s.endBuffPtr)
           /\ q.isRunning <=> ~(s.isStopping /\ s.stopRecCountDown = 0)
           /\ s.isStopping /\ s.stopRecCountDown # 0 =>
                 q.stopRecCountDown = s.stopRecCountDown - 1
           /\ q.hasData \in BOOLEAN /\ q.isRunning \in BOOLEAN
           /\ q.isVirginCycle \in BOOLEAN /\ q.isStopping \in BOOLEAN
  <1>1. DOMAIN s = RecFields /\ s.isConfigured
    BY DEF RecOK, Layout
  <1>2. PointBytes(s.varDescr, s.config.varCount) = s.pointSize
    BY <1>1 DEF Layout
  <1>3. PICK u : u = [s EXCEPT !.writePtr = p, !.hasData = TRUE]
    OBVIOUS
  <1>4. PICK v : v = WrapAround(u)
    OBVIOUS
  <1>5. q = CountDown(v)
    BY <1>2, <1>3, <1>4 DEF Advanced
  <1>6. Keeps(u, s) /\ u.writePtr = p /\ u.stopRecCountDown = s.stopRecCountDown
    BY <1>1, <1>3 DEF RecFields, Keeps
  <1>7. u.hasData = TRUE /\ u.isRunning = s.isRunning
    BY <1>1, <1>3 DEF RecFields
  <1>8. u.isVirginCycle = s.isVirginCycle /\ u.isStopping = s.isStopping
    BY <1>1, <1>3 DEF RecFields
  <1>9. /\ Keeps(v, s) /\ v.stopRecCountDown = s.stopRecCountDown
        /\ v.hasData = TRUE /\ v.isRunning = s.isRunning /\ v.isStopping = s.isStopping
        /\ v.writePtr = IF p >= s.endBuffPtr THEN 0 ELSE p
        /\ v.isVirginCycle = IF p >= s.endBuffPtr THEN FALSE ELSE s.isVirginCycle
    <2>1. u.endBuffPtr = s.endBuffPtr /\ DOMAIN u = RecFields
      BY <1>6 DEF Keeps
    <2>2. CASE p >= s.endBuffPtr
      <3>1. v = [u EXCEPT !.writePtr = 0, !.isVirginCycle = FALSE]
        BY <1>4, <1>6, <2>1, <2>2 DEF WrapAround
      <3>2. /\ Keeps(v, u) /\ v.stopRecCountDown = u.stopRecCountDown /\ v.writePtr = 0
        BY <2>1, <3>1 DEF Keeps, RecFields
      <3>3. v.hasData = u.hasData /\ v.isRunning = u.isRunning /\ v.isStopping = u.isStopping
        BY <2>1, <3>1 DEF RecFields
      <3>4. v.isVirginCycle = FALSE
        BY <2>1, <3>1 DEF RecFields
      <3>5. Keeps(v, s)
        BY <1>6, <3>2 DEF Keeps
      <3> QED BY <1>6, <1>7, <1>8, <2>2, <3>2, <3>3, <3>4, <3>5
    <2>3. CASE ~(p >= s.endBuffPtr)
      <3>1. v = u
        BY <1>4, <1>6, <2>1, <2>3 DEF WrapAround
      <3> QED BY <1>6, <1>7, <1>8, <2>3, <3>1
    <2> QED BY <2>2, <2>3
  <1>10. /\ Keeps(q, s) /\ q.writePtr = v.writePtr
         /\ q.hasData = TRUE /\ q.isVirginCycle = v.isVirginCycle /\ q.isStopping = v.isStopping
         /\ q.isRunning = IF s.isStopping /\ s.stopRecCountDown = 0 THEN FALSE ELSE s.isRunning
         /\ s.isStopping /\ s.stopRecCountDown # 0 =>
                 q.stopRecCountDown = s.stopRecCountDown - 1
    <2>1. DOMAIN v = RecFields
      BY <1>9 DEF Keeps
    <2>2. CASE ~s.isStopping
      <3>1. q = v
        BY <1>5, <1>9, <2>2 DEF CountDown
      <3> QED BY <1>9, <2>2, <3>1
    <2>3. CASE s.isStopping /\ s.stopRecCountDown = 0
      <3>1. q = [v EXCEPT !.isRunning = FALSE]
        BY <1>5, <1>9, <2>3 DEF CountDown
      <3>2. Keeps(q, v) /\ q.writePtr = v.writePtr
        BY <2>1, <3>1 DEF Keeps, RecFields
      <3>3. /\ q.hasData = v.hasData /\ q.isVirginCycle = v.isVirginCycle
            /\ q.isStopping = v.isStopping
        BY <2>1, <3>1 DEF RecFields
      <3>4. q.isRunning = FALSE
        BY <2>1, <3>1 DEF RecFields
      <3>5. Keeps(q, s)
        BY <1>9, <3>2 DEF Keeps
      <3> QED BY <1>9, <2>3, <3>2, <3>3, <3>4, <3>5
    <2>4. CASE s.isStopping /\ s.stopRecCountDown # 0
      <3>1. q = [v EXCEPT !.stopRecCountDown = s.stopRecCountDown - 1]
        BY <1>5, <1>9, <2>4 DEF CountDown
      <3>2. Keeps(q, v) /\ q.writePtr = v.writePtr /\ q.stopRecCountDown = s.stopRecCountDown - 1
        BY <2>1, <3>1 DEF Keeps, RecFields
      <3>3. /\ q.hasData = v.hasData /\ q.isVirginCycle = v.isVirginCycle
            /\ q.isStopping = v.isStopping /\ q.isRunning = v.isRunning
        BY <2>1, <3>1 DEF RecFields
      <3>4. Keeps(q, s)
        BY <1>9, <3>2 DEF Keeps
      <3> QED BY <1>9, <2>4, <3>2, <3>3, <3>4
    <2> QED BY <2>2, <2>3, <2>4
  <1>11. s.isStopping \in BOOLEAN /\ s.isVirginCycle \in BOOLEAN /\ s.isRunning \in BOOLEAN
    BY DEF RecOK
  <1>12. q.isVirginCycle = IF p >= s.endBuffPtr THEN FALSE ELSE s.isVirginCycle
    BY <1>9, <1>10
  <1>13. /\ q.isVirginCycle <=> s.isVirginCycle /\ ~(p >= s.endBuffPtr)
         /\ q.isVirginCycle \in BOOLEAN
    BY <1>11, <1>12, Zenon
  <1>14. /\ q.isRunning <=> ~(s.isStopping /\ s.stopRecCountDown = 0)
         /\ q.isRunning \in BOOLEAN
    BY <1>10, <1>11, Zenon
  <1>15. q.hasData /\ q.hasData \in BOOLEAN
    BY <1>10, Zenon
  <1>16. q.isStopping = s.isStopping /\ q.isStopping \in BOOLEAN
    BY <1>9, <1>10, <1>11, Zenon
  <1> QED BY <1>9, <1>10, <1>13, <1>14, <1>15, <1>16
\* The history g once the sample cmp is counted.
Noted(g, cmp) ==
    [g EXCEPT !.taken = OneMore(@),
              !.since = IF g.by = NotPulled THEN @ ELSE OneMore(@),
              !.seen = cmp]

LEMMA NotedLemma ==
    ASSUME NEW r, RecOK(r), CellsOK(r, cell), NEW g, HistOK(g), NEW cmp, NEW k, k = Noted(g, cmp)
    PROVE  /\ HistOK(k) /\ k.run = g.run /\ k.by = g.by /\ k.seen = cmp
           /\ k.taken = IF g.taken < Room(r) THEN g.taken + 1 ELSE g.taken
           /\ k.since = IF g.by = NotPulled \/ ~(g.since < Room(r)) THEN g.since ELSE g.since + 1
  <1>1. g.taken \in Nat /\ g.since \in Int /\ g.by \in Int /\ DOMAIN g = HistFields
    BY DEF HistOK
  <1>2. PICK taken \in Nat, since \in Int :
            taken = OneMore(g.taken) /\ since = IF g.by = NotPulled THEN g.since ELSE OneMore(g.since)
    BY <1>1, OneMoreLemma
  <1>3. k = [g EXCEPT !.taken = taken, !.since = since, !.seen = cmp]
    BY <1>2 DEF Noted
  <1>4. /\ DOMAIN k = HistFields /\ k.run = g.run /\ k.by = g.by /\ k.seen = cmp
        /\ k.taken = taken /\ k.since = since
    BY <1>1, <1>3 DEF HistFields
  <1>5. HistOK(k)
    BY <1>1, <1>4 DEF HistOK
  <1>6. taken = IF g.taken < Room(r) THEN g.taken + 1 ELSE g.taken
    BY <1>1, <1>2, OneMoreLemma
  <1>7. since = IF g.by = NotPulled \/ ~(g.since < Room(r)) THEN g.since ELSE g.since + 1
    BY <1>1, <1>2, OneMoreLemma
  <1> QED BY <1>4, <1>5, <1>6, <1>7

LEMMA WrittenLemma ==
    ASSUME NEW s, NEW g, Core(s, cell, g), s.isRunning, NEW cmp,
           NEW q, q = Advanced(s), NEW d, d = Written(s), NEW k, k = Noted(g, cmp)
    PROVE  Core(q, d, k)
  <1>1. RecOK(s) /\ Layout(s) /\ CellsOK(s, cell) /\ HistOK(g) /\ Run(s, g)
    BY DEF Core
  <1>2. s.isConfigured
    BY <1>1 DEF Layout
  <1>3. PICK p : p = s.writePtr + s.pointSize
    OBVIOUS
  <1>4. /\ Keeps(q, s) /\ q.hasData /\ q.isStopping = s.isStopping
        /\ q.writePtr = IF p >= s.endBuffPtr THEN 0 ELSE p
        /\ q.isVirginCycle <=> s.isVirginCycle /\ ~(p >= s.endBuffPtr)
        /\ q.isRunning <=> ~(s.isStopping /\ s.stopRecCountDown = 0)
        /\ s.isStopping /\ s.stopRecCountDown # 0 =>
                 q.stopRecCountDown = s.stopRecCountDown - 1
        /\ q.hasData \in BOOLEAN /\ q.isRunning \in BOOLEAN
        /\ q.isVirginCycle \in BOOLEAN /\ q.isStopping \in BOOLEAN
    BY <1>1, <1>3, AdvancedFields
  <1>5. /\ HistOK(k) /\ k.run = g.run /\ k.by = g.by
        /\ k.taken = IF g.taken < Room(s) THEN g.taken + 1 ELSE g.taken
        /\ k.since = IF g.by = NotPulled \/ ~(g.since < Room(s)) THEN g.since ELSE g.since + 1
    BY <1>1, NotedLemma
  <1>6. RecOK(q) /\ Layout(q) /\ Room(q) = Room(s)
    BY <1>1, <1>2, <1>4, KeepsLemma
  <1>7. PICK room \in Nat : room = Room(s)
    BY <1>1, OneMoreLemma
  <1>8. /\ d = [b \in 0 .. room - 1 |-> d[b]]
        /\ \A b \in 0 .. room - 1 :
              d[b] = IF b \in s.writePtr .. s.writePtr + s.pointSize - 1 THEN 0
                     ELSE IF cell[b] < room THEN cell[b] + 1 ELSE cell[b]
    <2>1. DOMAIN cell = 0 .. room - 1 /\ \A b \in 0 .. room - 1 : cell[b] \in Nat
      BY <1>1, <1>7 DEF CellsOK
    <2>2. \A b \in 0 .. room - 1 :
             OneMore(cell[b]) = IF cell[b] < room THEN cell[b] + 1 ELSE cell[b]
      BY <1>1, <1>7, <2>1, OneMoreLemma
    <2> QED BY <2>1, <2>2 DEF Written
  <1>9. CellsOK(q, d)
    <2>1. \A b \in 0 .. room - 1 : cell[b] \in Nat
      BY <1>1, <1>7 DEF CellsOK
    <2>2. \A b \in 0 .. room - 1 : d[b] \in Nat
      BY <1>8, <2>1
    <2> QED BY <1>6, <1>7, <1>8, <2>2 DEF CellsOK
  <1>10. Run(q, k)
    BY <1>1, <1>2, <1>4, <1>5 DEF Run, Keeps
  <1>11. ASSUME NoWrap PROVE Position(q, d, k)
    <2>1. PICK w \in 0 .. s.totalSmplsCnt - 1 : At(s, cell, g, w)
      BY <1>11 DEF Core, Position
    <2>2. PICK m \in Nat \ {0}, a \in Nat \ {0} : m = s.totalSmplsCnt /\ a = s.pointSize
      BY <1>1, <1>2, <1>7 DEF Layout
    <2>3. w \in 0 .. m - 1 /\ a <= room /\ m * a <= room /\ s.endBuffPtr = m * a
      BY <1>1, <1>2, <1>7, <1>11, <2>1, <2>2 DEF Layout
    <2>4. w * a \in Nat /\ p = (w + 1) * a /\ s.writePtr = w * a
      <3>1. w * a \in Nat /\ (w + 1) * a = w * a + a
        BY <2>2, <2>3, SlotLemma
      <3> QED BY <1>3, <2>1, <2>2, <3>1 DEF At
    <2>5. p >= s.endBuffPtr <=> w + 1 = m
      <3>1. w * a + a <= m * a /\ (w + 1) * a = w * a + a /\ w * a \in Nat /\ m * a \in Nat
        BY <2>2, <2>3, SlotLemma, Product
      <3>2. CASE w + 1 = m
        BY <2>3, <2>4, <3>1, <3>2
      <3>3. CASE w + 1 # m
        <4>1. w + 1 \in 0 .. m - 1
          BY <2>2, <2>3, <3>3
        <4>2. (w + 1) * a + a <= m * a
          BY <2>2, <4>1, SlotLemma
        <4>3. p < m * a
          BY <2>2, <2>4, <3>1, <4>2
        <4>4. ~(p >= s.endBuffPtr)
          BY <2>3, <2>4, <3>1, <4>3
        <4> QED BY <3>3, <4>4
      <3> QED BY <3>2, <3>3
    <2>6. PICK x \in 0 .. m - 1 : x = IF w + 1 = m THEN 0 ELSE w + 1
      BY <2>2, <2>3
    <2>7. q.writePtr = x * a /\ q.totalSmplsCnt = m /\ q.pointSize = a
      <3>1. 0 * a = 0
        BY <2>2
      <3> QED BY <1>4, <2>2, <2>4, <2>5, <2>6, <3>1 DEF Keeps
    <2>8. q.isVirginCycle <=> s.isVirginCycle /\ w + 1 # m
      BY <1>4, <2>5
    <2>9. IF q.isVirginCycle THEN k.taken = x ELSE k.taken >= m
      <3>1. m <= room
        <4>1. 1 * m <= a * m /\ a * m = m * a
          BY <2>2, Mono
        <4>2. m * a \in Nat
          BY <2>2, Product
        <4> QED BY <2>2, <2>3, <4>1, <4>2
      <3>2. g.taken \in Nat
        BY <1>1 DEF HistOK
      <3>3. IF s.isVirginCycle THEN g.taken = w ELSE g.taken >= m
        BY <2>1, <2>2 DEF At
      <3>4. k.taken = IF g.taken < room THEN g.taken + 1 ELSE g.taken
        BY <1>5, <1>7
      <3> QED BY <2>2, <2>3, <2>6, <2>8, <3>1, <3>2, <3>3, <3>4
    <2>10. ASSUME NEW j \in 0 .. m - 1, q.isVirginCycle => j < x
           PROVE  Aged(d, j, x, m, a)
      <3>1. j # w => (s.isVirginCycle => j < w)
        BY <2>2, <2>3, <2>6, <2>8, <2>10
      <3>2. j # w => Aged(cell, j, w, m, a)
        BY <2>1, <2>2, <3>1 DEF At, Aged
      <3>3. Older(cell, d, room, w, a)
        BY <1>8, <2>2, <2>4 DEF Slot, Older
      <3>4. w \in 0 .. m - 1 /\ m * a <= room
        BY <2>3
      <3> QED BY <2>2, <2>6, <3>2, <3>3, <3>4, AgesLemma
    <2>11. At(q, d, k, x)
      BY <2>7, <2>9, <2>10 DEF At, Aged
    <2> QED BY <2>6, <2>7, <2>11 DEF Position
  <1>12. ASSUME NoWrap PROVE Counted(q, k)
    <2>1. CASE ~s.isStopping
      <3>1. ~q.isStopping /\ q.isRunning
        BY <1>4, <2>1
      <3> QED BY <3>1 DEF Counted
    <2>2. CASE s.isStopping
      <3>1. PICK count \in Nat, since \in Int : count = s.stopRecCountDown /\ since = g.since
        BY <1>1, <1>12, <2>2 DEF Core, Counted, HistOK
      <3>2. g.by # NotPulled /\ since >= -1 /\ count + since = s.postTrigger - 1
        BY <1>12, <2>2, <3>1 DEF Core, Counted
      <3>3. s.postTrigger \in 0 .. s.totalSmplsCnt - 1 /\ s.totalSmplsCnt \in Nat
        BY <1>1, <1>2, PostLemma DEF Layout
      <3>4. s.totalSmplsCnt <= room
        <4>1. PICK m \in Nat \ {0}, a \in Nat \ {0} : m = s.totalSmplsCnt /\ a = s.pointSize
          BY <1>1, <1>2, <1>7 DEF Layout
        <4>2. 1 * m <= a * m /\ a * m = m * a /\ m * a \in Nat
          BY <4>1, Mono, Product
        <4>3. m * a <= room
          BY <1>1, <1>2, <1>7, <1>12, <4>1 DEF Layout
        <4> QED BY <4>1, <4>2, <4>3
      <3>5. k.since = since + 1 /\ k.by = g.by
        BY <1>5, <1>7, <3>1, <3>2, <3>3, <3>4
      <3>6. q.postTrigger = s.postTrigger
        BY <1>4 DEF Keeps
      <3>7. CASE count = 0
        <4>1. ~q.isRunning /\ k.since = q.postTrigger
          BY <1>4, <2>2, <3>1, <3>2, <3>3, <3>5, <3>6, <3>7
        <4> QED BY <1>4, <3>2, <3>5, <4>1 DEF Counted
      <3>8. CASE count # 0
        <4>1. q.isRunning /\ q.stopRecCountDown = count - 1
          BY <1>4, <2>2, <3>1, <3>8
        <4>2. /\ k.since >= -1 /\ q.stopRecCountDown \in Nat
              /\ q.stopRecCountDown + k.since = q.postTrigger - 1
          BY <3>1, <3>2, <3>3, <3>5, <3>6, <3>8, <4>1
        <4> QED BY <3>2, <3>5, <4>1, <4>2 DEF Counted
      <3> QED BY <3>7, <3>8
    <2> QED BY <2>1, <2>2
  <1> QED BY <1>5, <1>6, <1>9, <1>10, <1>11, <1>12 DEF Core
\* The variable that pulls the trigger, when some do.
LEMMA FiringLemma ==
    ASSUME NEW r, RecOK(r), NEW cmp \in [DOMAIN r.varDescr -> BOOLEAN],
           NEW F, F = Firing(r, cmp), F # {}
    PROVE  /\ Min(F) \in 1 .. r.config.varCount /\ Min(F) \in Nat \ {0}
           /\ Fires(r.varDescr[Min(F)], cmp[Min(F)])
           /\ ~r.isStopping /\ ~r.isVirginCycle
  <1>1. PICK n \in Nat : n = r.config.varCount
    BY DEF RecOK, ConfigOK
  <1>2. DOMAIN cmp = 1 .. n
    BY <1>1 DEF RecOK
  <1>3. \A i \in F : i \in 1 .. n /\ Looking(r) /\ Fires(r.varDescr[i], cmp[i])
    BY <1>2 DEF Firing
  <1>4. PICK i \in F : \A j \in F : i <= j
    <2>1. F \in SUBSET Nat
      BY <1>3
    <2> QED BY <2>1, LeastNat
  <1>5. PICK m : m = Min(F)
    OBVIOUS
  <1>6. m = CHOOSE x \in F : \A y \in F : x <= y
    BY <1>5 DEF Min
  <1>7. m \in F
    BY <1>4, <1>6
  <1> QED BY <1>1, <1>3, <1>5, <1>7 DEF Looking

\* The recorder r whose variables have been compared.
Measured(r, cmp) == [r EXCEPT !.timeDivCtr = r.config.timeDiv, !.varDescr = Compared(r, cmp)]

LEMMA MeasuredLemma ==
    ASSUME NEW r, NEW c, NEW h, Core(r, c, h), NEW cmp \in [DOMAIN r.varDescr -> BOOLEAN],
           NEW q, q = Measured(r, cmp)
    PROVE  Core(q, c, h) /\ Else(q, r) /\ q.varDescr = Compared(r, cmp)
  <1>1. RecOK(r)
    BY DEF Core
  <1>2. PICK n : n = r.config.varCount
    OBVIOUS
  <1>3. PICK d : d = Compared(r, cmp)
    OBVIOUS
  <1>4. Else(q, r) /\ q.varDescr = d
    BY <1>1, <1>3 DEF Measured, Else, RecOK, RecFields
  <1>5. DOMAIN cmp = 1 .. n
    BY <1>1, <1>2 DEF RecOK
  <1>6. d = [i \in 1 .. n |-> d[i]]
    BY <1>3, <1>5 DEF Compared
  <1>7. ASSUME NEW i \in 1 .. n PROVE VarOK(d[i]) /\ d[i].cfg = r.varDescr[i].cfg
    <2>1. d[i] = r.varDescr[i] \/ d[i] = WithState(r.varDescr[i], cmp[i])
      BY <1>3, <1>5 DEF Compared, WithState
    <2>2. VarOK(r.varDescr[i]) /\ cmp[i] \in BOOLEAN
      BY <1>1, <1>2, <1>5 DEF RecOK
    <2>3. CASE d[i] = r.varDescr[i]
      BY <2>2, <2>3
    <2>4. CASE d[i] = WithState(r.varDescr[i], cmp[i])
      BY <2>2, <2>4, WithStateLemma
    <2> QED BY <2>1, <2>3, <2>4
  <1>8. VarsOK(d, n) /\ SameCfg(d, r.varDescr, n)
    BY <1>6, <1>7 DEF VarsOK, SameCfg
  <1> QED BY <1>2, <1>3, <1>4, <1>8, VarsLemma

LEMMA SampleLemma ==
    ASSUME IInv, NEW cmp \in [DOMAIN rec.varDescr -> BOOLEAN], Sample(cmp)
    PROVE  IInv'
  <1>1. PICK fired : fired = Firing(rec, cmp)
    OBVIOUS
  <1>2. PICK r : r = Measured(rec, cmp)
    OBVIOUS
  <1>3. PICK s : s = IF fired = {} THEN r ELSE Triggered(r)
    OBVIOUS
  <1>4. PICK h : h = IF fired = {} THEN hist ELSE Pulled(rec, s, hist, Min(fired))
    OBVIOUS
  <1>5. /\ rec.isRunning
        /\ rec' = Advanced(s) /\ cell' = Written(rec) /\ hist' = Noted(h, cmp)
    BY <1>1, <1>2, <1>3, <1>4 DEF Sample, Measured, Advanced, Noted
  <1>6. RecOK(rec) /\ Layout(rec) /\ HistOK(hist) /\ CellsOK(rec, cell)
    BY DEF IInv, Inv, Core
  <1>7. Core(r, cell, hist) /\ Else(r, rec) /\ r.varDescr = Compared(rec, cmp)
    BY <1>2, MeasuredLemma DEF IInv, Inv
  <1>8. /\ Core(s, cell, h) /\ s.isRunning = rec.isRunning
        /\ s.writePtr = rec.writePtr /\ s.pointSize = rec.pointSize
        /\ s.config = rec.config /\ s.varDescr = r.varDescr /\ s.isVirginCycle = rec.isVirginCycle
        /\ fired = {} => s = r
        /\ fired # {} => s.isStopping
    <2>1. CASE fired = {}
      BY <1>3, <1>4, <1>7, <2>1 DEF Else
    <2>2. CASE fired # {}
      <3>1. /\ Min(fired) \in Nat \ {0} /\ ~rec.isStopping /\ ~rec.isVirginCycle
        BY <1>1, <1>6, <2>2, FiringLemma
      <3>2. PICK by \in Int : by = Min(fired) /\ by # NotPulled
        BY <3>1 DEF NotPulled
      <3>3. h = Pulled(r, s, hist, by)
        BY <1>4, <1>7, <2>2, <3>2 DEF Pulled, Else
      <3>4. s = Triggered(r) /\ ~r.isVirginCycle /\ ~r.isStopping /\ r.isRunning /\ r.isConfigured
        BY <1>3, <1>5, <1>6, <1>7, <2>2, <3>1 DEF Else, Layout
      <3>5. Core(s, cell, h)
        BY <1>7, <3>2, <3>3, <3>4, TriggeredLemma
      <3>6. RecOK(r)
        BY <1>7 DEF Core
      <3>7. /\ Keeps(s, r) /\ s.writePtr = r.writePtr
            /\ s.isStopping = TRUE /\ s.isRunning = r.isRunning
            /\ s.isVirginCycle = r.isVirginCycle
        BY <3>4, <3>6, TriggeredFields
      <3>8. s.isStopping
        BY <3>7, Zenon
      <3> QED BY <1>7, <2>2, <3>5, <3>7, <3>8 DEF Else, Keeps
    <2> QED BY <2>1, <2>2
  <1>9. Core(rec', cell', hist')
    <2>1. Written(rec) = Written(s)
      BY <1>8 DEF Written
    <2>2. s.isRunning
      BY <1>5, <1>8
    <2> QED BY <1>5, <1>8, <2>1, <2>2, WrittenLemma
  <1>10. Edges(rec', hist')
    <2>1. PICK n \in Nat : n = rec.config.varCount
      BY <1>6 DEF RecOK, ConfigOK
    <2>2. RecOK(s) /\ Layout(s) /\ CellsOK(s, cell) /\ HistOK(h) /\ s.isRunning
      BY <1>5, <1>8 DEF Core
    <2>3. PICK p : p = s.writePtr + s.pointSize
      OBVIOUS
    <2>4. Keeps(rec', s) /\ rec'.isStopping = s.isStopping
      BY <1>5, <2>2, <2>3, AdvancedFields
    <2>5. /\ hist'.seen = cmp
          /\ hist'.taken = IF h.taken < Room(s) THEN h.taken + 1 ELSE h.taken
      BY <1>5, <2>2, NotedLemma
    <2>6. hist'.taken > 0
      <3>1. Room(s) \in Nat
        BY <2>2, RoomLemma DEF RecOK
      <3>2. Room(s) > 0 /\ h.taken \in Nat
        BY <2>2, <3>1 DEF Layout, HistOK
      <3> QED BY <2>5, <3>1, <3>2
    <2>7. ASSUME ~s.isStopping, NEW i \in 1 .. n, Triggering(s.varDescr[i])
          PROVE  s.varDescr[i].trgLastState = cmp[i]
      <3>1. fired = {} /\ ~rec.isStopping
        BY <1>7, <1>8, <2>7 DEF Else
      <3>2. DOMAIN cmp = 1 .. n
        BY <1>6, <2>1 DEF RecOK
      <3>3. s.varDescr[i] = IF Triggering(rec.varDescr[i])
                            THEN WithState(rec.varDescr[i], cmp[i]) ELSE rec.varDescr[i]
        BY <1>1, <1>7, <1>8, <3>1, <3>2 DEF Compared, WithState
      <3>4. VarOK(rec.varDescr[i]) /\ cmp[i] \in BOOLEAN
        BY <1>6, <2>1, <3>2 DEF RecOK
      <3> QED BY <2>7, <3>3, <3>4, WithStateLemma
    <2>8. rec'.varDescr = s.varDescr /\ rec'.config = rec.config
      BY <1>8, <2>4 DEF Keeps
    <2> QED BY <2>1, <2>4, <2>5, <2>6, <2>7, <2>8 DEF Edges
  <1> QED BY <1>9, <1>10 DEF IInv, Inv

LEMMA RecorderLemma == ASSUME IInv, Recorder PROVE IInv'
  BY SkipLemma, SampleLemma DEF Recorder

\* The invariant holds in every state the recorder can be in.
THEOREM Invariance == Spec => []IInv
  <1>1. ASSUME IInv, [Next]_vars PROVE IInv'
    <2>1. CASE UNCHANGED vars
      BY <1>1, <2>1 DEF vars, IInv
    <2>2. CASE Next
      BY <1>1, <2>2, MemCfgLemma, VarCfgLemma, StartLemma, TriggerLemma, AbortLemma,
         GetLemma, RecorderLemma DEF Next
    <2> QED BY <1>1, <2>1, <2>2
  <1> QED BY <1>1, InitLemma, PTL DEF Spec
-----------------------------------------------------------------------------
(* The properties.                                                         *)

\* What GETREC computes of a buffer whose next point is w.
LEMMA ReportLemma ==
    ASSUME IInv, NEW w \in 0 .. rec.totalSmplsCnt - 1, At(rec, cell, hist, w), rec.isConfigured
    PROVE  /\ CurrIx = w
           /\ rec.totalSmplsCnt \in Nat \ {0} /\ rec.pointSize \in Nat \ {0}
           /\ RecFirstPnt = IF rec.isVirginCycle THEN 0 ELSE w
           /\ RecPntCnt = IF rec.isVirginCycle THEN w ELSE rec.totalSmplsCnt
  <1>1. RecOK(rec) /\ Layout(rec)
    BY DEF IInv, Inv, Core
  <1>2. Room(rec) \in Nat
    BY <1>1, RoomLemma DEF RecOK
  <1>3. rec.totalSmplsCnt \in Nat \ {0} /\ rec.pointSize \in Nat \ {0}
    BY <1>1, <1>2 DEF Layout
  <1>4. CurrIx = w
    <2>1. PICK a \in Nat \ {0} : a = rec.pointSize
      BY <1>3
    <2>2. w \in Nat /\ rec.writePtr = w * a
      BY <1>3, <2>1 DEF At
    <2>3. (w * a) \div a = w
      BY <2>2, Exact
    <2> QED BY <2>1, <2>2, <2>3 DEF CurrIx
  <1> QED BY <1>3, <1>4 DEF RecFirstPnt, RecPntCnt

\* Whatever the variables of a configured recorder are, and however the requests and
\* the calls that would change them come, a sample has the size the buffer was laid
\* out for and is copied to a place inside it (_FMSTR_CheckConfiguration and
\* FMSTR_Recorder), unless FMSTR_SIZE is too small to hold the size of the buffer.
THEOREM LayoutStays == ASSUME NoWrap PROVE Spec => []LayoutIsFresh
  <1>1. ASSUME IInv PROVE LayoutIsFresh
    <2> SUFFICES ASSUME rec.isConfigured
                 PROVE  /\ rec.pointSize = PointBytes(rec.varDescr, rec.config.varCount)
                        /\ rec.endBuffPtr = rec.totalSmplsCnt * rec.pointSize
                        /\ rec.isRunning => rec.writePtr + rec.pointSize <= rec.endBuffPtr
      BY DEF LayoutIsFresh
    <2>1. /\ rec.pointSize = PointBytes(rec.varDescr, rec.config.varCount)
          /\ rec.endBuffPtr = rec.totalSmplsCnt * rec.pointSize
      BY <1>1 DEF IInv, Inv, Core, Layout
    <2>2. ASSUME rec.isRunning PROVE rec.writePtr + rec.pointSize <= rec.endBuffPtr
      <3>1. PICK w \in 0 .. rec.totalSmplsCnt - 1 : At(rec, cell, hist, w)
        BY <1>1, <2>2 DEF IInv, Inv, Core, Position
      <3>2. PICK m \in Nat \ {0}, a \in Nat \ {0} : m = rec.totalSmplsCnt /\ a = rec.pointSize
        BY <1>1, <3>1, ReportLemma
      <3>3. w * a + a <= m * a
        BY <3>1, <3>2, SlotLemma
      <3>4. rec.writePtr = w * a
        BY <3>1, <3>2 DEF At
      <3> QED BY <2>1, <3>2, <3>3, <3>4
    <2> QED BY <2>1, <2>2
  <1> QED BY <1>1, Invariance, PTL

\* The points that FMSTR_GetRecCmd reports are, in every state of every run, the
\* latest samples of that run, whole and oldest first, and as many as there are or
\* the buffer has room for; the status tells whether it is full.
THEOREM PointsStayInOrder == ASSUME NoWrap PROVE Spec => []PointsInOrder
  <1>1. ASSUME IInv PROVE PointsInOrder
    <2> SUFFICES ASSUME rec.hasData
                 PROVE  /\ RecPntCnt = IF hist.taken < rec.totalSmplsCnt THEN hist.taken
                                       ELSE rec.totalSmplsCnt
                        /\ Status = "all data"
                              <=> ~rec.isRunning /\ hist.taken >= rec.totalSmplsCnt
                        /\ \A k \in 0 .. RecPntCnt - 1 :
                              \A b \in Point(k) : cell[b] = RecPntCnt - 1 - k
      BY DEF PointsInOrder
    <2>1. rec.isConfigured
      BY <1>1 DEF IInv, Inv, Core, Layout
    <2>2. PICK w \in 0 .. rec.totalSmplsCnt - 1 : At(rec, cell, hist, w)
      BY <1>1 DEF IInv, Inv, Core, Position
    <2>0. PICK n, first : n = RecPntCnt /\ first = RecFirstPnt
      OBVIOUS
    <2>3. PICK m \in Nat \ {0}, a \in Nat \ {0} : m = rec.totalSmplsCnt /\ a = rec.pointSize
      BY <1>1, <2>1, <2>2, ReportLemma
    <2>4. /\ w \in 0 .. m - 1
          /\ n = IF rec.isVirginCycle THEN w ELSE m
          /\ first = IF rec.isVirginCycle THEN 0 ELSE w
      BY <1>1, <2>0, <2>1, <2>2, <2>3, ReportLemma
    <2>5. hist.taken \in Nat /\ IF rec.isVirginCycle THEN hist.taken = w ELSE hist.taken >= m
      BY <1>1, <2>2, <2>3 DEF IInv, Inv, Core, HistOK, At
    <2>6. n = IF hist.taken < m THEN hist.taken ELSE m
      BY <2>4, <2>5
    <2>7. Status = "all data" <=> ~rec.isRunning /\ hist.taken >= m
      <3>1. rec.isVirginCycle <=> ~(hist.taken >= m)
        BY <2>4, <2>5
      <3>2. CASE rec.isRunning
        <4>1. Status = "running"
          BY <2>1, <3>2 DEF Status
        <4> QED BY <3>2, <4>1
      <3>3. CASE ~rec.isRunning
        <4>1. Status = IF rec.isVirginCycle THEN "some data" ELSE "all data"
          BY <2>1, <3>3 DEF Status
        <4> QED BY <3>1, <3>3, <4>1
      <3> QED BY <3>2, <3>3
    <2>8. ASSUME NEW k \in 0 .. n - 1 PROVE \A b \in Point(k) : cell[b] = n - 1 - k
      <3>1. PICK j : j = (first + k) % m
        OBVIOUS
      <3>2. Point(k) = Slot(j, a)
        BY <2>0, <2>3, <3>1 DEF Point, Slot
      <3>3. CASE rec.isVirginCycle
        <4>1. k \in 0 .. m - 1 /\ 0 \in 0 .. m - 1 /\ first = 0 /\ n = w
          BY <2>4, <2>8, <3>3
        <4>2. j = k
          BY <3>1, <4>1, AroundZero
        <4>3. \A b \in Slot(j, a) : cell[b] = AgeOf(j, w, m)
          BY <2>2, <2>3, <2>8, <4>1, <4>2 DEF At
        <4>4. AgeOf(j, w, m) = n - 1 - k
          BY <2>4, <2>8, <4>1, <4>2 DEF AgeOf
        <4> QED BY <3>2, <4>3, <4>4
      <3>4. CASE ~rec.isVirginCycle
        <4>1. k \in 0 .. m - 1 /\ first = w /\ n = m
          BY <2>4, <2>8, <3>4
        <4>2. j = IF w + k < m THEN w + k ELSE w + k - m
          <5>1. (w + k) % m = IF w + k < m THEN w + k ELSE w + k - m
            BY <2>3, <2>4, <4>1, Around
          <5> QED BY <3>1, <4>1, <5>1
        <4>3. j \in 0 .. m - 1
          BY <2>4, <4>1, <4>2
        <4>4. \A b \in Slot(j, a) : cell[b] = AgeOf(j, w, m)
          BY <2>2, <2>3, <3>4, <4>3 DEF At
        <4>5. AgeOf(j, w, m) = n - 1 - k
          BY <2>4, <4>1, <4>2 DEF AgeOf
        <4> QED BY <3>2, <4>4, <4>5
      <3> QED BY <3>3, <3>4
    <2> QED BY <2>0, <2>3, <2>6, <2>7, <2>8
  <1> QED BY <1>1, Invariance, PTL

\* A run that ends by itself has taken, behind the sample its trigger came with, just
\* the samples that leave preTrigger points before it, and a trigger that a variable
\* pulled lies in a full buffer (_FMSTR_RecTrigger2 and the end of FMSTR_Recorder).
THEOREM TriggerStaysInPlace == ASSUME NoWrap PROVE Spec => []TriggerInPlace
  <1>1. ASSUME IInv PROVE TriggerInPlace
    <2> SUFFICES ASSUME hist.run = "on", ~rec.isRunning
                 PROVE  /\ hist.by # NotPulled
                        /\ rec.totalSmplsCnt - 1 - hist.since =
                              IF rec.config.preTrigger < rec.totalSmplsCnt
                              THEN rec.config.preTrigger ELSE 0
                        /\ hist.by > 0 =>
                              /\ RecPntCnt = rec.totalSmplsCnt
                              /\ hist.taken >= rec.totalSmplsCnt
      BY DEF TriggerInPlace
    <2>1. RecOK(rec) /\ Layout(rec) /\ Run(rec, hist)
      BY <1>1 DEF IInv, Inv, Core
    <2>2. rec.isConfigured
      BY <2>1 DEF Run
    <2>3. hist.by # NotPulled /\ hist.since = rec.postTrigger /\ rec.hasData
      BY <1>1 DEF IInv, Inv, Core, Counted
    <2>4. PICK w \in 0 .. rec.totalSmplsCnt - 1 : At(rec, cell, hist, w)
      BY <1>1, <2>3 DEF IInv, Inv, Core, Position
    <2>5. PICK m \in Nat \ {0}, pre \in Nat : m = rec.totalSmplsCnt /\ pre = rec.config.preTrigger
      BY <2>1, <2>2 DEF RecOK, ConfigOK, Layout
    <2>6. m - 1 - hist.since = IF pre < m THEN pre ELSE 0
      <3>1. rec.postTrigger = PostTrigger(m, pre)
        BY <2>1, <2>2, <2>5 DEF Layout
      <3> QED BY <2>3, <2>5, <3>1 DEF PostTrigger
    <2>7. ASSUME hist.by > 0 PROVE RecPntCnt = m /\ hist.taken >= m
      <3>1. ~rec.isVirginCycle
        BY <2>1, <2>7 DEF Run
      <3> QED BY <1>1, <2>2, <2>4, <2>5, <3>1, ReportLemma DEF At
    <2> QED BY <2>3, <2>5, <2>6, <2>7
  <1> QED BY <1>1, Invariance, PTL

\* A variable that triggers on an edge pulls the trigger only when its comparison
\* has just changed: the last state that FMSTR_Recorder keeps of it is, by the time
\* the trigger is looked for, that of the sample before in the same run.
THEOREM EdgesTrigger == Spec => TriggersOnEdges
  <1>1. ASSUME IInv, Next, hist'.by > 0, hist.by = NotPulled PROVE EdgeHappened
    <2>1. RecOK(rec) /\ HistOK(hist)
      BY <1>1 DEF IInv, Inv, Core
    <2>2. hist.by = 0
      BY <1>1 DEF NotPulled
    <2>3. CASE UNCHANGED hist
      BY <1>1, <2>2, <2>3
    <2>4. CASE MemCfg \/ StartRec
      <3>1. PICK run, n : hist' = NewRun(run, n) \/ hist' = hist
        BY <2>4 DEF MemCfg, RecMemCfg, StartRec
      <3>2. hist'.by = 0
        BY <2>2, <3>1, NewRunLemma DEF NotPulled
      <3> QED BY <1>1, <3>2
    <2>5. CASE TriggerRec
      <3>1. hist' = hist \/ hist' = WithBy(hist, ByCall)
        BY <2>5 DEF TriggerRec, Pulled, WithBy
      <3>2. hist'.by = 0 \/ hist'.by = -1
        BY <2>1, <2>2, <3>1, WithByLemma DEF HistOK, ByCall
      <3> QED BY <1>1, <3>2
    <2>6. CASE AbortRec
      <3>1. hist'.by = hist.by
        BY <2>1, <2>6 DEF AbortRec, HistOK, HistFields
      <3> QED BY <1>1, <2>2, <3>1
    <2>7. ASSUME NEW cmp \in [DOMAIN rec.varDescr -> BOOLEAN], Sample(cmp)
          PROVE  EdgeHappened
      <3>1. PICK fired, i : fired = Firing(rec, cmp) /\ i = Min(fired)
        OBVIOUS
      <3>2. PICK h : /\ fired = {} => h = hist
                     /\ fired # {} => h = hist \/ h = WithBy(hist, i)
                     /\ hist' = Noted(h, cmp)
        <4>1. PICK s : s = IF fired = {} THEN Measured(rec, cmp)
                           ELSE Triggered(Measured(rec, cmp))
          OBVIOUS
        <4>2. PICK h : h = IF fired = {} THEN hist ELSE Pulled(rec, s, hist, i)
          OBVIOUS
        <4>3. hist' = Noted(h, cmp)
          BY <2>7, <3>1, <4>1, <4>2 DEF Sample, Measured, Noted
        <4>4. fired # {} => h = hist \/ h = WithBy(hist, i)
          BY <4>2 DEF Pulled, WithBy
        <4> QED BY <4>2, <4>3, <4>4
      <3>3. DOMAIN h = HistFields /\ (h.by # hist.by => fired # {} /\ h.by = i)
        <4>1. DOMAIN hist = HistFields
          BY <2>1 DEF HistOK
        <4>2. CASE h = hist
          BY <4>1, <4>2
        <4>3. CASE fired # {} /\ h = WithBy(hist, i)
          BY <4>1, <4>3, WithByLemma
        <4> QED BY <3>2, <4>2, <4>3
      <3>4. hist'.by = h.by /\ hist'.seen = cmp
        BY <3>2, <3>3 DEF Noted, HistFields
      <3>5. fired # {} /\ hist'.by = i
        BY <1>1, <2>2, <3>3, <3>4
      <3>6. /\ i \in 1 .. rec.config.varCount /\ Fires(rec.varDescr[i], cmp[i])
            /\ ~rec.isStopping /\ ~rec.isVirginCycle
        BY <2>1, <3>1, <3>5, FiringLemma
      <3>7. CASE rec.varDescr[i].cfg.level
        BY <3>5, <3>7 DEF EdgeHappened
      <3>8. CASE ~rec.varDescr[i].cfg.level
        <4>1. Triggering(rec.varDescr[i]) /\ rec.varDescr[i].trgLastState # cmp[i]
          BY <3>6, <3>8 DEF Fires
        <4>2. rec.isRunning
          BY <2>7 DEF Sample
        <4>3. hist.taken > 0 /\ rec.varDescr[i].trgLastState = hist.seen[i]
          BY <1>1, <3>6, <4>1, <4>2 DEF IInv, Inv, Edges
        <4> QED BY <3>4, <3>5, <4>1, <4>3 DEF EdgeHappened
      <3> QED BY <3>7, <3>8
    <2>8. VarCfg \/ GetRec \/ Skip => UNCHANGED hist
      BY DEF VarCfg, AddVariable, SetRecVar, GetRec, Skip
    <2> QED BY <1>1, <2>3, <2>4, <2>5, <2>6, <2>7, <2>8 DEF Next, Recorder
  <1>2. ASSUME IInv, [Next]_vars PROVE [EdgeHappened]_vars
    <2>1. CASE ~(hist'.by > 0 /\ hist.by = NotPulled)
      BY <2>1 DEF EdgeHappened
    <2>2. CASE hist'.by > 0 /\ hist.by = NotPulled
      BY <1>1, <1>2, <2>2
    <2> QED BY <2>1, <2>2
  <1> QED BY <1>2, Invariance, PTL DEF Spec, TriggersOnEdges
-----------------------------------------------------------------------------
(* Application commands.                                                   *)

Bytes == [kind : {"argument", "data"}, of : Nat]

Targets ==
    [appCmd : Codes \union {NoCmd}, len : 0 .. AppCmdBuffSize, buff : [Cells -> Bytes],
     result : Int, dataLen : 0 .. AppCmdBuffSize]

AppCmdTypeOK ==
    /\ t \in Targets
    /\ registered \subseteq Codes
    /\ held \in Nat /\ accepted \in Nat
    /\ runs \in [Numbers -> Nat] /\ given \in [Numbers -> Nat]
    /\ phase \in {"idle", "sending", "waiting", "done"}
    /\ request \in [code : Codes \union {NoCmd}, len : Nat, again : BOOLEAN]
    /\ request.code \in Codes \/ phase = "idle"
    /\ hostResult \in Int
    /\ sent \in 0 .. MaxCommands /\ lost \in 0 .. MaxLost

\* Every command that is accepted was sent, or its response was lost.
AppCmdCounted == accepted + (IF phase = "sending" THEN 1 ELSE 0) <= sent + lost

\* The pending command is the one accepted last; it has run if the application
\* holds it, which then has no callback registered for it.
Pending ==
    /\ accepted > 0 /\ t.result = Running /\ t.dataLen = 0
    /\ \A i \in Cells : i < t.len => t.buff[i] = Arg(accepted)
    /\ IF held = None THEN runs[accepted] = 0
       ELSE held = accepted /\ runs[accepted] = 1 /\ t.appCmd \notin registered

\* With no command pending the last one has run and left its result.
Processed ==
    /\ held = None
    /\ IF accepted = 0 THEN t.result = Never
       ELSE t.result = accepted /\ runs[accepted] = 1

\* And its response data, as much as fits.
DataLeft ==
    t.appCmd = NoCmd /\ accepted > 0 =>
        /\ t.dataLen = IF given[accepted] > AppCmdBuffSize THEN AppCmdBuffSize ELSE given[accepted]
        /\ \A i \in Cells : i < t.dataLen => t.buff[i] = Data(accepted)

\* No command has run more than once, and none that was not accepted.
Once == \A k \in Numbers : runs[k] <= 1 /\ (k > accepted => runs[k] = 0)

\* What the host knows of the command it sent.
HostKnows ==
    /\ phase \in {"waiting", "done"} => accepted > 0
    /\ phase = "done" => t.appCmd = NoCmd /\ hostResult = accepted

\* The inductive invariant.
AppCmdIInv ==
    /\ AppCmdTypeOK /\ AppCmdCounted /\ Once /\ HostKnows
    /\ IF t.appCmd = NoCmd THEN Processed ELSE Pending
    /\ DataLeft
-----------------------------------------------------------------------------
(* The calls and handlers of the target.                                   *)

\* Filling the beginning of the buffer changes that and keeps it a buffer.
LEMMA FilledBuff ==
    ASSUME NEW buff \in [Cells -> Bytes], NEW n \in Nat, NEW byte \in Bytes
    PROVE  /\ Filled(buff, n, byte) \in [Cells -> Bytes]
           /\ \A i \in Cells : i < n => Filled(buff, n, byte)[i] = byte
  BY DEF Filled, Cells

\* Giving response data for a command that has none yet leaves as much of it
\* as fits, and nothing else changes.
LEMMA GivenData ==
    ASSUME NEW s \in Targets, s.dataLen = 0, NEW n \in Nat, NEW k \in Nat,
           NEW w, w = WithData(s, n, k)
    PROVE  /\ w \in Targets /\ w.appCmd = s.appCmd /\ w.len = s.len /\ w.result = s.result
           /\ w.dataLen = IF n > AppCmdBuffSize THEN AppCmdBuffSize ELSE n
           /\ \A i \in Cells : i < w.dataLen => w.buff[i] = Data(k)
  <1>1. Data(k) \in Bytes
    BY DEF Data, Bytes
  <1>2. CASE n = 0
    <2>1. w = s
      BY <1>2 DEF WithData
    <2> QED BY <1>2, <2>1, AppCmdAssumption DEF Cells, Targets
  <1>3. CASE n # 0
    <2>1. PICK len \in 0 .. AppCmdBuffSize : len = IF n > AppCmdBuffSize THEN AppCmdBuffSize ELSE n
      BY AppCmdAssumption
    <2>2. w = [s EXCEPT !.dataLen = len, !.buff = Filled(s.buff, len, Data(k))]
      BY <1>3, <2>1 DEF WithData, AppCmdSetResponseData
    <2>3. /\ Filled(s.buff, len, Data(k)) \in [Cells -> Bytes]
          /\ \A i \in Cells : i < len => Filled(s.buff, len, Data(k))[i] = Data(k)
      BY <1>1, FilledBuff DEF Targets
    <2> QED BY <2>1, <2>2, <2>3 DEF Targets
  <1> QED BY <1>2, <1>3

\* Acknowledging a command leaves its result, no command and no data.
LEMMA Acknowledged ==
    ASSUME NEW s \in Targets, NEW k \in Nat
    PROVE  /\ AppCmdAck(s, k) \in Targets /\ AppCmdAck(s, k).appCmd = NoCmd
           /\ AppCmdAck(s, k).result = k /\ AppCmdAck(s, k).dataLen = 0
  <1>1. PICK zero \in 0 .. AppCmdBuffSize : zero = 0
    BY AppCmdAssumption
  <1>2. PICK code \in Codes \union {NoCmd} : code = NoCmd
    OBVIOUS
  <1>3. PICK result \in Int : result = k
    OBVIOUS
  <1>4. [s EXCEPT !.result = result, !.dataLen = zero, !.appCmd = code] \in Targets
    BY DEF Targets
  <1>5. AppCmdAck(s, k) \in Targets
    BY <1>1, <1>2, <1>3, <1>4 DEF AppCmdAck
  <1> QED BY <1>5 DEF Targets, AppCmdAck

\* The number of the command accepted last is one of those there are.
LEMMA AcceptedNumber ==
    ASSUME AppCmdIInv, accepted > 0
    PROVE  accepted \in Numbers
  BY AppCmdAssumption DEF AppCmdIInv, AppCmdTypeOK, AppCmdCounted, Numbers

LEMMA AppCmdInitIInv == AppCmdInit => AppCmdIInv
  <1> SUFFICES ASSUME AppCmdInit PROVE AppCmdIInv
    OBVIOUS
  <1>1. Arg(None) \in Bytes
    BY DEF Arg, Bytes, None
  <1>2. AppCmdTypeOK
    BY <1>1, AppCmdAssumption DEF AppCmdInit, AppCmdTypeOK, Targets, Never, None
  <1> QED BY <1>2 DEF AppCmdInit, AppCmdIInv, AppCmdCounted, Once, HostKnows, Processed, DataLeft, None, Numbers
-----------------------------------------------------------------------------
(* The steps.                                                              *)

LEMMA RegisterStep ==
    ASSUME AppCmdIInv, NEW code \in Codes, RegisterAppCmdCall(code)
    PROVE  AppCmdIInv'
  <1>1. registered' \subseteq Codes
    BY DEF RegisterAppCmdCall, AppCmdIInv, AppCmdTypeOK
  <1>2. UNCHANGED <<t, held, accepted, runs, given, phase, request, hostResult, sent, lost>> /\ held = None
    BY DEF RegisterAppCmdCall
  <1> QED BY <1>1, <1>2 DEF AppCmdIInv, AppCmdTypeOK, AppCmdCounted, Once, HostKnows, Processed, Pending, DataLeft

LEMMA FetchStep ==
    ASSUME AppCmdIInv, Fetch
    PROVE  AppCmdIInv'
  <1>1. /\ t.appCmd # NoCmd /\ t.appCmd \notin registered /\ held = None
        /\ held' = accepted /\ runs' = [runs EXCEPT ![accepted] = @ + 1]
        /\ UNCHANGED <<t, registered, accepted, given, phase, request, hostResult, sent, lost>>
    BY DEF Fetch, GetAppCmd
  <1>2. Pending /\ runs[accepted] = 0 /\ accepted \in Numbers
    BY <1>1, AcceptedNumber DEF AppCmdIInv, Pending
  <1>3. runs' \in [Numbers -> Nat] /\ runs'[accepted] = 1
        /\ \A k \in Numbers \ {accepted} : runs'[k] = runs[k]
    BY <1>1, <1>2 DEF AppCmdIInv, AppCmdTypeOK
  <1>4. AppCmdTypeOK'
    BY <1>1, <1>3 DEF AppCmdIInv, AppCmdTypeOK
  <1>5. Once'
    BY <1>1, <1>2, <1>3 DEF AppCmdIInv, AppCmdTypeOK, Once, Numbers
  <1>6. Pending'
    BY <1>1, <1>2, <1>3 DEF Pending, None
  <1>7. DataLeft' /\ AppCmdCounted' /\ HostKnows'
    BY <1>1 DEF AppCmdIInv, DataLeft, AppCmdCounted, HostKnows
  <1> QED BY <1>1, <1>4, <1>5, <1>6, <1>7 DEF AppCmdIInv

LEMMA FinishStep ==
    ASSUME AppCmdIInv, NEW n \in Lens, NEW ackFirst \in BOOLEAN, Finish(n, ackFirst)
    PROVE  AppCmdIInv'
  <1>0. n \in Nat
    BY AppCmdAssumption
  <1>1. /\ held # None /\ held' = None
        /\ given' = [given EXCEPT ![held] = IF ackFirst THEN n ELSE 0]
        /\ UNCHANGED <<registered, accepted, runs, phase, request, hostResult, sent, lost>>
        /\ t' = IF ackFirst THEN WithData(AppCmdAck(t, held), n, held)
                ELSE AppCmdAck(WithData(t, n, held), held)
    BY DEF Finish
  <1>2. Pending /\ held = accepted /\ runs[accepted] = 1 /\ accepted \in Numbers /\ t.appCmd # NoCmd
    BY <1>1, AcceptedNumber DEF AppCmdIInv, Pending, Processed
  <1>0a. t \in Targets /\ accepted \in Nat /\ AppCmdBuffSize \in Nat
    BY AppCmdAssumption DEF AppCmdIInv, AppCmdTypeOK
  <1>3. /\ t' \in Targets /\ t'.appCmd = NoCmd /\ t'.result = accepted
        /\ ackFirst => t'.dataLen = IF n > AppCmdBuffSize THEN AppCmdBuffSize ELSE n
        /\ ~ackFirst => t'.dataLen = 0
        /\ \A i \in Cells : i < t'.dataLen => t'.buff[i] = Data(accepted)
    <2>1. CASE ackFirst
      <3>1. PICK a : a = AppCmdAck(t, accepted)
        OBVIOUS
      <3>2. a \in Targets /\ a.appCmd = NoCmd /\ a.result = accepted /\ a.dataLen = 0
        BY <1>0a, <3>1, Acknowledged
      <3>3. t' = WithData(a, n, accepted)
        BY <1>1, <1>2, <2>1, <3>1
      <3>4. /\ t' \in Targets /\ t'.appCmd = NoCmd /\ t'.result = accepted
            /\ t'.dataLen = IF n > AppCmdBuffSize THEN AppCmdBuffSize ELSE n
            /\ \A i \in Cells : i < t'.dataLen => t'.buff[i] = Data(accepted)
        BY <1>0, <1>0a, <3>2, <3>3, GivenData
      <3> QED BY <2>1, <3>4
    <2>2. CASE ~ackFirst
      <3>1. PICK w : w = WithData(t, n, accepted)
        OBVIOUS
      <3>2. w \in Targets
        BY <1>0, <1>2, <3>1, GivenData DEF AppCmdIInv, AppCmdTypeOK, Pending
      <3>3. t' = AppCmdAck(w, accepted)
        BY <1>1, <1>2, <2>2, <3>1
      <3>4. t' \in Targets /\ t'.appCmd = NoCmd /\ t'.result = accepted /\ t'.dataLen = 0
        BY <1>0a, <3>2, <3>3, Acknowledged
      <3> QED BY <2>2, <3>4 DEF Cells
    <2> QED BY <2>1, <2>2
  <1>4. t'.appCmd = NoCmd /\ t'.result = accepted
    BY <1>3
  <1>5. given' \in [Numbers -> Nat] /\ given'[accepted] = IF ackFirst THEN n ELSE 0
    BY <1>0, <1>1, <1>2 DEF AppCmdIInv, AppCmdTypeOK
  <1>6. AppCmdTypeOK'
    BY <1>1, <1>3, <1>5 DEF AppCmdIInv, AppCmdTypeOK, None
  <1>7. Processed'
    BY <1>1, <1>2, <1>4 DEF Processed, Pending
  <1>8. DataLeft'
    BY <1>0a, <1>1, <1>3, <1>5 DEF DataLeft
  <1>9. Once' /\ AppCmdCounted' /\ HostKnows'
    BY <1>1, <1>2, <1>4 DEF AppCmdIInv, Once, AppCmdCounted, HostKnows
  <1> QED BY <1>4, <1>6, <1>7, <1>8, <1>9 DEF AppCmdIInv

LEMMA NewCommandStep ==
    ASSUME AppCmdIInv, NEW code \in Codes, NEW len \in Lens, NewCommand(code, len)
    PROVE  AppCmdIInv'
  <1>1. /\ phase \in {"idle", "done"} /\ sent < MaxCommands
        /\ phase' = "sending" /\ sent' = sent + 1
        /\ request' = [code |-> code, len |-> len, again |-> FALSE]
        /\ UNCHANGED <<t, registered, held, accepted, runs, given, hostResult, lost>>
    BY DEF NewCommand, targetVars
  <1>2. request' \in [code : Codes \union {NoCmd}, len : Nat, again : BOOLEAN]
        /\ request'.code \in Codes
    BY <1>1, AppCmdAssumption
  <1>3. sent' \in 0 .. MaxCommands
    BY <1>1, AppCmdAssumption DEF AppCmdIInv, AppCmdTypeOK
  <1>4. AppCmdTypeOK'
    BY <1>1, <1>2, <1>3 DEF AppCmdIInv, AppCmdTypeOK
  <1>5. AppCmdCounted'
    BY <1>1, AppCmdAssumption DEF AppCmdIInv, AppCmdTypeOK, AppCmdCounted
  <1> QED BY <1>1, <1>4, <1>5 DEF AppCmdIInv, Once, HostKnows, Processed, Pending, DataLeft

LEMMA SendStep ==
    ASSUME AppCmdIInv, NEW arrives \in BOOLEAN, SendAppCmd(arrives)
    PROVE  AppCmdIInv'
  <1>1. PICK status : status = StoreStatus(t, request.len)
    OBVIOUS
  <1>2. /\ phase = "sending" /\ UNCHANGED <<registered, held, runs, given, hostResult, sent>>
        /\ t' = IF status = "OK" THEN StoreAppCmd(t, request.code, request.len, accepted + 1) ELSE t
        /\ accepted' = IF status = "OK" THEN accepted + 1 ELSE accepted
        /\ request' = [request EXCEPT !.again = TRUE]
        /\ phase' = IF ~arrives THEN phase
                    ELSE IF status = "OK" \/ (status = "SERVBUSY" /\ request.again) THEN "waiting" ELSE "idle"
    BY <1>1 DEF SendAppCmd
  <1>3. lost' = (IF arrives THEN lost ELSE lost + 1) /\ lost' \in 0 .. MaxLost
    BY AppCmdAssumption DEF SendAppCmd, Respond, AppCmdIInv, AppCmdTypeOK
  <1>4. request' \in [code : Codes \union {NoCmd}, len : Nat, again : BOOLEAN]
        /\ request'.code \in Codes
    BY <1>2 DEF AppCmdIInv, AppCmdTypeOK
  <1>5. t \in Targets /\ accepted \in Nat /\ request.code \in Codes /\ request.len \in Nat
    BY <1>2 DEF AppCmdIInv, AppCmdTypeOK
  <1>6. CASE status = "OK"
    <2>1. t.appCmd = NoCmd /\ request.len \in 0 .. AppCmdBuffSize
      BY <1>1, <1>5, <1>6, AppCmdAssumption DEF StoreStatus
    <2>2. Processed /\ held = None
      BY <2>1 DEF AppCmdIInv, Processed
    <2>3. accepted' = accepted + 1 /\ accepted' \in Numbers /\ accepted' # accepted
      BY <1>2, <1>5, <1>6, AppCmdAssumption DEF AppCmdIInv, AppCmdTypeOK, AppCmdCounted, Numbers
    <2>4. runs[accepted'] = 0
      BY <1>5, <2>3 DEF AppCmdIInv, AppCmdTypeOK, Once
    <2>5. Arg(accepted') \in Bytes
      BY <1>5, <2>3 DEF Arg, Bytes
    <2>6. /\ t' \in Targets /\ t'.appCmd = request.code /\ t'.len = request.len
          /\ t'.buff = Filled(t.buff, request.len, Arg(accepted'))
          /\ t'.result = Running /\ t'.dataLen = 0
      <3>1. PICK zero \in 0 .. AppCmdBuffSize : zero = 0
        BY AppCmdAssumption
      <3>2. PICK code \in Codes \union {NoCmd} : code = request.code
        BY <1>5
      <3>3. PICK len \in 0 .. AppCmdBuffSize : len = request.len
        BY <2>1
      <3>4. PICK buff \in [Cells -> Bytes] : buff = Filled(t.buff, len, Arg(accepted'))
        BY <1>5, <2>5, FilledBuff DEF Targets
      <3>5. PICK result \in Int : result = Running
        BY DEF Running
      <3>6. t' = [t EXCEPT !.appCmd = code, !.len = len, !.buff = buff, !.result = result, !.dataLen = zero]
        BY <1>2, <1>6, <2>3, <3>1, <3>2, <3>3, <3>4, <3>5 DEF StoreAppCmd
      <3> QED BY <1>5, <3>1, <3>2, <3>3, <3>4, <3>5, <3>6 DEF Targets
    <2>7. \A i \in Cells : i < t'.len => t'.buff[i] = Arg(accepted')
      <3>1. t.buff \in [Cells -> Bytes]
        BY <1>5 DEF Targets
      <3>2. \A i \in Cells : i < request.len => Filled(t.buff, request.len, Arg(accepted'))[i] = Arg(accepted')
        BY <1>5, <2>5, <3>1, FilledBuff
      <3> QED BY <2>6, <3>2
    <2>8. AppCmdTypeOK'
      BY <1>2, <1>3, <1>4, <1>5, <2>3, <2>6 DEF AppCmdIInv, AppCmdTypeOK
    <2>9. Pending'
      BY <1>2, <1>5, <2>2, <2>3, <2>4, <2>6, <2>7 DEF Pending
    <2>10. t'.appCmd # NoCmd
      BY <1>5, <2>6, AppCmdAssumption
    <2>11. Once'
      BY <1>2, <1>5, <2>3 DEF AppCmdIInv, AppCmdTypeOK, Once, Numbers
    <2>12. AppCmdCounted'
      BY <1>2, <1>3, <1>5, <1>6, AppCmdAssumption DEF AppCmdIInv, AppCmdTypeOK, AppCmdCounted
    <2>13. HostKnows'
      BY <1>2, <1>5, <2>3 DEF HostKnows
    <2> QED BY <2>8, <2>9, <2>10, <2>11, <2>12, <2>13 DEF AppCmdIInv, DataLeft
  <1>7. CASE status # "OK"
    <2>1. t' = t /\ accepted' = accepted
      BY <1>2, <1>7
    <2>2. AppCmdTypeOK'
      BY <1>2, <1>3, <1>4, <2>1 DEF AppCmdIInv, AppCmdTypeOK
    <2>3. AppCmdCounted'
      BY <1>2, <1>3, <2>1, AppCmdAssumption DEF AppCmdIInv, AppCmdTypeOK, AppCmdCounted
    <2>4. phase' = "waiting" => accepted > 0
      <3>1. status = "SERVBUSY" => t.appCmd # NoCmd
        BY <1>1 DEF StoreStatus
      <3> QED BY <1>2, <1>7, <3>1 DEF AppCmdIInv, Pending
    <2>5. HostKnows'
      BY <1>2, <2>1, <2>4 DEF HostKnows
    <2> QED BY <1>2, <2>1, <2>2, <2>3, <2>5 DEF AppCmdIInv, Once, Processed, Pending, DataLeft
  <1> QED BY <1>6, <1>7

LEMMA StatusStep ==
    ASSUME AppCmdIInv, NEW n \in Lens, NEW arrives \in BOOLEAN, GetAppCmdStatus(n, arrives)
    PROVE  AppCmdIInv'
  <1>1. /\ phase \in {"waiting", "done"} /\ accepted > 0 /\ accepted \in Numbers
        /\ UNCHANGED <<registered, held, accepted, request, sent>>
    BY AcceptedNumber DEF GetAppCmdStatus, AppCmdIInv, HostKnows
  <1>2. lost' = (IF arrives THEN lost ELSE lost + 1) /\ lost' \in 0 .. MaxLost
    BY AppCmdAssumption DEF GetAppCmdStatus, Respond, AppCmdIInv, AppCmdTypeOK
  <1>3. n \in Nat /\ t \in Targets /\ accepted \in Nat
    BY AppCmdAssumption DEF AppCmdIInv, AppCmdTypeOK
  <1>4. \/ phase' = phase /\ hostResult' = hostResult
        \/ phase' = "done" /\ hostResult' = t'.result /\ t'.result # Running
    BY DEF GetAppCmdStatus
  <1>5. AppCmdCounted'
    BY <1>1, <1>2, <1>4 DEF AppCmdIInv, AppCmdTypeOK, AppCmdCounted
  <1>6. CASE t.appCmd \in registered
    <2>1. t.appCmd # NoCmd
      BY <1>6, AppCmdAssumption DEF AppCmdIInv, AppCmdTypeOK
    <2>2. Pending /\ held = None /\ runs[accepted] = 0
      BY <1>6, <2>1 DEF AppCmdIInv, Pending
    <2>3. /\ t' = Called(t, n, accepted) /\ runs' = [runs EXCEPT ![accepted] = @ + 1]
          /\ given' = [given EXCEPT ![accepted] = n]
      BY <1>6 DEF GetAppCmdStatus
    <2>4. /\ runs' \in [Numbers -> Nat] /\ runs'[accepted] = 1
          /\ \A k \in Numbers \ {accepted} : runs'[k] = runs[k]
          /\ given' \in [Numbers -> Nat] /\ given'[accepted] = n
      BY <1>1, <1>3, <2>2, <2>3 DEF AppCmdIInv, AppCmdTypeOK
    <2>5. /\ t' \in Targets /\ t'.appCmd = NoCmd /\ t'.result = accepted
          /\ t'.dataLen = IF n > AppCmdBuffSize THEN AppCmdBuffSize ELSE n
          /\ \A i \in Cells : i < t'.dataLen => t'.buff[i] = Data(accepted)
      <3>1. PICK w : w = WithData(t, n, accepted)
        OBVIOUS
      <3>2. /\ w \in Targets /\ w.dataLen = IF n > AppCmdBuffSize THEN AppCmdBuffSize ELSE n
            /\ \A i \in Cells : i < w.dataLen => w.buff[i] = Data(accepted)
        BY <1>3, <2>2, <3>1, GivenData DEF Pending
      <3>3. PICK code \in Codes \union {NoCmd} : code = NoCmd
        OBVIOUS
      <3>4. PICK result \in Int : result = accepted
        BY <1>3
      <3>5. t' = [w EXCEPT !.result = result, !.appCmd = code]
        BY <2>3, <3>1, <3>3, <3>4 DEF Called
      <3>6. [w EXCEPT !.result = result, !.appCmd = code] \in Targets
        BY <3>2 DEF Targets
      <3> QED BY <3>2, <3>3, <3>4, <3>5, <3>6 DEF Targets
    <2>6. AppCmdTypeOK'
      <3>1. hostResult' \in Int /\ phase' \in {"waiting", "done"}
        BY <1>1, <1>3, <1>4, <2>5 DEF AppCmdIInv, AppCmdTypeOK
      <3> QED BY <1>1, <1>2, <2>4, <2>5, <3>1 DEF AppCmdIInv, AppCmdTypeOK
    <2>7. Processed'
      BY <1>1, <2>2, <2>4, <2>5 DEF Processed
    <2>8. DataLeft'
      BY <1>1, <2>4, <2>5 DEF DataLeft
    <2>9. Once'
      BY <1>1, <1>3, <2>2, <2>4 DEF AppCmdIInv, AppCmdTypeOK, Once, Numbers
    <2>10. HostKnows'
      BY <1>1, <1>4, <2>1, <2>5 DEF AppCmdIInv, HostKnows
    <2> QED BY <1>5, <2>5, <2>6, <2>7, <2>8, <2>9, <2>10 DEF AppCmdIInv
  <1>7. CASE t.appCmd \notin registered
    <2>1. UNCHANGED <<t, runs, given>>
      BY <1>7 DEF GetAppCmdStatus
    <2>2. AppCmdTypeOK'
      <3>1. hostResult' \in Int /\ phase' \in {"waiting", "done"}
        BY <1>1, <1>3, <1>4, <2>1 DEF AppCmdIInv, AppCmdTypeOK, Targets
      <3> QED BY <1>1, <1>2, <2>1, <3>1 DEF AppCmdIInv, AppCmdTypeOK
    <2>3. HostKnows'
      BY <1>1, <1>4, <2>1 DEF AppCmdIInv, HostKnows, Processed, Pending
    <2> QED BY <1>1, <1>5, <2>1, <2>2, <2>3 DEF AppCmdIInv, Once, Processed, Pending, DataLeft
  <1> QED BY <1>6, <1>7

LEMMA AppCmdNextIInv == AppCmdIInv /\ [AppCmdNext]_appCmdVars => AppCmdIInv'
  <1> SUFFICES ASSUME AppCmdIInv, [AppCmdNext]_appCmdVars PROVE AppCmdIInv'
    OBVIOUS
  <1>1. CASE UNCHANGED appCmdVars
    BY <1>1 DEF appCmdVars, AppCmdIInv, AppCmdTypeOK, AppCmdCounted, Once,
           HostKnows, Processed, Pending, DataLeft
  <1>2. CASE AppCmdNext
    BY <1>2, RegisterStep, FetchStep, FinishStep, NewCommandStep, SendStep, StatusStep DEF AppCmdNext
  <1> QED BY <1>1, <1>2
-----------------------------------------------------------------------------
(* The theorems.                                                           *)

\* AppCmdIInv holds in every state the program reaches.
THEOREM AppCmdInvariance == AppCmdSpec => []AppCmdIInv
  BY AppCmdInitIInv, AppCmdNextIInv, PTL DEF AppCmdSpec

\* However the host repeats its requests, a command runs at most once, be it
\* in its callback or where the application polls.
THEOREM CommandsRunOnce == AppCmdSpec => []RunsOnce
  <1>1. AppCmdIInv => RunsOnce
    BY DEF AppCmdIInv, Once, RunsOnce
  <1> QED BY <1>1, AppCmdInvariance, PTL

\* The arguments of a command stay in the buffer, and no other command takes
\* its place, while the application processes it.
THEOREM ArgumentsStay == AppCmdSpec => []ArgumentsKept
  <1>1. AppCmdIInv => ArgumentsKept
    BY DEF AppCmdIInv, Processed, Pending, ArgumentsKept
  <1> QED BY <1>1, AppCmdInvariance, PTL

\* A host that has its result reads the response data of that command and
\* nothing else: all that was set after the command was acknowledged, or in its
\* callback, and none of what FMSTR_AppCmdAck discards.
THEOREM ResponseDataStay == AppCmdSpec => []ResponseDataKept
  <1>1. AppCmdIInv => ResponseDataKept
    <2> SUFFICES ASSUME AppCmdIInv, phase = "done" PROVE ResponseDataKept
      BY DEF ResponseDataKept
    <2>1. /\ t.appCmd = NoCmd /\ accepted > 0 /\ hostResult = accepted /\ runs[accepted] = 1
          /\ DataLeft /\ accepted \in Numbers
      BY AcceptedNumber DEF AppCmdIInv, HostKnows, Processed
    <2>2. t.dataLen \in Nat /\ given[accepted] \in Nat /\ AppCmdBuffSize \in Nat /\ CommSize \in Nat
      BY <2>1, AppCmdAssumption DEF AppCmdIInv, AppCmdTypeOK, Targets
    <2>3. ASSUME NEW offset \in Cells, NEW len \in 1 .. CommSize
          PROVE  /\ RespDataStatus(t, offset, len) = "OK" <=>
                        offset + len <= AppCmdBuffSize /\ offset + len <= given[accepted]
                 /\ RespDataStatus(t, offset, len) = "OK" =>
                        \A i \in offset .. offset + len - 1 : t.buff[i] = Data(accepted)
      <3>1. offset \in Nat /\ len \in Nat \ {0} /\ len <= CommSize
        BY <2>2 DEF Cells
      <3>2. RespDataStatus(t, offset, len) = "OK" <=> offset + len <= t.dataLen
        BY <2>1, <2>2, <3>1 DEF RespDataStatus
      <3>3. t.dataLen = IF given[accepted] > AppCmdBuffSize THEN AppCmdBuffSize ELSE given[accepted]
        BY <2>1 DEF DataLeft
      <3>4. ASSUME offset + len <= t.dataLen, NEW i \in offset .. offset + len - 1
            PROVE  t.buff[i] = Data(accepted)
        <4>1. i \in Cells /\ i < t.dataLen
          BY <2>2, <3>1, <3>3, <3>4 DEF Cells
        <4> QED BY <2>1, <4>1 DEF DataLeft
      <3> QED BY <2>2, <3>1, <3>2, <3>3, <3>4
    <2> QED BY <2>1, <2>3 DEF ResponseDataKept
  <1> QED BY <1>1, AppCmdInvariance, PTL
-----------------------------------------------------------------------------
Heads(f, k) == [j \in 1 .. k |-> f[j]]

\* One element more.
LEMMA AppendFunction ==
    ASSUME NEW f, NEW k \in Nat
    PROVE  Append(Heads(f, k), f[k + 1]) = Heads(f, k + 1)
  BY DEF Heads
-----------------------------------------------------------------------------
(* The digest.                                                             *)

\* Block number j of s.
Block(s, j) == [i \in 1 .. BlockSize |-> s[(j - 1) * BlockSize + i]]

\* Its first K blocks.
Blocks(s, K) == [j \in 1 .. K |-> Block(s, j)]

\* The context when s was hashed: k blocks of it are transformed, r bytes wait.
HashedTo(c, s, k, r) ==
    /\ k \in Nat /\ r \in 0 .. BlockSize - 1
    /\ s \in Seq(Octets) /\ Len(s) = k * BlockSize + r
    /\ c = [data |-> c.data, datalen |-> r, bitlen |-> 8 * (k * BlockSize), blocks |-> [j \in 1 .. k |-> Block(s, j)]]
    /\ \E S : c.data \in [1 .. BlockSize -> S]
    /\ \A i \in 1 .. r : c.data[i] = s[k * BlockSize + i]

Hashed(c, s) == \E k, r : HashedTo(c, s, k, r)

\* Where block j lies.
LEMMA BlockStart ==
    ASSUME NEW k \in Nat, NEW j \in 1 .. k
    PROVE  /\ (j - 1) * BlockSize \in Nat /\ (j - 1) * BlockSize + BlockSize <= k * BlockSize
           /\ k * BlockSize \in Nat
  <1>1. BlockSize \in Nat
    BY Sha1Assumption
  <1>2. PICK i \in Nat : i = j - 1 /\ i + 1 <= k /\ i + 1 \in Nat
    <2>1. j - 1 \in Nat /\ (j - 1) + 1 <= k /\ (j - 1) + 1 \in Nat
      OBVIOUS
    <2> QED BY <2>1
  <1>3. (i + 1) * BlockSize <= k * BlockSize
    BY <1>1, <1>2, Mono
  <1>4. (i + 1) * BlockSize = i * BlockSize + BlockSize /\ i * BlockSize \in Nat /\ k * BlockSize \in Nat
    BY <1>1
  <1> QED BY <1>2, <1>3, <1>4

\* Data that follow change no block.
LEMMA SameBlocks ==
    ASSUME NEW s, NEW k \in Nat, NEW longer, \A i \in 1 .. k * BlockSize : longer[i] = s[i], NEW j \in 1 .. k
    PROVE  Block(longer, j) = Block(s, j)
  <1>1. ASSUME NEW i \in 1 .. BlockSize PROVE longer[(j - 1) * BlockSize + i] = s[(j - 1) * BlockSize + i]
    <2>1. PICK b \in Nat, e \in Nat : b = (j - 1) * BlockSize /\ e = k * BlockSize /\ b + BlockSize <= e
      BY BlockStart
    <2>2. b + i \in 1 .. e
      BY <2>1, Sha1Assumption
    <2> QED BY <2>1, <2>2
  <1> QED BY <1>1 DEF Block

\* A context with these fields.
Ctx(d, r, n, l) == [data |-> d, datalen |-> r, bitlen |-> n, blocks |-> l]

SetData(c, x) == [c EXCEPT !.data = x]
SetDatalen(c, x) == [c EXCEPT !.datalen = x]
SetBitlen(c, x) == [c EXCEPT !.bitlen = x]
SetBlocks(c, x) == [c EXCEPT !.blocks = x]

\* What the fields are.
LEMMA CtxFields ==
    ASSUME NEW d, NEW r, NEW n, NEW l
    PROVE  /\ Ctx(d, r, n, l).data = d /\ Ctx(d, r, n, l).datalen = r
           /\ Ctx(d, r, n, l).bitlen = n /\ Ctx(d, r, n, l).blocks = l
  BY DEF Ctx

\* Setting a field.
LEMMA CtxLemma ==
    ASSUME NEW d, NEW r, NEW n, NEW l, NEW x
    PROVE  /\ SetData(Ctx(d, r, n, l), x) = Ctx(x, r, n, l)
           /\ SetDatalen(Ctx(d, r, n, l), x) = Ctx(d, x, n, l)
           /\ SetBitlen(Ctx(d, r, n, l), x) = Ctx(d, r, x, l)
           /\ SetBlocks(Ctx(d, r, n, l), x) = Ctx(d, r, n, x)
  <1>1. SetData(Ctx(d, r, n, l), x) = Ctx(x, r, n, l)
    BY DEF Ctx, SetData
  <1>2. SetDatalen(Ctx(d, r, n, l), x) = Ctx(d, x, n, l)
    BY DEF Ctx, SetDatalen
  <1>3. SetBitlen(Ctx(d, r, n, l), x) = Ctx(d, r, x, l)
    <2> DEFINE Fields == {"data", "datalen", "bitlen", "blocks"}
    <2>1. PICK u, v : u = SetBitlen(Ctx(d, r, n, l), x) /\ v = Ctx(d, r, x, l)
      OBVIOUS
    <2>2. u = [f \in Fields |-> u[f]]
      BY <2>1 DEF Ctx, SetBitlen
    <2>3. v = [f \in Fields |-> v[f]]
      BY <2>1 DEF Ctx
    <2>4. \A f \in Fields : u[f] = v[f]
      BY <2>1 DEF Ctx, SetBitlen
    <2> QED BY <2>1, <2>2, <2>3, <2>4
  <1>4. SetBlocks(Ctx(d, r, n, l), x) = Ctx(d, r, n, x)
    BY DEF Ctx, SetBlocks
  <1> QED BY <1>1, <1>2, <1>3, <1>4

LEMMA TransformLemma ==
    ASSUME NEW d, NEW r, NEW n, NEW l
    PROVE  Transform(Ctx(d, r, n, l)) = Ctx(d, r, n, Append(l, d))
  <1>1. PICK c : c = Ctx(d, r, n, l)
    OBVIOUS
  <1>2. c.blocks = l /\ c.data = d
    BY <1>1, CtxFields
  <1>3. Transform(c) = SetBlocks(c, Append(l, d))
    BY <1>2 DEF Transform, SetBlocks
  <1> QED BY <1>1, <1>3, CtxLemma

\* The buffer with one byte more.
OneMoreByte(d, r, b) == [d EXCEPT ![r + 1] = b]

LEMMA AddByteFields ==
    ASSUME NEW d, NEW r, NEW n, NEW l, NEW b
    PROVE  AddByte(Ctx(d, r, n, l), b) =
              LET e == OneMoreByte(d, r, b)
              IN  IF r + 1 = BlockSize THEN Ctx(e, 0, n + 8 * BlockSize, Append(l, e)) ELSE Ctx(e, r + 1, n, l)
  <1>0. PICK e : e = OneMoreByte(d, r, b) /\ e = [d EXCEPT ![r + 1] = b]
    BY DEF OneMoreByte
  <1>1. PICK c : c = Ctx(d, r, n, l)
    OBVIOUS
  <1>2. PICK p : p = SetDatalen(SetData(c, e), r + 1)
    OBVIOUS
  <1>3. p = [c EXCEPT !.data[c.datalen + 1] = b, !.datalen = @ + 1]
    <2>1. c.data = d /\ c.datalen = r
      BY <1>1, CtxFields
    <2> QED BY <1>0, <1>2, <2>1 DEF SetData, SetDatalen
  <1>4. p = Ctx(e, r + 1, n, l)
    <2>1. SetData(c, e) = Ctx(e, r, n, l)
      BY <1>1, CtxLemma
    <2> QED BY <1>2, <2>1, CtxLemma
  <1>5. AddByte(c, b) = IF p.datalen = BlockSize
                        THEN [Transform(p) EXCEPT !.bitlen = @ + 8 * BlockSize, !.datalen = 0] ELSE p
    BY <1>3, Zenon DEF AddByte
  <1>6. p.datalen = r + 1
    BY <1>4, CtxFields
  <1>7. PICK u : u = Transform(p) /\ u = Ctx(e, r + 1, n, Append(l, e))
    BY <1>4, TransformLemma
  <1>8. [u EXCEPT !.bitlen = @ + 8 * BlockSize, !.datalen = 0] = SetDatalen(SetBitlen(u, n + 8 * BlockSize), 0)
    <2>1. u.bitlen = n
      BY <1>7, CtxFields
    <2> QED BY <2>1 DEF SetBitlen, SetDatalen
  <1>9. SetBitlen(u, n + 8 * BlockSize) = Ctx(e, r + 1, n + 8 * BlockSize, Append(l, e))
    BY <1>7, CtxLemma
  <1>10. SetDatalen(SetBitlen(u, n + 8 * BlockSize), 0) = Ctx(e, 0, n + 8 * BlockSize, Append(l, e))
    BY <1>9, CtxLemma
  <1> QED BY <1>0, <1>1, <1>4, <1>5, <1>6, <1>7, <1>8, <1>10, Zenon

\* A byte is hashed: it waits, or fills a block that is transformed.
LEMMA AddByteLemma ==
    ASSUME NEW c, NEW s, Hashed(c, s), NEW b \in Octets
    PROVE  Hashed(AddByte(c, b), Append(s, b))
  <1>1. PICK k, r : HashedTo(c, s, k, r)
    BY DEF Hashed
  <1>0. PICK B \in Nat \ {0} : B = BlockSize
    BY Sha1Assumption
  <1>2. k \in Nat /\ r \in Nat /\ r < B
    BY <1>1, <1>0 DEF HashedTo
  <1>3. PICK q \in Nat : q = k * BlockSize
    BY <1>2, <1>0
  <1>4. PICK d, D : /\ d \in [1 .. B -> D] /\ c = Ctx(d, r, 8 * q, [j \in 1 .. k |-> Block(s, j)])
                    /\ \A i \in 1 .. r : d[i] = s[q + i]
    BY <1>1, <1>3, <1>0, Zenon DEF HashedTo, Ctx
  <1>5. PICK longer \in Seq(Octets) : /\ longer = Append(s, b) /\ Len(longer) = q + (r + 1) /\ longer[q + (r + 1)] = b
                                     /\ \A i \in 1 .. q + r : longer[i] = s[i]
    <2>1. s \in Seq(Octets) /\ Len(s) = q + r
      BY <1>1, <1>3, Zenon DEF HashedTo
    <2>2. PICK n \in Nat : n = q + r /\ n + 1 = q + (r + 1) /\ n + 1 \in 1 .. n + 1
      BY <1>2
    <2>3. PICK longer : longer = Append(s, b)
      OBVIOUS
    <2>4. longer \in Seq(Octets) /\ Len(longer) = n + 1 /\ longer[n + 1] = b /\ \A i \in 1 .. n : longer[i] = s[i]
      BY <2>1, <2>2, <2>3, AppendProperties
    <2> QED BY <2>2, <2>3, <2>4
  <1>6. PICK e : e = OneMoreByte(d, r, b)
    OBVIOUS
  <1>c. PICK S : S = D \union {b}
    OBVIOUS
  <1>7. e \in [1 .. B -> S] /\ \A i \in 1 .. r + 1 : e[i] = longer[q + i]
    <2>1. r + 1 \in 1 .. B
      BY <1>2
    <2>a. PICK y \in 1 .. B : y = r + 1 /\ \A i \in 1 .. r : i \in 1 .. B /\ i # y
      BY <1>2, <2>1
    <2>b. e = [d EXCEPT ![y] = b]
      BY <1>6, <2>a DEF OneMoreByte
    <2>2. e \in [1 .. B -> S] /\ e[r + 1] = b /\ \A i \in 1 .. r : e[i] = d[i]
      BY <1>4, <1>c, <2>a, <2>b
    <2>3. ASSUME NEW i \in 1 .. r PROVE e[i] = longer[q + i]
      <3>1. q + i \in 1 .. q + r
        BY <1>2
      <3> QED BY <1>4, <1>5, <2>2, <3>1
    <2>4. \A i \in 1 .. r + 1 : i \in 1 .. r \/ i = r + 1
      BY <1>2
    <2> QED BY <1>5, <2>2, <2>3, <2>4
  <1>8. PICK l : l = [j \in 1 .. k |-> Block(s, j)] /\ l = [j \in 1 .. k |-> Block(longer, j)]
    <2>1. \A i \in 1 .. k * BlockSize : longer[i] = s[i]
      BY <1>2, <1>3, <1>5
    <2>2. \A j \in 1 .. k : Block(longer, j) = Block(s, j)
      BY <1>2, <2>1, SameBlocks
    <2>3. PICK l : l = [j \in 1 .. k |-> Block(s, j)]
      OBVIOUS
    <2> QED BY <2>2, <2>3
  <1>9. PICK x, n : x = AddByte(c, b) /\ n = 8 * q
    OBVIOUS
  <1>b. x = IF r + 1 = BlockSize THEN Ctx(e, 0, n + 8 * BlockSize, Append(l, e)) ELSE Ctx(e, r + 1, n, l)
    <2>1. c = Ctx(d, r, n, l)
      BY <1>4, <1>8, <1>9
    <2>2. AddByte(Ctx(d, r, n, l), b)
             = IF r + 1 = BlockSize THEN Ctx(e, 0, n + 8 * BlockSize, Append(l, e)) ELSE Ctx(e, r + 1, n, l)
      BY <1>6, AddByteFields
    <2> QED BY <1>9, <2>1, <2>2, Zenon
  <1>10. CASE r + 1 = B
    <2>1. x = Ctx(e, 0, 8 * q + 8 * B, Append(l, e))
      BY <1>0, <1>b, <1>9, <1>10
    <2>2. (k + 1) * BlockSize = q + B
      BY <1>2, <1>3, <1>0
    <2>3. e = Block(longer, k + 1)
      <3>1. (k + 1) - 1 = k
        BY <1>2
      <3>2. Block(longer, k + 1) = [i \in 1 .. B |-> longer[q + i]]
        BY <1>3, <1>0, <3>1 DEF Block
      <3> QED BY <1>7, <1>10, <3>2
    <2>4. PICK m : m = [j \in 1 .. k + 1 |-> Block(longer, j)]
      OBVIOUS
    <2>5. Append(l, e) = m
      <3>1. PICK f : f = [j \in 1 .. k + 1 |-> Block(longer, j)]
        OBVIOUS
      <3>2. l = Heads(f, k) /\ e = f[k + 1] /\ m = Heads(f, k + 1)
        BY <1>2, <1>8, <2>3, <2>4, <3>1 DEF Heads
      <3> QED BY <1>2, <3>2, AppendFunction
    <2>6. PICK k1 \in Nat : k1 = k + 1 /\ k1 * BlockSize = q + B
      BY <1>2, <2>2
    <2>7. x = Ctx(e, 0, 8 * (k1 * BlockSize), [j \in 1 .. k1 |-> Block(longer, j)])
      <3>1. 8 * (q + B) = 8 * q + 8 * B
        OBVIOUS
      <3> QED BY <2>1, <2>4, <2>5, <2>6, <3>1
    <2>8. x.data = e
      BY <2>7 DEF Ctx
    <2>9. 0 \in 0 .. BlockSize - 1 /\ Len(longer) = k1 * BlockSize + 0 /\ \A i \in 1 .. 0 : FALSE
      BY <1>0, <1>5, <1>10, <2>6
    <2>10. HashedTo(x, longer, k1, 0)
      BY <1>0, <1>7, <2>7, <2>8, <2>9, Zenon DEF HashedTo, Ctx
    <2> QED BY <1>5, <1>9, <2>10 DEF Hashed
  <1>11. CASE r + 1 # B
    <2>1. x = Ctx(e, r + 1, 8 * q, l)
      BY <1>0, <1>b, <1>9, <1>11
    <2>2. r + 1 \in 0 .. BlockSize - 1
      BY <1>2, <1>11, <1>0
    <2>3. x.data = e
      BY <2>1 DEF Ctx
    <2>4. HashedTo(x, longer, k, r + 1)
      BY <1>2, <1>3, <1>5, <1>7, <1>8, <1>0, <2>1, <2>2, <2>3, Zenon DEF HashedTo, Ctx
    <2> QED BY <1>5, <1>9, <2>4 DEF Hashed
  <1> QED BY <1>10, <1>11

\* f is the contexts after each of the first n bytes.
RunOf(f, c, data, n) == \A i \in 0 .. n : f[i] = IF i = 0 THEN c ELSE AddByte(f[i - 1], data[i])

\* What the loop of FMSTR_Sha1Update computes, byte by byte.
LEMMA RunLemma ==
    ASSUME NEW c, NEW data, NEW n \in Nat, n = Len(data)
    PROVE  \E f : RunOf(f, c, data, n) /\ Sha1Update(c, data) = f[n]
  <1> DEFINE Loop(g) == [i \in 0 .. Len(data) |-> IF i = 0 THEN c ELSE AddByte(g[i - 1], data[i])]
             Bad == {m \in Nat : ~\E g : RunOf(g, c, data, m)}
  <1>1. Bad = {}
    <2>1. SUFFICES ASSUME Bad # {} PROVE FALSE
      OBVIOUS
    <2>2. PICK m \in Bad : \A j \in Bad : m <= j
      <3>1. Bad \in SUBSET Nat
        OBVIOUS
      <3> HIDE DEF Bad
      <3> QED BY <2>1, <3>1, LeastNat
    <2>3. CASE m = 0
      <3>1. RunOf([i \in 0 .. 0 |-> c], c, data, 0)
        BY DEF RunOf
      <3> QED BY <2>2, <2>3, <3>1
    <2>4. CASE m # 0
      <3>1. m \in Nat /\ m - 1 \in Nat /\ m - 1 \notin Bad
        BY <2>2, <2>4
      <3>2. PICK g : RunOf(g, c, data, m - 1)
        BY <3>1
      <3>3. PICK x : x = AddByte(g[m - 1], data[m])
        OBVIOUS
      <3>4. PICK h : h = [i \in 0 .. m |-> IF i = m THEN x ELSE g[i]]
        OBVIOUS
      <3>5. ASSUME NEW i \in 0 .. m
            PROVE  h[i] = IF i = 0 THEN c ELSE AddByte(h[i - 1], data[i])
        <4>1. CASE i = m
          <5>1. h[m] = x /\ h[m - 1] = g[m - 1]
            BY <3>1, <3>4
          <5> QED BY <2>4, <3>3, <4>1, <5>1
        <4>2. CASE i # m
          <5>1. i \in 0 .. m - 1 /\ (i # 0 => i - 1 \in 0 .. m - 1)
            BY <3>1, <4>2
          <5>2. h[i] = g[i] /\ (i # 0 => h[i - 1] = g[i - 1])
            BY <3>1, <3>4, <5>1
          <5>3. g[i] = IF i = 0 THEN c ELSE AddByte(g[i - 1], data[i])
            BY <3>2, <5>1 DEF RunOf
          <5> QED BY <5>2, <5>3
        <4> QED BY <4>1, <4>2
      <3>6. RunOf(h, c, data, m)
        BY <3>5 DEF RunOf
      <3> QED BY <2>2, <3>6
    <2> QED BY <2>3, <2>4
  <1>2. PICK f : RunOf(f, c, data, n)
    BY <1>1
  <1>3. PICK g : g = [i \in 0 .. n |-> f[i]]
    OBVIOUS
  <1>4. g = Loop(g)
    <2>1. ASSUME NEW i \in 0 .. n PROVE g[i] = IF i = 0 THEN c ELSE AddByte(g[i - 1], data[i])
      <3>1. i # 0 => i - 1 \in 0 .. n
        OBVIOUS
      <3>2. g[i] = f[i] /\ (i # 0 => g[i - 1] = f[i - 1])
        BY <1>3, <3>1
      <3> QED BY <1>2, <3>2 DEF RunOf
    <2> QED BY <1>3, <2>1
  <1>5. PICK s : s = CHOOSE h : h = Loop(h)
    OBVIOUS
  <1>6. s = Loop(s)
    <2> HIDE DEF Loop
    <2> QED BY <1>4, <1>5
  <1>7. RunOf(s, c, data, n)
    BY <1>6 DEF RunOf
  <1>8. Sha1Update(c, data) = s[n]
    BY <1>5 DEF Sha1Update
  <1> QED BY <1>7, <1>8

\* A piece is hashed behind what was: there is no first byte after which it is not.
LEMMA UpdateLemma ==
    ASSUME NEW c, NEW s, Hashed(c, s), NEW data \in Seq(Octets)
    PROVE  Hashed(Sha1Update(c, data), s \o data)
  <1>1. PICK p \in Nat, n \in Nat : s \in Seq(Octets) /\ p = Len(s) /\ n = Len(data)
    <2>1. s \in Seq(Octets)
      BY DEF Hashed, HashedTo
    <2> QED BY <2>1, LenProperties
  <1>2. PICK f : RunOf(f, c, data, n) /\ Sha1Update(c, data) = f[n]
    BY <1>1, RunLemma
  <1>3. PICK w \in Seq(Octets) : /\ w = s \o data /\ Len(w) = p + n
                                /\ (\A i \in 1 .. p : w[i] = s[i]) /\ \A i \in 1 .. n : w[p + i] = data[i]
    <2>1. PICK w : w = s \o data
      OBVIOUS
    <2>2. w \in Seq(Octets) /\ Len(w) = p + n /\ \A i \in 1 .. p + n : w[i] = IF i <= p THEN s[i] ELSE data[i - p]
      BY <1>1, <2>1, ConcatProperties
    <2>3. ASSUME NEW i \in 1 .. n PROVE w[p + i] = data[i]
      <3>1. p + i \in 1 .. p + n /\ ~(p + i <= p) /\ (p + i) - p = i
        BY <1>1
      <3> QED BY <2>2, <3>1
    <2>4. ASSUME NEW i \in 1 .. p PROVE w[i] = s[i]
      <3>1. i \in 1 .. p + n /\ i <= p
        BY <1>1
      <3> QED BY <2>2, <3>1
    <2> QED BY <2>1, <2>2, <2>3, <2>4
  <1> DEFINE Upto(m) == SubSeq(w, 1, p + m)
  <1>4. ASSUME NEW m \in 0 .. n
        PROVE  Upto(m) \in Seq(Octets) /\ Len(Upto(m)) = p + m /\ \A i \in 1 .. p + m : Upto(m)[i] = w[i]
    <2>1. PICK k \in Nat : k = p + m /\ k <= Len(w) /\ k - 1 + 1 = k
      BY <1>1, <1>3
    <2>2. \A i \in 1 .. k : w[i] \in Octets
      BY <1>3, <2>1, ElementOfSeq
    <2>3. SubSeq(w, 1, k) \in Seq(Octets) /\ Len(SubSeq(w, 1, k)) = k /\ \A i \in 1 .. k : SubSeq(w, 1, k)[i] = w[i]
      BY <2>1, <2>2, SubSeqProperties
    <2> QED BY <2>1, <2>3
  <1> DEFINE Bad == {m \in 0 .. n : ~Hashed(f[m], Upto(m))}
  <1>5. Bad = {}
    <2>1. SUFFICES ASSUME Bad # {} PROVE FALSE
      OBVIOUS
    <2>2. PICK m \in Bad : \A j \in Bad : m <= j
      <3>1. Bad \in SUBSET Nat
        OBVIOUS
      <3> HIDE DEF Bad
      <3> QED BY <2>1, <3>1, LeastNat
    <2>3. CASE m = 0
      <3>1. f[0] = c
        BY <1>1, <1>2 DEF RunOf
      <3>2. Upto(0) = s
        <4>1. PICK u \in Seq(Octets) : u = Upto(0) /\ Len(u) = p /\ \A i \in 1 .. p : u[i] = w[i]
          <5>1. 0 \in 0 .. n /\ p + 0 = p
            BY <1>1
          <5>2. Upto(0) \in Seq(Octets) /\ Len(Upto(0)) = p + 0 /\ \A i \in 1 .. p + 0 : Upto(0)[i] = w[i]
            BY <1>4, <5>1
          <5> HIDE DEF Upto
          <5> QED BY <5>1, <5>2
        <4> QED BY <1>1, <1>3, <4>1, SeqEqual
      <3> QED BY <2>2, <2>3, <3>1, <3>2
    <2>4. CASE m # 0
      <3>1. m \in 1 .. n /\ m - 1 \in 0 .. n /\ m \in 0 .. n
        BY <2>2, <2>4
      <3>2. m - 1 \notin Bad
        BY <2>2, <3>1
      <3>3. Hashed(f[m - 1], Upto(m - 1))
        BY <3>1, <3>2
      <3>4. data[m] \in Octets
        BY <1>1, <3>1, ElementOfSeq
      <3>5. Hashed(AddByte(f[m - 1], data[m]), Append(Upto(m - 1), data[m]))
        <4> HIDE DEF Upto
        <4> QED BY <3>3, <3>4, AddByteLemma
      <3>6. f[m] = AddByte(f[m - 1], data[m])
        BY <1>2, <2>4, <3>1 DEF RunOf
      <3>7. Append(Upto(m - 1), data[m]) = Upto(m)
        <4>1. PICK k \in Nat : k = p + (m - 1) /\ k + 1 = p + m /\ k + 1 \in 1 .. k + 1
          BY <3>1
        <4>2. PICK u \in Seq(Octets) : u = Upto(m - 1) /\ Len(u) = k /\ \A i \in 1 .. k : u[i] = w[i]
          BY <1>4, <3>1, <4>1
        <4>3. PICK v \in Seq(Octets) : v = Upto(m) /\ Len(v) = k + 1 /\ \A i \in 1 .. k + 1 : v[i] = w[i]
          <5> HIDE DEF Upto
          <5>1. Upto(m) \in Seq(Octets) /\ Len(Upto(m)) = p + m /\ \A i \in 1 .. p + m : Upto(m)[i] = w[i]
            BY <1>4, <3>1
          <5> QED BY <4>1, <5>1
        <4>4. PICK a \in Seq(Octets) : a = Append(u, data[m]) /\ Len(a) = k + 1 /\ a[k + 1] = data[m]
                                      /\ \A i \in 1 .. k : a[i] = u[i]
          <5>1. PICK a : a = Append(u, data[m])
            OBVIOUS
          <5>2. a \in Seq(Octets) /\ Len(a) = k + 1 /\ a[k + 1] = data[m] /\ \A i \in 1 .. k : a[i] = u[i]
            BY <3>4, <4>2, <5>1, AppendProperties
          <5> QED BY <5>1, <5>2
        <4>5. w[k + 1] = data[m]
          BY <1>3, <3>1, <4>1
        <4>6. ASSUME NEW i \in 1 .. k + 1 PROVE a[i] = v[i]
          <5>1. i \in 1 .. k \/ i = k + 1
            BY <4>1
          <5> QED BY <4>2, <4>3, <4>4, <4>5, <5>1
        <4> QED BY <4>2, <4>3, <4>4, <4>6, SeqEqual
      <3> HIDE DEF Upto
      <3> QED BY <2>2, <3>5, <3>6, <3>7
    <2> QED BY <2>3, <2>4
  <1>6. Hashed(f[n], Upto(n))
    BY <1>1, <1>5
  <1>7. Upto(n) = w
    BY <1>3, SubSeqFull
  <1> QED BY <1>2, <1>3, <1>6, <1>7

\* Sequences as functions.
Window(s, a, b) == [i \in 1 .. b |-> s[a + i]]

\* A part of a sequence.
LEMMA Cut ==
    ASSUME NEW S, NEW s \in Seq(S), NEW a \in Nat, NEW b \in Nat, a + b <= Len(s)
    PROVE  SubSeq(s, a + 1, a + b) = Window(s, a, b)
  <1>1. PICK m \in Int, n \in Int : m = a + 1 /\ n = a + b /\ n - m + 1 = b /\ (m <= n \/ b = 0)
    OBVIOUS
  <1>2. PICK c : c = SubSeq(s, m, n)
    OBVIOUS
  <1>3. c \in Seq(S) /\ Len(c) = b /\ \A i \in 1 .. b : c[i] = s[m + i - 1]
    <2>a. \A i \in m .. n : s[i] \in S
      BY <1>1, ElementOfSeq
    <2>1. Len(c) = IF m <= n THEN n - m + 1 ELSE 0
      BY <2>a, <1>1, <1>2, SubSeqProperties
    <2>2. c \in Seq(S) /\ \A i \in 1 .. n - m + 1 : c[i] = s[m + i - 1]
      BY <2>a, <1>1, <1>2, SubSeqProperties
    <2>3. ~(m <= n) => b = 0
      BY <1>1
    <2>4. Len(c) = b
      BY <1>1, <2>1, <2>3
    <2> QED BY <1>1, <2>2, <2>4
  <1>4. ASSUME NEW i \in 1 .. b PROVE c[i] = s[a + i]
    <2>1. m + i - 1 = a + i
      BY <1>1
    <2> QED BY <1>3, <2>1
  <1>5. DOMAIN c = 1 .. b /\ c = [i \in 1 .. b |-> c[i]]
    BY <1>3, LenProperties
  <1> QED BY <1>1, <1>2, <1>4, <1>5 DEF Window

Both(f, m, g, n) == [i \in 1 .. m + n |-> IF i <= m THEN f[i] ELSE g[i - m]]

LEMMA FunctionIsSeq ==
    ASSUME NEW S, NEW m \in Nat, NEW f \in [1 .. m -> S]
    PROVE  f \in Seq(S) /\ Len(f) = m
  OBVIOUS

\* Two sequences, one behind the other.
LEMMA Joint ==
    ASSUME NEW S, NEW f \in Seq(S), NEW g \in Seq(S), NEW m \in Nat, NEW n \in Nat, m = Len(f), n = Len(g)
    PROVE  f \o g = Both(f, m, g, n)
  <1>2. PICK c : c = f \o g
    OBVIOUS
  <1>3. c \in Seq(S) /\ Len(c) = m + n /\ \A i \in 1 .. m + n : c[i] = IF i <= m THEN f[i] ELSE g[i - m]
    BY <1>2, ConcatProperties
  <1>4. DOMAIN c = 1 .. m + n /\ c = [i \in 1 .. m + n |-> c[i]]
    BY <1>3, LenProperties
  <1> QED BY <1>2, <1>3, <1>4 DEF Both

\* The message with its end mark, z zeros and its length.
Message(s, n, z, bits) ==
    [i \in 1 .. n + 1 + z + LengthSize |->
        IF i <= n THEN s[i] ELSE IF i = n + 1 THEN 128 ELSE IF i <= n + 1 + z THEN 0 ELSE bits[i - (n + 1 + z)]]

Joined(s, z, bits) == Append(s, 128) \o [i \in 1 .. z |-> 0] \o bits

\* It is what the definition of SHA-1 puts together.
LEMMA MessageLemma ==
    ASSUME NEW s \in Seq(Octets), NEW n \in Nat, n = Len(s), NEW z \in Nat, NEW R, NEW bits \in Seq(R), Len(bits) = LengthSize
    PROVE  Joined(s, z, bits) = Message(s, n, z, bits)
  <1>1. PICK S : S = Octets \union R
    OBVIOUS
  <1>2. PICK L \in Nat : L = LengthSize
    BY Sha1Assumption
  <1>3. PICK a \in [1 .. n + 1 -> S] : a = Append(s, 128) /\ a[n + 1] = 128 /\ \A i \in 1 .. n : a[i] = s[i]
    <2>1. PICK a : a = Append(s, 128)
      OBVIOUS
    <2>2. 128 \in Octets
      BY DEF Octets
    <2>3. a \in Seq(Octets) /\ Len(a) = n + 1 /\ a[n + 1] = 128 /\ \A i \in 1 .. n : a[i] = s[i]
      BY <2>1, <2>2, AppendProperties
    <2>4. a \in [1 .. n + 1 -> Octets]
      BY <2>3, LenProperties
    <2>5. a \in [1 .. n + 1 -> S]
      BY <1>1, <2>4
    <2> QED BY <2>1, <2>3, <2>5
  <1>4. PICK o \in [1 .. z -> S] : o = [i \in 1 .. z |-> 0] /\ \A i \in 1 .. z : o[i] = 0
    <2>1. 0 \in S
      BY <1>1 DEF Octets
    <2>2. PICK o : o = [i \in 1 .. z |-> 0]
      OBVIOUS
    <2>3. o \in [1 .. z -> S] /\ \A i \in 1 .. z : o[i] = 0
      BY <2>1, <2>2
    <2> QED BY <2>2, <2>3
  <1>5. PICK b \in [1 .. L -> S] : b = bits
    <2>1. bits \in [1 .. L -> R]
      BY <1>2, LenProperties
    <2> QED BY <1>1, <2>1
  <1>6. PICK u \in [1 .. n + 1 + z -> S] : u = a \o o /\ \A i \in 1 .. n + 1 + z : u[i] = IF i <= n + 1 THEN a[i] ELSE o[i - (n + 1)]
    <2>1. PICK m \in Nat : m = n + 1
      OBVIOUS
    <2>2. a \o o = [i \in 1 .. m + z |-> IF i <= m THEN a[i] ELSE o[i - m]]
      <3>1. PICK v \in [1 .. m -> S] : v = a
        BY <2>1
      <3>2. v \in Seq(S) /\ Len(v) = m /\ o \in Seq(S) /\ Len(o) = z
        BY FunctionIsSeq
      <3>3. v \o o = Both(v, m, o, z)
        BY <3>2, Joint
      <3> QED BY <3>1, <3>3 DEF Both
    <2>3. \A i \in 1 .. m + z : (i <= m => i \in 1 .. n + 1) /\ (~(i <= m) => i - m \in 1 .. z)
      BY <2>1
    <2>4. \A i \in 1 .. m + z : (IF i <= m THEN a[i] ELSE o[i - m]) \in S
      BY <1>3, <1>4, <2>3
    <2> QED BY <2>1, <2>2, <2>4
  <1>7. PICK w : w = u \o bits /\ w = [i \in 1 .. n + 1 + z + L |-> IF i <= n + 1 + z THEN u[i] ELSE bits[i - (n + 1 + z)]]
    <2>1. PICK m \in Nat : m = n + 1 + z
      OBVIOUS
    <2>2. PICK v \in [1 .. m -> S] : v = u
      BY <1>6, <2>1
    <2>3. v \o b = [i \in 1 .. m + L |-> IF i <= m THEN v[i] ELSE b[i - m]]
      <3>1. v \in Seq(S) /\ Len(v) = m /\ b \in Seq(S) /\ Len(b) = L
        OBVIOUS
      <3>2. v \o b = Both(v, m, b, L)
        BY <3>1, Joint
      <3> QED BY <3>2 DEF Both
    <2> QED BY <1>5, <2>1, <2>2, <2>3
  <1>8. ASSUME NEW i \in 1 .. n + 1 + z + L
        PROVE  w[i] = IF i <= n THEN s[i] ELSE IF i = n + 1 THEN 128
                      ELSE IF i <= n + 1 + z THEN 0 ELSE bits[i - (n + 1 + z)]
    <2>1. CASE i <= n
      <3>1. i \in 1 .. n /\ i \in 1 .. n + 1 + z /\ i <= n + 1
        BY <2>1
      <3>2. w[i] = u[i] /\ u[i] = a[i] /\ a[i] = s[i]
        BY <1>3, <1>6, <1>7, <3>1
      <3> QED BY <2>1, <3>2
    <2>2. CASE i = n + 1
      <3>1. i \in 1 .. n + 1 + z /\ i <= n + 1 /\ ~(i <= n)
        BY <2>2
      <3>2. w[i] = u[i] /\ u[i] = a[i] /\ a[i] = 128
        BY <1>3, <1>6, <1>7, <2>2, <3>1
      <3> QED BY <2>2, <3>1, <3>2
    <2>3. CASE i > n + 1 /\ i <= n + 1 + z
      <3>1. i \in 1 .. n + 1 + z /\ ~(i <= n + 1) /\ ~(i <= n) /\ i # n + 1 /\ i - (n + 1) \in 1 .. z
        BY <2>3
      <3>2. w[i] = u[i] /\ u[i] = o[i - (n + 1)] /\ o[i - (n + 1)] = 0
        BY <1>4, <1>6, <1>7, <2>3, <3>1
      <3> QED BY <2>3, <3>1, <3>2
    <2>4. CASE i > n + 1 + z
      <3>1. ~(i <= n + 1 + z) /\ ~(i <= n) /\ i # n + 1
        BY <2>4
      <3>2. w[i] = bits[i - (n + 1 + z)]
        BY <1>7, <3>1
      <3> QED BY <3>1, <3>2
    <2> QED BY <2>1, <2>2, <2>3, <2>4
  <1>9. w = Message(s, n, z, bits)
    BY <1>2, <1>7, <1>8 DEF Message
  <1>10. w = Joined(s, z, bits)
    BY <1>3, <1>4, <1>6, <1>7 DEF Joined
  <1> QED BY <1>9, <1>10

\* There is one number of zeros that fills the last block.
LEMMA ZerosLemma ==
    ASSUME NEW B \in Nat \ {0}, NEW a \in Nat, NEW z \in 0 .. B - 1, NEW k \in Nat, a + z = k * B
    PROVE  (CHOOSE y \in 0 .. B - 1 : (a + y) % B = 0) = z
  <1>1. (a + z) % B = 0
    OBVIOUS
  <1>2. ASSUME NEW y \in 0 .. B - 1, (a + y) % B = 0 PROVE y = z
    <2>1. PICK q \in Nat : a + y = q * B
      <3>1. PICK x \in Nat : x = a + y
        OBVIOUS
      <3>2. x = (x \div B) * B + (x % B) /\ x \div B \in Nat
        OBVIOUS
      <3>3. x % B = 0
        BY <1>2, <3>1
      <3>4. PICK q, p : q = x \div B /\ p = q * B
        OBVIOUS
      <3>5. q \in Nat /\ x = p + 0 /\ p \in Int
        BY <3>2, <3>3, <3>4
      <3>6. x = p
        BY <3>5
      <3> QED BY <3>1, <3>4, <3>5, <3>6, Zenon
    <2>2. CASE q < k
      <3>1. q + 1 \in Nat /\ q + 1 <= k
        BY <2>2
      <3>2. (q + 1) * B <= k * B
        BY <3>1, Mono
      <3>3. (q + 1) * B = q * B + B /\ q * B \in Nat /\ k * B \in Nat
        OBVIOUS
      <3> QED BY <2>1, <3>2, <3>3
    <2>3. CASE k < q
      <3>1. k + 1 \in Nat /\ k + 1 <= q
        BY <2>3
      <3>2. (k + 1) * B <= q * B
        BY <3>1, Mono
      <3>3. (k + 1) * B = k * B + B /\ q * B \in Nat /\ k * B \in Nat
        OBVIOUS
      <3> QED BY <2>1, <3>2, <3>3
    <2>4. CASE q = k
      <3>1. a + y = a + z
        BY <2>1, <2>4
      <3> QED BY <3>1
    <2> QED BY <2>2, <2>3, <2>4
  <1> QED BY <1>1, <1>2

\* The length takes the bytes it has.
LEMMA BigEndianLemma ==
    ASSUME NEW x, NEW L \in Nat
    PROVE  \E R : BigEndian(x, L) \in Seq(R) /\ Len(BigEndian(x, L)) = L
  <1>1. PICK f, R : f = BigEndian(x, L) /\ R = {(x \div 256^(L - i)) % 256 : i \in 1 .. L}
    OBVIOUS
  <1>2. f \in [1 .. L -> R]
    BY <1>1 DEF BigEndian
  <1> QED BY <1>1, <1>2, FunctionIsSeq

\* What Padded makes of the buffer d with r bytes, up to end.
PaddedData(d, r, end) ==
    [i \in 1 .. BlockSize |-> IF i <= r \/ i > end THEN d[i] ELSE IF i = r + 1 THEN 128 ELSE 0]

\* The buffer with the length in it.
LastData(d, bits) == SubSeq(d, 1, BlockSize - LengthSize) \o bits

\* The rest of it are zeros.
ZeroData(d) == [i \in 1 .. BlockSize |-> IF i <= BlockSize - LengthSize THEN 0 ELSE d[i]]

\* The buffer, padded: in place, or with a block of its own.
LEMMA PaddedLemma ==
    ASSUME NEW d, NEW r \in Nat, NEW n, NEW l
    PROVE  Padded(Ctx(d, r, n, l)) =
              IF r < BlockSize - LengthSize THEN Ctx(PaddedData(d, r, BlockSize - LengthSize), r, n, l)
              ELSE Ctx(ZeroData(PaddedData(d, r, BlockSize)), r, n, Append(l, PaddedData(d, r, BlockSize)))
  <1>1. PICK c : c = Ctx(d, r, n, l) /\ c.data = d /\ c.datalen = r
    BY CtxFields
  <1>2. PICK end : end = IF r < BlockSize - LengthSize THEN BlockSize - LengthSize ELSE BlockSize
    OBVIOUS
  <1>3. PICK p : p = PaddedData(d, r, end)
    OBVIOUS
  <1>4. Padded(c) = IF end < BlockSize THEN SetData(c, p) ELSE SetData(Transform(SetData(c, p)), ZeroData(p))
    <2>1. Padded(c) = IF end < BlockSize THEN [c EXCEPT !.data = p]
                      ELSE [Transform([c EXCEPT !.data = p]) EXCEPT
                               !.data = [i \in 1 .. BlockSize |-> IF i <= BlockSize - LengthSize THEN 0 ELSE p[i]]]
      BY <1>1, <1>2, <1>3, Zenon DEF Padded, PaddedData
    <2> QED BY <2>1, Zenon DEF SetData, ZeroData
  <1>5. SetData(c, p) = Ctx(p, r, n, l)
    BY <1>1, CtxLemma
  <1>6. Transform(SetData(c, p)) = Ctx(p, r, n, Append(l, p))
    BY <1>5, TransformLemma
  <1>7. SetData(Transform(SetData(c, p)), ZeroData(p)) = Ctx(ZeroData(p), r, n, Append(l, p))
    BY <1>6, CtxLemma
  <1>8. end < BlockSize <=> r < BlockSize - LengthSize
    BY <1>2, Sha1Assumption
  <1> QED BY <1>1, <1>2, <1>3, <1>4, <1>5, <1>7, <1>8, Zenon

\* The blocks a digest is of, and the buffer it leaves.
LEMMA FinalLemma ==
    ASSUME NEW d, NEW r \in Nat, NEW n, NEW l, NEW bits, bits = BigEndian(n + 8 * r, LengthSize)
    PROVE  /\ Sha1Final(Ctx(d, r, n, l)).blocks =
                 IF r < BlockSize - LengthSize
                 THEN Append(l, LastData(PaddedData(d, r, BlockSize - LengthSize), bits))
                 ELSE Append(Append(l, PaddedData(d, r, BlockSize)),
                             LastData(ZeroData(PaddedData(d, r, BlockSize)), bits))
           /\ Sha1Final(Ctx(d, r, n, l)).data =
                 LastData(IF r < BlockSize - LengthSize THEN PaddedData(d, r, BlockSize - LengthSize)
                          ELSE ZeroData(PaddedData(d, r, BlockSize)), bits)
  <1>1. PICK c : c = Ctx(d, r, n, l) /\ c.bitlen = n /\ c.datalen = r
    BY CtxFields
  <1>2. PICK x, m : /\ Padded(c) = Ctx(x, r, n, m)
                    /\ IF r < BlockSize - LengthSize THEN x = PaddedData(d, r, BlockSize - LengthSize) /\ m = l
                       ELSE x = ZeroData(PaddedData(d, r, BlockSize)) /\ m = Append(l, PaddedData(d, r, BlockSize))
    <2>1. CASE r < BlockSize - LengthSize
      BY <1>1, <2>1, PaddedLemma
    <2>2. CASE ~(r < BlockSize - LengthSize)
      BY <1>1, <2>2, PaddedLemma
    <2> QED BY <2>1, <2>2
  <1>3. PICK p, w : p = Padded(c) /\ w = n + 8 * r
    OBVIOUS
  <1>4. Sha1Final(c) = Transform(SetData(SetBitlen(p, w), LastData(x, bits)))
    <2>1. p.data = x
      BY <1>2, <1>3, CtxFields
    <2>2. [p EXCEPT !.bitlen = w, !.data = SubSeq(@, 1, BlockSize - LengthSize) \o bits]
             = SetData(SetBitlen(p, w), LastData(x, bits))
      BY <1>2, <1>3, <2>1 DEF SetData, SetBitlen, LastData, Ctx
    <2>3. Sha1Final(c) = Transform([p EXCEPT !.bitlen = w, !.data = SubSeq(@, 1, BlockSize - LengthSize) \o bits])
      BY <1>1, <1>3, Zenon DEF Sha1Final
    <2> QED BY <2>2, <2>3
  <1>5. SetBitlen(p, w) = Ctx(x, r, w, m)
    BY <1>2, <1>3, CtxLemma
  <1>6. SetData(SetBitlen(p, w), LastData(x, bits)) = Ctx(LastData(x, bits), r, w, m)
    BY <1>5, CtxLemma
  <1>7. Sha1Final(c) = Ctx(LastData(x, bits), r, w, Append(m, LastData(x, bits)))
    BY <1>4, <1>6, TransformLemma
  <1>8. Sha1Final(c).blocks = Append(m, LastData(x, bits)) /\ Sha1Final(c).data = LastData(x, bits)
    <2>1. PICK y, z : y = Append(m, LastData(x, bits)) /\ z = LastData(x, bits)
      OBVIOUS
    <2>2. Sha1Final(c) = Ctx(z, r, w, y)
      BY <1>7, <2>1
    <2>3. Ctx(z, r, w, y).blocks = y /\ Ctx(z, r, w, y).data = z
      BY DEF Ctx
    <2> QED BY <2>1, <2>2, <2>3
  <1> QED BY <1>1, <1>2, <1>8

\* The length lies at the end of the buffer.
LEMMA LastLemma ==
    ASSUME NEW S, NEW d \in Seq(S), Len(d) = BlockSize, NEW bits \in Seq(S), Len(bits) = LengthSize,
           NEW m \in Nat, m = BlockSize - LengthSize
    PROVE  LastData(d, bits) = Both(d, m, bits, LengthSize)
  <1>1. PICK B \in Nat, L \in Nat : B = BlockSize /\ L = LengthSize /\ B = m + L
    BY Sha1Assumption
  <1>2. PICK u : u = [i \in 1 .. m |-> d[i]]
    OBVIOUS
  <1>3. SubSeq(d, 1, m) = u
    <2>1. PICK a \in Nat : a = 0 /\ a + m <= B /\ a + 1 = 1 /\ a + m = m
      BY <1>1
    <2>2. SubSeq(d, a + 1, a + m) = Window(d, a, m)
      BY <1>1, <2>1, Cut
    <2>3. Window(d, a, m) = u
      BY <1>2, <2>1 DEF Window
    <2> QED BY <2>1, <2>2, <2>3
  <1>4. u \in Seq(S) /\ Len(u) = m
    <2>1. \A i \in 1 .. m : d[i] \in S
      BY <1>1, ElementOfSeq
    <2>2. u \in [1 .. m -> S]
      BY <1>2, <2>1
    <2> QED BY <2>2, FunctionIsSeq
  <1>5. u \o bits = Both(u, m, bits, L)
    BY <1>1, <1>4, Joint
  <1>6. Both(u, m, bits, L) = Both(d, m, bits, L)
    BY <1>2 DEF Both
  <1> QED BY <1>1, <1>3, <1>5, <1>6 DEF LastData

\* The blocks of a message that is K blocks long.
LEMMA ReferenceLemma ==
    ASSUME NEW s \in Seq(Octets), NEW n \in Nat, n = Len(s), NEW z \in 0 .. BlockSize - 1, NEW K \in Nat,
           n + 1 + z + LengthSize = K * BlockSize,
           NEW R, NEW bits \in Seq(R), Len(bits) = LengthSize, bits = BigEndian(8 * n, LengthSize)
    PROVE  Reference(s) = Blocks(Message(s, n, z, bits), K)
  <1>1. PICK B \in Nat \ {0}, L \in Nat : B = BlockSize /\ L = LengthSize
    BY Sha1Assumption
  <1>2. Zeros(n) = z
    <2>1. PICK a \in Nat : a = n + 1 + L
      OBVIOUS
    <2>2. a + z = K * B
      BY <1>1, <2>1
    <2>3. (CHOOSE y \in 0 .. B - 1 : (a + y) % B = 0) = z
      BY <1>1, <2>2, ZerosLemma
    <2>4. \A y \in 0 .. B - 1 : n + 1 + y + LengthSize = a + y
      BY <1>1, <2>1
    <2>5. (CHOOSE y \in 0 .. B - 1 : (n + 1 + y + LengthSize) % B = 0) = CHOOSE y \in 0 .. B - 1 : (a + y) % B = 0
      BY <2>4
    <2> QED BY <1>1, <2>3, <2>5 DEF Zeros
  <1>3. PICK w : /\ w = Append(s, 128) \o [i \in 1 .. z |-> 0] \o bits
                 /\ w = Message(s, n, z, bits)
    <2>1. z \in Nat
      BY <1>1
    <2>2. PICK w : w = Append(s, 128) \o [i \in 1 .. z |-> 0] \o bits
      OBVIOUS
    <2>3. Joined(s, z, bits) = Message(s, n, z, bits)
      BY <2>1, MessageLemma
    <2> QED BY <2>2, <2>3 DEF Joined
  <1>4. Reference(s) = [k \in 1 .. Len(w) \div B |-> SubSeq(w, (k - 1) * B + 1, k * B)]
    <2>1. Whole(s) = w
      BY <1>2, <1>3 DEF Whole
    <2> QED BY <1>1, <2>1, Zenon DEF Reference
  <1>5. PICK S : w \in Seq(S) /\ Len(w) = n + 1 + z + LengthSize
    <2>1. PICK S : S = Octets \union R
      OBVIOUS
    <2>2. PICK m \in Nat : m = n + 1 + z + L
      BY <1>1
    <2>3. w = [i \in 1 .. m |-> w[i]]
      BY <1>1, <1>3, <2>2 DEF Message
    <2>4. ASSUME NEW i \in 1 .. m PROVE w[i] \in S
      <3>1. w[i] = IF i <= n THEN s[i] ELSE IF i = n + 1 THEN 128 ELSE IF i <= n + 1 + z THEN 0 ELSE bits[i - (n + 1 + z)]
        BY <1>1, <1>3, <2>2 DEF Message
      <3>2. i <= n => s[i] \in Octets
        BY ElementOfSeq
      <3>3. ~(i <= n + 1 + z) => bits[i - (n + 1 + z)] \in R
        <4>1. z \in Nat
          BY <1>1
        <4>2. ~(i <= n + 1 + z) => i - (n + 1 + z) \in 1 .. L
          BY <2>2, <4>1
        <4> QED BY <1>1, <4>2, ElementOfSeq
      <3>4. 128 \in Octets /\ 0 \in Octets
        BY DEF Octets
      <3> QED BY <2>1, <3>1, <3>2, <3>3, <3>4
    <2>5. w \in [1 .. m -> S]
      BY <2>3, <2>4
    <2>6. w \in Seq(S) /\ Len(w) = m
      BY <2>5, FunctionIsSeq
    <2> QED BY <1>1, <2>2, <2>6
  <1>6. Len(w) \div B = K
    <2>1. Len(w) = K * B
      BY <1>1, <1>5
    <2> QED BY <2>1, Exact
  <1>7. ASSUME NEW k \in 1 .. K PROVE SubSeq(w, (k - 1) * B + 1, k * B) = Block(w, k)
    <2>1. PICK a \in Nat, e \in Nat : a = (k - 1) * B /\ e = k * B /\ a + B <= e /\ e <= Len(w)
      <3>1. (k - 1) * B \in Nat /\ (k - 1) * B + B <= k * B /\ k * B \in Nat
        <4>1. k \in Nat /\ k \in 1 .. k
          OBVIOUS
        <4> QED BY <1>1, <4>1, BlockStart
      <3>2. k * B <= K * B
        BY <1>1, Mono
      <3>3. Len(w) = K * B
        BY <1>1, <1>5
      <3> QED BY <3>1, <3>2, <3>3
    <2>2. a + B = e
      <3>1. PICK j \in Nat : j = k - 1 /\ k = j + 1
        OBVIOUS
      <3>2. (j + 1) * B = j * B + B
        BY <1>1
      <3> QED BY <2>1, <3>1, <3>2
    <2>3. SubSeq(w, a + 1, a + B) = Window(w, a, B)
      BY <1>5, <2>1, <2>2, Cut
    <2>4. Window(w, a, B) = Block(w, k)
      BY <1>1, <2>1 DEF Window, Block
    <2> QED BY <2>1, <2>2, <2>3, <2>4
  <1> QED BY <1>3, <1>4, <1>6, <1>7 DEF Blocks

\* The blocks of a digest are those of the message, in both cases of the padding.
LEMMA WholeLemma ==
    ASSUME NEW c, NEW s, Hashed(c, s)
    PROVE  Sha1Final(c).blocks = Reference(s) /\ \E S : Sha1Final(c).data \in [1 .. BlockSize -> S]
  <1>1. PICK k, r : HashedTo(c, s, k, r)
    BY DEF Hashed
  <1>2. PICK B \in Nat \ {0}, L \in Nat, E \in Nat : /\ B = BlockSize /\ L = LengthSize /\ L <= B /\ 1 <= L
                                                      /\ E = B - L /\ E + L = B
    BY Sha1Assumption
  <1>3. k \in Nat /\ r \in Nat /\ r < B
    BY <1>1, <1>2 DEF HashedTo
  <1>4. PICK q \in Nat, n \in Nat : q = k * B /\ n = q + r
    BY <1>2, <1>3
  <1>5. s \in Seq(Octets) /\ n = Len(s)
    BY <1>1, <1>2, <1>4 DEF HashedTo
  <1>6. PICK d, D, l : /\ d \in [1 .. B -> D]
                       /\ c = Ctx(d, r, 8 * q, l) /\ l = [j \in 1 .. k |-> Block(s, j)]
                       /\ \A i \in 1 .. r : d[i] = s[q + i]
    BY <1>1, <1>2, <1>4, Zenon DEF HashedTo, Ctx
  <1>7. PICK bits : bits = BigEndian(8 * n, L) /\ bits = BigEndian(8 * q + 8 * r, L)
    <2>1. 8 * n = 8 * q + 8 * r
      BY <1>3, <1>4
    <2> QED BY <2>1
  <1>8. PICK R, S : bits \in Seq(R) /\ Len(bits) = L /\ S = Octets \union D \union R /\ bits \in Seq(S)
    <2>1. PICK R : bits \in Seq(R) /\ Len(bits) = L
      BY <1>7, BigEndianLemma
    <2>2. PICK S : S = Octets \union D \union R /\ R \subseteq S
      OBVIOUS
    <2> QED BY <2>1, <2>2, SeqMonotonic
  <1>9. PICK p1, p2 : p1 = PaddedData(d, r, E) /\ p2 = PaddedData(d, r, B)
    OBVIOUS
  <1>10. /\ Sha1Final(c).blocks = IF r < E THEN Append(l, LastData(p1, bits))
                                  ELSE Append(Append(l, p2), LastData(ZeroData(p2), bits))
         /\ Sha1Final(c).data = LastData(IF r < E THEN p1 ELSE ZeroData(p2), bits)
    <2>1. PICK x : x = 8 * q /\ bits = BigEndian(x + 8 * r, LengthSize) /\ c = Ctx(d, r, x, l)
      BY <1>2, <1>6, <1>7
    <2> QED BY <1>2, <1>3, <1>9, <2>1, FinalLemma
  <1>11. \A i \in 1 .. B : /\ p1[i] = (IF i <= r \/ i > E THEN d[i] ELSE IF i = r + 1 THEN 128 ELSE 0)
                           /\ p2[i] = (IF i <= r THEN d[i] ELSE IF i = r + 1 THEN 128 ELSE 0)
    BY <1>2, <1>9 DEF PaddedData
  <1>12. p1 \in [1 .. B -> S] /\ p2 \in [1 .. B -> S] /\ ZeroData(p2) \in [1 .. B -> S]
    <2>1. 0 \in S /\ 128 \in S /\ \A i \in 1 .. B : d[i] \in S
      BY <1>6, <1>8 DEF Octets
    <2>2. p1 \in [1 .. B -> S]
      BY <1>2, <1>9, <2>1 DEF PaddedData
    <2>3. p2 \in [1 .. B -> S]
      BY <1>2, <1>9, <2>1 DEF PaddedData
    <2> QED BY <1>2, <2>1, <2>2, <2>3 DEF ZeroData
  <1>13. ASSUME NEW x \in [1 .. B -> S]
         PROVE  LastData(x, bits) = [i \in 1 .. B |-> IF i <= E THEN x[i] ELSE bits[i - E]]
    <2>1. x \in Seq(S) /\ Len(x) = B
      BY FunctionIsSeq
    <2>2. E = BlockSize - LengthSize
      BY <1>2
    <2>3. LastData(x, bits) = Both(x, E, bits, LengthSize)
      BY <1>2, <1>8, <2>1, <2>2, LastLemma
    <2> QED BY <1>2, <2>3 DEF Both
  \* Blocks of the message.
  <1>14. ASSUME NEW z \in Nat, NEW w, w = Message(s, n, z, bits)
         PROVE  /\ \A j \in 1 .. k : Block(w, j) = Block(s, j)
                /\ \A i \in Nat : i # 0 /\ i <= n + 1 + z + L =>
                      w[i] = IF i <= n THEN s[i] ELSE IF i = n + 1 THEN 128
                             ELSE IF i <= n + 1 + z THEN 0 ELSE bits[i - (n + 1 + z)]
    <2>1. ASSUME NEW i \in Nat, i # 0, i <= n + 1 + z + L
          PROVE  w[i] = IF i <= n THEN s[i] ELSE IF i = n + 1 THEN 128
                        ELSE IF i <= n + 1 + z THEN 0 ELSE bits[i - (n + 1 + z)]
      <3>1. i \in 1 .. n + 1 + z + LengthSize
        BY <1>2, <2>1
      <3> QED BY <1>14, <3>1 DEF Message
    <2>2. \A i \in 1 .. k * BlockSize : w[i] = s[i]
      <3>1. ASSUME NEW i \in 1 .. q PROVE i \in Nat /\ i # 0 /\ i <= n /\ i <= n + 1 + z + L
        BY <1>3, <1>4
      <3> QED BY <1>2, <1>4, <2>1, <3>1
    <2> QED BY <1>3, <2>1, <2>2, SameBlocks
  <1>15. \E U : Sha1Final(c).data \in [1 .. BlockSize -> U]
    <2>1. PICK x \in [1 .. B -> S] : Sha1Final(c).data = LastData(x, bits)
      <3>1. CASE r < E
        BY <1>10, <1>12, <3>1
      <3>2. CASE ~(r < E)
        BY <1>10, <1>12, <3>2
      <3> QED BY <3>1, <3>2
    <2>2. PICK U : U = S \union {bits[i - E] : i \in 1 .. B}
      OBVIOUS
    <2>3. PICK y : y = [i \in 1 .. B |-> IF i <= E THEN x[i] ELSE bits[i - E]]
      OBVIOUS
    <2>4. y \in [1 .. B -> U]
      BY <2>2, <2>3
    <2>5. Sha1Final(c).data = y
      BY <1>13, <2>1, <2>3
    <2> QED BY <1>2, <2>4, <2>5
  <1>16. CASE r < E
    <2>1. PICK z \in Nat : z = E - 1 - r /\ z \in 0 .. BlockSize - 1 /\ n + 1 + z = q + E
      BY <1>2, <1>3, <1>4, <1>16
    <2>2. PICK K \in Nat : K = k + 1 /\ K * BlockSize = q + B
      BY <1>2, <1>3, <1>4
    <2>3. PICK w : w = Message(s, n, z, bits)
      OBVIOUS
    <2>4. Reference(s) = Blocks(w, K)
      <3>1. n + 1 + z + LengthSize = K * BlockSize
        BY <1>2, <2>1, <2>2
      <3>2. Len(bits) = LengthSize /\ bits = BigEndian(8 * n, LengthSize)
        BY <1>2, <1>7, <1>8
      <3>3. Reference(s) = Blocks(Message(s, n, z, bits), K)
        <4>1. s \in Seq(Octets) /\ n = Len(s) /\ bits \in Seq(R) /\ z \in 0 .. BlockSize - 1
          BY <1>5, <1>8, <2>1
        <4> QED BY <4>1, <3>1, <3>2, ReferenceLemma, SMTT(60)
      <3> QED BY <2>3, <3>3
    <2>5. \A j \in 1 .. k : Block(w, j) = Block(s, j)
      BY <1>14, <2>3
    <2>6. PICK last : last = LastData(p1, bits) /\ last = [i \in 1 .. B |-> IF i <= E THEN p1[i] ELSE bits[i - E]]
      BY <1>12, <1>13
    <2>7. last = Block(w, K)
      <3>1. Block(w, K) = [i \in 1 .. B |-> w[q + i]]
        <4>1. (K - 1) * BlockSize = q
          BY <1>2, <1>3, <1>4, <2>2
        <4> QED BY <1>2, <4>1 DEF Block
      <3>2. ASSUME NEW i \in 1 .. B PROVE last[i] = w[q + i]
        <4>1. q + i \in Nat /\ q + i # 0 /\ q + i <= n + 1 + z + L
          BY <1>2, <2>1
        <4>2. w[q + i] = IF q + i <= n THEN s[q + i] ELSE IF q + i = n + 1 THEN 128
                         ELSE IF q + i <= n + 1 + z THEN 0 ELSE bits[(q + i) - (n + 1 + z)]
          BY <1>14, <2>3, <4>1
        <4>3. (q + i <= n <=> i <= r) /\ (q + i = n + 1 <=> i = r + 1) /\ (q + i <= n + 1 + z <=> i <= E)
              /\ (q + i) - (n + 1 + z) = i - E
          BY <1>2, <1>3, <1>4, <2>1
        <4>4. w[q + i] = IF i <= r THEN s[q + i] ELSE IF i = r + 1 THEN 128 ELSE IF i <= E THEN 0 ELSE bits[i - E]
          BY <4>2, <4>3
        <4>5. last[i] = IF i <= E THEN p1[i] ELSE bits[i - E]
          BY <2>6
        <4>6. p1[i] = IF i <= r \/ i > E THEN d[i] ELSE IF i = r + 1 THEN 128 ELSE 0
          BY <1>11
        <4>7. (i <= r => i <= E /\ d[i] = s[q + i]) /\ (i = r + 1 => i <= E /\ ~(i <= r)) /\ (i > E <=> ~(i <= E))
          BY <1>3, <1>6, <1>16
        <4> QED BY <4>4, <4>5, <4>6, <4>7
      <3> QED BY <2>6, <3>1, <3>2
    <2>8. Append(l, last) = Blocks(w, K)
      <3>1. PICK f : f = Blocks(w, K) /\ f = [j \in 1 .. K |-> Block(w, j)]
        BY DEF Blocks
      <3>2. l = Heads(f, k) /\ last = f[k + 1] /\ f = Heads(f, k + 1)
        BY <1>3, <1>6, <2>2, <2>5, <2>7, <3>1 DEF Heads
      <3> QED BY <1>3, <3>1, <3>2, AppendFunction
    <2> QED BY <1>10, <1>16, <1>15, <2>4, <2>6, <2>8
  <1>17. CASE ~(r < E)
    <2>1. PICK z \in Nat : z = B + E - 1 - r /\ z \in 0 .. BlockSize - 1 /\ n + 1 + z = q + B + E
      BY <1>2, <1>3, <1>4, <1>17
    <2>2. PICK K1 \in Nat, K \in Nat : K1 = k + 1 /\ K = K1 + 1 /\ K1 * BlockSize = q + B /\ K * BlockSize = q + B + B
      BY <1>2, <1>3, <1>4
    <2>3. PICK w : w = Message(s, n, z, bits)
      OBVIOUS
    <2>4. Reference(s) = Blocks(w, K)
      <3>1. n + 1 + z + LengthSize = K * BlockSize
        BY <1>2, <2>1, <2>2
      <3>2. Len(bits) = LengthSize /\ bits = BigEndian(8 * n, LengthSize)
        BY <1>2, <1>7, <1>8
      <3>3. Reference(s) = Blocks(Message(s, n, z, bits), K)
        <4>1. s \in Seq(Octets) /\ n = Len(s) /\ bits \in Seq(R) /\ z \in 0 .. BlockSize - 1
          BY <1>5, <1>8, <2>1
        <4> QED BY <4>1, <3>1, <3>2, ReferenceLemma, SMTT(60)
      <3> QED BY <2>3, <3>3
    <2>5. \A j \in 1 .. k : Block(w, j) = Block(s, j)
      BY <1>14, <2>3
    <2>6. PICK last : /\ last = LastData(ZeroData(p2), bits)
                      /\ last = [i \in 1 .. B |-> IF i <= E THEN ZeroData(p2)[i] ELSE bits[i - E]]
      BY <1>12, <1>13
    <2>7. p2 = Block(w, K1)
      <3>1. Block(w, K1) = [i \in 1 .. B |-> w[q + i]]
        <4>1. (K1 - 1) * BlockSize = q
          BY <1>2, <1>3, <1>4, <2>2
        <4> QED BY <1>2, <4>1 DEF Block
      <3>2. ASSUME NEW i \in 1 .. B PROVE p2[i] = w[q + i]
        <4>1. q + i \in Nat /\ q + i # 0 /\ q + i <= n + 1 + z + L
          BY <1>2, <2>1
        <4>2. w[q + i] = IF q + i <= n THEN s[q + i] ELSE IF q + i = n + 1 THEN 128
                         ELSE IF q + i <= n + 1 + z THEN 0 ELSE bits[(q + i) - (n + 1 + z)]
          BY <1>14, <2>3, <4>1
        <4>3. (q + i <= n <=> i <= r) /\ (q + i = n + 1 <=> i = r + 1) /\ q + i <= n + 1 + z
          BY <1>2, <1>3, <1>4, <2>1
        <4>4. i <= r => d[i] = s[q + i]
          BY <1>3, <1>6
        <4> QED BY <1>11, <4>2, <4>3, <4>4
      <3>3. p2 = [i \in 1 .. B |-> p2[i]]
        BY <1>12
      <3> QED BY <3>1, <3>2, <3>3
    <2>8. last = Block(w, K)
      <3>1. Block(w, K) = [i \in 1 .. B |-> w[q + B + i]]
        <4>1. (K - 1) * BlockSize = q + B
          BY <1>2, <2>2
        <4> QED BY <1>2, <4>1 DEF Block
      <3>2. ASSUME NEW i \in 1 .. B PROVE last[i] = w[q + B + i]
        <4>1. q + B + i \in Nat /\ q + B + i # 0 /\ q + B + i <= n + 1 + z + L
          BY <1>2, <2>1
        <4>2. PICK x \in Nat : x = q + B + i
          BY <4>1
        <4>3. w[x] = IF x <= n THEN s[x] ELSE IF x = n + 1 THEN 128
                     ELSE IF x <= n + 1 + z THEN 0 ELSE bits[x - (n + 1 + z)]
          BY <1>14, <2>3, <4>1, <4>2
        <4>4. ~(x <= n) /\ x # n + 1 /\ (x <= n + 1 + z <=> i <= E) /\ x - (n + 1 + z) = i - E
          BY <1>2, <1>3, <1>4, <2>1, <4>2
        <4>5. i <= E => ZeroData(p2)[i] = 0
          BY <1>2 DEF ZeroData
        <4> QED BY <2>6, <4>2, <4>3, <4>4, <4>5
      <3> QED BY <2>6, <3>1, <3>2
    <2>9. Append(Append(l, p2), last) = Blocks(w, K)
      <3>1. PICK f : f = Blocks(w, K) /\ f = [j \in 1 .. K |-> Block(w, j)]
        BY DEF Blocks
      <3>2. l = Heads(f, k) /\ p2 = f[k + 1] /\ last = f[K1 + 1] /\ f = Heads(f, K1 + 1)
        BY <1>3, <1>6, <2>2, <2>5, <2>7, <2>8, <3>1 DEF Heads
      <3>3. Append(l, p2) = Heads(f, K1)
        BY <1>3, <2>2, <3>2, AppendFunction
      <3>4. Append(Heads(f, K1), f[K1 + 1]) = Heads(f, K1 + 1)
        BY AppendFunction
      <3> QED BY <3>1, <3>2, <3>3, <3>4
    <2> QED BY <1>10, <1>17, <1>15, <2>4, <2>6, <2>9
  <1> QED BY <1>16, <1>17

\* Whatever is in the buffer, nothing is hashed at first.
LEMMA EmptyHashed ==
    ASSUME NEW d, NEW D, d \in [1 .. BlockSize -> D]
    PROVE  Hashed(Sha1Init(d), <<>>)
  <1>1. PICK c : c = Sha1Init(d)
    OBVIOUS
  <1>2. c = Ctx(d, 0, 0, <<>>) /\ c.data = d
    BY <1>1 DEF Sha1Init, Ctx
  <1>3. /\ 0 \in Nat /\ 0 \in 0 .. BlockSize - 1 /\ <<>> \in Seq(Octets) /\ Len(<<>>) = 0
        /\ 0 * BlockSize + 0 = 0 /\ 8 * (0 * BlockSize) = 0
    BY Sha1Assumption, EmptySeq
  <1>4. <<>> = [j \in 1 .. 0 |-> Block(<<>>, j)]
    OBVIOUS
  <1>5. HashedTo(c, <<>>, 0, 0)
    BY <1>2, <1>3, <1>4 DEF HashedTo, Ctx
  <1> QED BY <1>1, <1>5 DEF Hashed

\* Every digest (FMSTR_Sha1Init, FMSTR_Sha1Update, FMSTR_Sha1Final) is that of the whole data
\* it was given, however they were cut into pieces, and whatever digests were before it in
\* the same context.
THEOREM DigestsOfWholes == DigestSpec => []DigestOfWhole
  <1> DEFINE IInvD == Hashed(context, hashed)
  <1>1. DigestInit => IInvD
    <2>1. PICK d : d = [i \in 1 .. BlockSize |-> 0]
      OBVIOUS
    <2>2. d \in [1 .. BlockSize -> {0}]
      BY <2>1
    <2>3. Hashed(Sha1Init(d), <<>>)
      BY <2>2, EmptyHashed
    <2> QED BY <2>1, <2>3 DEF DigestInit
  <1>2. IInvD /\ [DigestNext]_<<hashed, context>> => IInvD'
    <2>1. ASSUME IInvD, NEW piece \in Pieces, Update(piece) PROVE IInvD'
      <3>1. piece \in Seq(Octets)
        BY DigestAssumption
      <3>2. Hashed(Sha1Update(context, piece), hashed \o piece)
        BY <2>1, <3>1, UpdateLemma
      <3> QED BY <2>1, <3>2 DEF Update
    <2>2. ASSUME IInvD, Final PROVE IInvD'
      <3>1. PICK d, D : d = Sha1Final(context).data /\ d \in [1 .. BlockSize -> D]
        BY <2>2, WholeLemma
      <3>2. Hashed(Sha1Init(d), <<>>)
        BY <3>1, EmptyHashed
      <3> QED BY <2>2, <3>1, <3>2 DEF Final
    <2>3. ASSUME IInvD, UNCHANGED <<hashed, context>> PROVE IInvD'
      BY <2>3
    <2> QED BY <2>1, <2>2, <2>3 DEF DigestNext
  <1>3. IInvD => DigestOfWhole
    BY WholeLemma DEF DigestOfWhole
  <1> QED BY <1>1, <1>2, <1>3, PTL DEF DigestSpec
=============================================================================
