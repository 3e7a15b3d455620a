---------------------------- MODULE PdbdmProofs ----------------------------
(***************************************************************************)
(* The safety properties of Pdbdm hold for every target and all requests:  *)
(* what a debugger is answered is what it asked, as long as it asks only   *)
(* when it has been answered; the variables stay whole when the debugger   *)
(* cuts none in two; and nothing is read or written that the tables do not *)
(* describe when no scope has a variable in the buffer of the dynamic      *)
(* table.  The first part is about copies: the operations a block is moved *)
(* with cut no aligned operand in two.                                     *)
(***************************************************************************)
EXTENDS Pdbdm, SequenceTheorems, WellFoundedInduction, TLAPS

AccessRecords == [addr : Nat, width : Widths]
End(access) == access.addr + access.width

\* What is aligned and lies in a block: an address and a width of MaxSize at most.
Operand(a, s, addr, size) ==
    s <= MaxSize /\ a % s = 0 /\ addr <= a /\ a + s <= addr + size

\* No aligned operand of the block is cut in two at p.
Whole(p, addr, size) ==
    \A a \in addr .. addr + size, s \in Widths : Operand(a, s, addr, size) => p <= a \/ a + s <= p

\* The accesses go through the memory from addr to p, one behind the other.
Through(acc, addr, p) ==
    /\ acc \in Seq(AccessRecords)
    /\ addr <= p
    /\ p = IF acc = <<>> THEN addr ELSE End(acc[Len(acc)])
    /\ \A i \in 1 .. Len(acc) :
          /\ acc[i].addr = IF i = 1 THEN addr ELSE End(acc[i - 1])
          /\ addr <= acc[i].addr /\ End(acc[i]) <= p

Uncut(acc, addr, size) == \A i \in 1 .. Len(acc) : Whole(End(acc[i]), addr, size)

Stage(b, addr, size) ==
    /\ b.addr \in Nat /\ b.size \in Nat /\ b.addr + b.size = addr + size
    /\ Through(b.accesses, addr, b.addr)
    /\ Uncut(b.accesses, addr, size)

LEMMA EndsBefore ==
    ASSUME NEW addr \in Nat, NEW size \in Nat, NEW b, Stage(b, addr, size)
    PROVE  Whole(b.addr, addr, size)
  <1>1. CASE b.accesses = <<>>
    BY <1>1 DEF Stage, Through, Whole, Operand
  <1>2. CASE b.accesses # <<>>
    <2>1. Len(b.accesses) \in 1 .. Len(b.accesses)
      BY <1>2 DEF Stage, Through
    <2> QED BY <1>2, <2>1 DEF Stage, Through, Uncut
  <1> QED BY <1>1, <1>2

LEMMA TakeLemma ==
    ASSUME NEW addr \in Nat, NEW size \in Nat, NEW b, Stage(b, addr, size),
           NEW w \in Widths, NEW n \in Nat, n * w <= b.size,
           \A k \in 1 .. n : Whole(b.addr + k * w, addr, size)
    PROVE  Stage(Take(b, w, n), addr, size)
  <1> DEFINE new == [i \in 1 .. n |-> [addr |-> b.addr + (i - 1) * w, width |-> w]]
             acc == b.accesses \o new
             p   == b.addr + n * w
  <1>1. /\ b.addr \in Nat /\ b.size \in Nat /\ b.accesses \in Seq(AccessRecords)
        /\ addr <= b.addr
    BY DEF Stage, Through
  <1>2. \A i \in 1 .. n : i * w \in Nat /\ (i - 1) * w \in Nat /\ (i - 1) * w + w = i * w /\ i * w <= n * w
    <2>1. CASE w = 1
      BY <2>1
    <2>2. CASE w = 2
      BY <2>2
    <2>3. CASE w = 4
      BY <2>3
    <2>4. CASE w = 8
      BY <2>4
    <2> QED BY <2>1, <2>2, <2>3, <2>4 DEF Widths
  <1>3. n * w \in Nat /\ w \in Nat \ {0} /\ (n = 0 => n * w = 0)
    BY DEF Widths
  <1>4. \A i \in 1 .. n : new[i] \in AccessRecords /\ new[i].addr = b.addr + (i - 1) * w /\ End(new[i]) = b.addr + i * w
    <2> SUFFICES ASSUME NEW i \in 1 .. n
                 PROVE  new[i] \in AccessRecords /\ new[i].addr = b.addr + (i - 1) * w /\ End(new[i]) = b.addr + i * w
      OBVIOUS
    <2>1. PICK x \in Nat, y \in Nat : x = (i - 1) * w /\ y = i * w /\ x + w = y
      BY <1>2
    <2>2. new[i] = [addr |-> b.addr + x, width |-> w]
      BY <2>1
    <2> QED BY <1>1, <1>3, <2>1, <2>2 DEF AccessRecords, End
  <1>5. new \in Seq(AccessRecords) /\ Len(new) = n
    BY <1>4
  <1> HIDE DEF new
  <1>6. PICK m \in Nat : m = Len(b.accesses)
    BY <1>1
  <1>7. /\ acc \in Seq(AccessRecords) /\ Len(acc) = m + n
        /\ \A i \in 1 .. m : acc[i] = b.accesses[i]
        /\ \A i \in 1 .. n : acc[m + i] = new[i]
    <2>1. PICK old \in Seq(AccessRecords) : old = b.accesses
      BY <1>1
    <2>2. acc = old \o new /\ Len(old) = m
      BY <1>6, <2>1
    <2>3. acc \in Seq(AccessRecords) /\ Len(acc) = m + n
      BY <1>5, <2>2
    <2> QED BY <1>5, <2>1, <2>2, <2>3
  <1> HIDE DEF acc
  <1>8. p \in Nat /\ b.addr <= p /\ p + (b.size - n * w) = addr + size /\ b.size - n * w \in Nat
    BY <1>1, <1>3 DEF Stage
  <1>9. \A i \in 1 .. m : /\ acc[i].addr = (IF i = 1 THEN addr ELSE End(acc[i - 1]))
                          /\ addr <= acc[i].addr /\ End(acc[i]) <= p /\ Whole(End(acc[i]), addr, size)
    <2>1. \A i \in 1 .. m : /\ b.accesses[i].addr = (IF i = 1 THEN addr ELSE End(b.accesses[i - 1]))
                            /\ addr <= b.accesses[i].addr /\ End(b.accesses[i]) <= b.addr
                            /\ Whole(End(b.accesses[i]), addr, size)
      BY <1>6 DEF Stage, Through, Uncut
    <2>2. \A i \in 1 .. m : b.accesses[i] \in AccessRecords /\ End(b.accesses[i]) \in Nat
      <3>1. b.accesses \in Seq(AccessRecords)
        BY <1>1
      <3>2. \A i \in 1 .. m : b.accesses[i] \in AccessRecords
        BY <1>6, <3>1
      <3> QED BY <3>2 DEF AccessRecords, End, Widths
    <2>3. \A i \in 1 .. m : i # 1 => i - 1 \in 1 .. m
      OBVIOUS
    <2> SUFFICES ASSUME NEW i \in 1 .. m
                 PROVE  /\ acc[i].addr = (IF i = 1 THEN addr ELSE End(acc[i - 1]))
                        /\ addr <= acc[i].addr /\ End(acc[i]) <= p /\ Whole(End(acc[i]), addr, size)
      OBVIOUS
    <2>4. acc[i] = b.accesses[i] /\ (i # 1 => acc[i - 1] = b.accesses[i - 1])
      BY <1>7, <2>3
    <2>5. End(acc[i]) <= p
      BY <1>1, <1>8, <2>1, <2>2, <2>4
    <2> QED BY <2>1, <2>4, <2>5
  <1>10. b.addr = IF m = 0 THEN addr ELSE End(acc[m])
    <2>1. m = 0 <=> b.accesses = <<>>
      BY <1>1, <1>6
    <2>2. CASE m = 0
      BY <2>1, <2>2 DEF Stage, Through
    <2>3. CASE m # 0
      <3>1. m \in 1 .. m /\ b.accesses # <<>> /\ acc[m] = b.accesses[m]
        BY <1>7, <2>1, <2>3
      <3> QED BY <1>6, <2>3, <3>1 DEF Stage, Through
    <2> QED BY <2>2, <2>3
  <1>11. \A i \in 1 .. n : /\ acc[m + i].addr = (IF m + i = 1 THEN addr ELSE End(acc[m + i - 1]))
                           /\ addr <= acc[m + i].addr /\ End(acc[m + i]) <= p /\ Whole(End(acc[m + i]), addr, size)
    <2> SUFFICES ASSUME NEW i \in 1 .. n
                 PROVE  /\ acc[m + i].addr = (IF m + i = 1 THEN addr ELSE End(acc[m + i - 1]))
                        /\ addr <= acc[m + i].addr /\ End(acc[m + i]) <= p /\ Whole(End(acc[m + i]), addr, size)
      OBVIOUS
    <2>1. acc[m + i] = new[i] /\ new[i].addr = b.addr + (i - 1) * w /\ End(new[i]) = b.addr + i * w
      BY <1>4, <1>7
    <2>2. Whole(End(acc[m + i]), addr, size) /\ End(acc[m + i]) <= p /\ addr <= acc[m + i].addr
      <3>1. PICK x \in Nat, y \in Nat, z \in Nat : x = (i - 1) * w /\ y = i * w /\ z = n * w /\ y <= z
        BY <1>2, <1>3
      <3>2. Whole(End(acc[m + i]), addr, size)
        BY <2>1
      <3> QED BY <1>1, <2>1, <3>1, <3>2
    <2>3. CASE i = 1
      <3>1. new[i].addr = b.addr
        BY <1>1, <1>3, <2>1, <2>3
      <3>2. m + i - 1 = m /\ (m + i = 1 <=> m = 0)
        BY <2>3
      <3> QED BY <1>10, <2>1, <2>2, <3>1, <3>2
    <2>4. CASE i # 1
      <3>1. i - 1 \in 1 .. n /\ m + (i - 1) = m + i - 1 /\ m + i # 1
        BY <2>4
      <3>2. acc[m + i - 1] = new[i - 1] /\ End(new[i - 1]) = b.addr + (i - 1) * w
        BY <1>4, <1>7, <3>1
      <3> QED BY <2>1, <2>2, <3>1, <3>2
    <2> QED BY <2>3, <2>4
  <1>12. \A i \in 1 .. Len(acc) : /\ acc[i].addr = (IF i = 1 THEN addr ELSE End(acc[i - 1]))
                                  /\ addr <= acc[i].addr /\ End(acc[i]) <= p /\ Whole(End(acc[i]), addr, size)
    <2> SUFFICES ASSUME NEW i \in 1 .. Len(acc)
                 PROVE  /\ acc[i].addr = (IF i = 1 THEN addr ELSE End(acc[i - 1]))
                        /\ addr <= acc[i].addr /\ End(acc[i]) <= p /\ Whole(End(acc[i]), addr, size)
      OBVIOUS
    <2>1. CASE i <= m
      BY <1>7, <1>9, <2>1
    <2>2. CASE ~(i <= m)
      <3>1. PICK k \in 1 .. n : k = i - m
        BY <1>7, <2>2
      <3>2. i = m + k /\ i - 1 = m + k - 1
        BY <3>1
      <3> QED BY <1>11, <3>2
    <2> QED BY <2>1, <2>2
  <1>13. p = IF acc = <<>> THEN addr ELSE End(acc[Len(acc)])
    <2>1. CASE n = 0
      <3>1. acc = <<>> <=> m = 0
        BY <1>7, <2>1
      <3>2. Len(acc) = m /\ p = b.addr
        BY <1>1, <1>3, <1>7, <2>1
      <3> QED BY <1>10, <3>1, <3>2
    <2>2. CASE n # 0
      <3>1. n \in 1 .. n /\ acc # <<>> /\ Len(acc) = m + n
        BY <1>7, <2>2
      <3> QED BY <1>4, <1>7, <3>1
    <2> QED BY <2>1, <2>2
  <1>14. Take(b, w, n) = [addr |-> p, size |-> b.size - n * w, accesses |-> acc]
    BY DEF Take, acc, new
  <1> HIDE DEF p
  <1>15. /\ Take(b, w, n).addr = p /\ Take(b, w, n).size = b.size - n * w
         /\ Take(b, w, n).accesses = acc
    BY <1>14
  <1>16. addr <= p
    BY <1>1, <1>8
  <1>17. Through(acc, addr, p) /\ Uncut(acc, addr, size)
    BY <1>7, <1>12, <1>13, <1>16 DEF Through, Uncut
  <1> QED BY <1>8, <1>15, <1>17 DEF Stage

LEMMA Apart ==
    ASSUME NEW a \in Nat, NEW p \in Nat, NEW s \in Widths, a % s = 0, p % s = 0
    PROVE  p <= a \/ a + s <= p
  <1>1. CASE s = 1
    BY <1>1
  <1>2. CASE s = 2
    BY <1>2
  <1>3. CASE s = 4
    BY <1>3
  <1>4. CASE s = 8
    BY <1>4
  <1> QED BY <1>1, <1>2, <1>3, <1>4 DEF Widths

LEMMA Coarser ==
    ASSUME NEW a \in Nat, NEW w \in Widths, NEW s \in Widths, s <= w, a % w = 0, NEW k \in Nat
    PROVE  (a + k * w) % s = 0
  <1>1. CASE w = 1
    BY <1>1 DEF Widths
  <1>2. CASE w = 2
    <2>1. CASE s = 1
      BY <1>2, <2>1
    <2>2. CASE s = 2
      BY <1>2, <2>2
    <2> QED BY <1>2, <2>1, <2>2 DEF Widths
  <1>3. CASE w = 4
    <2>1. CASE s = 1
      BY <1>3, <2>1
    <2>2. CASE s = 2
      BY <1>3, <2>2
    <2>3. CASE s = 4
      BY <1>3, <2>3
    <2> QED BY <1>3, <2>1, <2>2, <2>3 DEF Widths
  <1>4. CASE w = 8
    <2>1. CASE s = 1
      BY <1>4, <2>1
    <2>2. CASE s = 2
      BY <1>4, <2>2
    <2>3. CASE s = 4
      BY <1>4, <2>3
    <2>4. CASE s = 8
      BY <1>4, <2>4
    <2> QED BY <1>4, <2>1, <2>2, <2>3, <2>4 DEF Widths
  <1> QED BY <1>1, <1>2, <1>3, <1>4 DEF Widths

Evened(b, w) ==
    \A u \in {1, 2, 4} : u < w /\ 2 * u <= MaxSize => b.addr % (2 * u) = 0 \/ b.size < u

LEMMA OddLemma ==
    ASSUME NEW addr \in Nat, NEW size \in Nat, NEW b, Stage(b, addr, size),
           NEW w \in {1, 2, 4}, Evened(b, w)
    PROVE  Stage(OddOperand(b, w), addr, size) /\ Evened(OddOperand(b, w), 2 * w)
  <1> DEFINE odd == 2 * w <= MaxSize /\ TestMisaligned(b.addr, 2 * w) /\ b.size >= w
  <1>1. PICK a \in Nat, n \in Nat : a = b.addr /\ n = b.size
    BY DEF Stage
  <1>2. CASE ~odd
    <2>1. OddOperand(b, w) = b
      BY <1>2 DEF OddOperand
    <2>2. Evened(b, 2 * w)
      <3>1. ~(2 * w <= MaxSize) \/ a % (2 * w) = 0 \/ n < w
        BY <1>1, <1>2, MemCopyAssumption DEF TestMisaligned
      <3>2. CASE w = 1
        BY <1>1, <3>1, <3>2, MemCopyAssumption DEF Evened
      <3>3. CASE w = 2
        BY <1>1, <3>1, <3>3, MemCopyAssumption DEF Evened
      <3>4. CASE w = 4
        BY <1>1, <3>1, <3>4, MemCopyAssumption DEF Evened
      <3> QED BY <3>2, <3>3, <3>4
    <2> QED BY <2>1, <2>2
  <1>3. CASE odd
    <2>1. OddOperand(b, w) = Take(b, w, 1)
      BY <1>3 DEF OddOperand
    <2>2. n >= w /\ 2 * w <= MaxSize /\ a % (2 * w) # 0 /\ a % w = 0 /\ (a + w) % (2 * w) = 0
      <3>1. n >= w /\ 2 * w <= MaxSize /\ a % (2 * w) # 0
        BY <1>1, <1>3 DEF TestMisaligned
      <3>2. CASE w = 1
        BY <3>1, <3>2
      <3>3. CASE w = 2
        <4>1. a % 2 = 0
          BY <1>1, <3>1, <3>3, MemCopyAssumption DEF Evened
        <4> QED BY <3>1, <3>3, <4>1
      <3>4. CASE w = 4
        <4>1. a % 4 = 0
          BY <1>1, <3>1, <3>4, MemCopyAssumption DEF Evened
        <4> QED BY <3>1, <3>4, <4>1
      <3> QED BY <3>1, <3>2, <3>3, <3>4
    <2>3. Whole(a + w, addr, size)
      <3> SUFFICES ASSUME NEW o \in Nat, NEW s \in Widths, Operand(o, s, addr, size)
                   PROVE  a + w <= o \/ o + s <= a + w
        BY DEF Whole
      <3>1. a <= o \/ o + s <= a
        <4>1. o \in addr .. addr + size
          BY DEF Operand, Widths
        <4> QED BY <1>1, <4>1, EndsBefore DEF Whole
      <3>2. CASE o + s <= a
        BY <3>2 DEF Widths
      <3>3. CASE a <= o
        <4>1. CASE s <= w
          <5>1. (a + 1 * w) % s = 0
            BY <2>2, <4>1, Coarser DEF Widths
          <5>2. a + w \in Nat /\ (a + w) % s = 0 /\ o % s = 0
            BY <5>1 DEF Operand
          <5> QED BY <5>2, Apart
        <4>2. CASE ~(s <= w)
          <5>1. CASE w = 1
            <6>1. o % 2 = 0
              <7>1. CASE s = 2
                BY <7>1 DEF Operand
              <7>2. CASE s = 4
                BY <7>2 DEF Operand
              <7>3. CASE s = 8
                BY <7>3 DEF Operand
              <7> QED BY <4>2, <5>1, <7>1, <7>2, <7>3 DEF Widths
            <6> QED BY <2>2, <3>3, <5>1, <6>1
          <5>2. CASE w = 2
            <6>1. o % 4 = 0
              <7>2. CASE s = 4
                BY <7>2 DEF Operand
              <7>3. CASE s = 8
                BY <7>3 DEF Operand
              <7> QED BY <4>2, <5>2, <7>2, <7>3 DEF Widths
            <6> QED BY <2>2, <3>3, <5>2, <6>1
          <5>3. CASE w = 4
            <6>1. o % 8 = 0
              BY <4>2, <5>3 DEF Widths, Operand
            <6> QED BY <2>2, <3>3, <5>3, <6>1
          <5> QED BY <5>1, <5>2, <5>3
        <4> QED BY <4>1, <4>2
      <3> QED BY <3>1, <3>2, <3>3
    <2>4. Stage(Take(b, w, 1), addr, size)
      <3>1. \A k \in 1 .. 1 : Whole(b.addr + k * w, addr, size)
        BY <1>1, <2>3
      <3>2. w \in Widths /\ 1 * w <= b.size
        BY <1>1, <2>2 DEF Widths
      <3> QED BY <3>1, <3>2, TakeLemma
    <2>5. Evened(Take(b, w, 1), 2 * w)
      <3>1. Take(b, w, 1).addr = a + w /\ Take(b, w, 1).size = n - w
        BY <1>1 DEF Take
      <3>2. CASE w = 1
        BY <2>2, <3>1, <3>2, MemCopyAssumption DEF Evened
      <3>3. CASE w = 2
        <4>1. (a + 2) % 2 = 0
          BY <2>2, <3>3
        <4> QED BY <2>2, <3>1, <3>3, <4>1, MemCopyAssumption DEF Evened
      <3>4. CASE w = 4
        <4>1. (a + 4) % 2 = 0 /\ (a + 4) % 4 = 0
          BY <2>2, <3>4
        <4> QED BY <2>2, <3>1, <3>4, <4>1, MemCopyAssumption DEF Evened
      <3> QED BY <3>2, <3>3, <3>4
    <2> QED BY <2>1, <2>4, <2>5
  <1> QED BY <1>2, <1>3

LEMMA AlignedLemma ==
    ASSUME NEW addr \in Nat, NEW size \in Nat, NEW b, Stage(b, addr, size), Evened(b, 8),
           NEW w \in Widths, 2 * w <= MaxSize => b.size < 2 * w
    PROVE  /\ Stage(AlignedOperands(b, w), addr, size) /\ Evened(AlignedOperands(b, w), 8)
           /\ w <= MaxSize => AlignedOperands(b, w).size < w
  <1>1. PICK a \in Nat, n \in Nat : a = b.addr /\ n = b.size
    BY DEF Stage
  <1>2. CASE ~(w <= MaxSize)
    BY <1>2 DEF AlignedOperands
  <1>3. CASE w <= MaxSize
    <2>1. PICK k \in Nat : k = n \div w
      BY DEF Widths
    <2>2. AlignedOperands(b, w) = Take(b, w, k)
      BY <1>1, <1>3, <2>1 DEF AlignedOperands
    <2>3. k * w <= n /\ n < k * w + w /\ k * w \in Nat
      <3>1. CASE w = 1
        BY <2>1, <3>1
      <3>2. CASE w = 2
        BY <2>1, <3>2
      <3>3. CASE w = 4
        BY <2>1, <3>3
      <3>4. CASE w = 8
        BY <2>1, <3>4
      <3> QED BY <3>1, <3>2, <3>3, <3>4 DEF Widths
    <2>4. CASE k = 0
      <3>1. k * w = 0 /\ Take(b, w, k).addr = a /\ Take(b, w, k).size = n
        BY <1>1, <2>4 DEF Take, Widths
      <3>2. Evened(Take(b, w, k), 8)
        BY <1>1, <3>1 DEF Evened
      <3>4. Take(b, w, k).size < w
        BY <2>3, <3>1 DEF Widths
      <3>3. Stage(Take(b, w, k), addr, size)
        BY <1>1, <2>3, <2>4, TakeLemma
      <3> QED BY <2>2, <3>2, <3>3, <3>4
    <2>5. CASE k # 0
      <3>1. w <= n
        <4>1. CASE w = 1
          BY <2>3, <2>5, <4>1
        <4>2. CASE w = 2
          BY <2>3, <2>5, <4>2
        <4>3. CASE w = 4
          BY <2>3, <2>5, <4>3
        <4>4. CASE w = 8
          BY <2>3, <2>5, <4>4
        <4> QED BY <4>1, <4>2, <4>3, <4>4 DEF Widths
      <3>2. a % w = 0
        <4>1. CASE w = 1
          BY <4>1
        <4>2. CASE w = 2
          BY <1>1, <1>3, <3>1, <4>2 DEF Evened
        <4>3. CASE w = 4
          BY <1>1, <1>3, <3>1, <4>3 DEF Evened
        <4>4. CASE w = 8
          BY <1>1, <1>3, <3>1, <4>4 DEF Evened
        <4> QED BY <4>1, <4>2, <4>3, <4>4 DEF Widths
      <3>3. \A i \in 1 .. k : Whole(b.addr + i * w, addr, size)
        <4> SUFFICES ASSUME NEW i \in 1 .. k, NEW o \in Nat, NEW s \in Widths, Operand(o, s, addr, size)
                     PROVE  a + i * w <= o \/ o + s <= a + i * w
          BY <1>1 DEF Whole
        <4>1. CASE s <= w
          <5>1. (a + i * w) % s = 0 /\ o % s = 0
            BY <3>2, <4>1, Coarser DEF Operand
          <5>2. a + i * w \in Nat
            BY DEF Widths
          <5> QED BY <5>1, <5>2, Apart
        <4>2. CASE ~(s <= w)
          <5>1. n < s
            BY <1>1, <4>2, MemCopyAssumption DEF Operand, Widths
          <5>2. o < a
            BY <1>1, <5>1 DEF Operand, Stage, Widths
          <5>3. o + s <= a
            <6>1. o \in addr .. addr + size
              BY DEF Operand, Widths
            <6> QED BY <1>1, <5>2, <6>1, EndsBefore DEF Whole
          <5>4. i * w \in Nat
            BY DEF Widths
          <5> QED BY <5>3, <5>4 DEF Widths
        <4> QED BY <4>1, <4>2
      <3>4. Stage(Take(b, w, k), addr, size)
        BY <1>1, <2>3, <3>3, TakeLemma
      <3>5. PICK x \in Nat : x = k * w
        BY <2>3
      <3>6. Take(b, w, k).addr = a + x /\ Take(b, w, k).size = n - x
        BY <1>1, <3>5 DEF Take
      <3>7. Evened(Take(b, w, k), 8)
        <4> SUFFICES ASSUME NEW u \in {1, 2, 4}, u < 8, 2 * u <= MaxSize
                     PROVE  (a + x) % (2 * u) = 0 \/ n - x < u
          BY <3>6 DEF Evened
        <4>1. CASE w <= u
          BY <2>3, <3>5, <4>1 DEF Widths
        <4>2. CASE ~(w <= u)
          <5>1. 2 * u \in Widths /\ 2 * u <= w
            BY <4>2 DEF Widths
          <5> QED BY <3>2, <3>5, <5>1, Coarser
        <4> QED BY <4>1, <4>2 DEF Widths
      <3>8. n - x < w
        BY <2>3, <3>5 DEF Widths
      <3> QED BY <2>2, <3>4, <3>6, <3>7, <3>8
    <2> QED BY <2>4, <2>5
  <1> QED BY <1>2, <1>3 DEF Widths

\* The operations of a copy follow one another from its first byte to its last,
\* and every aligned operand in the block is moved by one of them.
LEMMA CopyLemma ==
    ASSUME NEW addr \in Nat, NEW size \in Nat
    PROVE  LET acc == MemCpySrcAligned(OddOperands(Block(addr, size))).accesses
           IN  Through(acc, addr, addr + size) /\ Uncut(acc, addr, size)
  <1> DEFINE b0 == Block(addr, size)
             b1 == OddOperand(b0, 1)
             b2 == OddOperand(b1, 2)
             b4 == OddOperand(b2, 4)
             c8 == AlignedOperands(b4, 8)
             c4 == AlignedOperands(c8, 4)
             c2 == AlignedOperands(c4, 2)
             c1 == AlignedOperands(c2, 1)
  <1>1. Stage(b0, addr, size) /\ Evened(b0, 1)
    BY DEF Block, Stage, Through, Uncut, Evened
  <1> HIDE DEF b0
  <1>2. Stage(b1, addr, size) /\ Evened(b1, 2)
    BY <1>1, OddLemma
  <1> HIDE DEF b1
  <1>3. Stage(b2, addr, size) /\ Evened(b2, 4)
    BY <1>2, OddLemma
  <1> HIDE DEF b2
  <1>4. Stage(b4, addr, size) /\ Evened(b4, 8)
    BY <1>3, OddLemma
  <1> HIDE DEF b4
  <1>5. Stage(c8, addr, size) /\ Evened(c8, 8) /\ (8 <= MaxSize => c8.size < 8)
    BY <1>4, AlignedLemma, MemCopyAssumption DEF Widths
  <1> HIDE DEF c8
  <1>6. Stage(c4, addr, size) /\ Evened(c4, 8) /\ (4 <= MaxSize => c4.size < 4)
    BY <1>5, AlignedLemma DEF Widths
  <1> HIDE DEF c4
  <1>7. Stage(c2, addr, size) /\ Evened(c2, 8) /\ (2 <= MaxSize => c2.size < 2)
    BY <1>6, AlignedLemma DEF Widths
  <1> HIDE DEF c2
  <1>8. Stage(c1, addr, size) /\ c1.size < 1
    BY <1>7, AlignedLemma, MemCopyAssumption DEF Widths
  <1>9. c1 = MemCpySrcAligned(OddOperands(Block(addr, size)))
    BY DEF MemCpySrcAligned, OddOperands, b0, b1, b2, b4, c8, c4, c2
  <1> HIDE DEF c1
  <1>10. c1.addr = addr + size
    BY <1>8 DEF Stage
  <1> QED BY <1>8, <1>9, <1>10 DEF Stage

-----------------------------------------------------------------------------
(* The decoder.                                                            *)

LEMMA LeastNat ==
    ASSUME NEW S \in SUBSET Nat, S # {}
    PROVE  \E i \in S : \A j \in S : i <= j
  <1> DEFINE R == {ss \in Nat \X Nat : ss[1] < ss[2]}
  <1>1. IsWellFoundedOn(R, Nat)
    BY NatLessThanWellFounded DEF OpToRel
  <1> HIDE DEF R
  <1>2. PICK i \in S : \A j \in S : <<j, i>> \notin R
    BY <1>1, WFMin
  <1>3. ASSUME NEW j \in S PROVE i <= j
    <2>1. ~(j < i)
      BY <1>2 DEF R
    <2> QED BY <2>1
  <1> QED BY <1>3

\* f[i] is what i operations make of a scope.
Settings(f, scope, t, ops, m) ==
    \A i \in 0 .. m : f[i] = IF i = 0 THEN Setting(scope, "OK") ELSE Operation(f[i - 1], t, ops[i])

LEMMA SettingsLemma ==
    ASSUME NEW scope, NEW t, NEW ops \in Seq(Operations)
    PROVE  \E f : Settings(f, scope, t, ops, Len(ops)) /\ SetScope(scope, t, ops) = f[Len(ops)]
  <1>1. PICK n \in Nat : n = Len(ops)
    OBVIOUS
  <1> DEFINE Loop(f) == [i \in 0 .. n |-> IF i = 0 THEN Setting(scope, "OK") ELSE Operation(f[i - 1], t, ops[i])]
             Bad == {m \in Nat : ~\E f : Settings(f, scope, t, ops, m)}
  <1>2. Bad = {}
    <2>1. SUFFICES ASSUME Bad # {} PROVE FALSE
      OBVIOUS
    <2>2. PICK m \in Bad : \A j \in Bad : m <= j
      <3>1. Bad \in SUBSET Nat
        OBVIOUS
      <3> HIDE DEF Bad
      <3> QED BY <2>1, <3>1, LeastNat
    <2>3. CASE m = 0
      <3>1. Settings([i \in 0 .. 0 |-> Setting(scope, "OK")], scope, t, ops, 0)
        BY DEF Settings
      <3> QED BY <2>2, <2>3, <3>1
    <2>4. CASE m # 0
      <3>1. m \in Nat /\ m - 1 \in Nat /\ m - 1 \notin Bad
        BY <2>2, <2>4
      <3>2. PICK f : Settings(f, scope, t, ops, m - 1)
        BY <3>1
      <3>3. PICK g : g = [i \in 0 .. m |-> IF i = m THEN Operation(f[m - 1], t, ops[m]) ELSE f[i]]
        OBVIOUS
      <3>4. ASSUME NEW i \in 0 .. m
            PROVE  g[i] = IF i = 0 THEN Setting(scope, "OK") ELSE Operation(g[i - 1], t, ops[i])
        <4>1. CASE i = m
          BY <2>4, <3>1, <3>3, <4>1
        <4>2. CASE i # m
          <5>1. i \in 0 .. m - 1 /\ (i # 0 => i - 1 \in 0 .. m - 1)
            BY <3>1, <4>2
          <5> QED BY <3>2, <3>3, <4>2, <5>1 DEF Settings
        <4> QED BY <4>1, <4>2
      <3>5. Settings(g, scope, t, ops, m)
        BY <3>4 DEF Settings
      <3> QED BY <2>2, <3>5
    <2> QED BY <2>3, <2>4
  <1>3. PICK f : Settings(f, scope, t, ops, n)
    BY <1>2
  <1>4. PICK g : g = [i \in 0 .. n |-> f[i]]
    OBVIOUS
  <1>5. g = Loop(g)
    BY <1>3, <1>4 DEF Settings
  <1>6. PICK s : s = CHOOSE h : h = Loop(h)
    OBVIOUS
  <1>7. s = Loop(s)
    <2> HIDE DEF Loop
    <2> QED BY <1>5, <1>6
  <1>8. Settings(s, scope, t, ops, n)
    BY <1>7 DEF Settings
  <1>9. SetScope(scope, t, ops) = s[n]
    BY <1>1, <1>6 DEF SetScope
  <1> QED BY <1>1, <1>8, <1>9

LEMMA SetScopeStatus ==
    ASSUME NEW scope, NEW t, NEW ops \in Seq(Operations)
    PROVE  SetScope(scope, t, ops).status \in Statuses
  <1>1. PICK f : Settings(f, scope, t, ops, Len(ops)) /\ SetScope(scope, t, ops) = f[Len(ops)]
    BY SettingsLemma
  <1>2. PICK n \in Nat : n = Len(ops)
    OBVIOUS
  <1> DEFINE Bad == {i \in 0 .. n : f[i].status \notin Statuses}
  <1>3. Bad = {}
    <2>1. SUFFICES ASSUME Bad # {} PROVE FALSE
      OBVIOUS
    <2>2. PICK i \in Bad : \A j \in Bad : i <= j
      <3>1. Bad \in SUBSET Nat
        OBVIOUS
      <3> HIDE DEF Bad
      <3> QED BY <2>1, <3>1, LeastNat
    <2>3. i # 0
      BY <1>1, <1>2, <2>2 DEF Settings, Setting, Statuses
    <2>4. i \in 1 .. n /\ f[i - 1].status \in Statuses
      BY <2>2, <2>3
    <2>5. f[i] = Operation(f[i - 1], t, ops[i])
      BY <1>1, <1>2, <2>3, <2>4 DEF Settings
    <2>6. Operation(f[i - 1], t, ops[i]).status \in Statuses
      <3>1. PICK st, op : st = f[i - 1] /\ op = ops[i]
        OBVIOUS
      <3>2. VarStatus(st.scope, t, op) \in Statuses
        BY DEF VarStatus, Statuses
      <3>3. CfgVar(st.scope, t, op).status \in Statuses /\ CfgMem(st.scope, op).status \in Statuses
        BY <3>2 DEF CfgVar, CfgMem, Setting, Statuses
      <3> QED BY <2>4, <3>1, <3>3 DEF Operation, Setting, Statuses
    <2> QED BY <2>2, <2>5, <2>6
  <1> QED BY <1>1, <1>2, <1>3

LEMMA UresStatus ==
    ASSUME NEW t, NEW q, NEW h
    PROVE  UresControl(t, q, h).status \in Statuses
  <1>1. Refused.status \in Statuses
    BY DEF Refused, Control, Statuses
  <1>2. \A e, call, data : Handled(e, call, h, data).status \in Statuses
    BY <1>1 DEF Handled, Control, Statuses
  <1>3. PICK e : e = Head(FindUresInTsa(t, q.id))
    OBVIOUS
  <1>4. /\ UresControlRead(e, q, h).status \in Statuses
        /\ UresControlWrite(e, q, h).status \in Statuses
        /\ UresControlIoctl(e, q, h).status \in Statuses
    BY <1>2 DEF UresControlRead, UresControlWrite, UresControlIoctl
  <1> QED BY <1>1, <1>3, <1>4 DEF UresControl

LEMMA DecoderStatus ==
    ASSUME NEW q \in Requests, NEW t, NEW sc, NEW h
    PROVE  ProtocolDecoder(q, t, sc, h).status \in Statuses
  <1>1. /\ \A status \in Statuses : \A data : Job(status, data).status \in Statuses /\ Error(status).status \in Statuses
        /\ \A acc : Reading(acc).status \in Statuses
        /\ \A acc, mask : Writing(acc, mask).status \in Statuses
    BY DEF Job, Error, Reading, Writing, Statuses
  <1>2. "OK" \in Statuses /\ "EACCESS" \in Statuses /\ "RSPBUFFOVF" \in Statuses /\ "INSTERR" \in Statuses
        /\ "INVCMD" \in Statuses /\ "NOTINIT" \in Statuses /\ "INVSIZE" \in Statuses
    BY DEF Statuses
  <1>3. CASE q.cmd = "GETCONFIG"
    <2>1. GetBoardConfig(q).status \in Statuses
      BY <1>1, <1>2 DEF GetBoardConfig
    <2> QED BY <1>3, <2>1 DEF ProtocolDecoder
  <1>4. CASE q.cmd \in {"READMEM", "READMEM_BA"}
    <2>1. \A addr, size : ReadBlock(t, addr, size).status \in Statuses
      BY <1>1, <1>2 DEF ReadBlock
    <2> QED BY <1>1, <1>2, <1>4, <2>1 DEF ProtocolDecoder, ReadMem, ReadMemBaseAddress
  <1>5. CASE q.cmd = "WRITEMEM"
    <2>1. WriteMem(t, q).status \in Statuses
      BY <1>1, <1>2 DEF WriteMem
    <2> QED BY <1>5, <2>1 DEF ProtocolDecoder
  <1>6. CASE q.cmd \in {"GETTSAINFO", "GETSTRLEN"}
    BY <1>1, <1>2, <1>6 DEF ProtocolDecoder, GetStringLen
  <1>7. CASE q.cmd = "URESRWI"
    <2>1. PICK c : c = UresControl(t, q, h)
      OBVIOUS
    <2>2. [Job(c.status, c.data) EXCEPT !.call = c.call].status = c.status
      BY DEF Job
    <2> QED BY <1>7, <2>1, <2>2, UresStatus DEF ProtocolDecoder
  <1>8. CASE q.cmd = "SETSCOPE"
    <2>1. q.ops \in Seq(Operations)
      BY <1>8, RequestsAssumption
    <2>2. SetScope(sc[q.scope], t, q.ops).status \in Statuses
      BY <2>1, SetScopeStatus
    <2> QED BY <1>1, <1>2, <1>8, <2>2 DEF ProtocolDecoder
  <1>9. CASE q.cmd = "READSCOPE"
    <2>1. ReadScope(sc[q.scope]).status \in Statuses
      BY <1>1, <1>2 DEF ReadScope, ReadScopeStatus
    <2> QED BY <1>1, <1>2, <1>9, <2>1 DEF ProtocolDecoder
  <1>10. CASE q.cmd \notin {"GETCONFIG", "READMEM", "READMEM_BA", "WRITEMEM", "GETTSAINFO", "GETSTRLEN",
                            "URESRWI", "SETSCOPE", "READSCOPE"}
    BY <1>1, <1>2, <1>10 DEF ProtocolDecoder
  <1> QED BY <1>3, <1>4, <1>5, <1>6, <1>7, <1>8, <1>9, <1>10
-----------------------------------------------------------------------------
(* The exchange of a request and a response.                               *)

Parts == {"header", "body", "checksum"}

\* What the commands of requests are told apart from.
Earlier == Statuses \cup {"none"}

BoxOK == box = [state |-> box.state, header |-> box.header, body |-> box.body, checksum |-> box.checksum]
JobOK == job = [pc |-> job.pc, request |-> job.request, work |-> job.work, copied |-> job.copied,
                data |-> job.data, old |-> job.old]

Silent ==
    /\ request = None /\ left = {} /\ job = Idle /\ decoded = 0
    /\ box.state = "IDLE" /\ box.body = None /\ box.checksum = None

\* The debugger writes the parts; those that are left are still the old ones.
Asking ==
    /\ request \in Requests /\ left \subseteq Parts /\ job = Idle /\ decoded = 0
    /\ IF "body" \in left THEN box.body.cmd \in Earlier ELSE box.body = request
    /\ IF "checksum" \in left THEN box.checksum.cmd \in Earlier ELSE box.checksum = request
    /\ IF "header" \in left THEN box.state \in {"IDLE", "FRAME_TO_SEND"}
       ELSE box.state = "RECEIVED_FRAME" /\ box.header = Header(request)

Working ==
    /\ request \in Requests /\ left = {} /\ decoded = 1
    /\ job.pc \in {"copying", "ready"} /\ job.request = request /\ job.work.status \in Statuses
    /\ box.state = "DECODING_FRAME"
    /\ job.pc = "ready" => FrameIsValid /\ box.body.cmd \in Statuses

Responded ==
    /\ request \in Requests /\ left = {} /\ job = Idle /\ decoded = 1
    /\ box.state = "FRAME_TO_SEND" /\ FrameIsValid /\ box.body.cmd \in Statuses

Exchange == BoxOK /\ JobOK /\ (Silent \/ Asking \/ Working \/ Responded)

LEMMA ExchangeInit == Init => Exchange
  BY DEF Init, Exchange, BoxOK, JobOK, Silent, Idle

LEMMA ExchangeNext == Exchange /\ [Next]_vars => Exchange'
  <1> SUFFICES ASSUME Exchange, [Next]_vars PROVE Exchange'
    OBVIOUS
  <1> USE DEF Exchange
  <1>0. Idle.pc = "idle" /\ None.cmd = "none"
    BY DEF Idle, None
  <1>1. ASSUME Poll PROVE Exchange'
    <2>1. job.pc = "idle" /\ box.state = "RECEIVED_FRAME" /\ FrameIsValid
      BY <1>1 DEF Poll, HasFrame
    <2>2. Asking
      BY <2>1 DEF Silent, Working, Responded
    <2>3. box.body.cmd = request.cmd /\ request.cmd \notin Earlier
      <3>1. "header" \notin left /\ box.header = Header(request) /\ box.header = Header(box.body)
        BY <2>1, <2>2 DEF Asking, FrameIsValid
      <3> QED BY <2>2, <3>1, RequestsAssumption DEF Header, Asking, Earlier
    <2>4. left = {} /\ box.body = request
      BY <2>1, <2>2, <2>3 DEF Asking, FrameIsValid, Parts
    <2>5. PICK h \in Handlings : job' = [Idle EXCEPT !.pc = "copying", !.request = box.body,
              !.work = ProtocolDecoder(box.body, table, scopes, h),
              !.data = ProtocolDecoder(box.body, table, scopes, h).data]
      BY <1>1 DEF Poll, Decode
    <2>6. ProtocolDecoder(box.body, table, scopes, h).status \in Statuses
      BY <2>2, <2>4, DecoderStatus DEF Asking
    <2>7. /\ JobOK' /\ job'.pc = "copying" /\ job'.request = request /\ job'.work.status \in Statuses
      BY <2>4, <2>5, <2>6 DEF Idle, JobOK
    <2>8. /\ box' = [box EXCEPT !.state = "DECODING_FRAME", !.checksum = None]
          /\ decoded' = decoded + 1 /\ UNCHANGED <<request, left>>
      BY <1>1 DEF Poll, Decode, debugger
    <2>9. BoxOK' /\ box'.state = "DECODING_FRAME"
      BY <2>8 DEF BoxOK
    <2>10. Working'
      BY <2>2, <2>4, <2>7, <2>8, <2>9 DEF Working, Asking
    <2> QED BY <2>7, <2>9, <2>10
  <1>2. ASSUME CopyIn \/ ReadOld \/ CopyOut PROVE Exchange'
    <2>1. /\ job.pc = "copying" /\ UNCHANGED <<box, request, left, decoded>>
      BY <1>2 DEF CopyIn, ReadOld, CopyOut, IsCopying, debugger
    <2>2. JobOK' /\ job'.pc = job.pc /\ job'.request = job.request /\ job'.work = job.work
      BY <1>2 DEF CopyIn, ReadOld, CopyOut, JobOK
    <2>3. Working
      BY <1>0, <2>1 DEF Silent, Asking, Responded
    <2> QED BY <2>1, <2>2, <2>3 DEF Working, BoxOK
  <1>3. ASSUME SendResponse PROVE Exchange'
    <2>1. job.pc = "copying" /\ UNCHANGED <<request, left, decoded>> /\ job' = [job EXCEPT !.pc = "ready"]
      BY <1>3 DEF SendResponse, debugger
    <2>2. Working
      BY <1>0, <2>1 DEF Silent, Asking, Responded
    <2>3. PICK body : /\ body = [cmd |-> job.work.status, len |-> Len(job.data), data |-> job.data]
                      /\ box' = [box EXCEPT !.header = Header(body), !.body = body, !.checksum = body]
      BY <1>3 DEF SendResponse
    <2>4. /\ BoxOK' /\ box'.state = box.state /\ box'.header = Header(body) /\ box'.body = body
          /\ box'.checksum = body /\ body.cmd \in Statuses
      BY <2>2, <2>3 DEF BoxOK, Working
    <2>5. JobOK' /\ job'.pc = "ready" /\ job'.request = job.request /\ job'.work = job.work
      BY <2>1 DEF JobOK
    <2> QED BY <2>1, <2>2, <2>4, <2>5 DEF Working, FrameIsValid
  <1>4. ASSUME FrameToSend PROVE Exchange'
    <2>1. /\ job.pc = "ready" /\ job' = Idle /\ UNCHANGED <<request, left, decoded>>
          /\ box' = [box EXCEPT !.state = "FRAME_TO_SEND"]
      BY <1>4 DEF FrameToSend, debugger
    <2>2. Working
      BY <1>0, <2>1 DEF Silent, Asking, Responded
    <2>3. BoxOK' /\ box'.state = "FRAME_TO_SEND" /\ box'.header = box.header /\ box'.body = box.body
          /\ box'.checksum = box.checksum
      BY <2>1 DEF BoxOK
    <2>4. JobOK'
      BY <2>1 DEF JobOK, Idle
    <2> QED BY <2>1, <2>2, <2>3, <2>4 DEF Working, Responded, FrameIsValid
  <1>5. ASSUME NEW q \in Requests, Ask(q) PROVE Exchange'
    <2>1. UNCHANGED <<box, job>> /\ request' = q /\ left' = Parts /\ decoded' = 0
      BY <1>5 DEF Ask, target, Parts
    <2>2. Silent \/ Responded
      BY <1>0, <1>5, RequestsAssumption DEF Ask, Answered, Asking, Working, Earlier
    <2>3. job = Idle /\ box.state \in {"IDLE", "FRAME_TO_SEND"} /\ box.body.cmd \in Earlier /\ box.checksum.cmd \in Earlier
      BY <1>0, <2>2 DEF Silent, Responded, FrameIsValid, Earlier
    <2> QED BY <2>1, <2>3 DEF Asking, Parts, BoxOK, JobOK
  <1>6. ASSUME NEW part \in left, WritePart(part) PROVE Exchange'
    <2>1. Asking
      BY <1>6 DEF Silent, Working, Responded
    <2>2. /\ UNCHANGED <<job, request, decoded>> /\ left' = left \ {part} /\ part \in Parts
      BY <1>6, <2>1 DEF WritePart, target, Asking
    <2>3. CASE part = "header"
      <3>1. box' = [box EXCEPT !.state = "RECEIVED_FRAME", !.header = Header(request)]
        BY <1>6, <2>3 DEF WritePart
      <3> QED BY <2>1, <2>2, <2>3, <3>1 DEF Asking, BoxOK, JobOK
    <2>4. CASE part = "body"
      <3>1. box' = [box EXCEPT !.body = request]
        BY <1>6, <2>4 DEF WritePart
      <3> QED BY <2>1, <2>2, <2>4, <3>1 DEF Asking, BoxOK, JobOK
    <2>5. CASE part = "checksum"
      <3>1. box' = [box EXCEPT !.checksum = request]
        BY <1>6, <2>5 DEF WritePart
      <3> QED BY <2>1, <2>2, <2>5, <3>1 DEF Asking, BoxOK, JobOK
    <2> QED BY <2>2, <2>3, <2>4, <2>5 DEF Parts
  <1>7. ASSUME UNCHANGED <<box, job, request, left, decoded>> PROVE Exchange'
    BY <1>7 DEF BoxOK, JobOK, Silent, Asking, Working, Responded, FrameIsValid
  <1>8. ASSUME Application PROVE UNCHANGED <<box, job, request, left, decoded>>
    BY <1>8 DEF Application, AppWrite, SetUpTable, AddVar, AddVarCounted, debugger
  <1>9. ASSUME UNCHANGED vars PROVE UNCHANGED <<box, job, request, left, decoded>>
    BY <1>9 DEF vars, target, debugger
  <1> QED BY <1>1, <1>2, <1>3, <1>4, <1>5, <1>6, <1>7, <1>8, <1>9 DEF Next, Driver, Debugger

THEOREM ExchangeHolds == Spec => []Exchange
  <1>1. QED BY ExchangeInit, ExchangeNext, PTL DEF Spec

\* However the debugger writes the parts of a request and whenever the target
\* looks at them, it decodes what was asked, once, and what is found when the
\* state says so is the whole response.
THEOREM RequestsAreExecutedAsSent == Spec => []ExecutedAsSent
  <1>1. Exchange => ExecutedAsSent
    <2> SUFFICES ASSUME Exchange PROVE ExecutedAsSent
      OBVIOUS
    <2>0. Idle.pc = "idle" /\ None.cmd = "none"
      BY DEF Idle, None
    <2>1. CASE Silent
      BY <2>0, <2>1 DEF Silent, ExecutedAsSent
    <2>2. CASE Asking
      BY <2>0, <2>2 DEF Asking, ExecutedAsSent
    <2>3. CASE Working
      BY <2>3 DEF Working, ExecutedAsSent
    <2>4. CASE Responded
      <3>1. box.body # request
        BY <2>4, RequestsAssumption DEF Responded
      <3> QED BY <2>0, <2>4, <3>1 DEF Responded, ExecutedAsSent
    <2> QED BY <2>1, <2>2, <2>3, <2>4 DEF Exchange
  <1> QED BY <1>1, ExchangeHolds, PTL

-----------------------------------------------------------------------------
(* Whole variables.                                                        *)

\* Where a copy is after k operations.
Reached(acc, addr, k) == IF k = 0 THEN addr ELSE End(acc[k])

LEMMA ThroughLemma ==
    ASSUME NEW addr \in Nat, NEW p \in Nat, NEW acc, Through(acc, addr, p), NEW k \in 1 .. Len(acc)
    PROVE  /\ acc[k].addr \in Nat /\ acc[k].width \in Widths
           /\ acc[k].addr = Reached(acc, addr, k - 1)
           /\ Reached(acc, addr, k) = acc[k].addr + acc[k].width
           /\ addr <= acc[k].addr /\ acc[k].addr + acc[k].width <= p
  <1>1. acc \in Seq(AccessRecords) /\ Len(acc) \in Nat
    BY DEF Through
  <1>2. acc[k] \in AccessRecords
    BY <1>1
  <1>3. acc[k].addr = (IF k = 1 THEN addr ELSE End(acc[k - 1])) /\ addr <= acc[k].addr /\ End(acc[k]) <= p
    BY DEF Through
  <1>4. k - 1 = 0 <=> k = 1
    BY <1>1
  <1> QED BY <1>2, <1>3, <1>4 DEF AccessRecords, End, Reached

LEMMA EndLemma ==
    ASSUME NEW addr \in Nat, NEW p \in Nat, NEW acc, Through(acc, addr, p)
    PROVE  Len(acc) \in Nat /\ Reached(acc, addr, Len(acc)) = p
  <1>1. acc \in Seq(AccessRecords) /\ Len(acc) \in Nat /\ (acc = <<>> <=> Len(acc) = 0)
    BY DEF Through
  <1> QED BY <1>1 DEF Through, Reached

\* A variable of a block is moved by one operation.
LEMMA SideLemma ==
    ASSUME NEW q, q.addr \in Nat, q.size \in Nat, NEW acc,
           Through(acc, q.addr, q.addr + q.size), Uncut(acc, q.addr, q.size),
           NEW v \in Variables, CellsOf(v) \subseteq CellsOf(q), NEW k \in 0 .. Len(acc)
    PROVE  Reached(acc, q.addr, k) <= v.addr \/ v.addr + v.size <= Reached(acc, q.addr, k)
  <1>1. v.addr \in Nat /\ v.size \in Widths /\ v.size <= MaxSize /\ v.addr % v.size = 0
    BY VariablesAssumption
  <1>2. v.addr \in CellsOf(q) /\ v.addr + v.size - 1 \in CellsOf(q)
    <2>1. v.addr \in CellsOf(v) /\ v.addr + v.size - 1 \in CellsOf(v)
      BY <1>1 DEF CellsOf, Widths
    <2> QED BY <2>1
  <1>3. Operand(v.addr, v.size, q.addr, q.size) /\ v.addr \in q.addr .. q.addr + q.size
    <2>1. PICK a \in Nat, n \in Widths : a = v.addr /\ n = v.size
      BY <1>1
    <2>2. PICK x \in Nat, y \in Nat : x = q.addr /\ y = q.size
      OBVIOUS
    <2>3. a \in x .. x + y - 1 /\ a + n - 1 \in x .. x + y - 1
      BY <1>2, <2>1, <2>2 DEF CellsOf
    <2>4. x <= a /\ a + n <= x + y /\ a \in x .. x + y
      BY <2>3 DEF Widths
    <2> QED BY <1>1, <2>1, <2>2, <2>4 DEF Operand
  <1>4. CASE k = 0
    BY <1>3, <1>4 DEF Reached, Operand
  <1>5. CASE k # 0
    <2>1. k \in 1 .. Len(acc)
      BY <1>5, EndLemma
    <2>2. Whole(End(acc[k]), q.addr, q.size)
      BY <2>1 DEF Uncut
    <2> QED BY <1>1, <1>3, <1>5, <2>2 DEF Whole, Reached
  <1> QED BY <1>4, <1>5

IsSequence(s) == Len(s) \in Nat /\ s = [i \in 1 .. Len(s) |-> s[i]]

\* r is s and then t.
Joins(r, s, t) ==
    /\ IsSequence(r) /\ Len(r) = Len(s) + Len(t)
    /\ \A i \in 1 .. Len(s) : r[i] = s[i]
    /\ \A i \in 1 .. Len(t) : r[Len(s) + i] = t[i]

LEMMA JoinLemma ==
    ASSUME NEW S, NEW s \in Seq(S), NEW t \in Seq(S)
    PROVE  Joins(s \o t, s, t)
  <1>0. s \o t \in Seq(S)
    OBVIOUS
  <1>1. PICK r \in Seq(S) : r = s \o t
    BY <1>0, Zenon
  <1>2. PICK m \in Nat, n \in Nat : m = Len(s) /\ n = Len(t)
    OBVIOUS
  <1>3. Len(r) = m + n /\ (\A i \in 1 .. m : r[i] = s[i])
    BY <1>1, <1>2
  <1>4. \A i \in 1 .. n : r[m + i] = t[i]
    BY <1>1, <1>2
  <1>5. Len(r) \in Nat /\ r \in [1 .. Len(r) -> S]
    BY LenProperties
  <1>6. r = [i \in 1 .. Len(r) |-> r[i]]
    BY <1>5, Zenon
  <1> QED BY <1>1, <1>2, <1>3, <1>4, <1>5, <1>6 DEF Joins, IsSequence

LEMMA AppendLemma ==
    ASSUME NEW s, IsSequence(s), NEW t, IsSequence(t)
    PROVE  Joins(s \o t, s, t)
  <1> DEFINE S == {s[i] : i \in 1 .. Len(s)} \cup {t[i] : i \in 1 .. Len(t)}
  <1>1. PICK m \in Nat, n \in Nat : m = Len(s) /\ n = Len(t)
    BY DEF IsSequence
  <1>2. s \in Seq(S)
    <2>1. \A i \in 1 .. m : s[i] \in S
      BY <1>1
    <2>2. s = [i \in 1 .. m |-> s[i]]
      BY <1>1 DEF IsSequence
    <2> HIDE DEF S
    <2> QED BY <2>1, <2>2
  <1>3. t \in Seq(S)
    <2>1. \A i \in 1 .. n : t[i] \in S
      BY <1>1
    <2>2. t = [i \in 1 .. n |-> t[i]]
      BY <1>1 DEF IsSequence
    <2> HIDE DEF S
    <2> QED BY <2>1, <2>2
  <1> HIDE DEF S
  <1> QED BY <1>2, <1>3, JoinLemma

Untorn(m) == \A v \in Variables : \A c, d \in CellsOf(v) : m[c] = m[d]

MemoryOK == memory = [c \in DOMAIN Initial |-> memory[c]] /\ Untorn(memory)

\* What is copied of READMEM: whole variables.
ReadSoFar(q, work, copied, data) ==
    q.cmd = "READMEM" /\ work.status = "OK" =>
        /\ work.dir = "read" /\ copied \in 0 .. Len(work.accesses)
        /\ Through(work.accesses, q.addr, q.addr + q.size) /\ Uncut(work.accesses, q.addr, q.size)
        /\ IsSequence(data) /\ Len(data) = Reached(work.accesses, q.addr, copied) - q.addr
        /\ \A v \in Variables : CellsOf(v) \subseteq CellsOf(q) =>
              \A c, d \in CellsOf(v) :
                 c < Reached(work.accesses, q.addr, copied) /\ d < Reached(work.accesses, q.addr, copied) =>
                    data[c - q.addr + 1] = data[d - q.addr + 1]

Kept(old, access) ==
    /\ old = [i \in 1 .. access.width |-> old[i]]
    /\ \A v \in Variables : CellsOf(v) \subseteq Cells(access) =>
          \A c, d \in CellsOf(v) : old[c - access.addr + 1] = old[d - access.addr + 1]

\* The operations of WRITEMEM, and what it has read to put back.
WrittenSoFar(q, work, copied, old) ==
    work.dir = "write" =>
        /\ q.cmd = "WRITEMEM" /\ copied \in 0 .. Len(work.accesses)
        /\ work.mask = IF q.masked THEN q.mask ELSE 1 .. q.size
        /\ Through(work.accesses, q.addr, q.addr + q.size) /\ Uncut(work.accesses, q.addr, q.size)
        /\ old # <<>> => Kept(old, work.accesses[copied + 1])

WholeSoFar ==
    /\ MemoryOK
    /\ ReadSoFar(job.request, job.work, job.copied, job.data)
    /\ WrittenSoFar(job.request, job.work, job.copied, job.old)

LEMMA IdleLemma ==
    /\ Idle.pc = "idle" /\ Idle.request.cmd = "none" /\ Idle.work.dir = "none"
    /\ Idle.copied = 0 /\ Idle.data = <<>> /\ Idle.old = <<>>
    /\ Idle.work.accesses = <<>>
  BY DEF Idle, None, Job

LEMMA WholeInit == Init => WholeSoFar
  <1> SUFFICES ASSUME Init PROVE WholeSoFar
    OBVIOUS
  <1>1. job = Idle /\ memory = Initial
    BY DEF Init
  <1>2. \A v \in Variables : \A c \in CellsOf(v) : Initial[c] = Initial[v.addr]
    BY InitialAssumption DEF CellsOf
  <1>3. Initial = [c \in DOMAIN Initial |-> Initial[c]]
    BY InitialAssumption
  <1> QED BY <1>1, <1>2, <1>3, IdleLemma DEF WholeSoFar, MemoryOK, Untorn, ReadSoFar, WrittenSoFar

\* What the decoder hands over for these two.
LEMMA HandedOver ==
    ASSUME NEW q \in Requests, NEW t, NEW sc, NEW h
    PROVE  LET work == ProtocolDecoder(q, t, sc, h)
           IN  ReadSoFar(q, work, 0, work.data) /\ WrittenSoFar(q, work, 0, <<>>)
  <1> DEFINE work == ProtocolDecoder(q, t, sc, h)
  <1>1. /\ \A status, data : Job(status, data).status = status /\ Job(status, data).dir = "none"
                             /\ Job(status, data).data = data
        /\ \A status : Error(status).status = status /\ Error(status).dir = "none" /\ Error(status).data = <<>>
        /\ \A acc : Reading(acc).status = "OK" /\ Reading(acc).dir = "read" /\ Reading(acc).accesses = acc
                    /\ Reading(acc).data = <<>>
        /\ \A acc, mask : Writing(acc, mask).dir = "write" /\ Writing(acc, mask).accesses = acc
                          /\ Writing(acc, mask).mask = mask
    BY DEF Job, Error, Reading, Writing
  <1>2. CASE q.cmd = "READMEM"
    <2>1. q.addr \in Nat /\ q.size \in Nat
      BY <1>2, RequestsAssumption
    <2>2. work = ReadBlock(t, q.addr, q.size)
      BY <1>2 DEF ProtocolDecoder, ReadMem
    <2>3. work = Error("EACCESS") \/ work = Error("RSPBUFFOVF") \/ work = Reading(MemCpyFrom(q.addr, q.size))
      BY <2>2 DEF ReadBlock
    <2>4. WrittenSoFar(q, work, 0, <<>>)
      BY <1>1, <2>3 DEF WrittenSoFar
    <2>5. CASE work = Error("EACCESS") \/ work = Error("RSPBUFFOVF")
      <3>1. work.status # "OK"
        BY <1>1, <2>5
      <3> QED BY <2>4, <3>1 DEF ReadSoFar
    <2>6. CASE work = Reading(MemCpyFrom(q.addr, q.size))
      <3>1. PICK acc : acc = MemCpyFrom(q.addr, q.size)
        OBVIOUS
      <3>2. Through(acc, q.addr, q.addr + q.size) /\ Uncut(acc, q.addr, q.size)
        BY <2>1, <3>1, CopyLemma DEF MemCpyFrom
      <3>3. work.accesses = acc /\ work.dir = "read" /\ work.data = <<>>
        BY <1>1, <2>6, <3>1
      <3>4. Reached(acc, q.addr, 0) = q.addr /\ 0 \in 0 .. Len(acc)
        BY <2>1, <3>2, EndLemma DEF Reached
      <3>5. \A v \in Variables : CellsOf(v) \subseteq CellsOf(q) => \A c \in CellsOf(v) : ~(c < q.addr)
        BY <2>1 DEF CellsOf
      <3>6. IsSequence(<<>>) /\ Len(<<>>) = q.addr - q.addr
        BY <2>1 DEF IsSequence
      <3> QED BY <2>4, <3>2, <3>3, <3>4, <3>5, <3>6 DEF ReadSoFar
    <2> QED BY <2>3, <2>5, <2>6
  <1>3. CASE q.cmd = "WRITEMEM"
    <2>1. q.addr \in Nat /\ q.size \in Nat
      BY <1>3, RequestsAssumption
    <2>2. work = WriteMem(t, q)
      BY <1>3 DEF ProtocolDecoder
    <2>3. \/ work = Error("EACCESS")
          \/ q.masked /\ work = Writing(MemCpyToMasked(q.addr, q.size), q.mask)
          \/ ~q.masked /\ work = Writing(MemCpyTo(q.addr, q.size), 1 .. q.size)
      BY <2>2 DEF WriteMem
    <2>4. ReadSoFar(q, work, 0, work.data)
      BY <1>3 DEF ReadSoFar
    <2>5. CASE work = Error("EACCESS")
      BY <1>1, <2>4, <2>5 DEF WrittenSoFar
    <2>6. CASE work # Error("EACCESS")
      <3>1. PICK acc : acc = MemCpySrcAligned(OddOperands(Block(q.addr, q.size))).accesses
        OBVIOUS
      <3>2. work.accesses = acc /\ work.mask = IF q.masked THEN q.mask ELSE 1 .. q.size
        BY <1>1, <2>3, <2>6, <3>1 DEF MemCpyToMasked, MemCpyTo, MemCpyDstAligned, MemCpyMaskedDstAligned
      <3>3. Through(acc, q.addr, q.addr + q.size) /\ Uncut(acc, q.addr, q.size)
        BY <2>1, <3>1, CopyLemma
      <3>4. 0 \in 0 .. Len(acc)
        BY <2>1, <3>3, EndLemma
      <3> QED BY <1>3, <2>4, <3>2, <3>3, <3>4 DEF WrittenSoFar
    <2> QED BY <2>5, <2>6
  <1>4. CASE q.cmd \notin {"READMEM", "WRITEMEM"}
    <2>1. work.dir # "write"
      <3>1. \A addr, size : ReadBlock(t, addr, size).dir # "write"
        BY <1>1 DEF ReadBlock
      <3>2. GetBoardConfig(q).dir # "write" /\ ReadScope(sc[q.scope]).dir # "write" /\ GetStringLen(q).dir # "write"
        BY <1>1 DEF GetBoardConfig, ReadScope, GetStringLen
      <3>3. CASE q.cmd = "URESRWI"
        <4>1. PICK c : c = UresControl(t, q, h)
          OBVIOUS
        <4>2. work = [Job(c.status, c.data) EXCEPT !.call = c.call]
          BY <3>3, <4>1 DEF ProtocolDecoder
        <4> QED BY <4>2 DEF Job
      <3>4. CASE q.cmd # "URESRWI"
        BY <1>1, <1>4, <3>1, <3>2, <3>4 DEF ProtocolDecoder, ReadMemBaseAddress
      <3> QED BY <3>3, <3>4
    <2> QED BY <1>4, <2>1 DEF ReadSoFar, WrittenSoFar
  <1> QED BY <1>2, <1>3, <1>4

\* A copy goes on: the operation it does next.
LEMMA OperationLemma ==
    ASSUME Exchange, IsCopying
    PROVE  /\ job.request \in Requests /\ job.copied < Len(job.work.accesses)
           /\ \A q, acc : q = job.request /\ acc = job.work.accesses /\ q.addr \in Nat /\ q.size \in Nat
                          /\ job.copied \in 0 .. Len(acc) /\ Through(acc, q.addr, q.addr + q.size) =>
                 /\ Current = acc[job.copied + 1] /\ Current.addr \in Nat /\ Current.width \in Widths
                 /\ Current.addr = Reached(acc, q.addr, job.copied)
                 /\ Reached(acc, q.addr, job.copied + 1) = Current.addr + Current.width
                 /\ q.addr <= Current.addr /\ Current.addr + Current.width <= q.addr + q.size
                 /\ job.copied + 1 \in 1 .. Len(acc) /\ acc[1].addr = q.addr
  <1>1. Working
    BY IdleLemma DEF Exchange, Silent, Asking, Responded, IsCopying
  <1>2. job.request \in Requests /\ job.copied < Len(job.work.accesses)
    BY <1>1 DEF Working, IsCopying
  <1>3. ASSUME NEW q, NEW acc, q = job.request, acc = job.work.accesses, q.addr \in Nat, q.size \in Nat,
               job.copied \in 0 .. Len(acc), Through(acc, q.addr, q.addr + q.size)
        PROVE  /\ Current = acc[job.copied + 1] /\ Current.addr \in Nat /\ Current.width \in Widths
               /\ Current.addr = Reached(acc, q.addr, job.copied)
               /\ Reached(acc, q.addr, job.copied + 1) = Current.addr + Current.width
               /\ q.addr <= Current.addr /\ Current.addr + Current.width <= q.addr + q.size
               /\ job.copied + 1 \in 1 .. Len(acc) /\ acc[1].addr = q.addr
    <2>1. Len(acc) \in Nat /\ q.addr + q.size \in Nat
      BY <1>3, EndLemma
    <2>2. job.copied + 1 \in 1 .. Len(acc) /\ job.copied + 1 - 1 = job.copied /\ 1 \in 1 .. Len(acc) /\ 1 - 1 = 0
      BY <1>2, <1>3, <2>1
    <2>3. PICK a \in Nat, p \in Nat : a = q.addr /\ p = q.addr + q.size
      BY <1>3, <2>1
    <2>4. Through(acc, a, p)
      BY <1>3, <2>3
    <2>5. acc[1].addr = q.addr
      BY <2>2, <2>3, <2>4, ThroughLemma DEF Reached
    <2>6. PICK k : k = job.copied + 1
      OBVIOUS
    <2>7. k \in 1 .. Len(acc) /\ k - 1 = job.copied /\ Current = acc[k]
      BY <1>3, <2>2, <2>6 DEF Current
    <2>8. /\ acc[k].addr \in Nat /\ acc[k].width \in Widths /\ acc[k].addr = Reached(acc, a, k - 1)
          /\ Reached(acc, a, k) = acc[k].addr + acc[k].width /\ a <= acc[k].addr /\ acc[k].addr + acc[k].width <= p
      BY <2>4, <2>7, ThroughLemma
    <2> QED BY <2>2, <2>3, <2>5, <2>6, <2>7, <2>8
  <1> QED BY <1>2, <1>3

LEMMA SourceLemma ==
    ASSUME NEW m, NEW access, access.addr \in Nat, access.width \in Widths
    PROVE  LET t == CopySrcAligned(m, access)
           IN  /\ IsSequence(t) /\ Len(t) = access.width /\ access.width \in Nat
               /\ \A i \in 1 .. access.width : t[i] = m[access.addr + i - 1]
  <1>1. PICK n \in Nat : n = access.width
    BY DEF Widths
  <1>2. PICK t : t = [i \in 1 .. n |-> m[access.addr + i - 1]]
    OBVIOUS
  <1>3. t \in Seq({t[i] : i \in 1 .. n})
    <2>1. \A i \in 1 .. n : t[i] \in {t[j] : j \in 1 .. n}
      OBVIOUS
    <2>2. PICK S : S = {t[j] : j \in 1 .. n}
      OBVIOUS
    <2>3. t = [i \in 1 .. n |-> t[i]]
      BY <1>2
    <2> QED BY <2>1, <2>2, <2>3
  <1>4. Len(t) = n /\ IsSequence(t)
    BY <1>2, <1>3 DEF IsSequence
  <1> QED BY <1>1, <1>2, <1>4 DEF CopySrcAligned

LEMMA CopyInWhole ==
    ASSUME Exchange, WholeSoFar, CopyIn
    PROVE  WholeSoFar'
  <1>1. PICK q, work : q = job.request /\ work = job.work
    OBVIOUS
  <1>2. job' = [job EXCEPT !.copied = job.copied + 1, !.data = job.data \o CopySrcAligned(memory, Current)]
    BY DEF CopyIn
  <1>3. /\ job'.request = q /\ job'.work = work /\ job'.copied = job.copied + 1
        /\ job'.data = job.data \o CopySrcAligned(memory, Current)
    BY <1>1, <1>2 DEF Exchange, JobOK
  <1>4. work.dir = "read" /\ IsCopying /\ memory' = memory
    BY <1>1 DEF CopyIn
  <1>5. MemoryOK'
    BY <1>4 DEF WholeSoFar, MemoryOK, Untorn
  <1>6. WrittenSoFar(q, work, job'.copied, job'.old)
    BY <1>4 DEF WrittenSoFar
  <1>7. ASSUME q.cmd = "READMEM", work.status = "OK"
        PROVE  ReadSoFar(q, work, job'.copied, job'.data)
    <2> DEFINE acc == work.accesses
    <2>1. q \in Requests
      BY <1>1, <1>4, OperationLemma
    <2>2. q.addr \in Nat /\ q.size \in Nat
      BY <1>7, <2>1, RequestsAssumption
    <2>3. /\ job.copied \in 0 .. Len(acc)
          /\ Through(acc, q.addr, q.addr + q.size) /\ Uncut(acc, q.addr, q.size)
          /\ IsSequence(job.data) /\ Len(job.data) = Reached(acc, q.addr, job.copied) - q.addr
          /\ \A v \in Variables : CellsOf(v) \subseteq CellsOf(q) =>
                \A c, d \in CellsOf(v) :
                   c < Reached(acc, q.addr, job.copied) /\ d < Reached(acc, q.addr, job.copied) =>
                      job.data[c - q.addr + 1] = job.data[d - q.addr + 1]
      BY <1>1, <1>7 DEF WholeSoFar, ReadSoFar
    <2>4. PICK x \in Nat, w \in Widths :
             /\ Current.addr = x /\ Current.width = w /\ x = Reached(acc, q.addr, job.copied)
             /\ Reached(acc, q.addr, job.copied + 1) = x + w /\ q.addr <= x /\ job.copied + 1 \in 0 .. Len(acc)
      <3>1. /\ Current.addr \in Nat /\ Current.width \in Widths /\ Current.addr = Reached(acc, q.addr, job.copied)
            /\ Reached(acc, q.addr, job.copied + 1) = Current.addr + Current.width /\ q.addr <= Current.addr
            /\ job.copied + 1 \in 1 .. Len(acc)
        BY <1>1, <1>4, <2>2, <2>3, OperationLemma
      <3> QED BY <3>1
    <2>5. PICK t : t = CopySrcAligned(memory, Current)
      OBVIOUS
    <2>6. IsSequence(t) /\ Len(t) = w /\ w \in Nat /\ \A i \in 1 .. w : t[i] = memory[x + i - 1]
      <3>1. Current.addr \in Nat /\ Current.width \in Widths /\ Current.addr = x /\ Current.width = w
        BY <2>4
      <3>2. PICK p : p = Current
        OBVIOUS
      <3>3. p.addr \in Nat /\ p.width \in Widths
        BY <3>1, <3>2
      <3>4. /\ IsSequence(t) /\ Len(t) = p.width /\ p.width \in Nat
            /\ \A i \in 1 .. p.width : t[i] = memory[p.addr + i - 1]
        BY <2>5, <3>2, <3>3, SourceLemma
      <3> QED BY <3>1, <3>2, <3>4
    <2>7. /\ IsSequence(job'.data) /\ Len(job'.data) = (x - q.addr) + w
          /\ \A i \in 1 .. x - q.addr : job'.data[i] = job.data[i]
          /\ \A i \in 1 .. w : job'.data[(x - q.addr) + i] = t[i]
      <3>1. PICK s : s = job.data
        OBVIOUS
      <3>2. IsSequence(s) /\ Len(s) = x - q.addr
        BY <2>3, <2>4, <3>1
      <3>3. job'.data = s \o t
        BY <1>3, <2>5, <3>1
      <3>4. Joins(job'.data, s, t)
        BY <2>6, <3>2, <3>3, AppendLemma
      <3> QED BY <2>6, <3>1, <3>2, <3>4 DEF Joins
    <2>8. Len(job'.data) = Reached(acc, q.addr, job.copied + 1) - q.addr
      BY <2>2, <2>4, <2>6, <2>7
    <2>9. ASSUME NEW v \in Variables, CellsOf(v) \subseteq CellsOf(q), NEW c \in CellsOf(v), NEW d \in CellsOf(v),
                 c < x + w, d < x + w
          PROVE  job'.data[c - q.addr + 1] = job'.data[d - q.addr + 1]
      <3>1. PICK a \in Nat, n \in Widths : a = v.addr /\ n = v.size
        BY VariablesAssumption
      <3>2. c \in a .. a + n - 1 /\ d \in a .. a + n - 1 /\ c \in Nat /\ d \in Nat /\ q.addr <= c /\ q.addr <= d
        BY <2>2, <2>9, <3>1 DEF CellsOf, Widths
      <3>3. x <= a \/ a + n <= x
        BY <2>2, <2>3, <2>4, <2>9, <3>1, SideLemma
      <3>4. CASE a + n <= x
        <4>1. c < x /\ d < x /\ c - q.addr + 1 \in 1 .. x - q.addr /\ d - q.addr + 1 \in 1 .. x - q.addr
          BY <2>2, <3>2, <3>4 DEF Widths
        <4>2. job.data[c - q.addr + 1] = job.data[d - q.addr + 1]
          BY <2>3, <2>4, <2>9, <4>1
        <4> QED BY <2>7, <4>1, <4>2
      <3>5. CASE x <= a
        <4>1. /\ c - x + 1 \in 1 .. w /\ c - q.addr + 1 = (x - q.addr) + (c - x + 1) /\ x + (c - x + 1) - 1 = c
              /\ d - x + 1 \in 1 .. w /\ d - q.addr + 1 = (x - q.addr) + (d - x + 1) /\ x + (d - x + 1) - 1 = d
          <5>1. PICK b \in Nat, e \in Nat, f \in Nat : b = q.addr /\ e = c /\ f = d
            BY <2>2, <3>2
          <5>2. x <= e /\ x <= f /\ e < x + w /\ f < x + w
            BY <2>9, <3>1, <3>2, <3>5, <5>1
          <5>4. w \in Nat
            BY <2>6
          <5>3. /\ e - x + 1 \in 1 .. w /\ e - b + 1 = (x - b) + (e - x + 1) /\ x + (e - x + 1) - 1 = e
                /\ f - x + 1 \in 1 .. w /\ f - b + 1 = (x - b) + (f - x + 1) /\ x + (f - x + 1) - 1 = f
            BY <5>2, <5>4
          <5> QED BY <5>1, <5>3
        <4>2. job'.data[c - q.addr + 1] = memory[c] /\ job'.data[d - q.addr + 1] = memory[d]
          BY <2>6, <2>7, <4>1
        <4>3. memory[c] = memory[d]
          BY <2>9 DEF WholeSoFar, MemoryOK, Untorn
        <4> QED BY <4>2, <4>3
      <3> QED BY <3>3, <3>4, <3>5
    <2>10. PICK k : k = job.copied + 1
      OBVIOUS
    <2>11. /\ k \in 0 .. Len(acc) /\ Len(job'.data) = Reached(acc, q.addr, k) - q.addr
           /\ Reached(acc, q.addr, k) = x + w /\ job'.copied = k
      BY <1>3, <2>4, <2>8, <2>10
    <2>12. \A v \in Variables : CellsOf(v) \subseteq CellsOf(q) => \A c, d \in CellsOf(v) :
              c < Reached(acc, q.addr, k) /\ d < Reached(acc, q.addr, k) =>
                 job'.data[c - q.addr + 1] = job'.data[d - q.addr + 1]
      BY <2>9, <2>11
    <2> QED BY <1>4, <2>3, <2>7, <2>11, <2>12 DEF ReadSoFar
  <1>8. ReadSoFar(q, work, job'.copied, job'.data)
    BY <1>7 DEF ReadSoFar
  <1> QED BY <1>3, <1>5, <1>6, <1>8 DEF WholeSoFar

LEMMA ReadOldWhole ==
    ASSUME Exchange, WholeSoFar, ReadOld
    PROVE  WholeSoFar'
  <1>1. PICK q, work, access : q = job.request /\ work = job.work /\ access = Current
    OBVIOUS
  <1>2. job' = [job EXCEPT !.old = CopySrcAligned(memory, access)] /\ memory' = memory
    BY <1>1 DEF ReadOld
  <1>3. /\ job'.request = q /\ job'.work = work /\ job'.copied = job.copied /\ job'.data = job.data
        /\ job'.old = CopySrcAligned(memory, access)
    BY <1>1, <1>2 DEF Exchange, JobOK
  <1>4. MemoryOK'
    BY <1>2 DEF WholeSoFar, MemoryOK, Untorn
  <1>5. work.dir = "write" /\ IsCopying
    BY <1>1 DEF ReadOld
  <1>6. /\ q.cmd = "WRITEMEM" /\ job.copied \in 0 .. Len(work.accesses)
        /\ work.mask = IF q.masked THEN q.mask ELSE 1 .. q.size
        /\ Through(work.accesses, q.addr, q.addr + q.size) /\ Uncut(work.accesses, q.addr, q.size)
    BY <1>1, <1>5 DEF WholeSoFar, WrittenSoFar
  <1>7. q.addr \in Nat /\ q.size \in Nat
    BY <1>1, <1>5, <1>6, OperationLemma, RequestsAssumption
  <1>8. access = work.accesses[job.copied + 1] /\ access.addr \in Nat /\ access.width \in Widths
    BY <1>1, <1>5, <1>6, <1>7, OperationLemma
  <1>9. PICK t : t = CopySrcAligned(memory, access)
    OBVIOUS
  <1>10. t = [i \in 1 .. access.width |-> t[i]] /\ \A i \in 1 .. access.width : t[i] = memory[access.addr + i - 1]
    BY <1>8, <1>9, SourceLemma DEF IsSequence
  <1>11. ASSUME NEW v \in Variables, CellsOf(v) \subseteq Cells(access), NEW c \in CellsOf(v), NEW d \in CellsOf(v)
         PROVE  t[c - access.addr + 1] = t[d - access.addr + 1]
    <2>1. PICK x \in Nat, w \in Nat : x = access.addr /\ w = access.width
      BY <1>8 DEF Widths
    <2>2. c \in x .. x + w - 1 /\ d \in x .. x + w - 1
      BY <1>11, <2>1 DEF Cells
    <2>3. c - x + 1 \in 1 .. w /\ x + (c - x + 1) - 1 = c /\ d - x + 1 \in 1 .. w /\ x + (d - x + 1) - 1 = d
      BY <2>2
    <2>4. memory[c] = memory[d]
      BY DEF WholeSoFar, MemoryOK, Untorn
    <2>5. t[c - x + 1] = memory[c] /\ t[d - x + 1] = memory[d]
      BY <1>10, <2>1, <2>3
    <2> QED BY <2>1, <2>4, <2>5
  <1>12. WrittenSoFar(q, work, job'.copied, job'.old)
    <2>1. Kept(t, access)
      BY <1>10, <1>11 DEF Kept
    <2>2. job'.old = t /\ job'.copied = job.copied
      BY <1>3, <1>9
    <2> QED BY <1>6, <1>8, <2>1, <2>2 DEF WrittenSoFar
  <1>13. ReadSoFar(q, work, job'.copied, job'.data)
    BY <1>1, <1>3 DEF WholeSoFar
  <1> QED BY <1>3, <1>4, <1>12, <1>13 DEF WholeSoFar

LEMMA CopyOutWhole ==
    ASSUME WholeVariables, Exchange, WholeSoFar, CopyOut
    PROVE  WholeSoFar'
  <1>1. PICK q, work, access, mask : /\ q = job.request /\ work = job.work /\ access = Current
                                     /\ mask = Bytes(job.work.mask)
    OBVIOUS
  <1>2. job' = [job EXCEPT !.copied = job.copied + 1, !.old = <<>>]
    BY DEF CopyOut
  <1>3. /\ job'.request = q /\ job'.work = work /\ job'.copied = job.copied + 1 /\ job'.data = job.data
        /\ job'.old = <<>>
    BY <1>1, <1>2 DEF Exchange, JobOK
  <1>4. work.dir = "write" /\ IsCopying /\ (q.masked => job.old # <<>>)
    BY <1>1 DEF CopyOut
  <1>5. /\ q.cmd = "WRITEMEM" /\ job.copied \in 0 .. Len(work.accesses)
        /\ work.mask = (IF q.masked THEN q.mask ELSE 1 .. q.size)
        /\ Through(work.accesses, q.addr, q.addr + q.size) /\ Uncut(work.accesses, q.addr, q.size)
    BY <1>1, <1>4 DEF WholeSoFar, WrittenSoFar
  <1>6. q \in Requests /\ q.addr \in Nat /\ q.size \in Nat
    BY <1>1, <1>4, <1>5, OperationLemma, RequestsAssumption
  <1>7. PICK x \in Nat, w \in Widths, a \in Nat, n \in Nat :
          /\ access.addr = x /\ access.width = w /\ a = q.addr /\ n = q.size
          /\ access = work.accesses[job.copied + 1] /\ work.accesses[1].addr = a
          /\ x = Reached(work.accesses, a, job.copied) /\ x + w = Reached(work.accesses, a, job.copied + 1)
          /\ a <= x /\ x + w <= a + n /\ job.copied + 1 \in 1 .. Len(work.accesses)
    <2>1. /\ Current = work.accesses[job.copied + 1] /\ Current.addr \in Nat /\ Current.width \in Widths
          /\ Current.addr = Reached(work.accesses, q.addr, job.copied)
          /\ Reached(work.accesses, q.addr, job.copied + 1) = Current.addr + Current.width
          /\ q.addr <= Current.addr /\ Current.addr + Current.width <= q.addr + q.size
          /\ job.copied + 1 \in 1 .. Len(work.accesses) /\ work.accesses[1].addr = q.addr
      BY <1>1, <1>4, <1>5, <1>6, OperationLemma
    <2> QED BY <1>1, <1>6, <2>1
  <1>8. PICK bytes : /\ bytes = IF q.masked THEN CopyMaskedDstAligned(job.old, mask, [i \in 1 .. w |-> "host"])
                                ELSE [i \in 1 .. w |-> "host"]
                     /\ memory' = CopyDstAligned(memory, access, bytes)
    BY <1>1, <1>7 DEF CopyOut
  <1>9. /\ DOMAIN memory = DOMAIN Initial /\ memory' = [c \in DOMAIN Initial |-> memory'[c]]
        /\ \A c \in DOMAIN Initial : memory'[c] = IF c \in x .. x + w - 1 THEN bytes[c - x + 1] ELSE memory[c]
    BY <1>7, <1>8 DEF WholeSoFar, MemoryOK, CopyDstAligned, Cells
  <1>10. mask = {i \in 1 .. w : x - a + i \in work.mask}
    BY <1>1, <1>7 DEF Bytes, Offset
  <1>11. ASSUME NEW v \in Variables, NEW c \in CellsOf(v), NEW d \in CellsOf(v)
         PROVE  memory'[c] = memory'[d]
    <2>1. PICK y \in Nat, m \in Widths : y = v.addr /\ m = v.size
      BY VariablesAssumption
    <2>2. PICK e \in Nat, f \in Nat : e = c /\ f = d /\ e \in y .. y + m - 1 /\ f \in y .. y + m - 1
      BY <2>1 DEF CellsOf, Widths
    <2>3. c \in DOMAIN Initial /\ d \in DOMAIN Initial
      BY InitialAssumption DEF CellsOf
    <2>4. memory[c] = memory[d]
      BY DEF WholeSoFar, MemoryOK, Untorn
    <2>5. CASE c \notin x .. x + w - 1 /\ d \notin x .. x + w - 1
      BY <1>9, <2>3, <2>4, <2>5
    <2>6. CASE c \in x .. x + w - 1 \/ d \in x .. x + w - 1
      <3>1. c \in CellsOf(q) \/ d \in CellsOf(q)
        <4>1. e \in x .. x + w - 1 \/ f \in x .. x + w - 1
          BY <2>2, <2>6
        <4>2. w \in Nat /\ a <= x /\ x + w <= a + n
          BY <1>7 DEF Widths
        <4>3. e \in a .. a + n - 1 \/ f \in a .. a + n - 1
          BY <4>1, <4>2
        <4> QED BY <1>7, <2>2, <4>3 DEF CellsOf
      <3>2. /\ CellsOf(v) \subseteq CellsOf(q)
            /\ q.masked => \A i, j \in CellsOf(v) : i - q.addr + 1 \in q.mask <=> j - q.addr + 1 \in q.mask
        BY <1>5, <1>6, <3>1 DEF WholeVariables
      <3>3. x <= y \/ y + m <= x
        <4>1. job.copied \in 0 .. Len(work.accesses)
          BY <1>5
        <4> QED BY <1>5, <1>6, <1>7, <2>1, <3>2, <4>1, SideLemma
      <3>4. x + w <= y \/ y + m <= x + w
        <4>1. job.copied + 1 \in 0 .. Len(work.accesses)
          BY <1>7
        <4> QED BY <1>5, <1>6, <1>7, <2>1, <3>2, <4>1, SideLemma
      <3>5. x <= y /\ y + m <= x + w
        <4>1. e \in x .. x + w - 1 \/ f \in x .. x + w - 1
          BY <2>2, <2>6
        <4> QED BY <2>2, <3>3, <3>4, <4>1 DEF Widths
      <3>6. e \in x .. x + w - 1 /\ f \in x .. x + w - 1 /\ e - x + 1 \in 1 .. w /\ f - x + 1 \in 1 .. w
        BY <2>2, <3>5 DEF Widths
      <3>7. memory'[c] = bytes[e - x + 1] /\ memory'[d] = bytes[f - x + 1]
        BY <1>9, <2>2, <2>3, <3>6
      <3>8. CASE ~q.masked
        BY <1>8, <3>6, <3>7, <3>8
      <3>9. CASE q.masked
        <4>1. /\ job.old = [i \in 1 .. w |-> job.old[i]]
              /\ \A u \in Variables : CellsOf(u) \subseteq Cells(access) =>
                    \A i, j \in CellsOf(u) : job.old[i - x + 1] = job.old[j - x + 1]
          <5>1. Kept(job.old, access)
            BY <1>1, <1>4, <1>7, <3>9 DEF WholeSoFar, WrittenSoFar
          <5> QED BY <1>7, <5>1 DEF Kept
        <4>2. CellsOf(v) \subseteq Cells(access)
          <5>1. CellsOf(v) = y .. y + m - 1 /\ Cells(access) = x .. x + w - 1
            BY <1>7, <2>1 DEF CellsOf, Cells
          <5>2. \A i \in y .. y + m - 1 : i \in x .. x + w - 1
            BY <3>5 DEF Widths
          <5> QED BY <5>1, <5>2
        <4>3. job.old[e - x + 1] = job.old[f - x + 1]
          BY <2>2, <4>1, <4>2
        <4>4. e - a + 1 \in q.mask <=> f - a + 1 \in q.mask
          BY <1>7, <2>2, <3>2, <3>9
        <4>5. e - x + 1 \in mask <=> f - x + 1 \in mask
          <5>1. x - a + (e - x + 1) = e - a + 1 /\ x - a + (f - x + 1) = f - a + 1
            OBVIOUS
          <5> QED BY <1>5, <1>10, <3>6, <3>9, <4>4, <5>1
        <4>6. bytes = [i \in 1 .. w |-> IF i \in mask THEN "host" ELSE job.old[i]]
          <5>1. DOMAIN job.old = 1 .. w
            BY <4>1
          <5> QED BY <1>8, <3>9, <5>1 DEF CopyMaskedDstAligned
        <4> QED BY <3>6, <3>7, <4>3, <4>5, <4>6
      <3> QED BY <3>8, <3>9
    <2> QED BY <2>5, <2>6
  <1>12. MemoryOK'
    BY <1>9, <1>11 DEF MemoryOK, Untorn
  <1>13. WrittenSoFar(q, work, job'.copied, job'.old)
    BY <1>3, <1>5, <1>7 DEF WrittenSoFar
  <1>14. ReadSoFar(q, work, job'.copied, job'.data)
    BY <1>5 DEF ReadSoFar
  <1> QED BY <1>3, <1>12, <1>13, <1>14 DEF WholeSoFar

LEMMA WholeNext == ASSUME WholeVariables PROVE Exchange /\ WholeSoFar /\ [Next]_vars => WholeSoFar'
  <1> SUFFICES ASSUME Exchange, WholeSoFar, [Next]_vars PROVE WholeSoFar'
    OBVIOUS
  <1>1. ASSUME Poll PROVE WholeSoFar'
    <2>1. job.pc = "idle" /\ box.state = "RECEIVED_FRAME" /\ FrameIsValid
      BY <1>1 DEF Poll, HasFrame
    <2>2. Asking
      BY <2>1 DEF Exchange, Silent, Working, Responded
    <2>3. box.body = request /\ request \in Requests
      <3>1. "header" \notin left /\ box.header = Header(request) /\ box.header = Header(box.body)
        BY <2>1, <2>2 DEF Asking, FrameIsValid
      <3>2. request.cmd \notin Earlier /\ box.body.cmd = request.cmd
        BY <2>2, <3>1, RequestsAssumption DEF Header, Asking, Earlier
      <3> QED BY <2>2, <3>2 DEF Asking
    <2>4. PICK h \in Handlings : job' = [Idle EXCEPT !.pc = "copying", !.request = box.body,
              !.work = ProtocolDecoder(box.body, table, scopes, h),
              !.data = ProtocolDecoder(box.body, table, scopes, h).data]
      BY <1>1 DEF Poll, Decode
    <2>5. PICK work : work = ProtocolDecoder(request, table, scopes, h)
      OBVIOUS
    <2>6. job'.request = request /\ job'.work = work /\ job'.copied = 0 /\ job'.old = <<>> /\ job'.data = work.data
      BY <2>3, <2>4, <2>5 DEF Idle
    <2>7. ReadSoFar(request, work, 0, work.data) /\ WrittenSoFar(request, work, 0, <<>>)
      BY <2>3, <2>5, HandedOver
    <2>8. memory' = memory
      BY <1>1 DEF Poll, Decode
    <2> QED BY <2>6, <2>7, <2>8 DEF WholeSoFar, MemoryOK, Untorn
  <1>2. ASSUME FrameToSend PROVE WholeSoFar'
    <2>1. job' = Idle /\ memory' = memory
      BY <1>2 DEF FrameToSend
    <2> QED BY <2>1, IdleLemma DEF WholeSoFar, MemoryOK, Untorn, ReadSoFar, WrittenSoFar
  <1>3. ASSUME SendResponse PROVE WholeSoFar'
    <2>1. job' = [job EXCEPT !.pc = "ready"] /\ memory' = memory
      BY <1>3 DEF SendResponse
    <2>2. job'.request = job.request /\ job'.work = job.work /\ job'.copied = job.copied /\ job'.data = job.data
          /\ job'.old = job.old
      BY <2>1 DEF Exchange, JobOK
    <2> QED BY <2>1, <2>2 DEF WholeSoFar, MemoryOK, Untorn
  <1>4. ASSUME NEW v \in Variables, AppWrite(v) PROVE WholeSoFar'
    <2>1. job' = job /\ memory' = [c \in DOMAIN memory |->
                    IF c \notin v.addr .. v.addr + v.size - 1 THEN memory[c]
                    ELSE IF memory[v.addr] = "old" THEN "new" ELSE "old"]
      BY <1>4 DEF AppWrite
    <2>2. DOMAIN memory = DOMAIN Initial
      BY DEF WholeSoFar, MemoryOK
    <2>3. memory' = [c \in DOMAIN Initial |-> memory'[c]]
      BY <2>1, <2>2
    <2>4. ASSUME NEW u \in Variables, NEW c \in CellsOf(u), NEW d \in CellsOf(u)
          PROVE  memory'[c] = memory'[d]
      <3>1. c \in DOMAIN Initial /\ d \in DOMAIN Initial
        BY InitialAssumption DEF CellsOf
      <3>2. memory[c] = memory[d]
        BY DEF WholeSoFar, MemoryOK, Untorn
      <3>3. c \in v.addr .. v.addr + v.size - 1 <=> d \in v.addr .. v.addr + v.size - 1
        <4>1. PICK x \in Nat, y \in Nat, m \in Nat, n \in Nat : x = u.addr /\ m = u.size /\ y = v.addr /\ n = v.size
          BY VariablesAssumption DEF Widths
        <4>2. u = v \/ x + m <= y \/ y + n <= x
          BY <4>1, VariablesAssumption
        <4> QED BY <4>1, <4>2 DEF CellsOf
      <3> QED BY <2>1, <2>2, <3>1, <3>2, <3>3
    <2> QED BY <2>1, <2>3, <2>4 DEF WholeSoFar, MemoryOK, Untorn
  <1>5. ASSUME UNCHANGED <<job, memory>> PROVE WholeSoFar'
    BY <1>5 DEF WholeSoFar, MemoryOK, Untorn
  <1>6. ASSUME \/ \E addr \in {NULL, Buffer.addr} : SetUpTable(addr)
               \/ \E e \in NewEntries : AddVar(e)
               \/ AddVarCounted \/ Debugger \/ UNCHANGED vars
        PROVE  UNCHANGED <<job, memory>>
    BY <1>6 DEF SetUpTable, AddVar, AddVarCounted, Debugger, Ask, WritePart, target, vars
  <1> QED BY <1>1, <1>2, <1>3, <1>4, <1>5, <1>6, CopyInWhole, ReadOldWhole, CopyOutWhole
          DEF Next, Driver, Application

\* When the debugger cuts no variable in two, neither a response nor the memory
\* of the application ever has a mixture of two values of a variable.
THEOREM VariablesStayWhole == ASSUME WholeVariables PROVE Spec => []NoTornVariable
  <1>1. Spec => [](Exchange /\ WholeSoFar)
    <2>1. Init => Exchange /\ WholeSoFar
      BY ExchangeInit, WholeInit
    <2>2. Exchange /\ WholeSoFar /\ [Next]_vars => (Exchange /\ WholeSoFar)'
      BY ExchangeNext, WholeNext
    <2> QED BY <2>1, <2>2, PTL DEF Spec
  <1>2. Exchange /\ WholeSoFar => NoTornVariable
    <2> SUFFICES ASSUME Exchange, WholeSoFar, NEW v \in Variables
                 PROVE  /\ \A c, d \in CellsOf(v) : memory[c] = memory[d]
                        /\ job.request.cmd = "READMEM" /\ job.work.status = "OK"
                              /\ CellsOf(v) \subseteq CellsOf(job.request) /\ job.copied = Len(job.work.accesses) =>
                              \A c, d \in CellsOf(v) :
                                 job.data[c - job.request.addr + 1] = job.data[d - job.request.addr + 1]
      BY DEF NoTornVariable
    <2>1. \A c, d \in CellsOf(v) : memory[c] = memory[d]
      BY DEF WholeSoFar, MemoryOK, Untorn
    <2>2. ASSUME job.request.cmd = "READMEM", job.work.status = "OK",
                 CellsOf(v) \subseteq CellsOf(job.request), job.copied = Len(job.work.accesses),
                 NEW c \in CellsOf(v), NEW d \in CellsOf(v)
          PROVE  job.data[c - job.request.addr + 1] = job.data[d - job.request.addr + 1]
      <3>1. PICK q, acc : q = job.request /\ acc = job.work.accesses
        OBVIOUS
      <3>2. /\ Through(acc, q.addr, q.addr + q.size)
            /\ \A i, j \in CellsOf(v) :
                  i < Reached(acc, q.addr, job.copied) /\ j < Reached(acc, q.addr, job.copied) =>
                     job.data[i - q.addr + 1] = job.data[j - q.addr + 1]
        BY <2>2, <3>1 DEF WholeSoFar, ReadSoFar
      <3>3. q \in Requests
        BY <2>2, <3>1, IdleLemma DEF Exchange, Silent, Asking, Working, Responded
      <3>4. PICK a \in Nat, n \in Nat : a = q.addr /\ n = q.size
        BY <2>2, <3>1, <3>3, RequestsAssumption
      <3>5. Reached(acc, q.addr, job.copied) = a + n
        BY <2>2, <3>1, <3>2, <3>4, EndLemma
      <3>6. c < a + n /\ d < a + n
        <4>1. c \in a .. a + n - 1 /\ d \in a .. a + n - 1
          BY <2>2, <3>1, <3>4 DEF CellsOf
        <4> QED BY <4>1
      <3> QED BY <3>1, <3>2, <3>5, <3>6
    <2> QED BY <2>1, <2>2
  <1> QED BY <1>1, <1>2, PTL

-----------------------------------------------------------------------------
(* Guarded memory: the tables.                                             *)

StaticEntries == UNION {ToSet(StaticTables[i].entries) : i \in DOMAIN StaticTables}

ListedEntries(t) == {t.entry[i] : i \in 1 .. t.count}

DynamicTable(t) == [addr |-> t.buffAddr, entries |-> Listed(t)]

TableRecords == [addr : Nat, entries : Seq(Entries)]

Alignment == GetAlignmentCorrection(Buffer.addr, PointerSize)
Pending == IF adding = {} THEN 0 ELSE 1

TableTyped(t) ==
    /\ t = [buffAddr |-> t.buffAddr, buffSize |-> t.buffSize, entry |-> t.entry, count |-> t.count]
    /\ t.count \in Nat /\ t.buffAddr \in Nat /\ t.buffSize \in Nat
    /\ t.entry \in Seq(Entries) /\ t.count <= Len(t.entry)

\* The entries stay inside the buffer, also while it is not in use.
TableOK ==
    /\ TableTyped(table) /\ Len(table.entry) = table.count + Pending
    /\ Pending = 1 => \E e \in Entries : adding = {e}
    /\ table.buffAddr # NULL => /\ table.buffAddr = Buffer.addr + Alignment
                                /\ table.buffSize = Buffer.size - Alignment
    /\ table.count + Pending = 0 \/ (table.count + Pending) * EntrySize + Alignment <= Buffer.size

LEMMA ListedLemma ==
    ASSUME NEW t, TableTyped(t)
    PROVE  /\ Listed(t) \in Seq(Entries) /\ Len(Listed(t)) = t.count
           /\ \A i \in 1 .. t.count : Listed(t)[i] = t.entry[i]
           /\ ToSet(Listed(t)) = ListedEntries(t) /\ ListedEntries(t) \subseteq Entries
  <1>1. PICK n \in Nat, s \in Seq(Entries) : n = t.count /\ s = t.entry /\ n <= Len(s)
    BY DEF TableTyped
  <1>2. PICK l : l = SubSeq(s, 1, n)
    OBVIOUS
  <1>3. l \in Seq(Entries) /\ Len(l) = n /\ \A i \in 1 .. n : l[i] = s[i]
    BY <1>1, <1>2
  <1>4. Listed(t) = l
    BY <1>1, <1>2 DEF Listed
  <1>5. DOMAIN l = 1 .. n
    BY <1>3
  <1>6. ToSet(l) = {s[i] : i \in 1 .. n}
    BY <1>3, <1>5 DEF ToSet
  <1>7. {s[i] : i \in 1 .. n} \subseteq Entries
    BY <1>1
  <1> QED BY <1>1, <1>3, <1>4, <1>6, <1>7 DEF ListedEntries

LEMMA TablesLemma ==
    ASSUME NEW t, TableTyped(t)
    PROVE  /\ \A i \in DOMAIN Tables(t) : /\ Tables(t)[i] \in TableRecords
                                          /\ \/ \E j \in DOMAIN StaticTables : Tables(t)[i] = StaticTables[j]
                                             \/ t.buffAddr # NULL /\ Tables(t)[i] = DynamicTable(t)
           /\ \A j \in DOMAIN StaticTables : j \in DOMAIN Tables(t) /\ Tables(t)[j] = StaticTables[j]
           /\ t.buffAddr # NULL => \E i \in DOMAIN Tables(t) : Tables(t)[i] = DynamicTable(t)
  <1>1. StaticTables \in Seq(TableRecords)
    BY TsaAssumption DEF TableRecords
  <1>2. DynamicTable(t) \in TableRecords
    BY ListedLemma DEF DynamicTable, TableRecords, TableTyped
  <1>3. PICK d \in TableRecords, s \in Seq(TableRecords) : d = DynamicTable(t) /\ s = StaticTables
    BY <1>1, <1>2
  <1>4. PICK n \in Nat : n = Len(s) /\ DOMAIN s = 1 .. n
    OBVIOUS
  <1>5. CASE t.buffAddr = NULL
    <2>1. Tables(t) = s
      <3>1. s \o <<>> = s
        BY ConcatEmptySeq
      <3> QED BY <1>3, <1>5, <3>1 DEF Tables
    <2> QED BY <1>3, <1>4, <1>5, <2>1
  <1>6. CASE t.buffAddr # NULL
    <2>1. PICK r : r = s \o <<d>>
      OBVIOUS
    <2>2. Tables(t) = r
      BY <1>3, <1>6, <2>1 DEF Tables, DynamicTable
    <2>3. DOMAIN r = 1 .. n + 1 /\ r[n + 1] = d /\ \A i \in 1 .. n : r[i] = s[i]
      BY <1>4, <2>1
    <2>4. \A i \in DOMAIN r : r[i] \in TableRecords /\ ((\E j \in DOMAIN s : r[i] = s[j]) \/ r[i] = d)
      <3> SUFFICES ASSUME NEW i \in DOMAIN r
                   PROVE  r[i] \in TableRecords /\ ((\E j \in DOMAIN s : r[i] = s[j]) \/ r[i] = d)
        OBVIOUS
      <3>1. i = n + 1 \/ i \in 1 .. n
        BY <2>3
      <3> QED BY <1>4, <2>3, <3>1
    <2>5. n + 1 \in DOMAIN r /\ \A j \in DOMAIN s : j \in DOMAIN r /\ r[j] = s[j]
      BY <1>4, <2>3
    <2> QED BY <1>3, <1>6, <2>2, <2>3, <2>4, <2>5
  <1> QED BY <1>5, <1>6

Known(t) == StaticEntries \cup ListedEntries(t)

EntryCells(e) == CellsOf(e) \cup CellsOf(AsBlock(e.name)) \cup CellsOf(AsBlock(e.type))
TableCells(table_) == CellsOf([addr |-> table_.addr, size |-> TableSize(table_)])

EntryMemory(t) == UNION {EntryCells(e) : e \in Known(t)}
TableMemory == UNION {TableCells(StaticTables[i]) : i \in DOMAIN StaticTables}

\* What stays described when the dynamic table is cleared.
Lasting(t) == EntryMemory(t) \cup TableMemory \cup CellsOf(RecBuffer)

Open(t) == UNION {CellsOf(e) : e \in {f \in Known(t) : f.flags = "RW_VAR"}}

LEMMA KnownLemma ==
    ASSUME NEW t, TableTyped(t)
    PROVE  /\ EntriesOf(t) \subseteq Known(t) /\ EntriesOf(t) \cup ToSet(Listed(t)) = Known(t)
           /\ Known(t) \subseteq Entries
  <1>1. StaticTables \in Seq(TableRecords)
    BY TsaAssumption DEF TableRecords
  <1>2. \A i \in DOMAIN StaticTables : StaticTables[i] \in TableRecords
    BY <1>1
  <1>3. \A s \in Seq(Entries) : ToSet(s) \subseteq Entries
    BY DEF ToSet
  <1>4. StaticEntries \subseteq Entries
    BY <1>2, <1>3 DEF StaticEntries, TableRecords
  <1>5. ASSUME NEW e \in EntriesOf(t) PROVE e \in Known(t)
    <2>1. PICK i \in DOMAIN Tables(t) : e \in ToSet(Tables(t)[i].entries)
      BY DEF EntriesOf
    <2>2. CASE \E j \in DOMAIN StaticTables : Tables(t)[i] = StaticTables[j]
      BY <2>1, <2>2 DEF Known, StaticEntries
    <2>3. CASE Tables(t)[i] = DynamicTable(t)
      <3>1. Tables(t)[i].entries = Listed(t)
        BY <2>3 DEF DynamicTable
      <3> QED BY <2>1, <3>1, ListedLemma DEF Known
    <2> QED BY <2>2, <2>3, TablesLemma
  <1>6. ASSUME NEW e \in StaticEntries PROVE e \in EntriesOf(t)
    <2>1. PICK j \in DOMAIN StaticTables : e \in ToSet(StaticTables[j].entries)
      BY DEF StaticEntries
    <2>2. j \in DOMAIN Tables(t) /\ Tables(t)[j] = StaticTables[j]
      BY TablesLemma
    <2> QED BY <2>1, <2>2 DEF EntriesOf
  <1>7. ToSet(Listed(t)) = ListedEntries(t) /\ ListedEntries(t) \subseteq Entries
    BY ListedLemma
  <1> QED BY <1>4, <1>5, <1>6, <1>7 DEF Known

LEMMA DescribedLemma ==
    ASSUME TableTyped(table)
    PROVE  /\ Lasting(table) \subseteq Described /\ Writable = Open(table)
           /\ table.buffAddr # NULL => TableCells(DynamicTable(table)) \subseteq Described
  <1>1. EverListed = Known(table)
    BY KnownLemma DEF EverListed
  <1>2. Writable = Open(table)
    BY <1>1 DEF Writable, Open
  <1> DEFINE blocks == {TableCells(r) : r \in ToSet(Tables(table))}
  <1>3. \A i \in DOMAIN Tables(table) : TableCells(Tables(table)[i]) \subseteq UNION blocks
    <2> SUFFICES ASSUME NEW i \in DOMAIN Tables(table) PROVE TableCells(Tables(table)[i]) \subseteq UNION blocks
      OBVIOUS
    <2>1. Tables(table)[i] \in ToSet(Tables(table))
      BY DEF ToSet
    <2>2. TableCells(Tables(table)[i]) \in blocks
      BY <2>1
    <2> QED BY <2>2
  <1>4. Described = (UNION {EntryCells(e) : e \in EverListed}) \cup (UNION blocks) \cup CellsOf(RecBuffer)
    BY DEF Described, EntryCells, TableCells
  <1> HIDE DEF blocks
  <1>5. Described = EntryMemory(table) \cup (UNION blocks) \cup CellsOf(RecBuffer)
    <2>1. UNION {EntryCells(e) : e \in EverListed} = EntryMemory(table)
      BY <1>1 DEF EntryMemory
    <2> QED BY <1>4, <2>1
  <1>6. TableMemory \subseteq UNION blocks
    <2>1. \A j \in DOMAIN StaticTables : TableCells(StaticTables[j]) \subseteq UNION blocks
      BY <1>3, TablesLemma
    <2> QED BY <2>1 DEF TableMemory
  <1>7. table.buffAddr # NULL => TableCells(DynamicTable(table)) \subseteq UNION blocks
    BY <1>3, TablesLemma
  <1> QED BY <1>2, <1>5, <1>6, <1>7 DEF Lasting

LEMMA SpaceLemma ==
    ASSUME NEW addr \in Nat, NEW size \in Nat, NEW safe, safe.addr \in Nat, safe.size \in Nat,
           addr + size < AddrSpace, CheckMemSpace(addr, size, safe)
    PROVE  addr .. addr + size - 1 \subseteq CellsOf(safe)
  <1>1. PICK a \in Nat, n \in Nat : a = safe.addr /\ n = safe.size
    OBVIOUS
  <1>2. a <= addr /\ addr + size <= a + n
    <2>1. PICK m \in Nat \ {0} : m = AddrSpace
      BY TsaAssumption
    <2>2. a <= addr /\ (addr + size) % m <= (a + n) % m
      BY <1>1, <2>1 DEF CheckMemSpace, EndOf
    <2>3. (addr + size) % m = addr + size
      BY <2>1
    <2>4. (a + n) % m <= a + n
      <3>1. PICK s \in Nat : s = a + n
        OBVIOUS
      <3> QED BY <2>1, <3>1
    <2> QED BY <2>2, <2>3, <2>4
  <1>3. \A c \in addr .. addr + size - 1 : c \in a .. a + n - 1
    BY <1>2
  <1> QED BY <1>1, <1>3 DEF CellsOf

LEMMA WriteCheck ==
    ASSUME NEW t, TableTyped(t), NEW addr \in Nat, NEW size \in Nat,
           addr + size < AddrSpace, CheckTsaSpace(t, addr, size, TRUE)
    PROVE  addr .. addr + size - 1 \subseteq Open(t)
  <1>1. PICK e \in EntriesOf(t) : e.flags = "RW_VAR" /\ CheckMemSpace(addr, size, e)
    BY DEF CheckTsaSpace
  <1>2. e \in Known(t) /\ e \in Entries
    BY KnownLemma
  <1>3. addr .. addr + size - 1 \subseteq CellsOf(e)
    BY <1>1, <1>2, SpaceLemma DEF Entries
  <1> QED BY <1>1, <1>2, <1>3 DEF Open

LEMMA ReadCheck ==
    ASSUME NEW t, TableTyped(t), NEW addr \in Nat, NEW size \in Nat,
           addr + size < AddrSpace, CheckTsaSpace(t, addr, size, FALSE)
    PROVE  \/ addr .. addr + size - 1 \subseteq Lasting(t)
           \/ t.buffAddr # NULL /\ addr .. addr + size - 1 \subseteq TableCells(DynamicTable(t))
  <1>1. \A e \in EntriesOf(t) : e \in Entries /\ EntryCells(e) \subseteq Lasting(t)
    BY KnownLemma DEF Lasting, EntryMemory
  <1>2. \A e \in Entries : /\ e.addr \in Nat /\ e.size \in Nat
                           /\ AsBlock(e.name).addr \in Nat /\ AsBlock(e.name).size \in Nat
                           /\ AsBlock(e.type).addr \in Nat /\ AsBlock(e.type).size \in Nat
    BY DEF Entries, AsBlock
  <1>3. ASSUME NEW e \in EntriesOf(t),
               \/ CheckMemSpace(addr, size, e) \/ CheckMemSpace(addr, size, AsBlock(e.name))
               \/ CheckMemSpace(addr, size, AsBlock(e.type))
        PROVE  addr .. addr + size - 1 \subseteq Lasting(t)
    <2>1. e \in Entries /\ EntryCells(e) \subseteq Lasting(t)
      BY <1>1
    <2>2. CASE CheckMemSpace(addr, size, e)
      <3>1. addr .. addr + size - 1 \subseteq CellsOf(e)
        BY <1>2, <2>1, <2>2, SpaceLemma
      <3> QED BY <2>1, <3>1 DEF EntryCells
    <2>3. CASE CheckMemSpace(addr, size, AsBlock(e.name))
      <3>1. addr .. addr + size - 1 \subseteq CellsOf(AsBlock(e.name))
        BY <1>2, <2>1, <2>3, SpaceLemma
      <3> QED BY <2>1, <3>1 DEF EntryCells
    <2>4. CASE CheckMemSpace(addr, size, AsBlock(e.type))
      <3>1. addr .. addr + size - 1 \subseteq CellsOf(AsBlock(e.type))
        BY <1>2, <2>1, <2>4, SpaceLemma
      <3> QED BY <2>1, <3>1 DEF EntryCells
    <2> QED BY <1>3, <2>2, <2>3, <2>4
  <1>4. ASSUME IsInRecBuffer(addr, size) PROVE addr .. addr + size - 1 \subseteq Lasting(t)
    <2>1. addr .. addr + size - 1 \subseteq CellsOf(RecBuffer)
      <3>1. RecBuffer.addr \in Nat /\ RecBuffer.size \in Nat
        BY TsaAssumption
      <3> QED BY <1>4, <3>1, SpaceLemma DEF IsInRecBuffer
    <2> QED BY <2>1 DEF Lasting
  <1>5. ASSUME NEW i \in DOMAIN Tables(t),
               CheckMemSpace(addr, size, [addr |-> Tables(t)[i].addr, size |-> TableSize(Tables(t)[i])])
        PROVE  \/ addr .. addr + size - 1 \subseteq Lasting(t)
               \/ t.buffAddr # NULL /\ addr .. addr + size - 1 \subseteq TableCells(DynamicTable(t))
    <2>1. PICK r \in TableRecords : r = Tables(t)[i]
      BY TablesLemma
    <2>2. PICK safe : safe = [addr |-> r.addr, size |-> TableSize(r)]
      OBVIOUS
    <2>3. safe.addr \in Nat /\ safe.size \in Nat
      <3>1. Len(r.entries) \in Nat /\ EntrySize \in Nat
        BY TsaAssumption DEF TableRecords
      <3>2. TableSize(r) \in Nat
        BY <3>1 DEF TableSize
      <3> QED BY <2>2, <3>2 DEF TableRecords
    <2>4. addr .. addr + size - 1 \subseteq TableCells(r)
      <3>1. CheckMemSpace(addr, size, safe)
        BY <1>5, <2>1, <2>2
      <3>2. addr .. addr + size - 1 \subseteq CellsOf(safe)
        BY <2>3, <3>1, SpaceLemma
      <3> QED BY <2>2, <3>2 DEF TableCells
    <2>5. CASE \E j \in DOMAIN StaticTables : r = StaticTables[j]
      <3>1. TableCells(r) \subseteq TableMemory
        BY <2>5 DEF TableMemory
      <3> QED BY <2>4, <3>1 DEF Lasting
    <2> QED BY <2>1, <2>4, <2>5, TablesLemma
  <1> QED BY <1>3, <1>4, <1>5 DEF CheckTsaSpace

-----------------------------------------------------------------------------
(* Guarded memory: the dynamic table grows and stays inside its buffer.    *)

LEMMA Fits ==
    ASSUME NEW e \in Nat \ {0}, NEW n \in Nat, NEW k \in Nat, k < n \div e
    PROVE  (k + 1) * e <= n
  <1>1. n \div e \in Nat /\ (n \div e) * e <= n
    OBVIOUS
  <1>2. PICK d \in Nat : n \div e = k + 1 + d
    <2>1. n \div e - (k + 1) \in Nat /\ n \div e = k + 1 + (n \div e - (k + 1))
      BY <1>1
    <2> QED BY <2>1
  <1>3. (n \div e) * e = (k + 1) * e + d * e
    BY <1>2
  <1>4. d * e >= 0 /\ (k + 1) * e \in Int /\ d * e \in Int
    OBVIOUS
  <1> QED BY <1>1, <1>3, <1>4

LEMMA TableInit == Init => TableOK
  <1>1. InitTsa.count = 0 /\ InitTsa.entry = <<>> /\ InitTsa.buffAddr = NULL /\ InitTsa.buffSize = 0
    BY DEF InitTsa
  <1>2. Len(<<>>) = 0 /\ <<>> \in Seq(Entries) /\ NULL \in Nat
    BY DEF NULL
  <1>3. InitTsa = [buffAddr |-> InitTsa.buffAddr, buffSize |-> InitTsa.buffSize, entry |-> InitTsa.entry,
                   count |-> InitTsa.count]
    BY DEF InitTsa
  <1>4. TableTyped(InitTsa)
    BY <1>1, <1>2, <1>3 DEF TableTyped
  <1>5. ASSUME Init PROVE table = InitTsa /\ adding = {} /\ Pending = 0
    BY <1>5 DEF Init, Pending
  <1> QED BY <1>1, <1>2, <1>4, <1>5 DEF TableOK

\* What is known of the table stays known, and it changes between two requests.
LEMMA TableNext ==
    ASSUME TableOK, [Next]_vars
    PROVE  /\ TableOK' /\ ListedEntries(table) \subseteq ListedEntries(table')
           /\ job.pc = "idle" \/ UNCHANGED table
  <1>1. /\ table = [buffAddr |-> table.buffAddr, buffSize |-> table.buffSize, entry |-> table.entry,
                    count |-> table.count]
        /\ table.count \in Nat /\ table.buffAddr \in Nat /\ table.buffSize \in Nat
        /\ table.entry \in Seq(Entries) /\ table.count <= Len(table.entry)
    BY DEF TableOK, TableTyped
  <1>2. ASSUME NEW addr \in {NULL, Buffer.addr}, SetUpTable(addr)
        PROVE  TableOK' /\ ListedEntries(table) \subseteq ListedEntries(table') /\ job.pc = "idle"
    <2>1. adding = {} /\ adding' = {} /\ job.pc = "idle" /\ table' = SetUpTsaBuff(table, addr, Buffer.size)
          /\ table' # table
      BY <1>2 DEF SetUpTable
    <2>2. PICK al : al = GetAlignmentCorrection(addr, PointerSize)
      OBVIOUS
    <2>3. /\ table' = [table EXCEPT !.buffAddr = addr + al, !.buffSize = Buffer.size - al]
          /\ Buffer.size > al
      BY <2>1, <2>2 DEF SetUpTsaBuff
    <2>4. PICK b \in Nat, n \in Nat, p \in Nat \ {0} : b = Buffer.addr /\ n = Buffer.size /\ p = PointerSize
      BY TableAssumption, TsaAssumption
    <2>5. al \in Nat /\ addr \in Nat
      <3>1. addr \in Nat
        BY <2>4 DEF NULL
      <3>2. p - (addr % p) \in Nat
        BY <2>4, <3>1
      <3>3. (p - (addr % p)) % p \in Nat
        BY <2>4, <3>2
      <3> QED BY <2>2, <2>4, <3>1, <3>3 DEF GetAlignmentCorrection
    <2>6. /\ table'.buffAddr = addr + al /\ table'.buffSize = n - al /\ n - al \in Nat
          /\ table'.entry = table.entry /\ table'.count = table.count
      BY <1>1, <2>3, <2>4, <2>5
    <2>7. TableTyped(table')
      <3>1. table' = [buffAddr |-> table'.buffAddr, buffSize |-> table'.buffSize, entry |-> table'.entry,
                      count |-> table'.count]
        BY <1>1, <2>3
      <3> QED BY <1>1, <2>5, <2>6, <3>1 DEF TableTyped
    <2>8. table'.buffAddr # NULL => addr = b /\ al = Alignment
      <3>1. CASE addr = NULL
        <4>1. addr % p = 0 /\ p % p = 0 /\ p - 0 = p
          BY <2>4, <3>1 DEF NULL
        <4>2. al = 0
          BY <2>2, <2>4, <4>1 DEF GetAlignmentCorrection
        <4> QED BY <2>6, <3>1, <4>2 DEF NULL
      <3>2. CASE addr = Buffer.addr
        BY <2>2, <2>4, <3>2 DEF Alignment
      <3> QED BY <3>1, <3>2
    <2>9. ListedEntries(table') = ListedEntries(table)
      BY <2>6 DEF ListedEntries
    <2>10. Pending = 0 /\ Pending' = 0
      BY <2>1 DEF Pending
    <2> QED BY <2>1, <2>4, <2>6, <2>7, <2>8, <2>9, <2>10 DEF TableOK
  <1>3. ASSUME NEW e \in NewEntries, AddVar(e)
        PROVE  TableOK' /\ ListedEntries(table) \subseteq ListedEntries(table') /\ job.pc = "idle"
    <2>1. adding = {} /\ adding' = {e} /\ job.pc = "idle" /\ table.buffAddr # NULL
          /\ table.count < Capacity(table) /\ table' = [table EXCEPT !.entry = Append(Listed(table), e)]
      BY <1>3 DEF AddVar, TsaAddVarAccepts, WriteEntry
    <2>2. e \in Entries
      BY TableAssumption
    <2>3. PICK l \in Seq(Entries), k \in Nat : l = Listed(table) /\ k = table.count /\ Len(l) = k
      BY <1>1, ListedLemma DEF TableOK
    <2>4. PICK s \in Seq(Entries) : s = Append(l, e)
      <3>1. Append(l, e) \in Seq(Entries)
        BY <2>2, <2>3
      <3> QED BY <3>1, Zenon
    <2>5. Len(s) = k + 1 /\ \A i \in 1 .. k : s[i] = l[i]
      BY <2>2, <2>3, <2>4
    <2>6. /\ table'.entry = s /\ table'.count = k /\ table'.buffAddr = table.buffAddr
          /\ table'.buffSize = table.buffSize
      BY <1>1, <2>1, <2>3, <2>4
    <2>7. TableTyped(table')
      <3>1. table' = [buffAddr |-> table'.buffAddr, buffSize |-> table'.buffSize, entry |-> table'.entry,
                      count |-> table'.count]
        BY <1>1, <2>1
      <3> QED BY <1>1, <2>3, <2>4, <2>5, <2>6, <3>1 DEF TableTyped
    <2>8. ListedEntries(table') = ListedEntries(table)
      <3>1. \A i \in 1 .. k : s[i] = table.entry[i]
        BY <2>3, <2>5, ListedLemma DEF TableOK
      <3> QED BY <2>3, <2>6, <3>1 DEF ListedEntries
    <2>9. Pending = 0 /\ Pending' = 1
      BY <2>1 DEF Pending
    <2>10. (k + 1) * EntrySize + Alignment <= Buffer.size
      <3>1. PICK m \in Nat, z \in Nat \ {0} : m = table.buffSize /\ z = EntrySize
        BY <1>1, TsaAssumption
      <3>2. k < m \div z
        BY <2>1, <2>3, <3>1 DEF Capacity
      <3>3. (k + 1) * z <= m
        BY <3>1, <3>2, Fits
      <3>4. PICK n \in Nat, al \in Int : n = Buffer.size /\ al = Alignment
        <4>1. Buffer.size \in Nat /\ Buffer.addr \in Nat /\ PointerSize \in Nat \ {0}
          BY TableAssumption, TsaAssumption
        <4>2. (PointerSize - (Buffer.addr % PointerSize)) % PointerSize \in Int
          BY <4>1
        <4> QED BY <4>1, <4>2 DEF Alignment, GetAlignmentCorrection
      <3>5. m = n - al
        BY <2>1, <3>1, <3>4 DEF TableOK
      <3>6. PICK x \in Nat : x = (k + 1) * z
        OBVIOUS
      <3>7. x + al <= n
        BY <3>3, <3>5, <3>6
      <3> QED BY <3>1, <3>4, <3>6, <3>7
    <2> QED BY <2>1, <2>2, <2>3, <2>5, <2>6, <2>7, <2>8, <2>9, <2>10 DEF TableOK
  <1>4. ASSUME AddVarCounted
        PROVE  TableOK' /\ ListedEntries(table) \subseteq ListedEntries(table') /\ job.pc = "idle"
    <2>1. adding # {} /\ adding' = {} /\ job.pc = "idle" /\ table' = [table EXCEPT !.count = @ + 1]
      BY <1>4 DEF AddVarCounted, CountEntry
    <2>2. Pending = 1 /\ Pending' = 0
      BY <2>1 DEF Pending
    <2>3. Len(table.entry) = table.count + 1
      BY <2>2 DEF TableOK
    <2>4. /\ table'.count = table.count + 1 /\ table'.entry = table.entry
          /\ table'.buffAddr = table.buffAddr /\ table'.buffSize = table.buffSize
      BY <1>1, <2>1
    <2>5. TableTyped(table')
      <3>1. table' = [buffAddr |-> table'.buffAddr, buffSize |-> table'.buffSize, entry |-> table'.entry,
                      count |-> table'.count]
        BY <1>1, <2>1
      <3> QED BY <1>1, <2>3, <2>4, <3>1 DEF TableTyped
    <2>6. ListedEntries(table) \subseteq ListedEntries(table')
      <3>1. \A i \in 1 .. table.count : i \in 1 .. table'.count
        BY <1>1, <2>4
      <3> QED BY <2>4, <3>1 DEF ListedEntries
    <2>7. table'.count + 0 = table.count + 1
      BY <1>1, <2>4
    <2> QED BY <1>1, <2>1, <2>2, <2>3, <2>4, <2>5, <2>6, <2>7 DEF TableOK
  <1>5. ASSUME UNCHANGED <<table, adding>>
        PROVE  TableOK' /\ ListedEntries(table) \subseteq ListedEntries(table') /\ UNCHANGED table
    <2>1. Pending' = Pending /\ table' = table
      BY <1>5 DEF Pending
    <2> QED BY <1>5, <2>1 DEF TableOK, TableTyped, ListedEntries
  <1>6. ASSUME \/ Driver \/ \E v \in Variables : AppWrite(v)
               \/ Debugger \/ UNCHANGED vars
        PROVE  UNCHANGED <<table, adding>>
    BY <1>6 DEF Driver, Poll, Decode, CopyIn, ReadOld, CopyOut, SendResponse, FrameToSend, AppWrite,
                Debugger, Ask, WritePart, target, vars
  <1> QED BY <1>2, <1>3, <1>4, <1>5, <1>6 DEF Next, Application

LEMMA GrowsLemma ==
    ASSUME NEW t, NEW u, ListedEntries(t) \subseteq ListedEntries(u)
    PROVE  Lasting(t) \subseteq Lasting(u) /\ Open(t) \subseteq Open(u)
  <1>1. Known(t) \subseteq Known(u)
    BY DEF Known
  <1> QED BY <1>1 DEF Lasting, EntryMemory, Open

LEMMA DynamicLemma ==
    ASSUME TableOK, table.buffAddr # NULL
    PROVE  TableCells(DynamicTable(table)) \subseteq CellsOf(Buffer)
  <1>1. PICK k \in Nat, z \in Nat \ {0} : k = table.count /\ z = EntrySize
    BY TsaAssumption DEF TableOK, TableTyped
  <1>2. PICK b \in Nat, n \in Nat, al \in Nat : b = Buffer.addr /\ n = Buffer.size /\ al = Alignment
    <2>1. Buffer.size \in Nat /\ Buffer.addr \in Nat /\ PointerSize \in Nat \ {0}
      BY TableAssumption, TsaAssumption
    <2>2. (PointerSize - (Buffer.addr % PointerSize)) % PointerSize \in Nat
      BY <2>1
    <2> QED BY <2>1, <2>2 DEF Alignment, GetAlignmentCorrection
  <1>3. Len(Listed(table)) = k
    BY <1>1, ListedLemma DEF TableOK
  <1>4. PICK x \in Nat : x = k * z
    OBVIOUS
  <1>5. TableCells(DynamicTable(table)) = b + al .. b + al + x - 1
    BY <1>1, <1>2, <1>3, <1>4 DEF TableCells, DynamicTable, TableSize, CellsOf, TableOK
  <1>6. x = 0 \/ x + al <= n
    <2>1. PICK j \in {0, 1} : j = Pending
      BY DEF Pending
    <2>2. CASE k + j = 0
      BY <1>1, <1>4, <2>2
    <2>3. CASE k + j # 0
      <3>1. (k + j) * z + al <= n
        BY <1>1, <1>2, <2>1, <2>3 DEF TableOK
      <3>2. PICK y \in Nat : y = (k + 1) * z
        OBVIOUS
      <3>3. y = x + z
        BY <1>4, <3>2
      <3> QED BY <1>4, <2>1, <3>1, <3>2, <3>3
    <2> QED BY <2>2, <2>3
  <1>7. \A c \in b + al .. b + al + x - 1 : c \in b .. b + n - 1
    BY <1>6
  <1> QED BY <1>2, <1>5, <1>7 DEF CellsOf

-----------------------------------------------------------------------------
(* Guarded memory: what a job accesses.                                    *)

LEMMA ElementsLemma ==
    ASSUME NEW S, NEW s, IsSequence(s), \A i \in 1 .. Len(s) : s[i] \in S
    PROVE  s \in Seq(S)
  <1>1. PICK n \in Nat : n = Len(s) /\ s = [i \in 1 .. n |-> s[i]]
    BY DEF IsSequence
  <1>2. \A i \in 1 .. n : s[i] \in S
    BY <1>1
  <1> QED BY <1>1, <1>2

\* f[i] is the first i of some sequences in one.
Flattened(f, seqs, m) == \A i \in 1 .. m : f[i] = IF i = 1 THEN seqs[i] ELSE f[i - 1] \o seqs[i]

IsFlatten(f, seqs, n) == f = [i \in 1 .. n |-> IF i = 1 THEN seqs[i] ELSE f[i - 1] \o seqs[i]]

LEMMA FlattenExists ==
    ASSUME NEW seqs, NEW n \in Nat \ {0}
    PROVE  \E f : IsFlatten(f, seqs, n)
  <1> DEFINE Bad == {m \in Nat : ~\E f : Flattened(f, seqs, m)}
  <1>1. Bad = {}
    <2>1. SUFFICES ASSUME Bad # {} PROVE FALSE
      OBVIOUS
    <2>2. PICK m \in Bad : \A j \in Bad : m <= j
      <3>1. Bad \in SUBSET Nat
        OBVIOUS
      <3> HIDE DEF Bad
      <3> QED BY <2>1, <3>1, LeastNat
    <2>3. CASE m = 0
      <3>1. Flattened(<<>>, seqs, 0)
        BY DEF Flattened
      <3> QED BY <2>2, <2>3, <3>1
    <2>4. CASE m # 0
      <3>1. m \in Nat /\ m - 1 \in Nat /\ m - 1 \notin Bad
        BY <2>2, <2>4
      <3>2. PICK f : Flattened(f, seqs, m - 1)
        BY <3>1
      <3>3. PICK g : g = [i \in 1 .. m |-> IF i = m THEN (IF m = 1 THEN seqs[m] ELSE f[m - 1] \o seqs[m]) ELSE f[i]]
        OBVIOUS
      <3>4. ASSUME NEW i \in 1 .. m PROVE g[i] = IF i = 1 THEN seqs[i] ELSE g[i - 1] \o seqs[i]
        <4>1. CASE i = m
          <5>1. m # 1 => g[m - 1] = f[m - 1]
            BY <3>1, <3>3
          <5> QED BY <3>3, <4>1, <5>1
        <4>2. CASE i # m
          <5>1. i \in 1 .. m - 1 /\ (i # 1 => i - 1 \in 1 .. m - 1 /\ g[i - 1] = f[i - 1])
            BY <3>1, <3>3, <4>2
          <5>2. f[i] = IF i = 1 THEN seqs[i] ELSE f[i - 1] \o seqs[i]
            BY <3>2, <5>1 DEF Flattened
          <5> QED BY <3>3, <4>2, <5>1, <5>2
        <4> QED BY <4>1, <4>2
      <3>5. Flattened(g, seqs, m)
        BY <3>4 DEF Flattened
      <3> QED BY <2>2, <3>5
    <2> QED BY <2>3, <2>4
  <1>2. PICK f : Flattened(f, seqs, n)
    BY <1>1
  <1>3. PICK g : g = [i \in 1 .. n |-> f[i]]
    OBVIOUS
  <1>4. ASSUME NEW i \in 1 .. n PROVE g[i] = IF i = 1 THEN seqs[i] ELSE g[i - 1] \o seqs[i]
    <2>1. i # 1 => i - 1 \in 1 .. n /\ g[i - 1] = f[i - 1]
      BY <1>3
    <2> QED BY <1>2, <1>3, <2>1 DEF Flattened
  <1>5. g = [i \in 1 .. n |-> g[i]]
    BY <1>3
  <1>6. g = [i \in 1 .. n |-> IF i = 1 THEN seqs[i] ELSE g[i - 1] \o seqs[i]]
    BY <1>4, <1>5
  <1> QED BY <1>6 DEF IsFlatten

LEMMA FlattenLemma ==
    ASSUME NEW S, NEW seqs, IsSequence(seqs), \A i \in 1 .. Len(seqs) : seqs[i] \in Seq(S)
    PROVE  FlattenSeq(seqs) \in Seq(S)
  <1>1. PICK n \in Nat : n = Len(seqs)
    BY DEF IsSequence
  <1>2. seqs \in Seq(Seq(S)) /\ \A i \in 1 .. n : seqs[i] \in Seq(S)
    BY <1>1, ElementsLemma
  <1>3. CASE n = 0
    <2>1. seqs = <<>>
      BY <1>1, <1>2, <1>3, EmptySeq
    <2> QED BY <1>1, <1>2, <1>3, <2>1 DEF FlattenSeq
  <1>4. CASE n # 0
    <2> DEFINE Loop(f) == [i \in 1 .. n |-> IF i = 1 THEN seqs[i] ELSE f[i - 1] \o seqs[i]]
    <2>1. PICK s : s = CHOOSE h : h = Loop(h)
      OBVIOUS
    <2>2. s = Loop(s)
      <3>1. PICK f : IsFlatten(f, seqs, n)
        BY <1>4, FlattenExists
      <3>2. f = Loop(f)
        BY <3>1 DEF IsFlatten
      <3> HIDE DEF Loop
      <3> QED BY <2>1, <3>2
    <2>3. FlattenSeq(seqs) = s[n]
      BY <1>1, <1>2, <1>4, <2>1 DEF FlattenSeq
    <2> DEFINE Bad == {i \in 1 .. n : s[i] \notin Seq(S)}
    <2>4. Bad = {}
      <3>1. SUFFICES ASSUME Bad # {} PROVE FALSE
        OBVIOUS
      <3>2. PICK i \in Bad : \A j \in Bad : i <= j
        <4>1. Bad \in SUBSET Nat
          OBVIOUS
        <4> HIDE DEF Bad
        <4> QED BY <3>1, <4>1, LeastNat
      <3>3. CASE i = 1
        <4>1. s[i] = seqs[i]
          BY <1>4, <2>2, <3>3
        <4> QED BY <1>2, <3>2, <4>1
      <3>4. CASE i # 1
        <4>1. i - 1 \in 1 .. n /\ i - 1 \notin Bad
          BY <3>2, <3>4
        <4>2. s[i - 1] \in Seq(S) /\ seqs[i] \in Seq(S)
          BY <1>2, <3>2, <4>1
        <4>3. s[i] = s[i - 1] \o seqs[i]
          BY <2>2, <3>2, <3>4
        <4>4. s[i] \in Seq(S)
          BY <4>2, <4>3, ConcatProperties
        <4> QED BY <3>2, <4>4
      <3> QED BY <3>3, <3>4
    <2>5. n \in 1 .. n /\ n \notin Bad
      BY <1>4, <2>4
    <2>6. s[n] \in Seq(S)
      BY <2>5
    <2> HIDE DEF Bad, Loop
    <2> QED BY <1>1, <2>3, <2>6
  <1> QED BY <1>3, <1>4

\* The accesses that stay in a set of bytes.
Guarded(D) == {a \in AccessRecords : Cells(a) \subseteq D}

LEMMA GuardedLemma ==
    ASSUME NEW addr \in Nat, NEW size \in Nat, NEW D, addr .. addr + size - 1 \subseteq D
    PROVE  MemCpySrcAligned(OddOperands(Block(addr, size))).accesses \in Seq(Guarded(D))
  <1>1. PICK acc : acc = MemCpySrcAligned(OddOperands(Block(addr, size))).accesses
    OBVIOUS
  <1>2. Through(acc, addr, addr + size)
    BY <1>1, CopyLemma
  <1>3. acc \in Seq(AccessRecords)
    BY <1>2 DEF Through
  <1>4. PICK n \in Nat : n = Len(acc) /\ acc = [i \in 1 .. n |-> acc[i]]
    BY <1>3
  <1>5. ASSUME NEW i \in 1 .. n PROVE acc[i] \in Guarded(D)
    <2>0. /\ acc[i].addr \in Nat /\ acc[i].width \in Widths
          /\ addr <= acc[i].addr /\ acc[i].addr + acc[i].width <= addr + size
      <3>1. addr + size \in Nat /\ i \in 1 .. Len(acc)
        BY <1>4
      <3> QED BY <1>2, <3>1, ThroughLemma
    <2>1. PICK x \in Nat, w \in Widths : x = acc[i].addr /\ w = acc[i].width
      BY <2>0
    <2>2. Cells(acc[i]) = x .. x + w - 1
      BY <2>1 DEF Cells
    <2>3. \A c \in x .. x + w - 1 : c \in addr .. addr + size - 1
      BY <2>0, <2>1 DEF Widths
    <2>4. acc[i] \in AccessRecords
      BY <1>3, <1>4
    <2> QED BY <2>2, <2>3, <2>4 DEF Guarded
  <1>6. PICK S : S = Guarded(D)
    OBVIOUS
  <1>7. \A i \in 1 .. n : acc[i] \in S
    BY <1>5, <1>6
  <1>8. acc \in Seq(S)
    <2>1. IsSequence(acc)
      BY <1>4 DEF IsSequence
    <2> QED BY <1>4, <1>7, <2>1, ElementsLemma
  <1> QED BY <1>1, <1>6, <1>8

-----------------------------------------------------------------------------
(* Guarded memory: the invariant.                                          *)

\* The variables of a scope were described when they were accepted, and nothing
\* but the dynamic table ceases to be.
ScopeOK(s, t) ==
    /\ s = [varCnt |-> s.varCnt, var |-> s.var]
    /\ s.varCnt \in 0 .. MaxScopeVars
    /\ s.var \in [0 .. MaxScopeVars - 1 -> [addr : Nat, size : Nat]]
    /\ \A i \in 0 .. MaxScopeVars - 1 : CellsOf(s.var[i]) \subseteq Lasting(t)

ScopesOK == \A i \in DOMAIN scopes : ScopeOK(scopes[i], table)

WorkOK(work, t, described) ==
    /\ work.dir = "read" => work.accesses \in Seq(Guarded(described))
    /\ work.dir = "write" => work.accesses \in Seq(Guarded(Open(t)))

JobGuarded ==
    /\ WorkOK(job.work, table, Described)
    /\ job.work.dir \in {"read", "write"} => job.copied \in 0 .. Len(job.work.accesses)
    /\ job.work.dir \notin {"read", "write"} => job.copied = 0

HostOK == \A c \in DOMAIN memory : memory[c] = "host" => c \in Open(table)

Guard == TableOK /\ ScopesOK /\ JobGuarded /\ HostOK

LEMMA NoScopeOK == ASSUME NEW t PROVE ScopeOK(NoScope, t)
  <1>1. PICK m \in Nat : m = MaxScopeVars
    BY ScopeAssumption
  <1>2. NoVar \in [addr : Nat, size : Nat] /\ CellsOf(NoVar) = {}
    BY DEF NoVar, NULL, CellsOf
  <1>3. /\ NoScope = [varCnt |-> NoScope.varCnt, var |-> NoScope.var] /\ NoScope.varCnt = 0
        /\ NoScope.var = [i \in 0 .. m - 1 |-> NoVar]
    BY <1>1 DEF NoScope
  <1> QED BY <1>1, <1>2, <1>3 DEF ScopeOK

LEMMA OperationScope ==
    ASSUME RequestsDoNotWrap, ScopesOffTable, TableOK, NEW q \in Requests, q.cmd = "SETSCOPE",
           NEW i \in DOMAIN q.ops, NEW st, ScopeOK(st.scope, table)
    PROVE  ScopeOK(Operation(st, table, q.ops[i]).scope, table)
  <1>1. PICK op \in Operations : op = q.ops[i]
    BY RequestsAssumption
  <1>2. PICK s : s = st.scope
    OBVIOUS
  <1>3. ASSUME op.code = "CFGMEM" PROVE ScopeOK(CfgMem(s, op).scope, table)
    <2>1. op.varCnt \in Nat
      BY <1>3 DEF Operations
    <2>2. PICK m \in Nat : m = MaxScopeVars
      BY ScopeAssumption
    <2>3. CASE op.varCnt > m
      <3>1. CfgMem(s, op).scope = s
        BY <2>2, <2>3 DEF CfgMem, Setting
      <3> QED BY <1>2, <3>1
    <2>4. CASE ~(op.varCnt > m)
      <3>1. PICK r : r = [NoScope EXCEPT !.varCnt = op.varCnt]
        OBVIOUS
      <3>2. CfgMem(s, op).scope = r
        BY <2>2, <2>4, <3>1 DEF CfgMem, Setting
      <3>3. r = [varCnt |-> op.varCnt, var |-> NoScope.var]
        BY <3>1 DEF NoScope
      <3>4. r = [varCnt |-> r.varCnt, var |-> r.var] /\ r.varCnt = op.varCnt /\ r.var = NoScope.var
        BY <3>3
      <3>5. r.varCnt \in 0 .. m
        BY <2>1, <2>4, <3>4
      <3> QED BY <2>2, <3>2, <3>4, <3>5, NoScopeOK DEF ScopeOK
    <2> QED BY <2>3, <2>4
  <1>4. ASSUME op.code = "CFGVAR" PROVE ScopeOK(CfgVar(s, table, op).scope, table)
    <2>1. CASE VarStatus(s, table, op) # "OK"
      <3>1. CfgVar(s, table, op).scope = s
        BY <2>1 DEF CfgVar, Setting
      <3> QED BY <1>2, <3>1
    <2>2. CASE VarStatus(s, table, op) = "OK"
      <3>0. op.exact \in BOOLEAN /\ op.index \in Nat /\ s.varCnt \in Nat
        <4>1. MaxScopeVars \in Nat
          BY ScopeAssumption
        <4> QED BY <1>2, <1>4, <4>1 DEF Operations, ScopeOK
      <3>1. op.index < s.varCnt /\ op.size \in Widths /\ CheckTsaSpace(table, op.addr, op.size, FALSE)
        <4>1. op.exact
          BY <2>2 DEF VarStatus
        <4>2. op.index < s.varCnt <=> ~(op.index >= s.varCnt)
          BY <3>0
        <4>3. op.index < s.varCnt
          BY <2>2, <4>1, <4>2 DEF VarStatus
        <4>4. ~(op.index >= s.varCnt)
          BY <4>2, <4>3
        <4>5. op.size \in Widths
          BY <2>2, <4>1, <4>3, <4>4 DEF VarStatus, Widths
        <4>6. CheckTsaSpace(table, op.addr, op.size, FALSE)
          BY <2>2, <4>1, <4>3, <4>4, <4>5 DEF VarStatus, Widths
        <4> QED BY <4>3, <4>5, <4>6
      <3>2. PICK a \in Nat, n \in Widths, k \in Nat : a = op.addr /\ n = op.size /\ k = op.index
        BY <1>4, <3>1 DEF Operations
      <3>3. CellsOf(op) \subseteq Lasting(table)
        <4>1. CASE a .. a + n - 1 \subseteq Lasting(table)
          BY <3>2, <4>1 DEF CellsOf
        <4>2. CASE table.buffAddr # NULL /\ a .. a + n - 1 \subseteq TableCells(DynamicTable(table))
          <5>1. CellsOf(op) \subseteq CellsOf(Buffer)
            BY <3>2, <4>2, DynamicLemma DEF CellsOf
          <5>2. a \in CellsOf(op)
            BY <3>2 DEF CellsOf, Widths
          <5>3. CellsOf(op) \cap CellsOf(Buffer) = {}
            BY <1>1, <1>4 DEF ScopesOffTable
          <5> QED BY <5>1, <5>2, <5>3
        <4>3. n \in Nat /\ TableTyped(table)
          BY DEF Widths, TableOK
        <4>4. a + n < AddrSpace
          BY <1>1, <1>4, <3>2 DEF RequestsDoNotWrap
        <4> QED BY <3>1, <3>2, <4>1, <4>2, <4>3, <4>4, ReadCheck
      <3>4. PICK m \in Nat : m = MaxScopeVars
        BY ScopeAssumption
      <3>5. PICK d : d = [addr |-> op.addr, size |-> op.size]
        OBVIOUS
      <3>6. d \in [addr : Nat, size : Nat] /\ CellsOf(d) = CellsOf(op)
        BY <3>2, <3>5 DEF CellsOf, Widths
      <3>7. PICK r : r = [s EXCEPT !.var[op.index] = d]
        OBVIOUS
      <3>8. CfgVar(s, table, op).scope = r
        BY <2>2, <3>5, <3>7 DEF CfgVar, Setting
      <3>9. /\ s = [varCnt |-> s.varCnt, var |-> s.var] /\ s.varCnt \in 0 .. m
            /\ s.var \in [0 .. m - 1 -> [addr : Nat, size : Nat]]
            /\ \A j \in 0 .. m - 1 : CellsOf(s.var[j]) \subseteq Lasting(table)
        BY <1>2, <3>4 DEF ScopeOK
      <3>10. k \in 0 .. m - 1
        BY <3>1, <3>2, <3>9
      <3>11. r = [varCnt |-> s.varCnt, var |-> [s.var EXCEPT ![k] = d]]
        BY <3>2, <3>7, <3>9
      <3>12. r = [varCnt |-> r.varCnt, var |-> r.var] /\ r.varCnt = s.varCnt /\ r.var = [s.var EXCEPT ![k] = d]
        BY <3>11
      <3>13. r.var \in [0 .. m - 1 -> [addr : Nat, size : Nat]]
        BY <3>6, <3>9, <3>10, <3>12
      <3>14. ASSUME NEW j \in 0 .. m - 1 PROVE CellsOf(r.var[j]) \subseteq Lasting(table)
        <4>1. r.var[j] = d \/ r.var[j] = s.var[j]
          BY <3>9, <3>12
        <4> QED BY <3>3, <3>6, <3>9, <4>1
      <3> QED BY <3>4, <3>8, <3>9, <3>12, <3>13, <3>14 DEF ScopeOK
    <2> QED BY <2>1, <2>2
  <1>5. \A scope, status : Setting(scope, status).scope = scope
    BY DEF Setting
  <1> QED BY <1>1, <1>2, <1>3, <1>4, <1>5 DEF Operation

LEMMA SetScopeOK ==
    ASSUME RequestsDoNotWrap, ScopesOffTable, TableOK, NEW q \in Requests, q.cmd = "SETSCOPE",
           NEW scope, ScopeOK(scope, table)
    PROVE  ScopeOK(SetScope(scope, table, q.ops).scope, table)
  <1>1. q.ops \in Seq(Operations)
    BY RequestsAssumption
  <1>0. PICK n \in Nat : n = Len(q.ops)
    BY <1>1
  <1>2. PICK f : Settings(f, scope, table, q.ops, n) /\ SetScope(scope, table, q.ops) = f[n]
    BY <1>0, <1>1, SettingsLemma
  <1> DEFINE Bad == {i \in 0 .. n : ~ScopeOK(f[i].scope, table)}
  <1>3. Bad = {}
    <2>1. SUFFICES ASSUME Bad # {} PROVE FALSE
      OBVIOUS
    <2>2. PICK i \in Bad : \A j \in Bad : i <= j
      <3>1. Bad \in SUBSET Nat
        OBVIOUS
      <3> HIDE DEF Bad
      <3> QED BY <2>1, <3>1, LeastNat
    <2>3. i # 0
      <3>1. f[0].scope = scope
        BY <1>2 DEF Settings, Setting
      <3> QED BY <2>2, <3>1
    <2>4. i \in 1 .. n /\ ScopeOK(f[i - 1].scope, table)
      BY <2>2, <2>3
    <2>5. i \in DOMAIN q.ops /\ f[i] = Operation(f[i - 1], table, q.ops[i])
      BY <1>0, <1>1, <1>2, <2>3, <2>4 DEF Settings
    <2> QED BY <2>2, <2>4, <2>5, OperationScope
  <1>4. n \in 0 .. n /\ n \notin Bad
    BY <1>3
  <1> QED BY <1>2, <1>4

LEMMA ReadBlockOK ==
    ASSUME TableOK, NEW addr \in Nat, NEW size \in Nat, addr + size < AddrSpace
    PROVE  WorkOK(ReadBlock(table, addr, size), table, Described)
  <1>1. CASE CheckTsaSpace(table, addr, size, FALSE)
    <2>1. addr .. addr + size - 1 \subseteq Described
      <3>1. TableTyped(table)
        BY DEF TableOK
      <3>2. CASE addr .. addr + size - 1 \subseteq Lasting(table)
        BY <3>1, <3>2, DescribedLemma
      <3>3. CASE table.buffAddr # NULL /\ addr .. addr + size - 1 \subseteq TableCells(DynamicTable(table))
        BY <3>1, <3>3, DescribedLemma
      <3> QED BY <1>1, <3>1, <3>2, <3>3, ReadCheck
    <2>2. PICK acc : acc = MemCpyFrom(addr, size)
      OBVIOUS
    <2>3. acc \in Seq(Guarded(Described))
      BY <2>1, <2>2, GuardedLemma DEF MemCpyFrom
    <2>4. ReadBlock(table, addr, size) = Error("RSPBUFFOVF") \/ ReadBlock(table, addr, size) = Reading(acc)
      BY <1>1, <2>2 DEF ReadBlock
    <2>5. Error("RSPBUFFOVF").dir = "none" /\ Reading(acc).dir = "read" /\ Reading(acc).accesses = acc
      BY DEF Error, Reading, Job
    <2> QED BY <2>3, <2>4, <2>5 DEF WorkOK
  <1>2. CASE ~CheckTsaSpace(table, addr, size, FALSE)
    <2>1. ReadBlock(table, addr, size) = Error("EACCESS")
      BY <1>2 DEF ReadBlock
    <2> QED BY <2>1 DEF WorkOK, Error, Job
  <1> QED BY <1>1, <1>2

LEMMA WriteMemOK ==
    ASSUME RequestsDoNotWrap, TableOK, NEW q \in Requests, q.cmd = "WRITEMEM", NEW described
    PROVE  WorkOK(WriteMem(table, q), table, described)
  <1>1. q.addr \in Nat /\ q.size \in Nat /\ q.addr + q.size < AddrSpace
    BY RequestsAssumption DEF RequestsDoNotWrap
  <1>2. CASE CheckTsaSpace(table, q.addr, q.size, TRUE)
    <2>1. q.addr .. q.addr + q.size - 1 \subseteq Open(table)
      BY <1>1, <1>2, WriteCheck DEF TableOK
    <2>2. PICK acc : acc = MemCpySrcAligned(OddOperands(Block(q.addr, q.size))).accesses
      OBVIOUS
    <2>3. acc \in Seq(Guarded(Open(table)))
      BY <1>1, <2>1, <2>2, GuardedLemma
    <2>4. WriteMem(table, q) = Writing(acc, q.mask) \/ WriteMem(table, q) = Writing(acc, 1 .. q.size)
      BY <1>2, <2>2 DEF WriteMem, MemCpyToMasked, MemCpyTo, MemCpyDstAligned, MemCpyMaskedDstAligned
    <2>5. \A mask : Writing(acc, mask).dir = "write" /\ Writing(acc, mask).accesses = acc
      BY DEF Writing, Job
    <2> QED BY <2>3, <2>4, <2>5 DEF WorkOK
  <1>3. CASE ~CheckTsaSpace(table, q.addr, q.size, TRUE)
    <2>1. WriteMem(table, q) = Error("EACCESS")
      BY <1>3 DEF WriteMem
    <2> QED BY <2>1 DEF WorkOK, Error, Job
  <1> QED BY <1>2, <1>3

LEMMA ReadScopeOK ==
    ASSUME TableOK, NEW s, ScopeOK(s, table)
    PROVE  WorkOK(ReadScope(s), table, Described)
  <1>1. PICK n \in Nat, m \in Nat : n = s.varCnt /\ m = MaxScopeVars /\ n <= m
    <2>1. MaxScopeVars \in Nat
      BY ScopeAssumption
    <2> QED BY <2>1 DEF ScopeOK
  <1>2. PICK copies : copies = [i \in 1 .. n |-> MemCpyFrom(s.var[i - 1].addr, s.var[i - 1].size)]
    OBVIOUS
  <1>3. PICK S : S = Guarded(Described)
    OBVIOUS
  <1>4. ASSUME NEW i \in 1 .. n PROVE copies[i] \in Seq(S)
    <2>1. i - 1 \in 0 .. m - 1
      BY <1>1
    <2>2. PICK v \in [addr : Nat, size : Nat] : v = s.var[i - 1] /\ CellsOf(v) \subseteq Lasting(table)
      BY <1>1, <2>1 DEF ScopeOK
    <2>3. v.addr .. v.addr + v.size - 1 \subseteq Described
      BY <2>2, DescribedLemma DEF CellsOf, TableOK
    <2>4. MemCpyFrom(v.addr, v.size) \in Seq(S)
      BY <1>3, <2>3, GuardedLemma DEF MemCpyFrom
    <2> QED BY <1>2, <2>2, <2>4
  <1>5. IsSequence(copies) /\ Len(copies) = n
    <2>1. Len(copies) = n /\ DOMAIN copies = 1 .. n
      BY <1>2
    <2>2. copies = [i \in 1 .. n |-> copies[i]]
      BY <1>2, Zenon
    <2> QED BY <2>1, <2>2 DEF IsSequence
  <1>6. FlattenSeq(copies) \in Seq(S)
    BY <1>4, <1>5, FlattenLemma
  <1>7. PICK acc : acc = FlattenSeq(copies)
    OBVIOUS
  <1>8. ReadScope(s) = Reading(acc) \/ \E status : ReadScope(s) = Error(status)
    BY <1>1, <1>2, <1>7 DEF ReadScope
  <1>9. Reading(acc).dir = "read" /\ Reading(acc).accesses = acc /\ \A status : Error(status).dir = "none"
    BY DEF Reading, Error, Job
  <1> QED BY <1>3, <1>6, <1>7, <1>8, <1>9 DEF WorkOK

LEMMA DecoderGuarded ==
    ASSUME RequestsDoNotWrap, TableOK, ScopesOK, NEW q \in Requests, NEW h
    PROVE  WorkOK(ProtocolDecoder(q, table, scopes, h), table, Described)
  <1>1. \A status, data : WorkOK(Job(status, data), table, Described) /\ WorkOK(Error(status), table, Described)
    BY DEF WorkOK, Job, Error
  <1>2. CASE q.cmd = "READMEM"
    <2>1. q.addr \in Nat /\ q.size \in Nat /\ q.addr + q.size < AddrSpace
      BY <1>2, RequestsAssumption DEF RequestsDoNotWrap
    <2>2. WorkOK(ReadBlock(table, q.addr, q.size), table, Described)
      BY <2>1, ReadBlockOK
    <2> QED BY <1>2, <2>2 DEF ProtocolDecoder, ReadMem
  <1>3. CASE q.cmd = "READMEM_BA"
    <2>1. /\ BasedAddress(q.index) \in Nat /\ q.size \in Nat
          /\ BasedAddress(q.index) + q.size < AddrSpace
      <3>1. PICK b \in Nat, m \in Nat \ {0}, i \in Int : b = BaseAddress /\ m = AddrSpace /\ i = q.index
        BY <1>3, RequestsAssumption, DecoderAssumption, TsaAssumption
      <3>2. (b + i) % m \in Nat
        BY <3>1
      <3> QED BY <1>3, <3>1, <3>2, RequestsAssumption DEF RequestsDoNotWrap, BasedAddress
    <2>2. WorkOK(ReadBlock(table, BasedAddress(q.index), q.size), table, Described)
      BY <2>1, ReadBlockOK
    <2> QED BY <1>1, <1>3, <2>2 DEF ProtocolDecoder, ReadMemBaseAddress
  <1>4. CASE q.cmd = "WRITEMEM"
    BY <1>4, WriteMemOK DEF ProtocolDecoder
  <1>5. CASE q.cmd = "READSCOPE"
    <2>1. CASE q.scope \in DOMAIN scopes
      <3>1. WorkOK(ReadScope(scopes[q.scope]), table, Described)
        BY <2>1, ReadScopeOK DEF ScopesOK
      <3> QED BY <1>5, <2>1, <3>1 DEF ProtocolDecoder
    <2>2. CASE q.scope \notin DOMAIN scopes
      BY <1>1, <1>5, <2>2 DEF ProtocolDecoder
    <2> QED BY <2>1, <2>2
  <1>6. CASE q.cmd = "URESRWI"
    <2>1. PICK c : c = UresControl(table, q, h)
      OBVIOUS
    <2>2. PICK work : work = [Job(c.status, c.data) EXCEPT !.call = c.call]
      OBVIOUS
    <2>3. ProtocolDecoder(q, table, scopes, h) = work
      BY <1>6, <2>1, <2>2 DEF ProtocolDecoder
    <2> QED BY <2>2, <2>3 DEF WorkOK, Job
  <1>7. CASE q.cmd \notin {"READMEM", "READMEM_BA", "WRITEMEM", "READSCOPE", "URESRWI"}
    <2>1. WorkOK(GetBoardConfig(q), table, Described) /\ WorkOK(GetStringLen(q), table, Described)
      BY <1>1 DEF GetBoardConfig, GetStringLen
    <2> QED BY <1>1, <1>7, <2>1 DEF ProtocolDecoder
  <1> QED BY <1>2, <1>3, <1>4, <1>5, <1>6, <1>7

LEMMA GuardInit == Init => Guard
  <1> SUFFICES ASSUME Init PROVE Guard
    OBVIOUS
  <1>1. TableOK
    BY TableInit
  <1>2. ScopesOK
    <2>1. scopes = [i \in 0 .. ScopeCount - 1 |-> NoScope]
      BY DEF Init, InitScope
    <2> QED BY <2>1, NoScopeOK DEF ScopesOK
  <1>3. JobGuarded
    <2>1. job = Idle
      BY DEF Init
    <2> QED BY <2>1, IdleLemma DEF JobGuarded, WorkOK
  <1>4. HostOK
    BY InitialAssumption DEF Init, HostOK
  <1> QED BY <1>1, <1>2, <1>3, <1>4 DEF Guard

LEMMA ScopesNext ==
    ASSUME RequestsDoNotWrap, ScopesOffTable, Exchange, Guard, [Next]_vars
    PROVE  ScopesOK'
  <1>1. ASSUME NEW s, ScopeOK(s, table) PROVE ScopeOK(s, table')
    BY <1>1, TableNext, GrowsLemma DEF Guard, ScopeOK
  <1>2. CASE Poll
    <2>1. job.pc = "idle" /\ box.state = "RECEIVED_FRAME" /\ FrameIsValid
          /\ scopes' = DecodedScopes(box.body, table, scopes) /\ table' = table
      BY <1>2 DEF Poll, HasFrame, Decode
    <2>2. Asking
      BY <2>1 DEF Exchange, Silent, Working, Responded
    <2>3. box.body \in Requests
      <3>1. "header" \notin left /\ box.header = Header(request) /\ box.header = Header(box.body)
        BY <2>1, <2>2 DEF Asking, FrameIsValid
      <3>2. request.cmd \notin Earlier /\ box.body.cmd = request.cmd
        BY <2>2, <3>1, RequestsAssumption DEF Header, Asking, Earlier
      <3> QED BY <2>2, <3>2 DEF Asking
    <2>4. PICK q \in Requests : q = box.body
      BY <2>3
    <2>5. CASE q.cmd = "SETSCOPE" /\ q.scope \in DOMAIN scopes
      <3>1. scopes' = [scopes EXCEPT ![q.scope] = SetScope(@, table, q.ops).scope]
        BY <2>1, <2>4, <2>5 DEF DecodedScopes
      <3>2. ScopeOK(SetScope(scopes[q.scope], table, q.ops).scope, table)
        BY <2>5, SetScopeOK DEF Guard, ScopesOK
      <3> QED BY <2>1, <2>5, <3>1, <3>2 DEF Guard, ScopesOK
    <2>6. CASE ~(q.cmd = "SETSCOPE" /\ q.scope \in DOMAIN scopes)
      <3>1. scopes' = scopes
        BY <2>1, <2>4, <2>6 DEF DecodedScopes
      <3> QED BY <2>1, <3>1 DEF Guard, ScopesOK
    <2> QED BY <2>5, <2>6
  <1>3. CASE UNCHANGED scopes
    BY <1>1, <1>3 DEF Guard, ScopesOK
  <1>4. Poll \/ UNCHANGED scopes
    BY DEF Next, Driver, Application, Debugger, CopyIn, ReadOld, CopyOut, SendResponse, FrameToSend, AppWrite,
           SetUpTable, AddVar, AddVarCounted, Ask, WritePart, target, vars
  <1> QED BY <1>2, <1>3, <1>4

LEMMA JobNext ==
    ASSUME RequestsDoNotWrap, Exchange, Guard, [Next]_vars
    PROVE  JobGuarded'
  <1>1. JobOK /\ JobGuarded /\ (job.pc = "idle" => job = Idle)
    BY IdleLemma DEF Exchange, Guard, Silent, Asking, Working, Responded
  <1>2. UNCHANGED table => Described' = Described
    BY DEF Described, EverListed
  <1>3. CASE Poll
    <2>1. job.pc = "idle" /\ box.state = "RECEIVED_FRAME" /\ FrameIsValid /\ table' = table
      BY <1>3 DEF Poll, HasFrame, Decode
    <2>2. Asking
      BY <2>1 DEF Exchange, Silent, Working, Responded
    <2>3. box.body \in Requests
      <3>1. "header" \notin left /\ box.header = Header(request) /\ box.header = Header(box.body)
        BY <2>1, <2>2 DEF Asking, FrameIsValid
      <3>2. request.cmd \notin Earlier /\ box.body.cmd = request.cmd
        BY <2>2, <3>1, RequestsAssumption DEF Header, Asking, Earlier
      <3> QED BY <2>2, <3>2 DEF Asking
    <2>4. PICK h, work : /\ work = ProtocolDecoder(box.body, table, scopes, h)
                         /\ job' = [Idle EXCEPT !.pc = "copying", !.request = box.body, !.work = work,
                                                !.data = work.data]
      BY <1>3 DEF Poll, Decode
    <2>5. job'.work = work /\ job'.copied = 0
      BY <2>4 DEF Idle
    <2>6. WorkOK(work, table, Described)
      BY <2>3, <2>4, DecoderGuarded DEF Guard
    <2>7. work.dir \in {"read", "write"} => Len(work.accesses) \in Nat
      BY <2>6 DEF WorkOK
    <2> QED BY <1>2, <2>1, <2>5, <2>6, <2>7 DEF JobGuarded
  <1>4. CASE CopyIn \/ CopyOut
    <2>1. /\ job.work.dir \in {"read", "write"} /\ table' = table /\ job.copied < Len(job.work.accesses)
          /\ job'.work = job.work /\ job'.copied = job.copied + 1
      BY <1>1, <1>4 DEF CopyIn, CopyOut, IsCopying, JobOK
    <2>2. job.copied + 1 \in 0 .. Len(job.work.accesses)
      <3>1. Len(job.work.accesses) \in Nat /\ job.copied \in 0 .. Len(job.work.accesses)
        BY <1>1, <2>1 DEF JobGuarded, WorkOK
      <3> QED BY <2>1, <3>1
    <2> QED BY <1>1, <1>2, <2>1, <2>2 DEF JobGuarded
  <1>5. CASE ReadOld \/ SendResponse
    <2>1. table' = table /\ job'.work = job.work /\ job'.copied = job.copied
      BY <1>1, <1>5 DEF ReadOld, SendResponse, JobOK
    <2> QED BY <1>1, <1>2, <2>1 DEF JobGuarded
  <1>6. CASE FrameToSend \/ (job.pc = "idle" /\ UNCHANGED job)
    <2>1. job' = Idle
      BY <1>1, <1>6 DEF FrameToSend
    <2> QED BY <2>1, IdleLemma DEF JobGuarded, WorkOK
  <1>7. CASE UNCHANGED <<job, table>>
    BY <1>1, <1>2, <1>7 DEF JobGuarded
  <1>8. \/ Poll \/ CopyIn \/ CopyOut \/ ReadOld \/ SendResponse \/ FrameToSend \/ UNCHANGED <<job, table>>
        \/ (job.pc = "idle" /\ UNCHANGED job)
    BY DEF Next, Driver, Application, Debugger, AppWrite, SetUpTable, AddVar, AddVarCounted, Ask, WritePart,
           target, vars
  <1> QED BY <1>3, <1>4, <1>5, <1>6, <1>7, <1>8

LEMMA HostNext ==
    ASSUME Exchange, Guard, [Next]_vars
    PROVE  HostOK'
  <1>1. HostOK /\ JobGuarded /\ Open(table) \subseteq Open(table')
    BY TableNext, GrowsLemma DEF Guard
  <1>2. ASSUME CopyOut PROVE HostOK'
    <2>1. /\ job.copied < Len(job.work.accesses) /\ job.work.dir = "write"
          /\ \E bytes : memory' = CopyDstAligned(memory, Current, bytes)
      BY <1>2 DEF CopyOut, IsCopying
    <2>2. PICK bytes : memory' = CopyDstAligned(memory, Current, bytes)
      BY <2>1
    <2>3. job.work.accesses \in Seq(Guarded(Open(table))) /\ job.copied \in 0 .. Len(job.work.accesses)
      BY <1>1, <2>1 DEF JobGuarded, WorkOK
    <2>4. job.copied + 1 \in 1 .. Len(job.work.accesses)
      BY <2>1, <2>3
    <2>5. Current \in Guarded(Open(table))
      BY <2>3, <2>4 DEF Current
    <2>6. Cells(Current) \subseteq Open(table)
      BY <2>5 DEF Guarded
    <2>7. DOMAIN memory' = DOMAIN memory /\ \A c \in DOMAIN memory : c \in Cells(Current) \/ memory'[c] = memory[c]
      BY <2>2 DEF CopyDstAligned
    <2> QED BY <1>1, <2>6, <2>7 DEF HostOK
  <1>3. ASSUME NEW v \in Variables, AppWrite(v) PROVE HostOK'
    <2>1. memory' = [c \in DOMAIN memory |->
                    IF c \notin v.addr .. v.addr + v.size - 1 THEN memory[c]
                    ELSE IF memory[v.addr] = "old" THEN "new" ELSE "old"]
      BY <1>3 DEF AppWrite
    <2>2. DOMAIN memory' = DOMAIN memory
          /\ \A c \in DOMAIN memory : memory'[c] = memory[c] \/ memory'[c] \in {"old", "new"}
      BY <2>1
    <2> QED BY <1>1, <2>2 DEF HostOK
  <1>4. CASE UNCHANGED memory
    BY <1>1, <1>4 DEF HostOK
  <1>5. CopyOut \/ (\E v \in Variables : AppWrite(v)) \/ UNCHANGED memory
    BY DEF Next, Driver, Application, Debugger, Poll, Decode, CopyIn, ReadOld, SendResponse, FrameToSend,
           SetUpTable, AddVar, AddVarCounted, Ask, WritePart, target, vars
  <1> QED BY <1>2, <1>3, <1>4, <1>5

\* When no block of a request wraps, and no scope is given a variable in the
\* buffer of the dynamic table, no access reads what the tables do not describe,
\* and none writes what they do not open to the debugger.
THEOREM MemoryIsGuarded == ASSUME RequestsDoNotWrap, ScopesOffTable PROVE Spec => []GuardedMemory
  <1>1. Init => Exchange /\ Guard
    BY ExchangeInit, GuardInit
  <1>2. Exchange /\ Guard /\ [Next]_vars => (Exchange /\ Guard)'
    <2> SUFFICES ASSUME Exchange, Guard, [Next]_vars PROVE Exchange' /\ Guard'
      OBVIOUS
    <2>1. TableOK'
      BY TableNext DEF Guard
    <2> QED BY <2>1, ExchangeNext, ScopesNext, JobNext, HostNext DEF Guard
  <1>3. Guard => GuardedMemory
    <2> SUFFICES ASSUME Guard PROVE GuardedMemory
      OBVIOUS
    <2>1. Writable = Open(table)
      BY DescribedLemma DEF Guard, TableOK
    <2>2. \A c \in DOMAIN memory : memory[c] = "host" => c \in Writable
      BY <2>1 DEF Guard, HostOK
    <2>3. ASSUME NEW i \in 1 .. job.copied, job.work.dir = "read"
          PROVE  Cells(job.work.accesses[i]) \subseteq Described
      <3>1. job.work.accesses \in Seq(Guarded(Described)) /\ job.copied \in 0 .. Len(job.work.accesses)
        BY <2>3 DEF Guard, JobGuarded, WorkOK
      <3>2. i \in 1 .. Len(job.work.accesses)
        BY <3>1
      <3>3. job.work.accesses[i] \in Guarded(Described)
        BY <3>1, <3>2
      <3> QED BY <3>3 DEF Guarded
    <2> QED BY <2>2, <2>3 DEF GuardedMemory
  <1> QED BY <1>1, <1>2, <1>3, PTL DEF Spec
=============================================================================
