----------------------------- MODULE NetProofs -----------------------------
(***************************************************************************)
(* The network transport with its clients.  The properties of NetUdp hold  *)
(* for every number of clients, sessions, features and passwords; the      *)
(* safety properties of NetTcp hold for every number of clients and        *)
(* sessions, with either driver.  First, how each operation of the session *)
(* tables, those of the protocol layer (Sessions) and those of the network *)
(* transport (NetTable), keeps them in agreement.                          *)
(***************************************************************************)
EXTENDS NetUdp, NetTcp, WellFoundedInduction, FiniteSetTheorems, TLAPS

Addresses == Clients \union {ZeroAddress}

SessionRecords == [id : 0 .. SessionCount, access : NO .. RWF]
LockRecords    == [owner : 0 .. SessionCount, lockCount : Nat]
EntryRecords   == [lastUsed : Nat, address : Addresses, rx : SUBSET Addresses]

ProtocolTables ==
    [session : [SessionIndex -> SessionRecords], feature : [FeatureIndex -> LockRecords]]

NetTables ==
    [net : [SessionIndex -> EntryRecords], ageCount : Nat, p : ProtocolTables,
     closed : SUBSET Addresses]

\* No two sessions belong to one entry, and who owns a lock is a session in use.
Sound(p) ==
    /\ p \in ProtocolTables
    /\ \A s, t \in SessionIndex : s # t /\ p.session[s].id = p.session[t].id => p.session[s].id = NoId
    /\ \A f \in FeatureIndex :
          /\ p.feature[f].lockCount = 0 <=> p.feature[f].owner = NoSession
          /\ p.feature[f].owner # NoSession => p.session[p.feature[f].owner].id # NoId

\* The entry whose client holds the lock at place x, NoId if it is free.
HolderOf(p, x) == IF p.feature[x].owner = NoSession THEN NoId ELSE p.session[p.feature[x].owner].id

\* The entry of every session is in use, an address has one entry, and what an
\* entry has received came from its address.
Linked(w) ==
    /\ w \in NetTables /\ Sound(w.p)
    /\ \A s \in SessionIndex : w.p.session[s].id # NoId => ~Unused(w, w.p.session[s].id)
    /\ \A i, j \in SessionIndex :
          i # j /\ w.net[i].address = w.net[j].address => w.net[i].address = ZeroAddress
    /\ \A i \in SessionIndex : w.net[i].rx \subseteq {w.net[i].address}

\* Nor does an entry in use have the address it was initialised to, except
\* while it is being closed.
Agree(w) == Linked(w) /\ \A i \in SessionIndex : w.net[i].address = ZeroAddress => Unused(w, i)
-----------------------------------------------------------------------------
(* Loops over indices.                                                     *)

\* Every set of natural numbers with an element has a least one.
LEMMA LeastNat ==
    ASSUME NEW S \in SUBSET Nat, S # {}
    PROVE  \E i \in S : \A j \in S : i <= j
  <1> DEFINE Before == {ss \in Nat \X Nat : ss[1] < ss[2]}
  <1>1. IsWellFoundedOn(Before, Nat)
    BY NatLessThanWellFounded DEF OpToRel
  <1> HIDE DEF Before
  <1>2. PICK i \in S : \A j \in S : <<j, i>> \notin Before
    BY <1>1, WFMin
  <1>3. ASSUME NEW j \in S PROVE i <= j
    <2>1. ~(j < i)
      BY <1>2 DEF Before
    <2> QED BY <2>1
  <1> QED BY <1>3

\* A loop that stops at the first index of a kind finds one if there is one.
LEMMA FirstLemma ==
    ASSUME NEW S \in SUBSET SessionIndex, S # {}
    PROVE  First(S) \in S /\ \A j \in S : First(S) <= j
  <1>1. S \in SUBSET Nat
    BY SessionsAssumption DEF SessionIndex
  <1>2. \E i \in S : \A j \in S : i <= j
    BY <1>1, LeastNat
  <1> QED BY <1>2 DEF First
-----------------------------------------------------------------------------
(* The places of features.                                                 *)

\* A port's pipe is found in a slot that has the port.
LEMMA FindPipeLemma ==
    ASSUME NEW port
    PROVE  \/ FindPipeIndex(port) = -1
           \/ /\ FindPipeIndex(port) \in 0 .. Counts["pipe"] - 1
              /\ Ports[FindPipeIndex(port)] = port
  <1> DEFINE slots == {i \in DOMAIN Ports : Ports[i] = port}
  <1>1. CASE slots = {}
    BY <1>1 DEF FindPipeIndex
  <1>2. CASE slots # {}
    <2>1. DOMAIN Ports = 0 .. Counts["pipe"] - 1 /\ Counts["pipe"] \in Nat
      BY SessionsAssumption
    <2>2. slots \in SUBSET Nat
      BY <2>1
    <2>3. \E i \in slots : \A j \in slots : i <= j
      BY <1>2, <2>2, LeastNat
    <2>4. First(slots) \in slots
      BY <2>3 DEF First
    <2> QED BY <1>2, <2>1, <2>4 DEF FindPipeIndex
  <1> QED BY <1>1, <1>2

\* What place a feature of each type has.  An index computed as an FMSTR_U8 has
\* room for the pipes there may be, and for the 255 of one that is not there.
LEMMA FeatureCases ==
    ASSUME NEW f, f.instance \in Nat, NEW x, x = FeatureGet(f), x # NoFeature
    PROVE  \/ f.type = "scope" /\ f.instance < Counts["scope"] /\ x = f.instance
           \/ f.type = "rec" /\ f.instance < Counts["rec"] /\ x = Counts["scope"] + f.instance
           \/ f.type = "appcmd" /\ f.instance < Counts["appcmd"] /\ x = Counts["scope"] + Counts["rec"]
           \/ /\ f.type = "flashprog" /\ f.instance = 0
              /\ x = Counts["scope"] + Counts["rec"] + Counts["appcmd"]
           \/ /\ f.type = "pipe"
              /\ \E i \in 0 .. Counts["pipe"] - 1 :
                    /\ Ports[i] = f.instance
                    /\ x = Counts["scope"] + Counts["rec"] + Counts["appcmd"] + 1 + i
  <1>1. /\ Counts["scope"] \in Nat /\ Counts["rec"] \in Nat
        /\ Counts["appcmd"] \in Nat /\ Counts["pipe"] \in Nat
    BY SessionsAssumption
  <1>1a. Counts["pipe"] <= 127
    BY SessionsAssumption
  <1> USE DEF FeatureScopeInstance, FeatureRecInstance, FeatureAppcmdInstance,
              FeatureFlashprogInstance, FeaturePipeInstance, FeatureLockCount, NoFeature
  <1>2. CASE f.type = "scope"
    BY <1>1, <1>2 DEF FeatureGet
  <1>3. CASE f.type = "rec"
    BY <1>1, <1>3 DEF FeatureGet
  <1>4. CASE f.type = "appcmd"
    BY <1>1, <1>4 DEF FeatureGet
  <1>5. CASE f.type = "flashprog"
    BY <1>1, <1>5 DEF FeatureGet
  <1>6. CASE f.type = "pipe"
    <2>1. PICK i : i = FindPipeIndex(f.instance)
      OBVIOUS
    <2>2. i = -1 \/ (i \in 0 .. Counts["pipe"] - 1 /\ Ports[i] = f.instance)
      BY <2>1, FindPipeLemma
    <2>3. i < Counts["pipe"]
      BY <1>1, <2>2
    <2>4. PICK y : y = FeaturePipeInstance((256 + i) % 256)
      OBVIOUS
    <2>5. x = (IF y < 0 \/ y > FeatureLockCount THEN -1 ELSE y)
      BY <1>6, <2>1, <2>3, <2>4 DEF FeatureGet
    <2>6. i # -1
      <3>0. i = -1 => (256 + i) % 256 = 255
        OBVIOUS
      <3>1. i = -1 => y = Counts["scope"] + Counts["rec"] + Counts["appcmd"] + 1 + 255
        BY <2>4, <3>0
      <3> QED BY <1>1, <1>1a, <2>5, <3>1
    <2>7. (256 + i) % 256 = i
      BY <1>1, <1>1a, <2>2, <2>6
    <2>8. x = Counts["scope"] + Counts["rec"] + Counts["appcmd"] + 1 + i
      BY <1>1, <2>2, <2>4, <2>5, <2>6, <2>7
    <2> QED BY <1>6, <2>2, <2>6, <2>8
  <1>7. CASE f.type \notin {"scope", "rec", "appcmd", "flashprog", "pipe"}
    BY <1>7 DEF FeatureGet
  <1> QED BY <1>2, <1>3, <1>4, <1>5, <1>6, <1>7

\* Every feature has a place in the table or is refused.
LEMMA FeatureRange ==
    ASSUME NEW f, f.instance \in Nat
    PROVE  FeatureGet(f) \in FeatureIndex \union {NoFeature}
  <1>1. /\ Counts["scope"] \in Nat /\ Counts["rec"] \in Nat
        /\ Counts["appcmd"] \in Nat /\ Counts["pipe"] \in Nat
    BY SessionsAssumption
  <1> QED BY <1>1, FeatureCases DEF FeatureIndex, FeatureLockCount, FeaturePipeInstance

\* No two features share a place.
LEMMA FeatureInjective ==
    ASSUME NEW f \in [type : STRING, instance : Nat], NEW g \in [type : STRING, instance : Nat],
           FeatureGet(f) = FeatureGet(g), FeatureGet(f) # NoFeature
    PROVE  f = g
  <1>1. /\ Counts["scope"] \in Nat /\ Counts["rec"] \in Nat
        /\ Counts["appcmd"] \in {0, 1} /\ Counts["pipe"] \in Nat
    BY SessionsAssumption
  <1>2. f.instance \in Nat /\ g.instance \in Nat
    OBVIOUS
  <1>3. f.type = g.type /\ f.instance = g.instance
    <2>1. PICK x : x = FeatureGet(f) /\ x = FeatureGet(g) /\ x # NoFeature
      OBVIOUS
    <2> DEFINE At(h) ==
           \/ h.type = "scope" /\ h.instance < Counts["scope"] /\ x = h.instance
           \/ h.type = "rec" /\ h.instance < Counts["rec"] /\ x = Counts["scope"] + h.instance
           \/ h.type = "appcmd" /\ h.instance < Counts["appcmd"] /\ x = Counts["scope"] + Counts["rec"]
           \/ /\ h.type = "flashprog" /\ h.instance = 0
              /\ x = Counts["scope"] + Counts["rec"] + Counts["appcmd"]
           \/ /\ h.type = "pipe"
              /\ \E i \in 0 .. Counts["pipe"] - 1 :
                    /\ Ports[i] = h.instance
                    /\ x = Counts["scope"] + Counts["rec"] + Counts["appcmd"] + 1 + i
    <2>2. At(f)
      BY <1>2, <2>1, FeatureCases
    <2>3. At(g)
      BY <1>2, <2>1, FeatureCases
    <2> QED BY <1>1, <1>2, <2>2, <2>3
  <1> QED BY <1>3
-----------------------------------------------------------------------------
(* The protocol layer.                                                     *)

LEMMA InitSound == Sound(InitProtocol)
  <1>1. 0 \in 0 .. SessionCount /\ NO \in NO .. RWF
    BY SessionsAssumption DEF NO, RWF
  <1> QED BY <1>1 DEF InitProtocol, Sound, ProtocolTables, SessionRecords, LockRecords, NoId, NoSession

\* The session found for an entry is the entry's own if it has one, else one
\* that is free, and there is none only if every session belongs to others.
LEMMA FindSessionLemma ==
    ASSUME NEW p \in ProtocolTables, NEW id \in SessionIndex, NEW s, s = FindSession(p, id)
    PROVE  \/ /\ s = NoSession
              /\ \A t \in SessionIndex : p.session[t].id \notin {id, NoId}
           \/ s \in SessionIndex /\ p.session[s].id = id
           \/ /\ s \in SessionIndex /\ p.session[s].id = NoId
              /\ \A t \in SessionIndex : p.session[t].id # id
  <1> DEFINE mine == {t \in SessionIndex : p.session[t].id = id}
             free == {t \in SessionIndex : p.session[t].id = NoId}
  <1>1. CASE mine # {}
    <2>1. First(mine) \in mine
      BY <1>1, FirstLemma
    <2> QED BY <1>1, <2>1 DEF FindSession
  <1>2. CASE mine = {} /\ free # {}
    <2>1. First(free) \in free
      BY <1>2, FirstLemma
    <2> QED BY <1>2, <2>1 DEF FindSession
  <1>3. CASE mine = {} /\ free = {}
    BY <1>3 DEF FindSession
  <1> QED BY <1>1, <1>2, <1>3

\* Passwords open the levels they are defined for and those below.
LEMMA PasswordLemma ==
    ASSUME NEW level \in NO .. RWF
    PROVE  GetAccessPassword(level) \in NO .. RWF /\ GetAccessPassword(NO) = NoPassword
  <1> DEFINE defined == {k \in PasswordLevels : k <= level}
  <1>1. PasswordLevels \subseteq {1, 2, 3} /\ level \in {0, 1, 2, 3}
    BY SessionsAssumption DEF R, RWF, NO
  <1>2. defined # {} => \E k \in defined : \A j \in defined : j <= k
    <2>1. \A j \in defined : j \in {1, 2, 3}
      BY <1>1
    <2> HIDE DEF defined
    <2>2. CASE 3 \in defined
      BY <2>1, <2>2
    <2>3. CASE 3 \notin defined /\ 2 \in defined
      BY <2>1, <2>3
    <2>4. CASE 3 \notin defined /\ 2 \notin defined
      BY <2>1, <2>4
    <2> QED BY <2>2, <2>3, <2>4
  <1>3. GetAccessPassword(level) \in NO .. RWF
    <2>1. defined # {} => (CHOOSE k \in defined : \A j \in defined : j <= k) \in defined
      <3> HIDE DEF defined
      <3> QED BY <1>2
    <2>2. GetAccessPassword(level) =
             IF defined = {} THEN NoPassword ELSE CHOOSE k \in defined : \A j \in defined : j <= k
      BY DEF GetAccessPassword
    <2>3. \A k \in defined : k \in {1, 2, 3}
      BY <1>1
    <2> HIDE DEF defined
    <2> QED BY <2>1, <2>2, <2>3 DEF NoPassword, NO, RWF
  <1>4. GetAccessPassword(NO) = NoPassword
    <2>1. \A k \in PasswordLevels : ~(k <= 0)
      BY <1>1
    <2>2. {k \in PasswordLevels : k <= NO} = {}
      BY <2>1 DEF NO
    <2> QED BY <2>2 DEF GetAccessPassword
  <1> QED BY <1>3, <1>4

\* A session starts with a level that needs no password.
LEMMA DefaultLemma ==
    DefaultGrantedAccess \in NO .. RWF /\ GetAccessPassword(DefaultGrantedAccess) = NoPassword
  <1> DEFINE Good(level) == /\ GetAccessPassword(level) = NoPassword
                            /\ level = RWF \/ GetAccessPassword(level + 1) # NoPassword
  <1>1. GetAccessPassword(0) = NoPassword
    BY PasswordLemma DEF NO, RWF
  <1>2. \E level \in 0 .. 3 : Good(level)
    <2>1. Good(0) \/ GetAccessPassword(1) = NoPassword
      BY <1>1 DEF RWF
    <2>2. GetAccessPassword(1) = NoPassword => Good(1) \/ GetAccessPassword(2) = NoPassword
      BY DEF RWF
    <2>3. GetAccessPassword(2) = NoPassword => Good(2) \/ GetAccessPassword(3) = NoPassword
      BY DEF RWF
    <2>4. GetAccessPassword(3) = NoPassword => Good(3)
      BY DEF RWF
    <2> HIDE DEF Good
    <2> QED BY <2>1, <2>2, <2>3, <2>4
  <1> QED BY <1>2 DEF DefaultGrantedAccess, NO, RWF

WithSession(p, s, r)     == [p EXCEPT !.session[s] = r]
WithFeatures(p, feature) == [p EXCEPT !.feature = feature]
WithLock(p, x, l)        == [p EXCEPT !.feature[x] = l]
WithAccess(p, s, access) == [p EXCEPT !.session[s].access = access]

\* A session replaced, or the table of features, gives tables again.
LEMMA SessionReplaced ==
    ASSUME NEW p \in ProtocolTables, NEW s \in SessionIndex, NEW r \in SessionRecords
    PROVE  /\ WithSession(p, s, r) \in ProtocolTables
           /\ WithSession(p, s, r).feature = p.feature
           /\ WithSession(p, s, r).session[s] = r
           /\ \A t \in SessionIndex \ {s} : WithSession(p, s, r).session[t] = p.session[t]
  <1>1. PICK session \in [SessionIndex -> SessionRecords] : session = [p.session EXCEPT ![s] = r]
    BY DEF ProtocolTables
  <1>2. WithSession(p, s, r) = [p EXCEPT !.session = session]
    BY <1>1 DEF WithSession
  <1>3. p.session \in [SessionIndex -> SessionRecords]
    BY DEF ProtocolTables
  <1>4. [p EXCEPT !.session = session] \in ProtocolTables
    BY DEF ProtocolTables
  <1>5. /\ [p EXCEPT !.session = session].session = session
        /\ [p EXCEPT !.session = session].feature = p.feature
    BY DEF ProtocolTables
  <1> QED BY <1>1, <1>2, <1>3, <1>4, <1>5

LEMMA FeaturesReplaced ==
    ASSUME NEW p \in ProtocolTables, NEW feature \in [FeatureIndex -> LockRecords]
    PROVE  /\ WithFeatures(p, feature) \in ProtocolTables
           /\ WithFeatures(p, feature).session = p.session
           /\ WithFeatures(p, feature).feature = feature
  BY DEF ProtocolTables, WithFeatures

\* Freeing the session of an entry takes its locks away and leaves the other
\* sessions and their locks alone.
LEMMA FreeLemma ==
    ASSUME NEW p, Sound(p), NEW id \in SessionIndex, NEW q, q = FreeSession(p, id)
    PROVE  /\ Sound(q)
           /\ \A s \in SessionIndex :
                 /\ q.session[s].id # id
                 /\ p.session[s].id # id => q.session[s] = p.session[s]
                 /\ p.session[s].id = id => q.session[s].id = NoId
           /\ \A f \in FeatureIndex :
                 q.feature[f] = IF /\ p.feature[f].owner # NoSession
                                   /\ p.session[p.feature[f].owner].id = id
                                THEN [owner |-> NoSession, lockCount |-> 0] ELSE p.feature[f]
  <1>0. p \in ProtocolTables /\ id # NoId /\ 0 \in 0 .. SessionCount
    BY SessionsAssumption DEF Sound, SessionIndex, NoId
  <1>1. /\ p.session \in [SessionIndex -> SessionRecords]
        /\ p.feature \in [FeatureIndex -> LockRecords]
        /\ \A f \in FeatureIndex : p.feature[f].owner = NoSession \/ p.feature[f].owner \in SessionIndex
    BY <1>0, SessionsAssumption DEF ProtocolTables, LockRecords, NoSession, SessionIndex
  <1>2. PICK s : s = FindSession(p, id)
    OBVIOUS
  <1>3. CASE s # NoSession /\ p.session[s].id = id
    <2>1. s \in SessionIndex
      BY <1>0, <1>2, <1>3, FindSessionLemma
    <2>2. \A t \in SessionIndex : p.session[t].id = id => t = s
      BY <1>0, <1>3, <2>1 DEF Sound
    <2>3. PICK free \in SessionRecords : free = [id |-> NoId, access |-> NO]
      <3>1. NO \in NO .. RWF
        BY DEF NO, RWF
      <3> QED BY <1>0, <3>1 DEF SessionRecords, NoId
    <2>4. PICK none \in LockRecords : none = [owner |-> NoSession, lockCount |-> 0]
      BY <1>0 DEF LockRecords, NoSession
    <2>5. PICK feature \in [FeatureIndex -> LockRecords] :
             feature = [f \in FeatureIndex |-> IF p.feature[f].owner = s THEN none ELSE p.feature[f]]
      BY <1>1
    <2>6. PICK u : u = UnlockFeatures(p, s)
      OBVIOUS
    <2>7. u \in ProtocolTables /\ u.session = p.session /\ u.feature = feature
      <3>1. u = WithFeatures(p, feature)
        BY <2>4, <2>5, <2>6 DEF UnlockFeatures, WithFeatures
      <3> QED BY <1>0, <3>1, FeaturesReplaced
    <2>8. q = WithSession(u, s, free)
      BY <1>2, <1>3, <2>3, <2>6 DEF FreeSession, WithSession
    <2>9. /\ q \in ProtocolTables /\ q.feature = feature /\ q.session[s] = free
          /\ \A t \in SessionIndex \ {s} : q.session[t] = p.session[t]
      BY <2>1, <2>7, <2>8, SessionReplaced
    <2>10. \A t \in SessionIndex :
              /\ q.session[t].id # id
              /\ p.session[t].id # id => q.session[t] = p.session[t]
              /\ p.session[t].id = id => q.session[t].id = NoId
      BY <1>0, <1>3, <2>2, <2>3, <2>9
    <2>11. \A f \in FeatureIndex :
              q.feature[f] = IF /\ p.feature[f].owner # NoSession
                                /\ p.session[p.feature[f].owner].id = id
                             THEN [owner |-> NoSession, lockCount |-> 0] ELSE p.feature[f]
      BY <1>1, <1>3, <2>1, <2>2, <2>4, <2>5, <2>9
    <2>12. \A t, v \in SessionIndex : t # v /\ q.session[t].id = q.session[v].id => q.session[t].id = NoId
      BY <2>3, <2>9 DEF Sound
    <2>13. ASSUME NEW f \in FeatureIndex
           PROVE  /\ q.feature[f].lockCount = 0 <=> q.feature[f].owner = NoSession
                  /\ q.feature[f].owner # NoSession => q.session[q.feature[f].owner].id # NoId
      <3>1. CASE p.feature[f].owner = s
        BY <2>4, <2>5, <2>9, <3>1
      <3>2. CASE p.feature[f].owner # s
        BY <1>1, <2>5, <2>9, <3>2 DEF Sound
      <3> QED BY <3>1, <3>2
    <2> QED BY <2>9, <2>10, <2>11, <2>12, <2>13 DEF Sound
  <1>4. CASE ~(s # NoSession /\ p.session[s].id = id)
    <2>1. q = p
      BY <1>2, <1>4 DEF FreeSession
    <2>2. \A t \in SessionIndex : p.session[t].id # id
      <3>1. s \in SessionIndex => s # NoSession
        BY DEF SessionIndex, NoSession
      <3> QED BY <1>0, <1>2, <1>4, <3>1, FindSessionLemma
    <2> QED BY <1>1, <2>1, <2>2
  <1> QED BY <1>3, <1>4

\* An entry that needs a session gets its own, or a free one that starts with
\* the default access and no locks.
LEMMA CreateLemma ==
    ASSUME NEW p, Sound(p), NEW id \in SessionIndex, NEW s, s = FindSession(p, id), s # NoSession,
           NEW q, q = CreateSession(p, id)
    PROVE  /\ Sound(q) /\ s \in SessionIndex /\ q.feature = p.feature
           /\ q.session[s].id = id
           /\ q.session[s].access = IF p.session[s].id = id THEN p.session[s].access
                                    ELSE DefaultGrantedAccess
           /\ p.session[s].id \in {id, NoId}
           /\ \A t \in SessionIndex \ {s} : q.session[t] = p.session[t] /\ p.session[t].id # id
           /\ \A f \in FeatureIndex : p.feature[f].owner = s => p.session[s].id = id
  <1>0. p \in ProtocolTables /\ id # NoId /\ id \in 0 .. SessionCount
    BY SessionsAssumption DEF Sound, SessionIndex, NoId
  <1>1. s \in SessionIndex /\ (p.session[s].id = id \/
           (p.session[s].id = NoId /\ \A t \in SessionIndex : p.session[t].id # id))
    BY <1>0, FindSessionLemma
  <1>2. \A t \in SessionIndex \ {s} : p.session[t].id # id
    BY <1>0, <1>1 DEF Sound
  <1>2a. \A f \in FeatureIndex : p.feature[f].owner = s => p.session[s].id = id
    <2>1. s # NoSession
      OBVIOUS
    <2> QED BY <1>1, <2>1 DEF Sound
  <1>3. CASE p.session[s].id = id
    <2>1. q = p
      BY <1>3 DEF CreateSession
    <2> QED BY <1>1, <1>2, <1>2a, <1>3, <2>1
  <1>4. CASE p.session[s].id # id
    <2>1. PICK r \in SessionRecords : r = [id |-> id, access |-> DefaultGrantedAccess]
      BY <1>0, DefaultLemma DEF SessionRecords
    <2>2. q = WithSession(p, s, r)
      BY <1>4, <2>1 DEF CreateSession, WithSession
    <2>3. /\ q \in ProtocolTables /\ q.feature = p.feature /\ q.session[s] = r
          /\ \A t \in SessionIndex \ {s} : q.session[t] = p.session[t]
      BY <1>0, <1>1, <2>2, SessionReplaced
    <2>4. \A t, v \in SessionIndex : t # v /\ q.session[t].id = q.session[v].id => q.session[t].id = NoId
      BY <1>2, <2>1, <2>3 DEF Sound
    <2>5. ASSUME NEW f \in FeatureIndex
          PROVE  /\ q.feature[f].lockCount = 0 <=> q.feature[f].owner = NoSession
                 /\ q.feature[f].owner # NoSession => q.session[q.feature[f].owner].id # NoId
      <3>1. p.feature[f].owner = NoSession \/ p.feature[f].owner \in SessionIndex \ {s}
        BY <1>0, <1>2a, <1>4, SessionsAssumption DEF ProtocolTables, LockRecords, NoSession, SessionIndex
      <3> QED BY <2>3, <3>1 DEF Sound
    <2>6. Sound(q)
      BY <2>3, <2>4, <2>5 DEF Sound
    <2> QED BY <1>1, <1>2, <1>2a, <1>4, <2>1, <2>3, <2>6
  <1> QED BY <1>3, <1>4

-----------------------------------------------------------------------------
(* What the operations of the protocol layer come to, told by entries: q   *)
(* are the tables after one that began with p.                             *)

\* The session of entry i has been freed.
Freed(p, q, i) ==
    /\ Sound(q)
    /\ \A s \in SessionIndex :
          /\ q.session[s].id # i
          /\ p.session[s].id # i => q.session[s] = p.session[s]
          /\ p.session[s].id = i => q.session[s].id = NoId
    /\ \A x \in FeatureIndex :
          /\ HolderOf(q, x) = IF HolderOf(p, x) = i THEN NoId ELSE HolderOf(p, x)
          /\ q.feature[x].lockCount = IF HolderOf(p, x) = i THEN 0 ELSE p.feature[x].lockCount

\* A command that locks, or gives back, the feature at place x.
Locks(c, status, x)   == c.cmd = "lock" /\ status = "OK" /\ x = FeatureGet(c.feature)
Unlocks(c, status, x) == c.cmd = "unlock" /\ status = "OK" /\ x = FeatureGet(c.feature)

\* Where an access level comes from that a command leaves the session of its
\* client with: it had it already, needs no password, or showed one.
Granted(c, before, after) ==
    \/ before = after /\ ~(c.cmd = "auth1" /\ c.req = NO)
    \/ after = NO
    \/ \E l \in after .. RWF : GetAccessPassword(l) = NoPassword
    \/ c.cmd = "auth2" /\ \E l \in after .. RWF : GetAccessPassword(l) = c.known

\* Command c of entry i has been answered with status.
Obeyed(p, q, i, c, status) ==
    /\ Sound(q)
    /\ \A s \in SessionIndex :
          /\ q.session[s].id = p.session[s].id \/ (p.session[s].id = NoId /\ q.session[s].id = i)
          /\ q.session[s].id # i => q.session[s] = p.session[s]
          /\ q.session[s].id = i /\ p.session[s].id = i =>
                 Granted(c, p.session[s].access, q.session[s].access)
          /\ q.session[s].id = i /\ p.session[s].id # i =>
                 Granted(c, DefaultGrantedAccess, q.session[s].access)
    /\ \A x \in FeatureIndex :
          /\ ~Locks(c, status, x) /\ ~Unlocks(c, status, x) =>
                 /\ HolderOf(q, x) = HolderOf(p, x)
                 /\ q.feature[x].lockCount = p.feature[x].lockCount
          /\ Locks(c, status, x) =>
                 /\ HolderOf(p, x) \in {NoId, i} /\ HolderOf(q, x) = i
                 /\ q.feature[x].lockCount = p.feature[x].lockCount + 1
          /\ Unlocks(c, status, x) =>
                 LET n == IF p.feature[x].lockCount > 0 THEN p.feature[x].lockCount - 1 ELSE 0
                 IN  /\ HolderOf(p, x) \in {NoId, i}
                     /\ q.feature[x].lockCount = n
                     /\ HolderOf(q, x) = IF n = 0 THEN NoId ELSE i
    /\ c.cmd \in {"lock", "unlock"} /\ status = "OK" => FeatureGet(c.feature) \in FeatureIndex

\* The commands there are.
IsCommand(c) ==
    /\ c.cmd \in {"ping", "discovery", "read", "write", "lock", "unlock", "use", "auth1", "auth2"}
    /\ c.cmd \in {"lock", "unlock", "use"} => c.feature.instance \in Nat
    /\ c.cmd \in {"auth1", "auth2"} => c.req \in NO .. RWF
    /\ c.cmd = "auth2" => c.known \in NO .. RWF

\* Freeing the session of an entry takes its locks away and leaves the other
\* sessions and their locks alone.
LEMMA FreedLemma ==
    ASSUME NEW p, Sound(p), NEW i \in SessionIndex, NEW q, q = FreeSession(p, i)
    PROVE  Freed(p, q, i)
  <1>1. /\ Sound(q)
        /\ \A s \in SessionIndex :
              /\ q.session[s].id # i
              /\ p.session[s].id # i => q.session[s] = p.session[s]
              /\ p.session[s].id = i => q.session[s].id = NoId
    BY FreeLemma
  <1>2. \A f \in FeatureIndex :
           q.feature[f] = IF /\ p.feature[f].owner # NoSession
                             /\ p.session[p.feature[f].owner].id = i
                          THEN [owner |-> NoSession, lockCount |-> 0] ELSE p.feature[f]
    BY FreeLemma
  <1>3. i # NoId
    BY DEF SessionIndex, NoId
  <1>4. \A f \in FeatureIndex : p.feature[f].owner \in SessionIndex \union {NoSession}
    BY SessionsAssumption DEF Sound, ProtocolTables, LockRecords, NoSession, SessionIndex
  <1>5. ASSUME NEW x \in FeatureIndex
        PROVE  /\ HolderOf(q, x) = IF HolderOf(p, x) = i THEN NoId ELSE HolderOf(p, x)
               /\ q.feature[x].lockCount = IF HolderOf(p, x) = i THEN 0 ELSE p.feature[x].lockCount
    <2>1. CASE HolderOf(p, x) = i
      BY <1>2, <1>3, <2>1 DEF HolderOf
    <2>2. CASE HolderOf(p, x) # i
      BY <1>1, <1>2, <1>4, <2>2 DEF HolderOf
    <2> QED BY <2>1, <2>2
  <1> QED BY <1>1, <1>5 DEF Freed

\* Replacing the lock at one place gives tables again.
LEMMA LockReplaced ==
    ASSUME NEW p \in ProtocolTables, NEW x \in FeatureIndex, NEW l \in LockRecords,
           NEW q, q = WithLock(p, x, l)
    PROVE  /\ q \in ProtocolTables /\ q.session = p.session /\ q.feature[x] = l
           /\ \A y \in FeatureIndex \ {x} : q.feature[y] = p.feature[y]
  <1>1. p.feature \in [FeatureIndex -> LockRecords]
    BY DEF ProtocolTables
  <1>2. PICK feature \in [FeatureIndex -> LockRecords] : feature = [p.feature EXCEPT ![x] = l]
    BY <1>1
  <1>3. q = WithFeatures(p, feature)
    BY <1>2 DEF WithFeatures, WithLock
  <1> QED BY <1>1, <1>2, <1>3, FeaturesReplaced

\* A lock is taken, or given back, by the session that holds it or when no
\* session does.
LEMMA LockLemma ==
    ASSUME NEW p, Sound(p), NEW s \in SessionIndex, p.session[s].id # NoId,
           NEW x \in FeatureIndex, p.feature[x].owner \in {NoSession, s}, NEW lock \in BOOLEAN,
           NEW q, q = Locked(p, s, x, lock)
    PROVE  /\ Sound(q) /\ q.session = p.session
           /\ \A y \in FeatureIndex \ {x} : q.feature[y] = p.feature[y]
           /\ lock => q.feature[x].owner = s /\ q.feature[x].lockCount = p.feature[x].lockCount + 1
           /\ ~lock => LET n == IF p.feature[x].lockCount > 0 THEN p.feature[x].lockCount - 1 ELSE 0
                       IN  /\ q.feature[x].lockCount = n
                           /\ q.feature[x].owner = IF n = 0 THEN NoSession ELSE s
  <1>1. p \in ProtocolTables /\ p.feature[x].lockCount \in Nat /\ s # NoSession
        /\ (p.feature[x].lockCount = 0 <=> p.feature[x].owner = NoSession)
    BY DEF Sound, ProtocolTables, LockRecords, SessionIndex, NoSession
  <1>2. PICK n \in Nat : n = IF lock THEN p.feature[x].lockCount + 1
                             ELSE IF p.feature[x].lockCount > 0 THEN p.feature[x].lockCount - 1 ELSE 0
    BY <1>1
  <1>3. PICK owner \in 0 .. SessionCount : owner = IF lock THEN s ELSE IF n = 0 THEN NoSession ELSE s
    BY SessionsAssumption DEF SessionIndex, NoSession
  <1>4. owner = IF lock THEN s ELSE IF n = 0 THEN NoSession ELSE p.feature[x].owner
    BY <1>1, <1>2, <1>3
  <1>5. PICK l \in LockRecords : l = [owner |-> owner, lockCount |-> n]
    BY DEF LockRecords
  <1>6. q = WithLock(p, x, l)
    BY <1>2, <1>4, <1>5 DEF Locked, WithLock
  <1>7. /\ q \in ProtocolTables /\ q.session = p.session /\ q.feature[x] = l
        /\ \A y \in FeatureIndex \ {x} : q.feature[y] = p.feature[y]
    BY <1>1, <1>6, LockReplaced
  <1>8. l.owner = owner /\ l.lockCount = n
    BY <1>5
  <1>9. n = 0 <=> owner = NoSession
    BY <1>1, <1>2, <1>3
  <1>10. ASSUME NEW f \in FeatureIndex
         PROVE  /\ q.feature[f].lockCount = 0 <=> q.feature[f].owner = NoSession
                /\ q.feature[f].owner # NoSession => q.session[q.feature[f].owner].id # NoId
    <2>1. CASE f = x
      BY <1>3, <1>7, <1>8, <1>9, <2>1
    <2>2. CASE f # x
      BY <1>7, <2>2 DEF Sound
    <2> QED BY <2>1, <2>2
  <1>11. Sound(q)
    BY <1>7, <1>10 DEF Sound
  <1> QED BY <1>1, <1>2, <1>3, <1>7, <1>8, <1>11

\* The level granted for a password is one that it, or none, opens.
LEMMA AccessForLemma ==
    ASSUME NEW known
    PROVE  /\ AccessFor(known) \in NO .. RWF
           /\ AccessFor(known) # NO => GetAccessPassword(AccessFor(known)) \in {known, NoPassword}
  <1> DEFINE held == {level \in R .. RWF : GetAccessPassword(level) \in {known, NoPassword}}
  <1>1. \A level \in held : level \in {1, 2, 3} /\ GetAccessPassword(level) \in {known, NoPassword}
    BY DEF R, RWF
  <1>2. AccessFor(known) = IF held = {} THEN NO ELSE CHOOSE level \in held : \A l \in held : l <= level
    BY DEF AccessFor
  <1> HIDE DEF held
  <1>3. held # {} => \E level \in held : \A l \in held : l <= level
    <2>1. CASE 3 \in held
      BY <1>1, <2>1
    <2>2. CASE 3 \notin held /\ 2 \in held
      BY <1>1, <2>2
    <2>3. CASE 3 \notin held /\ 2 \notin held
      BY <1>1, <2>3
    <2> QED BY <2>1, <2>2, <2>3
  <1>4. CASE held = {}
    BY <1>2, <1>4 DEF NO, RWF
  <1>5. CASE held # {}
    <2>1. (CHOOSE level \in held : \A l \in held : l <= level) \in held
      BY <1>3, <1>5
    <2>2. AccessFor(known) \in held
      BY <1>2, <1>5, <2>1
    <2> QED BY <1>1, <2>2 DEF NO, RWF
  <1> QED BY <1>4, <1>5

\* A session is given another access level.
LEMMA AccessReplaced ==
    ASSUME NEW p, Sound(p), NEW s \in SessionIndex, NEW access \in NO .. RWF,
           NEW q, q = WithAccess(p, s, access)
    PROVE  /\ Sound(q) /\ q.feature = p.feature
           /\ q.session[s].id = p.session[s].id /\ q.session[s].access = access
           /\ \A t \in SessionIndex \ {s} : q.session[t] = p.session[t]
  <1>1. p \in ProtocolTables /\ p.session[s] \in SessionRecords
    BY DEF Sound, ProtocolTables
  <1>2. PICK r \in SessionRecords : r = [p.session[s] EXCEPT !.access = access]
    BY <1>1 DEF SessionRecords
  <1>3. r.id = p.session[s].id /\ r.access = access
    BY <1>1, <1>2 DEF SessionRecords
  <1>4. q = WithSession(p, s, r)
    BY <1>2 DEF WithSession, WithAccess
  <1>5. /\ q \in ProtocolTables /\ q.feature = p.feature /\ q.session[s] = r
        /\ \A t \in SessionIndex \ {s} : q.session[t] = p.session[t]
    BY <1>1, <1>4, SessionReplaced
  <1>6. \A t \in SessionIndex : q.session[t].id = p.session[t].id
    BY <1>3, <1>5
  <1>7. \A t, v \in SessionIndex : t # v /\ q.session[t].id = q.session[v].id => q.session[t].id = NoId
    BY <1>6 DEF Sound
  <1>8. \A f \in FeatureIndex : p.feature[f].owner \in SessionIndex \union {NoSession}
    BY <1>1, SessionsAssumption DEF ProtocolTables, LockRecords, NoSession, SessionIndex
  <1>9. ASSUME NEW f \in FeatureIndex
        PROVE  /\ q.feature[f].lockCount = 0 <=> q.feature[f].owner = NoSession
               /\ q.feature[f].owner # NoSession => q.session[q.feature[f].owner].id # NoId
    BY <1>5, <1>6, <1>8 DEF Sound
  <1> QED BY <1>3, <1>5, <1>7, <1>9 DEF Sound

\* What each command does for session s, the one of entry i.
LEMMA ExecuteLemma ==
    ASSUME NEW p, Sound(p), NEW s \in SessionIndex, NEW i \in SessionIndex,
           p.session[s].id = i, NEW c, IsCommand(c), c.cmd \notin {"ping", "discovery"},
           NEW a, a = Execute(p, s, c)
    PROVE  Obeyed(p, a.p, i, c, a.status) /\ a.status # "none"
  <1>0. /\ p \in ProtocolTables /\ i # NoId /\ s # NoSession
        /\ \A t \in SessionIndex : p.session[t].id = i => t = s
        /\ \A x \in FeatureIndex : p.feature[x].owner \in SessionIndex \union {NoSession}
        /\ \A x \in FeatureIndex : p.feature[x].owner = s <=> HolderOf(p, x) = i
        /\ \A x \in FeatureIndex : p.feature[x].owner = NoSession <=> HolderOf(p, x) = NoId
    <2>1. p \in ProtocolTables /\ i # NoId /\ s # NoSession
      BY DEF Sound, SessionIndex, NoId, NoSession
    <2>2. \A t \in SessionIndex : p.session[t].id = i => t = s
      BY <2>1 DEF Sound
    <2>3. \A x \in FeatureIndex : p.feature[x].owner \in SessionIndex \union {NoSession}
      BY <2>1, SessionsAssumption DEF ProtocolTables, LockRecords, NoSession, SessionIndex
    <2>4. \A x \in FeatureIndex : p.feature[x].owner # NoSession => p.session[p.feature[x].owner].id # NoId
      BY DEF Sound
    <2> QED BY <2>1, <2>2, <2>3, <2>4 DEF HolderOf
  \* A command that changes nothing.
  <1>1. ASSUME a.p = p, c.cmd \notin {"lock", "unlock"} \/ a.status # "OK",
               ~(c.cmd = "auth1" /\ c.req = NO)
        PROVE  Obeyed(p, a.p, i, c, a.status)
    BY <1>1 DEF Obeyed, Granted, Locks, Unlocks
  <1>2. ASSUME NEW lock \in BOOLEAN, c.cmd = IF lock THEN "lock" ELSE "unlock",
               a = FeatureLock(p, s, c.feature, lock)
        PROVE  Obeyed(p, a.p, i, c, a.status) /\ a.status # "none"
    <2>1. PICK x : x = FeatureGet(c.feature)
      OBVIOUS
    <2>2. x \in FeatureIndex \union {NoFeature}
      BY <1>2, <2>1, FeatureRange DEF IsCommand
    <2>3. CASE a.status # "OK"
      BY <1>1, <1>2, <2>1, <2>3 DEF FeatureLock, Answer
    <2>4. CASE a.status = "OK"
      <3>1. /\ x # NoFeature /\ a.p = Locked(p, s, x, lock)
            /\ ~(p.feature[x].lockCount > 0 /\ p.feature[x].owner # s)
        <4>1. CASE p.session[s].access < R
          BY <1>2, <2>4, <4>1 DEF FeatureLock, Answer
        <4>2. CASE ~(p.session[s].access < R) /\ x = NoFeature
          <5>1. p.session[s].access >= R
            BY <1>0, <4>2 DEF ProtocolTables, SessionRecords, NO, RWF, R
          <5> QED BY <1>2, <2>1, <2>4, <4>2, <5>1 DEF FeatureLock, Answer
        <4>3. CASE ~(p.session[s].access < R) /\ x # NoFeature
          BY <1>2, <2>1, <2>4, <4>3 DEF FeatureLock, Answer
        <4> QED BY <4>1, <4>2, <4>3
      <3>2. x \in FeatureIndex /\ p.feature[x].owner \in {NoSession, s}
        <4>1. x \in FeatureIndex
          BY <2>2, <3>1
        <4>2. p.feature[x].lockCount \in Nat /\ (p.feature[x].lockCount = 0 <=> p.feature[x].owner = NoSession)
          BY <1>0, <4>1 DEF Sound, ProtocolTables, LockRecords
        <4> QED BY <3>1, <4>1, <4>2
      <3>3. PICK q : q = a.p
        OBVIOUS
      <3>4. /\ Sound(q) /\ q.session = p.session
            /\ \A y \in FeatureIndex \ {x} : q.feature[y] = p.feature[y]
            /\ lock => q.feature[x].owner = s /\ q.feature[x].lockCount = p.feature[x].lockCount + 1
            /\ ~lock => LET n == IF p.feature[x].lockCount > 0 THEN p.feature[x].lockCount - 1 ELSE 0
                        IN  /\ q.feature[x].lockCount = n
                            /\ q.feature[x].owner = IF n = 0 THEN NoSession ELSE s
        BY <1>0, <3>1, <3>2, <3>3, LockLemma
      <3>5. \A y \in FeatureIndex \ {x} : HolderOf(q, y) = HolderOf(p, y)
        BY <3>4 DEF HolderOf
      <3>6. HolderOf(p, x) \in {NoId, i}
        BY <1>0, <3>2
      <3>7. lock => HolderOf(q, x) = i
        BY <1>0, <3>4 DEF HolderOf
      <3>8. ~lock => HolderOf(q, x) = IF q.feature[x].lockCount = 0 THEN NoId ELSE i
        BY <1>0, <3>4 DEF HolderOf
      <3>9. \A t \in SessionIndex :
               /\ q.session[t].id = p.session[t].id
               /\ q.session[t] = p.session[t]
               /\ Granted(c, p.session[t].access, q.session[t].access)
        BY <1>2, <3>4 DEF Granted
      <3>10. \A t \in SessionIndex : q.session[t].id = i => p.session[t].id = i
        BY <3>9
      <3>11. ASSUME NEW y \in FeatureIndex
             PROVE  /\ ~Locks(c, a.status, y) /\ ~Unlocks(c, a.status, y) =>
                           /\ HolderOf(q, y) = HolderOf(p, y)
                           /\ q.feature[y].lockCount = p.feature[y].lockCount
                    /\ Locks(c, a.status, y) =>
                           /\ HolderOf(p, y) \in {NoId, i} /\ HolderOf(q, y) = i
                           /\ q.feature[y].lockCount = p.feature[y].lockCount + 1
                    /\ Unlocks(c, a.status, y) =>
                           LET n == IF p.feature[y].lockCount > 0 THEN p.feature[y].lockCount - 1 ELSE 0
                           IN  /\ HolderOf(p, y) \in {NoId, i}
                               /\ q.feature[y].lockCount = n
                               /\ HolderOf(q, y) = IF n = 0 THEN NoId ELSE i
        <4>1. Locks(c, a.status, y) <=> lock /\ y = x
          BY <1>2, <2>1, <2>4 DEF Locks
        <4>2. Unlocks(c, a.status, y) <=> ~lock /\ y = x
          BY <1>2, <2>1, <2>4 DEF Unlocks
        <4>3. CASE y # x
          BY <3>4, <3>5, <4>1, <4>2, <4>3
        <4>4. CASE y = x
          BY <3>4, <3>6, <3>7, <3>8, <4>1, <4>2, <4>4
        <4> QED BY <4>3, <4>4
      <3> QED BY <2>1, <2>4, <3>2, <3>3, <3>4, <3>9, <3>10, <3>11 DEF Obeyed
    <2> QED BY <2>3, <2>4, <1>2 DEF FeatureLock, Answer
  \* A command that gives the session an access level.
  <1>3. ASSUME NEW access \in NO .. RWF, a.p = WithAccess(p, s, access),
               c.cmd \in {"auth1", "auth2"}, Granted(c, p.session[s].access, access)
        PROVE  Obeyed(p, a.p, i, c, a.status)
    <2>1. PICK q : q = a.p
      OBVIOUS
    <2>2. /\ Sound(q) /\ q.feature = p.feature
          /\ q.session[s].id = p.session[s].id /\ q.session[s].access = access
          /\ \A t \in SessionIndex \ {s} : q.session[t] = p.session[t]
      BY <1>3, <2>1, AccessReplaced
    <2>3. \A t \in SessionIndex : q.session[t].id = p.session[t].id
      BY <2>2
    <2>4. \A x \in FeatureIndex : HolderOf(q, x) = HolderOf(p, x)
      BY <1>0, <2>2, <2>3 DEF HolderOf
    <2>5. \A x \in FeatureIndex : ~Locks(c, a.status, x) /\ ~Unlocks(c, a.status, x)
      BY <1>3 DEF Locks, Unlocks
    <2>6. ASSUME NEW t \in SessionIndex
          PROVE  /\ q.session[t].id # i => q.session[t] = p.session[t]
                 /\ q.session[t].id = i => Granted(c, p.session[t].access, q.session[t].access)
      BY <1>0, <1>3, <2>2, <2>3
    <2> QED BY <1>3, <2>1, <2>2, <2>3, <2>4, <2>5, <2>6 DEF Obeyed
  <1>4. CASE c.cmd = "lock"
    <2>1. a = FeatureLock(p, s, c.feature, TRUE)
      BY <1>4 DEF Execute
    <2> QED BY <1>2, <1>4, <2>1
  <1>5. CASE c.cmd = "unlock"
    <2>1. a = FeatureLock(p, s, c.feature, FALSE)
      BY <1>5 DEF Execute
    <2> QED BY <1>2, <1>5, <2>1
  <1>6. CASE c.cmd = "use"
    BY <1>1, <1>6 DEF Execute, Use, Answer
  <1>7. CASE c.cmd = "auth1"
    <2>1. a = Authenticate1(p, s, c.req) /\ c.req \in NO .. RWF
      BY <1>7 DEF Execute, IsCommand
    <2>2. CASE c.req = NO \/ GetAccessPassword(c.req) = NoPassword
      <3>1. a.p = WithAccess(p, s, c.req) /\ a.status = "OK"
        BY <2>1, <2>2 DEF Authenticate1, Answer, WithAccess
      <3>2. c.req \in c.req .. RWF
        BY <2>1 DEF NO, RWF
      <3>3. Granted(c, p.session[s].access, c.req)
        BY <2>2, <3>2 DEF Granted
      <3> QED BY <1>3, <1>7, <2>1, <3>1, <3>3
    <2>3. CASE ~(c.req = NO \/ GetAccessPassword(c.req) = NoPassword)
      <3>1. a.p = p /\ a.status = "OK"
        BY <2>1, <2>3 DEF Authenticate1, Answer
      <3> QED BY <1>1, <1>7, <2>3, <3>1
    <2> QED BY <2>2, <2>3
  <1>8. CASE c.cmd = "auth2"
    <2>1. a = Authenticate2(p, s, c.req, c.known) /\ c.req \in NO .. RWF
      BY <1>8 DEF Execute, IsCommand
    <2>2. PICK level : level = AccessFor(c.known)
      OBVIOUS
    <2>3. level \in NO .. RWF /\ (level # NO => GetAccessPassword(level) \in {c.known, NoPassword})
      BY <2>2, AccessForLemma
    <2>4. PICK access \in NO .. RWF : access = IF level <= c.req THEN level ELSE c.req
      BY <2>1, <2>3
    <2>5. a.p = WithAccess(p, s, access) /\ a.status # "none"
      BY <2>1, <2>2, <2>4 DEF Authenticate2, Answer, WithAccess
    <2>6. Granted(c, p.session[s].access, access)
      <3>1. level = NO => access = NO
        BY <2>1, <2>4 DEF NO, RWF
      <3>2. level \in access .. RWF
        BY <2>1, <2>3, <2>4 DEF NO, RWF
      <3> QED BY <1>8, <2>3, <3>1, <3>2 DEF Granted
    <2> QED BY <1>3, <1>8, <2>5, <2>6
  <1>9. CASE c.cmd \in {"read", "write"}
    <2>1. a.p = p /\ a.status \in {"EAUTH", "OK"}
      BY <1>9 DEF Execute, Memory, Answer
    <2> QED BY <1>1, <1>9, <2>1
  <1> QED BY <1>4, <1>5, <1>6, <1>7, <1>8, <1>9 DEF IsCommand

\* What each command of entry i does, the session it may get first included.
LEMMA CommandLemma ==
    ASSUME NEW p, Sound(p), NEW i \in SessionIndex, NEW c, IsCommand(c),
           NEW a, a = Command(p, i, c)
    PROVE  Obeyed(p, a.p, i, c, a.status)
  <1>1. CASE a.p = p /\ c.cmd \in {"ping", "discovery"}
    BY <1>1 DEF Obeyed, Granted, Locks, Unlocks
  <1>2. CASE c.cmd \in {"ping", "discovery"}
    BY <1>1, <1>2 DEF Command, Answer
  <1>3. ASSUME c.cmd \notin {"ping", "discovery"} PROVE Obeyed(p, a.p, i, c, a.status)
    <2>0. p \in ProtocolTables /\ a = Decode(p, i, c)
      BY <1>3 DEF Sound, Command
    <2>1. PICK s : s = FindSession(p, i)
      OBVIOUS
    <2>2. CASE s = NoSession
      <3>1. a.p = p /\ a.status = "none"
        BY <2>0, <2>1, <2>2 DEF Decode, Answer
      <3>2. \A t \in SessionIndex : p.session[t].id \notin {i, NoId}
        <4>1. s \notin SessionIndex
          BY <2>2 DEF SessionIndex, NoSession
        <4> QED BY <2>0, <2>1, <4>1, FindSessionLemma
      <3> QED BY <3>1, <3>2 DEF Obeyed, Locks, Unlocks
    <2>3. CASE s # NoSession
      <3>1. PICK m : m = CreateSession(p, i)
        OBVIOUS
      <3>2. /\ Sound(m) /\ s \in SessionIndex /\ m.feature = p.feature
            /\ m.session[s].id = i
            /\ m.session[s].access = IF p.session[s].id = i THEN p.session[s].access
                                     ELSE DefaultGrantedAccess
            /\ p.session[s].id \in {i, NoId}
            /\ \A t \in SessionIndex \ {s} : m.session[t] = p.session[t] /\ p.session[t].id # i
            /\ \A f \in FeatureIndex : p.feature[f].owner = s => p.session[s].id = i
        BY <2>1, <2>3, <3>1, CreateLemma
      <3>3. a = Execute(m, s, c)
        BY <2>0, <2>1, <2>3, <3>1 DEF Decode
      <3>4. PICK q : q = a.p
        OBVIOUS
      <3>5. Obeyed(m, q, i, c, a.status)
        BY <1>3, <3>2, <3>3, <3>4, ExecuteLemma
      <3>6. \A x \in FeatureIndex : HolderOf(m, x) = HolderOf(p, x)
        <4>1. \A x \in FeatureIndex : p.feature[x].owner \in SessionIndex \union {NoSession}
          BY <2>0, SessionsAssumption DEF ProtocolTables, LockRecords, NoSession, SessionIndex
        <4> QED BY <3>2, <4>1 DEF HolderOf
      <3>7. \A t \in SessionIndex \ {s} : m.session[t].id = p.session[t].id
        BY <3>2
      <3>8. ASSUME NEW t \in SessionIndex
            PROVE  /\ q.session[t].id = p.session[t].id \/ (p.session[t].id = NoId /\ q.session[t].id = i)
                   /\ q.session[t].id # i => q.session[t] = p.session[t]
                   /\ q.session[t].id = i /\ p.session[t].id = i =>
                          Granted(c, p.session[t].access, q.session[t].access)
                   /\ q.session[t].id = i /\ p.session[t].id # i =>
                          Granted(c, DefaultGrantedAccess, q.session[t].access)
        <4>1. i # NoId
          BY DEF SessionIndex, NoId
        <4>2. /\ q.session[t].id = m.session[t].id \/ (m.session[t].id = NoId /\ q.session[t].id = i)
              /\ q.session[t].id # i => q.session[t] = m.session[t]
              /\ q.session[t].id = i /\ m.session[t].id = i =>
                     Granted(c, m.session[t].access, q.session[t].access)
              /\ q.session[t].id = i /\ m.session[t].id # i =>
                     Granted(c, DefaultGrantedAccess, q.session[t].access)
          BY <3>5 DEF Obeyed
        <4>3. CASE t = s
          BY <3>2, <4>1, <4>2, <4>3
        <4>4. CASE t # s
          BY <3>2, <4>2, <4>4
        <4> QED BY <4>3, <4>4
      <3>9. \A x \in FeatureIndex : m.feature[x].lockCount = p.feature[x].lockCount
        BY <3>2
      <3> QED BY <3>4, <3>5, <3>6, <3>8, <3>9 DEF Obeyed
    <2> QED BY <2>2, <2>3
  <1> QED BY <1>2, <1>3
-----------------------------------------------------------------------------
(* The table of the transport.                                             *)

LEMMA InitAgree == Agree(InitNet)
  <1>1. InitNet \in NetTables
    <2>1. InitProtocol \in ProtocolTables
      BY InitSound DEF Sound
    <2>2. PICK entry \in EntryRecords : entry = [lastUsed |-> 0, address |-> ZeroAddress, rx |-> {}]
      BY DEF EntryRecords, Addresses
    <2>3. PICK net \in [SessionIndex -> EntryRecords] : net = [i \in SessionIndex |-> entry]
      OBVIOUS
    <2>4. InitNet = [net |-> net, ageCount |-> 0, p |-> InitProtocol, closed |-> {}]
      BY <2>2, <2>3 DEF InitNet
    <2> QED BY <2>1, <2>3, <2>4 DEF NetTables
  <1>2. /\ \A i \in SessionIndex : InitNet.net[i] = [lastUsed |-> 0, address |-> ZeroAddress, rx |-> {}]
        /\ InitNet.p = InitProtocol
    BY DEF InitNet
  <1>3. \A s \in SessionIndex : InitNet.p.session[s].id = NoId
    BY <1>2 DEF InitProtocol
  <1> QED BY <1>1, <1>2, <1>3, InitSound DEF Agree, Linked, Unused

\* The tables with other contents of one entry, and of the protocol layer.
LEMMA EntryReplaced ==
    ASSUME NEW net \in [SessionIndex -> EntryRecords], NEW i \in SessionIndex,
           NEW e \in EntryRecords, NEW n, n = [net EXCEPT ![i] = e]
    PROVE  /\ n \in [SessionIndex -> EntryRecords] /\ n[i] = e
           /\ \A j \in SessionIndex \ {i} : n[j] = net[j]
  OBVIOUS

\* What the tables q are when entry i of w has been closed.
EntryClosed(w, q, i) ==
    /\ Agree(q) /\ q.closed \subseteq w.closed \union {w.net[i].address}
    /\ ~Unused(w, i) => w.net[i].address \in q.closed
    /\ q.net[i].lastUsed = 0 /\ q.net[i].address = w.net[i].address /\ q.net[i].rx = {}
    /\ \A j \in SessionIndex \ {i} : q.net[j] = w.net[j]
    /\ Freed(w.p, q.p, i)

LEMMA CloseLemma ==
    ASSUME NEW w, Linked(w), NEW i \in SessionIndex, NEW q, q = NetCloseSession(w, i),
           \A j \in SessionIndex \ {i} : w.net[j].address = ZeroAddress => Unused(w, j)
    PROVE  EntryClosed(w, q, i) /\ q.ageCount = w.ageCount
  <1>0. /\ w \in NetTables /\ Sound(w.p) /\ i # NoId
        /\ w.net \in [SessionIndex -> EntryRecords] /\ w.net[i] \in EntryRecords
        /\ w.net[i].address \in Addresses
    <2>1. w \in NetTables /\ Sound(w.p) /\ i # NoId
      BY DEF Linked, SessionIndex, NoId
    <2>2. w.net \in [SessionIndex -> EntryRecords]
      BY <2>1 DEF NetTables
    <2>3. w.net[i] \in EntryRecords
      BY <2>2
    <2> QED BY <2>1, <2>2, <2>3 DEF EntryRecords
  <1>1. PICK entry \in EntryRecords : entry = [w.net[i] EXCEPT !.lastUsed = 0, !.rx = {}]
    <2>1. PICK z \in Nat : z = 0
      OBVIOUS
    <2>2. PICK none \in SUBSET Addresses : none = {}
      OBVIOUS
    <2>3. [w.net[i] EXCEPT !.lastUsed = z, !.rx = none] \in EntryRecords
      BY <1>0 DEF EntryRecords
    <2> QED BY <2>1, <2>2, <2>3
  <1>2. entry.lastUsed = 0 /\ entry.address = w.net[i].address /\ entry.rx = {}
    BY <1>0, <1>1 DEF EntryRecords
  <1>3. PICK net : net = [w.net EXCEPT ![i] = entry]
    OBVIOUS
  <1>4. /\ net \in [SessionIndex -> EntryRecords] /\ net[i] = entry
        /\ \A j \in SessionIndex \ {i} : net[j] = w.net[j]
    BY <1>0, <1>3, EntryReplaced
  <1>5. PICK p : p = IF Unused(w, i) THEN w.p ELSE FreeSession(w.p, i)
    OBVIOUS
  <1>6. Freed(w.p, p, i)
    <2>1. CASE Unused(w, i)
      <3>1. \A s \in SessionIndex : w.p.session[s].id # i
        BY <1>0, <2>1 DEF Linked
      <3>2. w.p = FreeSession(w.p, i)
        <4>1. PICK s : s = FindSession(w.p, i)
          OBVIOUS
        <4>2. s # NoSession => w.p.session[s].id # i
          BY <1>0, <3>1, <4>1, FindSessionLemma DEF Sound
        <4> QED BY <4>1, <4>2 DEF FreeSession
      <3> QED BY <1>0, <1>5, <2>1, <3>2, FreedLemma
    <2>2. CASE ~Unused(w, i)
      BY <1>0, <1>5, <2>2, FreedLemma
    <2> QED BY <2>1, <2>2
  <1>7. PICK closed \in SUBSET Addresses :
           closed = IF Unused(w, i) THEN w.closed ELSE w.closed \union {w.net[i].address}
    BY <1>0 DEF NetTables
  <1>8. q = [net |-> net, ageCount |-> w.ageCount, p |-> p, closed |-> closed]
    <2>1. CASE Unused(w, i)
      <3>1. q = [w EXCEPT !.net[i] = [@ EXCEPT !.lastUsed = 0, !.rx = {}]]
        BY <2>1 DEF NetCloseSession
      <3>2. q = [w EXCEPT !.net = net]
        BY <1>1, <1>3, <3>1
      <3> QED BY <1>0, <1>5, <1>7, <2>1, <3>2 DEF NetTables
    <2>2. CASE ~Unused(w, i)
      <3>1. PICK freed : freed = [w EXCEPT !.closed = @ \union {w.net[i].address}, !.p = FreeSession(w.p, i)]
        OBVIOUS
      <3>2. freed = [net |-> w.net, ageCount |-> w.ageCount, p |-> p, closed |-> closed]
        BY <1>0, <1>5, <1>7, <2>2, <3>1 DEF NetTables
      <3>3. q = [freed EXCEPT !.net[i] = [@ EXCEPT !.lastUsed = 0, !.rx = {}]]
        BY <2>2, <3>1 DEF NetCloseSession
      <3>4. q = [freed EXCEPT !.net = net]
        BY <1>1, <1>3, <3>2, <3>3
      <3> QED BY <3>2, <3>4
    <2> QED BY <2>1, <2>2
  <1>9. q.net = net /\ q.ageCount = w.ageCount /\ q.p = p
    BY <1>8
  <1>10. q \in NetTables
    <2>1. p \in ProtocolTables /\ w.ageCount \in Nat
      BY <1>0, <1>6 DEF Freed, Sound, NetTables
    <2> QED BY <1>4, <1>7, <1>8, <2>1 DEF NetTables
  <1>11. Agree(q)
    <2>1. ASSUME NEW s \in SessionIndex, p.session[s].id # NoId
          PROVE  ~Unused(q, p.session[s].id)
      <3>1. p.session[s].id # i /\ p.session[s] = w.p.session[s]
        BY <1>6, <2>1 DEF Freed
      <3>2. p.session[s].id \in SessionIndex
        <4>1. w.p.session \in [SessionIndex -> SessionRecords]
          BY <1>0 DEF Sound, ProtocolTables
        <4>2. w.p.session[s].id \in 0 .. SessionCount
          BY <4>1 DEF SessionRecords
        <4>3. PICK k \in 0 .. SessionCount : k = p.session[s].id
          BY <3>1, <4>2
        <4>4. k # 0
          BY <2>1, <4>3 DEF NoId
        <4>5. k \in SessionIndex
          BY <4>4, SessionsAssumption DEF SessionIndex
        <4> QED BY <4>3, <4>5
      <3>3. ~Unused(w, p.session[s].id)
        BY <2>1, <3>1 DEF Linked
      <3> QED BY <1>4, <1>9, <3>1, <3>2, <3>3 DEF Unused
    <2>2. \A j \in SessionIndex : q.net[j].address = w.net[j].address
      BY <1>2, <1>4, <1>9
    <2>3. \A j \in SessionIndex : q.net[j].address = ZeroAddress => Unused(q, j)
      BY <1>2, <1>4, <1>9 DEF Unused
    <2>4. \A j \in SessionIndex : q.net[j].rx \subseteq {q.net[j].address}
      BY <1>2, <1>4, <1>9 DEF Linked
    <2>5. Sound(q.p)
      BY <1>6, <1>9 DEF Freed
    <2> QED BY <1>9, <1>10, <2>1, <2>2, <2>3, <2>4, <2>5 DEF Agree, Linked
  <1>12. /\ q.closed \subseteq w.closed \union {w.net[i].address}
         /\ ~Unused(w, i) => w.net[i].address \in q.closed
    BY <1>7, <1>8
  <1> QED BY <1>2, <1>4, <1>6, <1>9, <1>11, <1>12 DEF EntryClosed

\* When no entry is free, one that nobody has used for longer than it.
LEMMA OldestLemma ==
    ASSUME NEW w, w \in NetTables, NEW i, i = Oldest(w)
    PROVE  i \in SessionIndex /\ \A j \in SessionIndex : w.net[i].lastUsed <= w.net[j].lastUsed
  <1> DEFINE used   == {w.net[j].lastUsed : j \in SessionIndex}
             oldest == {k \in SessionIndex : \A j \in SessionIndex : w.net[k].lastUsed <= w.net[j].lastUsed}
  <1>1. \A j \in SessionIndex : w.net[j].lastUsed \in Nat
    BY DEF NetTables, EntryRecords
  <1>2. used \in SUBSET Nat /\ 1 \in SessionIndex
    BY <1>1, SessionsAssumption DEF SessionIndex
  <1>2a. used # {}
    BY <1>2
  <1>3. \E m \in used : \A n \in used : m <= n
    <2> HIDE DEF used
    <2> QED BY <1>2, <1>2a, LeastNat
  <1>4. oldest # {}
    BY <1>3
  <1>5. First(oldest) \in oldest
    BY <1>4, FirstLemma
  <1> QED BY <1>5 DEF Oldest

\* An address finds the entry that has it, or else a free one, or else, when
\* none is free, one that nobody has used for longer than it.
LEMMA FindNetLemma ==
    ASSUME NEW w, w \in NetTables, NEW address, NEW i, i = FindNetSession(w, address)
    PROVE  /\ i \in SessionIndex
           /\ w.net[i].address # address =>
                 /\ \A j \in SessionIndex : w.net[j].address # address
                 /\ \/ Unused(w, i)
                    \/ \A j \in SessionIndex : ~Unused(w, j) /\ w.net[i].lastUsed <= w.net[j].lastUsed
  <1> DEFINE same == {j \in SessionIndex : w.net[j].address = address}
             free == {j \in SessionIndex : Unused(w, j)}
  <1>1. CASE same # {}
    <2>1. First(same) \in same
      BY <1>1, FirstLemma
    <2> QED BY <1>1, <2>1 DEF FindNetSession
  <1>2. CASE same = {} /\ free # {}
    <2>1. First(free) \in free
      BY <1>2, FirstLemma
    <2>2. i = First(free)
      BY <1>2 DEF FindNetSession
    <2> QED BY <1>2, <2>1, <2>2
  <1>3. CASE same = {} /\ free = {}
    <2>1. i = Oldest(w)
      BY <1>3 DEF FindNetSession, Victim
    <2>2. i \in SessionIndex /\ \A j \in SessionIndex : w.net[i].lastUsed <= w.net[j].lastUsed
      BY <2>1, OldestLemma
    <2> QED BY <1>3, <2>2
  <1> QED BY <1>1, <1>2, <1>3

\* The age a client gets that is heard.
NextAge(w) == (IF w.ageCount >= AgeMax THEN 0 ELSE w.ageCount) + 1

\* The protocol layer when entry i of w is handed to a, whose it may be already.
Handed(w, p, i, a) == IF w.net[i].address = a THEN p = w.p ELSE Freed(w.p, p, i)

\* The driver is told to close the connection of the client that had entry i,
\* or none.
OnlyCloses(w, q, i, a) == q.closed \subseteq w.closed \union ({w.net[i].address} \ {a})

\* What the tables q are when entry i of w serves a, who was heard: it did, or
\* it has been closed and given to a.
Given(w, q, i, a) ==
    /\ Agree(q) /\ i \in SessionIndex
    /\ OnlyCloses(w, q, i, a)
    /\ q.ageCount = NextAge(w) /\ q.net[i].lastUsed = NextAge(w) /\ q.net[i].address = a
    /\ \A j \in SessionIndex \ {i} : q.net[j] = w.net[j] /\ w.net[j].address # a
    /\ Handed(w, q.p, i, a)
    /\ \/ w.net[i].address = a \/ Unused(w, i)
       \/ \A j \in SessionIndex : ~Unused(w, j) /\ w.net[i].lastUsed <= w.net[j].lastUsed

WithEntry(w, i, e)          == [w EXCEPT !.net[i] = e]
WithAgedEntry(w, age, i, e) == [w EXCEPT !.ageCount = age, !.net[i] = e]

LEMMA TableEntryReplaced ==
    ASSUME NEW w, w \in NetTables, NEW i \in SessionIndex, NEW e \in EntryRecords, NEW age \in Nat,
           NEW q, q = WithAgedEntry(w, age, i, e)
    PROVE  /\ q \in NetTables /\ q.p = w.p /\ q.ageCount = age /\ q.closed = w.closed
           /\ q.net[i] = e /\ \A j \in SessionIndex \ {i} : q.net[j] = w.net[j]
  <1>1. w.net \in [SessionIndex -> EntryRecords]
    BY DEF NetTables
  <1>2. PICK net : net = [w.net EXCEPT ![i] = e]
    OBVIOUS
  <1>3. /\ net \in [SessionIndex -> EntryRecords] /\ net[i] = e
        /\ \A j \in SessionIndex \ {i} : net[j] = w.net[j]
    BY <1>1, <1>2, EntryReplaced
  <1>4. q = [w EXCEPT !.ageCount = age, !.net = net]
    BY <1>2 DEF WithAgedEntry
  <1>5. q = [net |-> net, ageCount |-> age, p |-> w.p, closed |-> w.closed]
    BY <1>4 DEF NetTables
  <1> QED BY <1>3, <1>5 DEF NetTables

\* An entry is given to a client once nobody else has it.
LEMMA GivenLemma ==
    ASSUME NEW w, Agree(w), NEW a \in Clients, NEW i \in SessionIndex,
           \A j \in SessionIndex \ {i} : w.net[j].address # a,
           \/ w.net[i].address = a \/ Unused(w, i)
           \/ \A j \in SessionIndex : ~Unused(w, j) /\ w.net[i].lastUsed <= w.net[j].lastUsed,
           NEW age \in Nat, age = NextAge(w), age > 0,
           NEW m, Linked(m), OnlyCloses(w, m, i, a),
           \A j \in SessionIndex \ {i} : m.net[j] = w.net[j], Handed(w, m.p, i, a),
           NEW e \in EntryRecords, e.lastUsed = age, e.address = a, e.rx \subseteq {a},
           NEW q, q = WithAgedEntry(m, age, i, e)
    PROVE  Given(w, q, i, a)
  <1>1. m \in NetTables
    BY DEF Linked
  <1>2. /\ q \in NetTables /\ q.p = m.p /\ q.ageCount = age /\ q.closed = m.closed
        /\ q.net[i] = e /\ \A j \in SessionIndex \ {i} : q.net[j] = m.net[j]
    BY <1>1, TableEntryReplaced
  <1>3. \A j \in SessionIndex \ {i} : q.net[j] = w.net[j] /\ w.net[j].address # a
    BY <1>2
  <1>4. \A s \in SessionIndex : q.p.session[s].id # NoId => ~Unused(q, q.p.session[s].id)
    <2>1. ~Unused(q, i)
      BY <1>2 DEF Unused
    <2>2. \A s \in SessionIndex : q.p.session[s].id \in 0 .. SessionCount
      <3>1. q.p.session \in [SessionIndex -> SessionRecords]
        BY <1>2 DEF NetTables, ProtocolTables
      <3> QED BY <3>1 DEF SessionRecords
    <2>3. \A s \in SessionIndex : q.p.session[s].id # NoId => q.p.session[s].id \in SessionIndex
      <3>1. \A n \in 0 .. SessionCount : n # NoId => n \in SessionIndex
        BY SessionsAssumption DEF SessionIndex, NoId
      <3> QED BY <2>2, <3>1
    <2>4. \A s \in SessionIndex : q.p.session[s].id # NoId => ~Unused(m, q.p.session[s].id)
      BY <1>2 DEF Linked
    <2> QED BY <1>2, <2>1, <2>3, <2>4 DEF Unused
  <1>5. \A j, k \in SessionIndex :
           j # k /\ q.net[j].address = q.net[k].address => q.net[j].address = ZeroAddress
    <2>1. \A j, k \in SessionIndex \ {i} :
             j # k /\ q.net[j].address = q.net[k].address => q.net[j].address = ZeroAddress
      BY <1>2 DEF Linked
    <2> QED BY <1>2, <1>3, <2>1
  <1>6. \A j \in SessionIndex : q.net[j].rx \subseteq {q.net[j].address}
    BY <1>2 DEF Linked
  <1>7. \A j \in SessionIndex : q.net[j].address = ZeroAddress => Unused(q, j)
    BY <1>2, <1>3, NetAssumption DEF Agree, Unused
  <1>8. Sound(q.p)
    BY <1>2 DEF Linked
  <1>9. Agree(q)
    BY <1>2, <1>4, <1>5, <1>6, <1>7, <1>8 DEF Agree, Linked
  <1>10. OnlyCloses(w, q, i, a)
    BY <1>2 DEF OnlyCloses
  <1> QED BY <1>2, <1>3, <1>9, <1>10 DEF Given

\* A client that is heard gets an entry.
LEMMA FoundLemma ==
    ASSUME NEW w, Agree(w), NEW a \in Clients, NEW i, i = FindNetSession(w, a),
           NEW q, q = Found(w, a, TRUE)
    PROVE  Given(w, q, i, a)
  <1>0. w \in NetTables /\ Linked(w) /\ a \in Addresses /\ a # ZeroAddress
    BY NetAssumption DEF Agree, Linked, Addresses
  <1>1. /\ i \in SessionIndex
        /\ w.net[i].address # a =>
              /\ \A j \in SessionIndex : w.net[j].address # a
              /\ \/ Unused(w, i)
                 \/ \A j \in SessionIndex : ~Unused(w, j) /\ w.net[i].lastUsed <= w.net[j].lastUsed
    BY <1>0, FindNetLemma
  <1>2. PICK age \in Nat : age = NextAge(w) /\ age > 0
    <2>1. w.ageCount \in Nat
      BY <1>0 DEF NetTables
    <2> QED BY <2>1 DEF NextAge
  <1>3. w.net[i].address = a => \A j \in SessionIndex \ {i} : w.net[j].address # a
    BY <1>0, <1>1 DEF Linked
  <1>5. CASE w.net[i].address = a
    <2>1. w.net[i] \in EntryRecords
      BY <1>0, <1>1 DEF NetTables
    <2>2. PICK e \in EntryRecords : e = [w.net[i] EXCEPT !.lastUsed = age]
      BY <2>1 DEF EntryRecords
    <2>3. e.lastUsed = age /\ e.address = a /\ e.rx = w.net[i].rx
      BY <1>5, <2>1, <2>2 DEF EntryRecords
    <2>4. q = [w EXCEPT !.ageCount = age, !.net[i].lastUsed = age]
      BY <1>2, <1>5 DEF Found, NextAge
    <2>5. q = WithAgedEntry(w, age, i, e)
      BY <2>2, <2>4 DEF WithAgedEntry
    <2>6. e.rx \subseteq {a}
      BY <1>0, <1>1, <1>5, <2>3 DEF Linked
    <2>7. Handed(w, w.p, i, a)
      BY <1>5 DEF Handed
    <2>8. OnlyCloses(w, w, i, a)
      BY DEF OnlyCloses
    <2> QED BY <1>0, <1>1, <1>2, <1>3, <1>5, <2>3, <2>5, <2>6, <2>7, <2>8, GivenLemma
  <1>6. CASE w.net[i].address # a
    <2>1. PICK m : m = NetCloseSession(w, i)
      OBVIOUS
    <2>2. EntryClosed(w, m, i)
      BY <1>1, <2>1, CloseLemma DEF Agree
    <2>3. Linked(m) /\ m.net[i] \in EntryRecords /\ m.net[i].rx = {}
      <3>1. m \in NetTables
        BY <2>2 DEF EntryClosed, Agree, Linked
      <3> QED BY <1>1, <2>2, <3>1 DEF EntryClosed, Agree, NetTables
    <2>4. PICK e \in EntryRecords : e = [m.net[i] EXCEPT !.lastUsed = age, !.address = a]
      BY <1>0, <2>3 DEF EntryRecords
    <2>5. e.lastUsed = age /\ e.address = a /\ e.rx = {}
      BY <2>3, <2>4 DEF EntryRecords
    <2>6. q = [m EXCEPT !.ageCount = age, !.net[i] = [@ EXCEPT !.lastUsed = age, !.address = a]]
      BY <1>2, <1>6, <2>1 DEF Found, NextAge
    <2>7. q = WithAgedEntry(m, age, i, e)
      BY <2>4, <2>6 DEF WithAgedEntry
    <2>8. Handed(w, m.p, i, a) /\ \A j \in SessionIndex \ {i} : m.net[j] = w.net[j]
      BY <1>6, <2>2 DEF EntryClosed, Handed
    <2>9. \A j \in SessionIndex \ {i} : w.net[j].address # a
      BY <1>1, <1>6
    <2>10. \/ Unused(w, i)
           \/ \A j \in SessionIndex : ~Unused(w, j) /\ w.net[i].lastUsed <= w.net[j].lastUsed
      BY <1>1, <1>6
    <2>11. OnlyCloses(w, m, i, a)
      BY <1>6, <2>2 DEF EntryClosed, OnlyCloses
    <2> QED BY <1>1, <1>2, <2>3, <2>5, <2>7, <2>8, <2>9, <2>10, <2>11, GivenLemma
  <1> QED BY <1>5, <1>6
-----------------------------------------------------------------------------
(* What _FMSTR_NetProcess makes of the tables, by what is received.        *)

\* Forgetting what the driver has been told, as the end of FMSTR_Poll does.
WithClosed(w, closed) == [w EXCEPT !.closed = closed]

LEMMA ClosedReplaced ==
    ASSUME NEW w, w \in NetTables, NEW q, q = WithClosed(w, {})
    PROVE  /\ q \in NetTables /\ q.net = w.net /\ q.ageCount = w.ageCount /\ q.p = w.p
           /\ q.closed = {}
  BY DEF NetTables, WithClosed

\* Bytes that belong to the address of an entry are added to it, or dropped.
LEMMA BytesReplaced ==
    ASSUME NEW w, NEW m, NEW i, NEW a \in Clients, Given(w, m, i, a),
           NEW e \in EntryRecords, e.lastUsed = m.net[i].lastUsed, e.address = a, e.rx \subseteq {a},
           NEW q, q = WithEntry(m, i, e)
    PROVE  Given(w, q, i, a) /\ q.p = m.p
  <1>0. Agree(m) /\ i \in SessionIndex /\ m \in NetTables
    BY DEF Given, Agree, Linked
  <1>2. e.lastUsed = m.net[i].lastUsed /\ e.address = m.net[i].address
    BY DEF Given
  <1>3. PICK age \in Nat : age = m.ageCount
    BY <1>0 DEF NetTables
  <1>4. q = WithAgedEntry(m, age, i, e)
    <2>1. PICK net : net = [m.net EXCEPT ![i] = e]
      OBVIOUS
    <2>2. q = [net |-> net, ageCount |-> m.ageCount, p |-> m.p, closed |-> m.closed]
      <3>1. q = [m EXCEPT !.net = net]
        BY <2>1 DEF WithEntry
      <3> QED BY <1>0, <3>1 DEF NetTables
    <2>3. WithAgedEntry(m, age, i, e) = [net |-> net, ageCount |-> age, p |-> m.p, closed |-> m.closed]
      <3>1. WithAgedEntry(m, age, i, e) = [m EXCEPT !.ageCount = age, !.net = net]
        BY <2>1 DEF WithAgedEntry
      <3> QED BY <1>0, <3>1 DEF NetTables
    <2> QED BY <1>3, <2>2, <2>3
  <1>5. /\ q \in NetTables /\ q.p = m.p /\ q.ageCount = age /\ q.closed = m.closed
        /\ q.net[i] = e /\ \A j \in SessionIndex \ {i} : q.net[j] = m.net[j]
    BY <1>0, <1>2, <1>4, TableEntryReplaced
  <1>6. \A j \in SessionIndex : /\ q.net[j].address = m.net[j].address
                                /\ Unused(q, j) <=> Unused(m, j)
                                /\ q.net[j].lastUsed = m.net[j].lastUsed
    BY <1>2, <1>5 DEF Unused
  <1>7. \A s \in SessionIndex : q.p.session[s].id # NoId => q.p.session[s].id \in SessionIndex
    <2>1. q.p.session \in [SessionIndex -> SessionRecords]
      BY <1>5 DEF NetTables, ProtocolTables
    <2>2. \A s \in SessionIndex : q.p.session[s].id \in 0 .. SessionCount
      BY <2>1 DEF SessionRecords
    <2>3. \A n \in 0 .. SessionCount : n # NoId => n \in SessionIndex
      BY SessionsAssumption DEF SessionIndex, NoId
    <2> QED BY <2>2, <2>3
  <1>8. Agree(q)
    <2>1. \A j \in SessionIndex : q.net[j].rx \subseteq {q.net[j].address}
      <3>1. q.net[i].address = a
        BY <1>0, <1>6 DEF Given
      <3> QED BY <1>0, <1>2, <1>5, <3>1 DEF Agree, Linked
    <2>2. \A s \in SessionIndex : q.p.session[s].id # NoId => ~Unused(q, q.p.session[s].id)
      BY <1>0, <1>5, <1>6, <1>7 DEF Agree, Linked
    <2>3. \A j, k \in SessionIndex :
             j # k /\ q.net[j].address = q.net[k].address => q.net[j].address = ZeroAddress
      BY <1>0, <1>6 DEF Agree, Linked
    <2>4. \A j \in SessionIndex : q.net[j].address = ZeroAddress => Unused(q, j)
      BY <1>0, <1>6 DEF Agree
    <2>5. Sound(q.p)
      BY <1>0, <1>5 DEF Agree, Linked
    <2> QED BY <1>5, <2>1, <2>2, <2>3, <2>4, <2>5 DEF Agree, Linked
  <1> QED BY <1>0, <1>3, <1>5, <1>6, <1>8 DEF Given, OnlyCloses

LEMMA IncompleteLemma ==
    ASSUME NEW w, Agree(w), NEW a \in Clients, NEW q, q = Incomplete(w, a)
    PROVE  Given(w, q, FindNetSession(w, a), a)
  <1>1. PICK i : i = FindNetSession(w, a)
    OBVIOUS
  <1>2. PICK m : m = Found(w, a, TRUE)
    OBVIOUS
  <1>3. Given(w, m, i, a)
    BY <1>1, <1>2, FoundLemma
  <1>4. m.net[i].rx \subseteq {a}
    BY <1>3 DEF Given, Agree, Linked
  <1>5. PICK rx : rx = m.net[i].rx \union {a}
    OBVIOUS
  <1>6. PICK e \in EntryRecords : e.lastUsed = m.net[i].lastUsed /\ e.address = a /\ e.rx = rx
                                 /\ e = [m.net[i] EXCEPT !.rx = rx]
    <2>1. m \in NetTables /\ i \in SessionIndex /\ a \in Addresses /\ m.net[i].address = a
      BY <1>3 DEF Given, Agree, Linked, Addresses
    <2>2. m.net[i] \in EntryRecords
      BY <2>1 DEF NetTables
    <2>3. PICK b \in SUBSET Addresses : b = rx
      BY <1>4, <1>5, <2>1
    <2> QED BY <2>1, <2>2, <2>3 DEF EntryRecords
  <1>7. q = WithEntry(m, i, e)
    <2>1. m \in NetTables /\ i \in SessionIndex
      BY <1>3 DEF Given, Agree, Linked
    <2>2. m.net[i] \in EntryRecords
      BY <2>1 DEF NetTables
    <2> QED BY <1>1, <1>2, <1>5, <1>6, <2>1, <2>2 DEF Incomplete, WithEntry, EntryRecords, NetTables
  <1>8. e.lastUsed = m.net[i].lastUsed /\ e.address = a /\ e.rx \subseteq {a}
    BY <1>4, <1>5, <1>6
  <1>9. Given(w, q, i, a)
    BY <1>3, <1>7, <1>8, BytesReplaced
  <1> QED BY <1>1, <1>9

LEMMA BrokenLemma ==
    ASSUME NEW w, Agree(w), NEW a \in Clients, NEW q, q = Broken(w, a)
    PROVE  \E m : /\ Given(w, m, FindNetSession(w, a), a)
                  /\ EntryClosed(m, q, FindNetSession(w, a)) /\ q.ageCount = m.ageCount
  <1>1. PICK i : i = FindNetSession(w, a)
    OBVIOUS
  <1>2. PICK m : m = Found(w, a, TRUE)
    OBVIOUS
  <1>3. Given(w, m, i, a)
    BY <1>1, <1>2, FoundLemma
  <1>4. q = NetCloseSession(m, i)
    BY <1>1, <1>2 DEF Broken
  <1>5. i \in SessionIndex /\ Agree(m)
    BY <1>3 DEF Given
  <1>6. EntryClosed(m, q, i) /\ q.ageCount = m.ageCount
    BY <1>4, <1>5, CloseLemma DEF Agree
  <1> QED BY <1>1, <1>3, <1>6

\* What the tables n are when command c of the client of entry i has been
\* answered with status.
Commanded(m, n, i, c, status) ==
    /\ Agree(n) /\ n.net = m.net /\ n.ageCount = m.ageCount /\ n.closed = m.closed
    /\ Obeyed(m.p, n.p, i, c, status)

LEMMA CommandedLemma ==
    ASSUME NEW m, Agree(m), NEW i \in SessionIndex, ~Unused(m, i), NEW c, IsCommand(c),
           NEW a, a = Command(m.p, i, c), NEW n, n = [m EXCEPT !.p = a.p]
    PROVE  Commanded(m, n, i, c, a.status)
  <1>1. m \in NetTables /\ Sound(m.p)
    BY DEF Agree, Linked
  <1>2. PICK p : p = a.p
    OBVIOUS
  <1>3. Obeyed(m.p, p, i, c, a.status)
    BY <1>1, <1>2, CommandLemma
  <1>4. Sound(p) /\ p \in ProtocolTables
    BY <1>3 DEF Obeyed, Sound
  <1>5. n = [net |-> m.net, ageCount |-> m.ageCount, p |-> p, closed |-> m.closed]
    BY <1>1, <1>2 DEF NetTables
  <1>6. n \in NetTables /\ n.net = m.net /\ n.ageCount = m.ageCount /\ n.closed = m.closed /\ n.p = p
    BY <1>1, <1>4, <1>5 DEF NetTables
  <1>7. \A s \in SessionIndex : p.session[s].id # NoId => ~Unused(n, p.session[s].id)
    <2>1. \A s \in SessionIndex :
             p.session[s].id = m.p.session[s].id \/ (m.p.session[s].id = NoId /\ p.session[s].id = i)
      BY <1>3 DEF Obeyed
    <2>2. \A s \in SessionIndex : p.session[s].id # NoId => ~Unused(m, p.session[s].id)
      BY <2>1 DEF Agree, Linked
    <2> QED BY <1>6, <2>2 DEF Unused
  <1>8. Agree(n)
    <2>1. /\ \A i1, i2 \in SessionIndex :
                i1 # i2 /\ n.net[i1].address = n.net[i2].address => n.net[i1].address = ZeroAddress
          /\ \A k \in SessionIndex : n.net[k].rx \subseteq {n.net[k].address}
      BY <1>6 DEF Agree, Linked
    <2>2. \A k \in SessionIndex : n.net[k].address = ZeroAddress => Unused(n, k)
      BY <1>6 DEF Agree, Unused
    <2>3. Linked(n)
      BY <1>4, <1>6, <1>7, <2>1 DEF Linked
    <2> QED BY <2>2, <2>3 DEF Agree
  <1> QED BY <1>3, <1>6, <1>8 DEF Commanded

LEMMA CompleteLemma ==
    ASSUME NEW w, Agree(w), NEW a \in Clients, NEW c, IsCommand(c), NEW how,
           NEW q, q = Complete(w, a, c, how).d, NEW status, status = Complete(w, a, c, how).status
    PROVE  \E m, n : /\ Given(w, m, FindNetSession(w, a), a)
                     /\ Commanded(m, n, FindNetSession(w, a), c, status)
                     /\ \/ q = n
                        \/ /\ how # "whole" /\ EntryClosed(n, q, FindNetSession(w, a))
                           /\ q.ageCount = n.ageCount
  <1>1. PICK i : i = FindNetSession(w, a)
    OBVIOUS
  <1>2. PICK k : k = Found(w, a, TRUE)
    OBVIOUS
  <1>3. Given(w, k, i, a)
    BY <1>1, <1>2, FoundLemma
  <1>4. PICK rx : rx = {}
    OBVIOUS
  <1>5. PICK e \in EntryRecords : e.lastUsed = k.net[i].lastUsed /\ e.address = a /\ e.rx = rx
                                 /\ e = [k.net[i] EXCEPT !.rx = rx]
    <2>1. k \in NetTables /\ i \in SessionIndex /\ a \in Addresses /\ k.net[i].address = a
      BY <1>3 DEF Given, Agree, Linked, Addresses
    <2>2. k.net[i] \in EntryRecords
      BY <2>1 DEF NetTables
    <2>3. PICK b \in SUBSET Addresses : b = rx
      BY <1>4, <2>1
    <2> QED BY <2>1, <2>2, <2>3 DEF EntryRecords
  <1>6. PICK m : m = WithEntry(k, i, e)
    OBVIOUS
  <1>7. Given(w, m, i, a)
    BY <1>3, <1>4, <1>5, <1>6, BytesReplaced
  <1>8. m = [k EXCEPT !.net[i].rx = {}]
    <2>1. k \in NetTables /\ i \in SessionIndex
      BY <1>3 DEF Given, Agree, Linked
    <2>2. k.net[i] \in EntryRecords
      BY <2>1 DEF NetTables
    <2> QED BY <1>4, <1>5, <1>6, <2>1, <2>2 DEF WithEntry, EntryRecords, NetTables
  <1>9. PICK answer : answer = Command(m.p, i, c)
    OBVIOUS
  <1>10. PICK n : n = [m EXCEPT !.p = answer.p]
    OBVIOUS
  <1>11. /\ status = answer.status
         /\ q = IF how = "whole" \/ answer.status = "none" THEN n ELSE NetCloseSession(n, i)
    <2>1. Complete(w, a, c, how) =
             [d |-> IF how = "whole" \/ answer.status = "none" THEN n ELSE NetCloseSession(n, i),
              status |-> answer.status]
      BY <1>1, <1>2, <1>8, <1>9, <1>10 DEF Complete
    <2> QED BY <2>1
  <1>12. Agree(m) /\ i \in SessionIndex /\ ~Unused(m, i)
    <2>1. w.ageCount \in Nat
      BY DEF Agree, Linked, NetTables
    <2>2. NextAge(w) # 0
      BY <2>1 DEF NextAge
    <2> QED BY <1>7, <2>2 DEF Given, Unused
  <1>13. Commanded(m, n, i, c, status)
    BY <1>9, <1>10, <1>11, <1>12, CommandedLemma
  <1>14. q # n => EntryClosed(n, q, i) /\ q.ageCount = n.ageCount /\ how # "whole"
    <2>1. Agree(n)
      BY <1>13 DEF Commanded
    <2> QED BY <1>11, <1>12, <2>1, CloseLemma DEF Agree
  <1> QED BY <1>1, <1>7, <1>13, <1>14

\* A client that disconnects, or receiving that fails, closes the entry found.
LEMMA DisconnectedLemma ==
    ASSUME NEW w, Agree(w), NEW a \in Addresses, NEW q, q = Disconnected(w, a)
    PROVE  EntryClosed(w, q, FindNetSession(w, a)) /\ q.ageCount \in {NextAge(w) - 1, NextAge(w)}
  <1>0. w \in NetTables /\ Linked(w)
    BY DEF Agree, Linked
  <1>1. PICK i : i = FindNetSession(w, a)
    OBVIOUS
  <1>2. i \in SessionIndex
    BY <1>0, <1>1, FindNetLemma
  <1>2a. PICK age \in Nat : age = IF w.ageCount >= AgeMax THEN 0 ELSE w.ageCount
    BY <1>0 DEF NetTables
  <1>3. age = NextAge(w) - 1 /\ age + 1 = NextAge(w)
    BY <1>2a DEF NextAge
  <1>4. PICK m : m = Found(w, a, FALSE)
    OBVIOUS
  <1>5. w.net[i] \in EntryRecords
    BY <1>0, <1>2 DEF NetTables
  <1>6. PICK e \in EntryRecords : /\ e.address = w.net[i].address /\ e.rx = w.net[i].rx
                                  /\ e = [w.net[i] EXCEPT !.lastUsed = age + 1]
    <2>1. PICK k \in Nat : k = age + 1
      OBVIOUS
    <2> QED BY <1>5, <2>1 DEF EntryRecords
  <1>7. /\ m \in NetTables /\ m.p = w.p /\ m.ageCount \in {NextAge(w) - 1, NextAge(w)}
        /\ m.closed = w.closed
        /\ \A j \in SessionIndex \ {i} : m.net[j] = w.net[j]
        /\ m.net[i].address = w.net[i].address /\ m.net[i].rx = w.net[i].rx
        /\ ~Unused(w, i) => ~Unused(m, i)
    <2>1. CASE w.net[i].address = a
      <3>1. m = [w EXCEPT !.ageCount = age + 1, !.net[i].lastUsed = age + 1]
        BY <1>1, <1>2a, <1>4, <2>1 DEF Found
      <3>2. PICK next \in Nat : next = age + 1
        OBVIOUS
      <3>3. m = WithAgedEntry(w, next, i, e)
        BY <1>6, <3>1, <3>2 DEF WithAgedEntry
      <3>4. /\ m \in NetTables /\ m.p = w.p /\ m.ageCount = next /\ m.closed = w.closed
            /\ m.net[i] = e /\ \A j \in SessionIndex \ {i} : m.net[j] = w.net[j]
        BY <1>0, <1>2, <3>3, TableEntryReplaced
      <3>5. e.lastUsed = next
        BY <1>5, <1>6, <3>2 DEF EntryRecords
      <3>6. next # 0
        BY <3>2
      <3> QED BY <1>3, <1>6, <3>2, <3>4, <3>5, <3>6 DEF Unused
    <2>2. CASE w.net[i].address # a
      <3>1. m = [w EXCEPT !.ageCount = age]
        BY <1>1, <1>2a, <1>4, <2>2 DEF Found
      <3>2. m \in NetTables /\ m.p = w.p /\ m.ageCount = age /\ m.closed = w.closed /\ m.net = w.net
        BY <1>0, <3>1 DEF NetTables
      <3> QED BY <1>3, <3>2 DEF Unused
    <2> QED BY <2>1, <2>2
  <1>8. Linked(m)
    <2>1. \A s \in SessionIndex : m.p.session[s].id # NoId => ~Unused(m, m.p.session[s].id)
      <3>1. \A s \in SessionIndex : m.p.session[s].id # NoId => m.p.session[s].id \in SessionIndex
        <4>1. m.p.session \in [SessionIndex -> SessionRecords]
          BY <1>7 DEF NetTables, ProtocolTables
        <4>2. \A s \in SessionIndex : m.p.session[s].id \in 0 .. SessionCount
          BY <4>1 DEF SessionRecords
        <4>3. \A n \in 0 .. SessionCount : n # NoId => n \in SessionIndex
          BY SessionsAssumption DEF SessionIndex, NoId
        <4> QED BY <4>2, <4>3
      <3>2. \A j \in SessionIndex : ~Unused(w, j) => ~Unused(m, j)
        BY <1>7 DEF Unused
      <3> QED BY <1>0, <1>7, <3>1, <3>2 DEF Linked
    <2>2. \A j \in SessionIndex : m.net[j].address = w.net[j].address /\ m.net[j].rx = w.net[j].rx
      BY <1>7
    <2>3. Sound(m.p)
      BY <1>0, <1>7 DEF Linked
    <2> QED BY <1>0, <1>7, <2>1, <2>2, <2>3 DEF Linked
  <1>9. \A j \in SessionIndex \ {i} : m.net[j].address = ZeroAddress => Unused(m, j)
    BY <1>7 DEF Agree, Unused
  <1>10. q = NetCloseSession(m, i)
    BY <1>1, <1>4 DEF Disconnected
  <1>11. EntryClosed(m, q, i) /\ q.ageCount = m.ageCount
    BY <1>2, <1>8, <1>9, <1>10, CloseLemma
  <1>12. EntryClosed(w, q, i)
    BY <1>2, <1>7, <1>11 DEF EntryClosed
  <1> QED BY <1>1, <1>7, <1>11, <1>12
-----------------------------------------------------------------------------
(* What a client's commands are answered.                                  *)

\* There are as many sessions as entries, so the client of an entry in use has
\* a session or finds a free one.
LEMMA SessionForEveryEntry ==
    ASSUME NEW w, Agree(w), NEW i \in SessionIndex
    PROVE  FindSession(w.p, i) \in SessionIndex
  <1>0. w.p \in ProtocolTables /\ Sound(w.p)
    BY DEF Agree, Linked, Sound
  <1>1. SUFFICES ASSUME FindSession(w.p, i) \notin SessionIndex PROVE FALSE
    OBVIOUS
  <1>2. \A s \in SessionIndex : w.p.session[s].id \notin {i, NoId}
    BY <1>0, <1>1, FindSessionLemma
  <1>3. w.p.session \in [SessionIndex -> SessionRecords]
    BY <1>0 DEF ProtocolTables
  <1>4. \A s \in SessionIndex : w.p.session[s].id \in SessionIndex \ {i}
    <2>1. \A s \in SessionIndex : w.p.session[s].id \in 0 .. SessionCount
      BY <1>3 DEF SessionRecords
    <2>2. \A n \in 0 .. SessionCount : n # NoId => n \in SessionIndex
      BY SessionsAssumption DEF SessionIndex, NoId
    <2> QED BY <1>2, <2>1, <2>2
  <1>5. PICK f \in [SessionIndex -> SessionIndex \ {i}] : \A s \in SessionIndex : f[s] = w.p.session[s].id
    <2>1. [s \in SessionIndex |-> w.p.session[s].id] \in [SessionIndex -> SessionIndex \ {i}]
      BY <1>4
    <2> QED BY <2>1
  <1>6. /\ IsFiniteSet(SessionIndex) /\ Cardinality(SessionIndex) = SessionCount
        /\ IsFiniteSet(SessionIndex \ {i}) /\ Cardinality(SessionIndex \ {i}) = SessionCount - 1
    <2>1. /\ IsFiniteSet(1 .. SessionCount)
          /\ Cardinality(1 .. SessionCount) = IF 1 > SessionCount THEN 0 ELSE SessionCount - 1 + 1
      <3>1. 1 \in Int /\ SessionCount \in Int
        BY SessionsAssumption
      <3> QED BY <3>1, FS_Interval, Zenon
    <2>2. IsFiniteSet(SessionIndex) /\ Cardinality(SessionIndex) = SessionCount
      BY <2>1, SessionsAssumption DEF SessionIndex
    <2> QED BY <2>2, FS_RemoveElement
  <1>7. Cardinality(SessionIndex) > Cardinality(SessionIndex \ {i})
    BY <1>6, SessionsAssumption
  <1>8. \E s, t \in SessionIndex : s # t /\ f[s] = f[t]
    BY <1>6, <1>7, FS_PigeonHole
  <1> QED BY <1>0, <1>2, <1>5, <1>8 DEF Sound

\* A command that needs a feature is answered only for who holds its lock.
LEMMA UseLemma ==
    ASSUME NEW p, Sound(p), NEW i \in SessionIndex, NEW f, f.instance \in Nat,
           NEW c, c.cmd = "use", c.feature = f, Command(p, i, c).status = "OK"
    PROVE  /\ FeatureGet(f) \in FeatureIndex /\ HolderOf(p, FeatureGet(f)) = i
           /\ p.feature[FeatureGet(f)].lockCount > 0
  <1>1. PICK s : s = FindSession(p, i)
    OBVIOUS
  <1>2. PICK m : m = CreateSession(p, i)
    OBVIOUS
  <1>3. s # NoSession /\ Execute(m, s, c).status = "OK"
    BY <1>1, <1>2 DEF Command, Decode, Answer
  <1>4. IsFeatureOwned(m, s, f)
    BY <1>3 DEF Execute, Use, Answer
  <1>5. PICK x : x = FeatureGet(f)
    OBVIOUS
  <1>6. x \in FeatureIndex /\ m.feature[x].owner = s /\ m.feature[x].lockCount > 0
    BY <1>4, <1>5, FeatureRange DEF IsFeatureOwned
  <1>7. m.feature = p.feature /\ (p.feature[x].owner = s => p.session[s].id = i)
    BY <1>1, <1>2, <1>3, <1>6, CreateLemma
  <1> QED BY <1>3, <1>5, <1>6, <1>7 DEF HolderOf

\* Memory is accessed only with the level that it needs: the session's own, or
\* what a new session starts with.
LEMMA MemoryLemma ==
    ASSUME NEW p, Sound(p), NEW i \in SessionIndex, NEW c, NEW level \in {R, RW},
           c.cmd = IF level = R THEN "read" ELSE "write", Command(p, i, c).status = "OK"
    PROVE  \/ DefaultGrantedAccess >= level
           \/ \E s \in SessionIndex : p.session[s].id = i /\ p.session[s].access >= level
  <1>1. PICK s : s = FindSession(p, i)
    OBVIOUS
  <1>2. PICK m : m = CreateSession(p, i)
    OBVIOUS
  <1>2a. c.cmd \notin {"ping", "discovery"}
    OBVIOUS
  <1>3. s # NoSession /\ Execute(m, s, c).status = "OK"
    BY <1>1, <1>2, <1>2a DEF Command, Decode, Answer
  <1>4. /\ Sound(m) /\ s \in SessionIndex
        /\ m.session[s].access = IF p.session[s].id = i THEN p.session[s].access
                                 ELSE DefaultGrantedAccess
    BY <1>1, <1>2, <1>3, CreateLemma
  <1>5. m.session[s].access \in NO .. RWF
    BY <1>4 DEF Sound, ProtocolTables, SessionRecords
  <1>6. ~(m.session[s].access < level)
    <2>1. CASE level = R
      BY <1>3, <2>1 DEF Execute, Memory, Answer
    <2>2. CASE level = RW
      BY <1>3, <2>2 DEF Execute, Memory, Answer, R, RW
    <2> QED BY <2>1, <2>2
  <1>7. m.session[s].access >= level
    BY <1>5, <1>6 DEF NO, RWF, R, RW
  <1> QED BY <1>4, <1>7

\* The decoder answers READMEM with "OK" or "EAUTH" once it has a session.
LEMMA AnsweredLemma ==
    ASSUME NEW p, NEW i, NEW c, c.cmd = "read", FindSession(p, i) # NoSession
    PROVE  Command(p, i, c).status # "none"
  BY DEF Command, Decode, Execute, Memory, Answer

-----------------------------------------------------------------------------
(* Clients over UDP.                                                       *)

TypeOK ==
    /\ d \in NetTables /\ d.closed = {}
    /\ locks \in [Features -> [Clients -> Nat]]
    /\ proved \in [Clients -> SUBSET (NO .. RWF)]
    /\ silent \in SUBSET (Clients \X Clients)
    /\ from \in Clients \union {ZeroAddress, Nobody}

\* How often client a has taken the lock of feature f.
LocksOf(t, f, a) ==
    LET x == FeatureGet(f)
    IN  IF /\ x \in FeatureIndex /\ HolderOf(t.p, x) # NoId
           /\ t.net[HolderOf(t.p, x)].address = a
        THEN t.p.feature[x].lockCount ELSE 0

\* The locks in the table are those that clients have been granted.
LocksMatch(t, l) == \A f \in Features, a \in Clients : l[f][a] = LocksOf(t, f, a)

\* Access that one of the passwords, or none, opens.
Opens(passwords, access) ==
    access = NO \/ \E l \in access .. RWF : GetAccessPassword(l) \in passwords \union {NoPassword}

\* Every session has access that its client has shown a password for.
AccessEarned(t, shown) ==
    \A s \in SessionIndex : t.p.session[s].id # NoId =>
        Opens(shown[t.net[t.p.session[s].id].address], t.p.session[s].access)

\* Of two clients that are served, the one with the older entry has been
\* silent since the other was heard.
OldestSilent(t, pairs) ==
    /\ \A i \in SessionIndex : t.net[i].lastUsed <= t.ageCount
    /\ \A i, j \in SessionIndex :
          i # j /\ ~Unused(t, i) /\ ~Unused(t, j) /\ t.net[i].lastUsed <= t.net[j].lastUsed =>
              <<t.net[i].address, t.net[j].address>> \in pairs

\* The age counter does not start again.
NoWrap == MaxFrames <= AgeMax

IInv ==
    /\ TypeOK /\ Agree(d)
    /\ LocksMatch(d, locks) /\ AccessEarned(d, proved)
    /\ NoWrap => OldestSilent(d, silent)
-----------------------------------------------------------------------------
(* What each part of a step does to what the histories are compared with.  *)

\* Client b has an entry in use.
HasEntry(t, b) == \E j \in SessionIndex : t.net[j].address = b /\ ~Unused(t, j)

\* Who holds a lock has an entry in use.
LEMMA HolderLemma ==
    ASSUME NEW t, Agree(t), NEW x \in FeatureIndex
    PROVE  /\ HolderOf(t.p, x) \in SessionIndex \union {NoId} /\ NoId \notin SessionIndex
           /\ HolderOf(t.p, x) # NoId => ~Unused(t, HolderOf(t.p, x))
           /\ t.p.feature[x].lockCount \in Nat
           /\ t.p.feature[x].lockCount = 0 <=> HolderOf(t.p, x) = NoId
  <1>1. t.p \in ProtocolTables /\ Sound(t.p)
    BY DEF Agree, Linked, Sound
  <1>2. t.p.feature[x] \in LockRecords /\ t.p.session \in [SessionIndex -> SessionRecords]
    BY <1>1 DEF ProtocolTables
  <1>3. \A s \in SessionIndex : t.p.session[s].id \in 0 .. SessionCount
    BY <1>2 DEF SessionRecords
  <1>4. \A n \in 0 .. SessionCount : n # 0 <=> n \in SessionIndex
    BY SessionsAssumption DEF SessionIndex
  <1>5. t.p.feature[x].owner = NoSession \/ t.p.feature[x].owner \in SessionIndex
    BY <1>2, <1>4 DEF LockRecords, NoSession
  <1>6. \A s \in SessionIndex : t.p.session[s].id # NoId => ~Unused(t, t.p.session[s].id)
    BY DEF Agree, Linked
  <1>7. /\ t.p.feature[x].lockCount = 0 <=> t.p.feature[x].owner = NoSession
        /\ t.p.feature[x].owner # NoSession => t.p.session[t.p.feature[x].owner].id # NoId
    BY <1>1 DEF Sound
  <1>8. NoId \notin SessionIndex
    BY DEF NoId, SessionIndex
  <1>9. CASE t.p.feature[x].owner = NoSession
    BY <1>2, <1>7, <1>8, <1>9 DEF HolderOf, LockRecords
  <1>10. CASE t.p.feature[x].owner # NoSession
    BY <1>2, <1>3, <1>4, <1>5, <1>6, <1>7, <1>8, <1>10 DEF HolderOf, LockRecords, NoId
  <1> QED BY <1>9, <1>10

\* A client without an entry holds no lock.
LEMMA NoEntryLemma ==
    ASSUME NEW t, Agree(t), NEW f, NEW b, ~HasEntry(t, b)
    PROVE  LocksOf(t, f, b) = 0
  BY HolderLemma DEF LocksOf, HasEntry

\* Freeing the session of an entry takes locks only from the client that has
\* the entry's address.
LEMMA FreedLocks ==
    ASSUME NEW t, Agree(t), NEW q, Agree(q), NEW i \in SessionIndex, Freed(t.p, q.p, i),
           \A j \in SessionIndex \ {i} : q.net[j].address = t.net[j].address,
           NEW b, b # t.net[i].address, NEW f
    PROVE  LocksOf(q, f, b) = LocksOf(t, f, b)
  <1>1. CASE FeatureGet(f) \in FeatureIndex
    <2>1. PICK x \in FeatureIndex : x = FeatureGet(f)
      BY <1>1
    <2>2. /\ HolderOf(q.p, x) = IF HolderOf(t.p, x) = i THEN NoId ELSE HolderOf(t.p, x)
          /\ q.p.feature[x].lockCount = IF HolderOf(t.p, x) = i THEN 0 ELSE t.p.feature[x].lockCount
      BY DEF Freed
    <2>3. HolderOf(t.p, x) \in SessionIndex \union {NoId}
      BY HolderLemma
    <2> QED BY <2>1, <2>2, <2>3 DEF LocksOf
  <1>2. CASE FeatureGet(f) \notin FeatureIndex
    BY <1>2 DEF LocksOf
  <1> QED BY <1>1, <1>2

\* Whoever has an entry afterwards has kept his locks when an entry has been
\* given to a client, or closed.
LEMMA GivenLocks ==
    ASSUME NEW t, Agree(t), NEW q, NEW i, NEW a \in Clients, Given(t, q, i, a),
           NEW b \in Clients, HasEntry(q, b), NEW f
    PROVE  LocksOf(q, f, b) = LocksOf(t, f, b)
  <1>1. /\ Agree(q) /\ i \in SessionIndex /\ q.net[i].address = a
        /\ \A j \in SessionIndex \ {i} : q.net[j] = t.net[j]
        /\ Handed(t, q.p, i, a)
    BY DEF Given
  <1>2. CASE t.net[i].address = a
    <2>1. q.p = t.p /\ \A j \in SessionIndex : q.net[j].address = t.net[j].address
      BY <1>1, <1>2 DEF Handed
    <2>2. \A x \in FeatureIndex : HolderOf(t.p, x) \in SessionIndex \union {NoId}
      BY HolderLemma
    <2> QED BY <2>1, <2>2 DEF LocksOf
  <1>3. CASE t.net[i].address # a
    <2>1. Freed(t.p, q.p, i)
      BY <1>1, <1>3 DEF Handed
    <2>2. b # t.net[i].address
      <3>1. PICK j \in SessionIndex : q.net[j].address = b
        BY DEF HasEntry
      <3>2. j # i => t.net[j].address = b
        BY <1>1, <3>1
      <3> QED BY <1>1, <1>3, <3>1, <3>2, NetAssumption DEF Agree, Linked
    <2>3. \A j \in SessionIndex \ {i} : q.net[j].address = t.net[j].address
      BY <1>1
    <2> QED BY <1>1, <2>1, <2>2, <2>3, FreedLocks
  <1> QED BY <1>2, <1>3

LEMMA ClosedLocks ==
    ASSUME NEW t, Agree(t), NEW q, NEW i \in SessionIndex, EntryClosed(t, q, i),
           NEW b \in Clients, HasEntry(q, b), NEW f
    PROVE  LocksOf(q, f, b) = LocksOf(t, f, b) /\ HasEntry(t, b)
  <1>1. /\ Agree(q) /\ Unused(q, i) /\ q.net[i].address = t.net[i].address
        /\ \A j \in SessionIndex \ {i} : q.net[j] = t.net[j]
        /\ Freed(t.p, q.p, i)
    BY DEF EntryClosed, Unused
  <1>2. PICK j \in SessionIndex : q.net[j].address = b /\ ~Unused(q, j)
    BY DEF HasEntry
  <1>3. j # i /\ t.net[j] = q.net[j]
    BY <1>1, <1>2
  <1>4. b # t.net[i].address
    BY <1>1, <1>2, <1>3, NetAssumption DEF Agree, Linked
  <1>5. \A k \in SessionIndex \ {i} : q.net[k].address = t.net[k].address
    BY <1>1
  <1> QED BY <1>1, <1>2, <1>3, <1>4, <1>5, FreedLocks DEF HasEntry, Unused

\* A command changes only the locks of its client, on the feature it names, and
\* no other client has any on a feature that it locks or unlocks.
LEMMA CommandedLocks ==
    ASSUME NEW m, Agree(m), NEW n, NEW i \in SessionIndex, NEW a \in Clients, m.net[i].address = a,
           ~Unused(m, i), NEW c, NEW status, Commanded(m, n, i, c, status), NEW b \in Clients,
           NEW f \in Features, c.cmd \in {"lock", "unlock"} => c.feature \in Features
    PROVE  LET held == LocksOf(m, f, b)
           IN  LocksOf(n, f, b) =
                   IF b = a /\ c.cmd = "lock" /\ status = "OK" /\ c.feature = f THEN held + 1
                   ELSE IF b = a /\ c.cmd = "unlock" /\ status = "OK" /\ c.feature = f
                   THEN IF held > 0 THEN held - 1 ELSE 0
                   ELSE held
  <1>0. /\ Agree(n) /\ n.net = m.net /\ Obeyed(m.p, n.p, i, c, status)
        /\ f \in [type : STRING, instance : Nat]
    BY UdpAssumption DEF Commanded
  <1>1. PICK x : x = FeatureGet(f)
    OBVIOUS
  <1>2. CASE x \in FeatureIndex
    <2>1. /\ HolderOf(m.p, x) \in SessionIndex \union {NoId} /\ NoId \notin SessionIndex
          /\ m.p.feature[x].lockCount \in Nat
          /\ m.p.feature[x].lockCount = 0 <=> HolderOf(m.p, x) = NoId
      BY <1>2, HolderLemma
    <2>2. HolderOf(n.p, x) \in SessionIndex \union {NoId} /\ n.p.feature[x].lockCount \in Nat
      BY <1>0, <1>2, HolderLemma
    <2>3. x # NoFeature
      BY <1>2 DEF FeatureIndex, NoFeature
    <2>4. Locks(c, status, x) <=> c.cmd = "lock" /\ status = "OK" /\ c.feature = f
      <3>1. c.cmd = "lock" /\ x = FeatureGet(c.feature) => c.feature = f
        BY <1>0, <1>1, <2>3, FeatureInjective, UdpAssumption
      <3> QED BY <1>1, <3>1 DEF Locks
    <2>5. Unlocks(c, status, x) <=> c.cmd = "unlock" /\ status = "OK" /\ c.feature = f
      <3>1. c.cmd = "unlock" /\ x = FeatureGet(c.feature) => c.feature = f
        BY <1>0, <1>1, <2>3, FeatureInjective, UdpAssumption
      <3> QED BY <1>1, <3>1 DEF Unlocks
    <2>6. /\ ~Locks(c, status, x) /\ ~Unlocks(c, status, x) =>
                 /\ HolderOf(n.p, x) = HolderOf(m.p, x)
                 /\ n.p.feature[x].lockCount = m.p.feature[x].lockCount
          /\ Locks(c, status, x) =>
                 /\ HolderOf(m.p, x) \in {NoId, i} /\ HolderOf(n.p, x) = i
                 /\ n.p.feature[x].lockCount = m.p.feature[x].lockCount + 1
          /\ Unlocks(c, status, x) =>
                 LET k == IF m.p.feature[x].lockCount > 0 THEN m.p.feature[x].lockCount - 1 ELSE 0
                 IN  /\ HolderOf(m.p, x) \in {NoId, i}
                     /\ n.p.feature[x].lockCount = k
                     /\ HolderOf(n.p, x) = IF k = 0 THEN NoId ELSE i
      BY <1>0, <1>2 DEF Obeyed
    <2>7. LocksOf(m, f, b) = IF HolderOf(m.p, x) # NoId /\ m.net[HolderOf(m.p, x)].address = b
                             THEN m.p.feature[x].lockCount ELSE 0
      BY <1>1, <1>2 DEF LocksOf
    <2>8. LocksOf(n, f, b) = IF HolderOf(n.p, x) # NoId /\ m.net[HolderOf(n.p, x)].address = b
                             THEN n.p.feature[x].lockCount ELSE 0
      BY <1>0, <1>1, <1>2 DEF LocksOf
    <2>9. CASE Locks(c, status, x)
      BY <2>1, <2>4, <2>6, <2>7, <2>8, <2>9
    <2>10. CASE Unlocks(c, status, x)
      <3>1. PICK k \in Nat : k = IF m.p.feature[x].lockCount > 0 THEN m.p.feature[x].lockCount - 1 ELSE 0
        BY <2>1
      <3>2. /\ HolderOf(m.p, x) \in {NoId, i} /\ n.p.feature[x].lockCount = k
            /\ HolderOf(n.p, x) = IF k = 0 THEN NoId ELSE i
        BY <2>6, <2>10, <3>1
      <3>3. c.cmd = "unlock" /\ status = "OK" /\ c.feature = f
        BY <2>5, <2>10
      <3>4. CASE b = a
        <4>1. LocksOf(m, f, b) = m.p.feature[x].lockCount
          BY <2>1, <2>7, <3>2, <3>4
        <4>2. LocksOf(n, f, b) = k
          BY <2>8, <3>2, <3>4, <2>1
        <4> QED BY <3>1, <3>3, <3>4, <4>1, <4>2
      <3>5. CASE b # a
        <4>1. LocksOf(m, f, b) = 0 /\ LocksOf(n, f, b) = 0
          BY <2>7, <2>8, <3>2, <3>5
        <4> QED BY <3>5, <4>1
      <3> QED BY <3>4, <3>5
    <2>11. CASE ~Locks(c, status, x) /\ ~Unlocks(c, status, x)
      BY <2>4, <2>5, <2>6, <2>7, <2>8, <2>11
    <2> QED BY <2>9, <2>10, <2>11
  <1>3. CASE x \notin FeatureIndex
    <2>1. LocksOf(m, f, b) = 0 /\ LocksOf(n, f, b) = 0
      BY <1>1, <1>3 DEF LocksOf
    <2>2. c.cmd \in {"lock", "unlock"} /\ status = "OK" => c.feature # f
      BY <1>0, <1>1, <1>3 DEF Obeyed
    <2> QED BY <2>1, <2>2
  <1> QED BY <1>2, <1>3

\* The identifications of sessions in use are entries in use.
LEMMA IdLemma ==
    ASSUME NEW t, Agree(t), NEW s \in SessionIndex, t.p.session[s].id # NoId
    PROVE  /\ t.p.session[s].id \in SessionIndex /\ ~Unused(t, t.p.session[s].id)
           /\ t.net[t.p.session[s].id].address \in Clients
           /\ t.p.session[s].access \in NO .. RWF
  <1>1. t.p.session \in [SessionIndex -> SessionRecords] /\ t.net \in [SessionIndex -> EntryRecords]
    BY DEF Agree, Linked, NetTables, ProtocolTables
  <1>2. t.p.session[s].id \in 0 .. SessionCount /\ t.p.session[s].access \in NO .. RWF
    BY <1>1 DEF SessionRecords
  <1>3. \A n \in 0 .. SessionCount : n # NoId => n \in SessionIndex
    BY SessionsAssumption DEF SessionIndex, NoId
  <1>4. t.p.session[s].id \in SessionIndex /\ ~Unused(t, t.p.session[s].id)
    BY <1>2, <1>3 DEF Agree, Linked
  <1>5. \A i \in SessionIndex : t.net[i].address \in Clients \union {ZeroAddress}
    BY <1>1 DEF EntryRecords, Addresses
  <1> QED BY <1>2, <1>4, <1>5 DEF Agree

\* Access that was earned stays earned when sessions are freed.
LEMMA FreedEarned ==
    ASSUME NEW t, Agree(t), NEW q, NEW i \in SessionIndex, Freed(t.p, q.p, i), NEW shown,
           AccessEarned(t, shown), \A j \in SessionIndex \ {i} : q.net[j].address = t.net[j].address,
           Agree(q)
    PROVE  AccessEarned(q, shown)
  <1>1. ASSUME NEW s \in SessionIndex, q.p.session[s].id # NoId
        PROVE  Opens(shown[q.net[q.p.session[s].id].address], q.p.session[s].access)
    <2>1. q.p.session[s] = t.p.session[s] /\ q.p.session[s].id # i
      BY <1>1 DEF Freed
    <2>2. q.p.session[s].id \in SessionIndex
      BY <1>1, IdLemma
    <2> QED BY <1>1, <2>1, <2>2 DEF AccessEarned
  <1> QED BY <1>1 DEF AccessEarned

LEMMA GivenEarned ==
    ASSUME NEW t, Agree(t), NEW q, NEW i, NEW a \in Clients, Given(t, q, i, a), NEW shown,
           AccessEarned(t, shown)
    PROVE  AccessEarned(q, shown)
  <1>1. /\ Agree(q) /\ i \in SessionIndex /\ q.net[i].address = a
        /\ \A j \in SessionIndex \ {i} : q.net[j] = t.net[j]
        /\ Handed(t, q.p, i, a)
    BY DEF Given
  <1>2. CASE t.net[i].address = a
    <2>1. q.p = t.p /\ \A j \in SessionIndex : q.net[j].address = t.net[j].address
      BY <1>1, <1>2 DEF Handed
    <2>2. \A s \in SessionIndex : t.p.session[s].id # NoId => t.p.session[s].id \in SessionIndex
      BY IdLemma
    <2> QED BY <2>1, <2>2 DEF AccessEarned
  <1>3. CASE t.net[i].address # a
    <2>1. Freed(t.p, q.p, i) /\ \A j \in SessionIndex \ {i} : q.net[j].address = t.net[j].address
      BY <1>1, <1>3 DEF Handed
    <2> QED BY <1>1, <2>1, FreedEarned
  <1> QED BY <1>2, <1>3

LEMMA ClosedEarned ==
    ASSUME NEW t, Agree(t), NEW q, NEW i \in SessionIndex, EntryClosed(t, q, i), NEW shown,
           AccessEarned(t, shown)
    PROVE  AccessEarned(q, shown)
  <1>1. /\ Agree(q) /\ Freed(t.p, q.p, i)
        /\ \A j \in SessionIndex \ {i} : q.net[j].address = t.net[j].address
    BY DEF EntryClosed
  <1> QED BY <1>1, FreedEarned

\* The passwords that a client has shown after command c.
Shown(c, before) ==
    IF c.cmd = "auth2" THEN before \union ({c.known} \ {NoPassword})
    ELSE IF c.cmd = "auth1" /\ c.req = NO THEN {} ELSE before

LEMMA CommandedEarned ==
    ASSUME NEW m, Agree(m), NEW n, NEW i \in SessionIndex, NEW a \in Clients, m.net[i].address = a,
           NEW c, NEW status, Commanded(m, n, i, c, status), NEW shown, AccessEarned(m, shown),
           NEW later, later[a] = Shown(c, shown[a]), \A b \in Clients \ {a} : later[b] = shown[b]
    PROVE  AccessEarned(n, later)
  <1>0. Agree(n) /\ n.net = m.net /\ Obeyed(m.p, n.p, i, c, status)
    BY DEF Commanded
  <1>1. ASSUME NEW s \in SessionIndex, n.p.session[s].id # NoId
        PROVE  Opens(later[n.net[n.p.session[s].id].address], n.p.session[s].access)
    <2>0. n.p.session[s].id \in SessionIndex /\ ~Unused(n, n.p.session[s].id)
          /\ n.p.session[s].access \in NO .. RWF
      BY <1>0, <1>1, IdLemma
    <2>1. CASE n.p.session[s].id # i
      <3>1. n.p.session[s] = m.p.session[s]
        BY <1>0, <2>1 DEF Obeyed
      <3>2. m.net[n.p.session[s].id].address \in Clients
        BY <1>1, <3>1, IdLemma
      <3>3. m.net[n.p.session[s].id].address # a
        <4>1. ~Unused(m, n.p.session[s].id)
          BY <1>0, <2>0 DEF Unused
        <4> QED BY <2>0, <2>1, <4>1 DEF Agree, Linked
      <3>4. Opens(shown[m.net[n.p.session[s].id].address], n.p.session[s].access)
        BY <1>1, <3>1 DEF AccessEarned
      <3> QED BY <1>0, <3>2, <3>3, <3>4
    <2>2. CASE n.p.session[s].id = i
      <3>1. n.net[n.p.session[s].id].address = a
        BY <1>0, <2>2
      <3>2. PICK after \in NO .. RWF : after = n.p.session[s].access
        BY <2>0
      <3>3. PICK before : /\ Granted(c, before, after) /\ Opens(shown[a], before)
        <4>1. CASE m.p.session[s].id = i
          <5>1. Granted(c, m.p.session[s].access, after)
            BY <1>0, <2>2, <3>2, <4>1 DEF Obeyed
          <5>2. Opens(shown[a], m.p.session[s].access)
            BY <1>1, <2>2, <4>1 DEF AccessEarned
          <5> QED BY <5>1, <5>2
        <4>2. CASE m.p.session[s].id # i
          <5>1. Granted(c, DefaultGrantedAccess, after)
            BY <1>0, <2>2, <3>2, <4>2 DEF Obeyed
          <5>2. PICK level \in NO .. RWF : level = DefaultGrantedAccess /\ GetAccessPassword(level) = NoPassword
            BY DefaultLemma
          <5>3. level \in level .. RWF
            BY <5>2 DEF NO, RWF
          <5>4. Opens(shown[a], DefaultGrantedAccess)
            BY <5>2, <5>3 DEF Opens
          <5> QED BY <5>1, <5>4
        <4> QED BY <4>1, <4>2
      <3>4. Opens(Shown(c, shown[a]), after)
        <4>1. CASE before = after /\ ~(c.cmd = "auth1" /\ c.req = NO)
          <5>1. shown[a] \subseteq Shown(c, shown[a])
            BY <4>1 DEF Shown
          <5> QED BY <3>3, <4>1, <5>1 DEF Opens
        <4>2. CASE after = NO
          BY <4>2 DEF Opens
        <4>3. CASE \E l \in after .. RWF : GetAccessPassword(l) = NoPassword
          BY <4>3 DEF Opens
        <4>4. CASE c.cmd = "auth2" /\ \E l \in after .. RWF : GetAccessPassword(l) = c.known
          <5>1. c.known \in Shown(c, shown[a]) \union {NoPassword}
            BY <4>4 DEF Shown
          <5> QED BY <4>4, <5>1 DEF Opens
        <4> QED BY <3>3, <4>1, <4>2, <4>3, <4>4 DEF Granted
      <3> QED BY <3>1, <3>2, <3>4
    <2> QED BY <2>1, <2>2
  <1> QED BY <1>1 DEF AccessEarned

\* The pairs of silent after client a has been heard.
Later(pairs, a) == {r \in pairs : r[1] # a} \union {<<b, a>> : b \in Clients \ {a}}

LEMMA GivenSilent ==
    ASSUME NEW t, Agree(t), NEW q, NEW i, NEW a \in Clients, Given(t, q, i, a), NEW pairs,
           t.ageCount < AgeMax, OldestSilent(t, pairs)
    PROVE  OldestSilent(q, Later(pairs, a))
  <1>0. /\ Agree(q) /\ i \in SessionIndex /\ q.net[i].address = a
        /\ q.ageCount = NextAge(t) /\ q.net[i].lastUsed = NextAge(t)
        /\ \A j \in SessionIndex \ {i} : q.net[j] = t.net[j] /\ t.net[j].address # a
    BY DEF Given
  <1>1. /\ t.net \in [SessionIndex -> EntryRecords] /\ t.ageCount \in Nat
        /\ q.net \in [SessionIndex -> EntryRecords]
    BY <1>0 DEF Agree, Linked, NetTables
  <1>2. \A j \in SessionIndex : t.net[j].lastUsed \in Nat /\ t.net[j].lastUsed <= t.ageCount
    BY <1>1 DEF OldestSilent, EntryRecords
  <1>3. NextAge(t) = t.ageCount + 1
    BY <1>1, NetAssumption DEF NextAge
  <1>4. \A j \in SessionIndex : q.net[j].lastUsed <= q.ageCount
    BY <1>0, <1>1, <1>2, <1>3
  <1>5. \A j \in SessionIndex : ~Unused(q, j) => q.net[j].address \in Clients
    BY <1>0, <1>1 DEF Agree, EntryRecords, Addresses
  <1>6. ASSUME NEW j \in SessionIndex, NEW k \in SessionIndex, j # k, ~Unused(q, j), ~Unused(q, k),
               q.net[j].lastUsed <= q.net[k].lastUsed
        PROVE  <<q.net[j].address, q.net[k].address>> \in Later(pairs, a)
    <2>1. CASE k = i
      <3>1. q.net[j].address \in Clients \ {a} /\ q.net[k].address = a
        BY <1>0, <1>5, <1>6, <2>1
      <3> QED BY <3>1 DEF Later
    <2>2. CASE j = i
      BY <1>0, <1>1, <1>2, <1>3, <1>6, <2>2
    <2>3. CASE j # i /\ k # i
      <3>1. /\ q.net[j] = t.net[j] /\ q.net[k] = t.net[k] /\ ~Unused(t, j) /\ ~Unused(t, k)
            /\ q.net[j].address # a
        BY <1>0, <1>6, <2>3 DEF Unused
      <3>2. <<q.net[j].address, q.net[k].address>> \in pairs
        BY <1>6, <3>1 DEF OldestSilent
      <3> QED BY <3>1, <3>2 DEF Later
    <2> QED BY <2>1, <2>2, <2>3
  <1> QED BY <1>4, <1>6 DEF OldestSilent

LEMMA ClosedSilent ==
    ASSUME NEW t, Agree(t), NEW q, NEW i \in SessionIndex, EntryClosed(t, q, i), NEW pairs,
           OldestSilent(t, pairs), q.ageCount >= t.ageCount
    PROVE  OldestSilent(q, pairs)
  <1>0. /\ Agree(q) /\ q.net[i].lastUsed = 0
        /\ \A j \in SessionIndex \ {i} : q.net[j] = t.net[j]
    BY DEF EntryClosed
  <1>1. t.net \in [SessionIndex -> EntryRecords] /\ t.ageCount \in Nat /\ q.ageCount \in Nat
    BY <1>0 DEF Agree, Linked, NetTables
  <1>2. \A j \in SessionIndex : t.net[j].lastUsed \in Nat /\ t.net[j].lastUsed <= t.ageCount
    BY <1>1 DEF OldestSilent, EntryRecords
  <1>3. \A j \in SessionIndex : q.net[j].lastUsed <= q.ageCount
    <2>1. q.net[i].lastUsed <= q.ageCount
      BY <1>0, <1>1
    <2>2. \A j \in SessionIndex \ {i} : q.net[j].lastUsed <= q.ageCount
      BY <1>0, <1>1, <1>2
    <2> QED BY <2>1, <2>2
  <1>4. \A j \in SessionIndex : ~Unused(q, j) => j # i /\ q.net[j] = t.net[j] /\ ~Unused(t, j)
    BY <1>0 DEF Unused
  <1> QED BY <1>3, <1>4 DEF OldestSilent
-----------------------------------------------------------------------------
(* The steps.                                                              *)

LEMMA CommandsLemma ==
    ASSUME NEW c \in Commands
    PROVE  IsCommand(c) /\ (c.cmd \in {"lock", "unlock"} => c.feature \in Features)
  <1>1. Requests \subseteq NO .. RWF /\ PasswordLevels \union {NoPassword} \subseteq NO .. RWF
    BY UdpAssumption, SessionsAssumption DEF NO, R, RWF, NoPassword
  <1>2. \A f \in Features : f.instance \in Nat
    BY UdpAssumption
  <1>3. CASE c \in [cmd : {"ping", "discovery", "read", "write"}]
    BY <1>3 DEF IsCommand
  <1>4. CASE c \in [cmd : {"lock", "unlock", "use"}, feature : Features]
    BY <1>2, <1>4 DEF IsCommand
  <1>5. CASE c \in [cmd : {"auth1"}, req : Requests]
    BY <1>1, <1>5 DEF IsCommand
  <1>6. CASE c \in [cmd : {"auth2"}, req : Requests, known : PasswordLevels \union {NoPassword}]
    BY <1>1, <1>6 DEF IsCommand
  <1> QED BY <1>3, <1>4, <1>5, <1>6 DEF Commands

\* Tables that differ only in what the driver has been told.
LEMMA ClearedLemma ==
    ASSUME NEW u, Agree(u), NEW q, q = WithClosed(u, {})
    PROVE  /\ Agree(q) /\ q.closed = {}
           /\ q.net = u.net /\ q.p = u.p /\ q.ageCount = u.ageCount
           /\ \A f, b : LocksOf(q, f, b) = LocksOf(u, f, b)
           /\ \A b : HasEntry(q, b) <=> HasEntry(u, b)
           /\ \A shown : AccessEarned(u, shown) => AccessEarned(q, shown)
           /\ \A pairs : OldestSilent(u, pairs) => OldestSilent(q, pairs)
  <1>1. /\ q \in NetTables /\ q.net = u.net /\ q.ageCount = u.ageCount /\ q.p = u.p
        /\ q.closed = {}
    BY ClosedReplaced DEF Agree, Linked
  <1>2. Agree(q)
    BY <1>1 DEF Agree, Linked, Unused
  <1>3. \A f, b : LocksOf(q, f, b) = LocksOf(u, f, b)
    BY <1>1 DEF LocksOf
  <1>4. \A b : HasEntry(q, b) <=> HasEntry(u, b)
    BY <1>1 DEF HasEntry, Unused
  <1>5. \A shown : AccessEarned(u, shown) => AccessEarned(q, shown)
    BY <1>1 DEF AccessEarned
  <1>6. \A pairs : OldestSilent(u, pairs) => OldestSilent(q, pairs)
    BY <1>1 DEF OldestSilent, Unused
  <1> QED BY <1>1, <1>2, <1>3, <1>4, <1>5, <1>6

\* What a step must make of the tables and the histories to keep the invariant.
LEMMA StepLemma ==
    ASSUME NEW u, Agree(u), d' = WithClosed(u, {}),
           NEW l \in [Features -> [Clients -> Nat]], KeepLocks(l),
           \A f \in Features, b \in Clients : HasEntry(u, b) => l[f][b] = LocksOf(u, f, b),
           proved' \in [Clients -> SUBSET (NO .. RWF)], AccessEarned(u, proved'),
           silent' \in SUBSET (Clients \X Clients), NoWrap => OldestSilent(u, silent'),
           from' \in Clients \union {ZeroAddress, Nobody}
    PROVE  IInv'
  <1>1. /\ Agree(d') /\ d'.closed = {} /\ d' \in NetTables
        /\ \A f, b : LocksOf(d', f, b) = LocksOf(u, f, b)
        /\ \A b : HasEntry(d', b) <=> HasEntry(u, b)
        /\ AccessEarned(d', proved')
        /\ NoWrap => OldestSilent(d', silent')
    BY ClearedLemma DEF Agree, Linked
  <1>2. \A b : EntryOf(b)' = {} <=> ~HasEntry(d', b)
    BY DEF EntryOf, HasEntry, Unused
  <1>3. locks' = [f \in Features |-> [a \in Clients |-> IF EntryOf(a)' = {} THEN 0 ELSE l[f][a]]]
    BY DEF KeepLocks
  <1>4. locks' \in [Features -> [Clients -> Nat]]
    BY <1>3
  <1>5. ASSUME NEW f \in Features, NEW b \in Clients
        PROVE  locks'[f][b] = LocksOf(d', f, b)
    <2>1. locks'[f][b] = IF EntryOf(b)' = {} THEN 0 ELSE l[f][b]
      BY <1>3
    <2>2. CASE HasEntry(d', b)
      BY <1>1, <1>2, <2>1, <2>2
    <2>3. CASE ~HasEntry(d', b)
      BY <1>1, <1>2, <2>1, <2>3, NoEntryLemma
    <2> QED BY <2>2, <2>3
  <1>6. LocksMatch(d', locks')
    BY <1>5 DEF LocksMatch
  <1>7. TypeOK'
    BY <1>1, <1>4 DEF TypeOK
  <1> QED BY <1>1, <1>6, <1>7 DEF IInv, NoWrap

LEMMA HeardLemma ==
    ASSUME TypeOK, NEW a \in Clients, Heard(a)
    PROVE  /\ silent' = Later(silent, a) /\ silent' \in SUBSET (Clients \X Clients)
           /\ from' = a /\ from' \in Clients \union {ZeroAddress, Nobody}
  BY DEF TypeOK, Heard, Later

LEMMA PartStep ==
    ASSUME IInv, NEW a \in Clients, ReceivePart(a), d.ageCount < MaxFrames
    PROVE  IInv'
  <1>0. /\ Agree(d) /\ LocksMatch(d, locks) /\ AccessEarned(d, proved)
        /\ NoWrap => OldestSilent(d, silent)
        /\ locks \in [Features -> [Clients -> Nat]] /\ proved \in [Clients -> SUBSET (NO .. RWF)]
    BY DEF IInv, TypeOK
  <1>1. PICK u : u = Incomplete(d, a)
    OBVIOUS
  <1>2. PICK i : i = FindNetSession(d, a)
    OBVIOUS
  <1>3. Given(d, u, i, a) /\ Agree(u)
    BY <1>0, <1>1, <1>2, IncompleteLemma DEF Given
  <1>4. d' = WithClosed(u, {}) /\ KeepLocks(locks) /\ proved' = proved /\ Heard(a)
    BY <1>1 DEF ReceivePart, WithClosed
  <1>5. \A f \in Features, b \in Clients : HasEntry(u, b) => locks[f][b] = LocksOf(u, f, b)
    BY <1>0, <1>3, GivenLocks DEF LocksMatch
  <1>6. AccessEarned(u, proved')
    BY <1>0, <1>3, <1>4, GivenEarned
  <1>7. /\ silent' = Later(silent, a) /\ silent' \in SUBSET (Clients \X Clients)
        /\ from' \in Clients \union {ZeroAddress, Nobody}
    BY <1>4, HeardLemma DEF IInv
  <1>8. NoWrap => OldestSilent(u, silent')
    <2>1. NoWrap => d.ageCount < AgeMax
      <3>1. d.ageCount \in Nat
        BY <1>0 DEF Agree, Linked, NetTables
      <3> QED BY <3>1, NetAssumption, UdpAssumption DEF NoWrap
    <2> QED BY <1>0, <1>3, <1>7, <2>1, GivenSilent
  <1>9. proved' \in [Clients -> SUBSET (NO .. RWF)]
    BY <1>0, <1>4
  <1> QED BY <1>0, <1>3, <1>4, <1>5, <1>6, <1>7, <1>8, <1>9, StepLemma

LEMMA BrokenStep ==
    ASSUME IInv, NEW a \in Clients, ReceiveBroken(a), d.ageCount < MaxFrames
    PROVE  IInv'
  <1>0. /\ Agree(d) /\ LocksMatch(d, locks) /\ AccessEarned(d, proved)
        /\ NoWrap => OldestSilent(d, silent)
        /\ locks \in [Features -> [Clients -> Nat]] /\ proved \in [Clients -> SUBSET (NO .. RWF)]
    BY DEF IInv, TypeOK
  <1>1. PICK u : u = Broken(d, a)
    OBVIOUS
  <1>2. PICK i : i = FindNetSession(d, a)
    OBVIOUS
  <1>3. PICK m : Given(d, m, i, a) /\ EntryClosed(m, u, i) /\ u.ageCount = m.ageCount
    BY <1>0, <1>1, <1>2, BrokenLemma
  <1>3a. Agree(m) /\ Agree(u) /\ i \in SessionIndex /\ m.ageCount \in Nat
    BY <1>3 DEF Given, EntryClosed, Agree, Linked, NetTables
  <1>4. d' = WithClosed(u, {}) /\ KeepLocks(locks) /\ proved' = proved /\ Heard(a)
    BY <1>1 DEF ReceiveBroken, WithClosed
  <1>5. ASSUME NEW f \in Features, NEW b \in Clients, HasEntry(u, b)
        PROVE  locks[f][b] = LocksOf(u, f, b)
    <2>1. LocksOf(u, f, b) = LocksOf(m, f, b) /\ HasEntry(m, b)
      BY <1>3, <1>3a, <1>5, ClosedLocks
    <2>2. LocksOf(m, f, b) = LocksOf(d, f, b)
      BY <1>0, <1>3, <2>1, GivenLocks
    <2> QED BY <1>0, <2>1, <2>2 DEF LocksMatch
  <1>6. AccessEarned(u, proved')
    <2>1. AccessEarned(m, proved)
      BY <1>0, <1>3, GivenEarned
    <2> QED BY <1>3, <1>3a, <1>4, <2>1, ClosedEarned
  <1>7. /\ silent' = Later(silent, a) /\ silent' \in SUBSET (Clients \X Clients)
        /\ from' \in Clients \union {ZeroAddress, Nobody}
    BY <1>4, HeardLemma DEF IInv
  <1>8. NoWrap => OldestSilent(u, silent')
    <2>1. NoWrap => d.ageCount < AgeMax
      <3>1. d.ageCount \in Nat
        BY <1>0 DEF Agree, Linked, NetTables
      <3> QED BY <3>1, NetAssumption, UdpAssumption DEF NoWrap
    <2>2. NoWrap => OldestSilent(m, silent')
      BY <1>0, <1>3, <1>7, <2>1, GivenSilent
    <2>3. u.ageCount >= m.ageCount
      BY <1>3, <1>3a
    <2> QED BY <1>3, <1>3a, <2>2, <2>3, ClosedSilent
  <1>9. proved' \in [Clients -> SUBSET (NO .. RWF)]
    BY <1>0, <1>4
  <1> QED BY <1>0, <1>3a, <1>4, <1>5, <1>6, <1>7, <1>8, <1>9, StepLemma

\* What the locks of the histories are after a command, before clients that
\* have lost their entry lose theirs.
LocksAfter(a, c, status) ==
    CASE c.cmd = "lock" /\ status = "OK" -> [locks EXCEPT ![c.feature][a] = @ + 1]
      [] c.cmd = "unlock" /\ status = "OK" -> [locks EXCEPT ![c.feature][a] = IF @ > 0 THEN @ - 1 ELSE 0]
      [] OTHER -> locks

LEMMA LocksAfterLemma ==
    ASSUME locks \in [Features -> [Clients -> Nat]], NEW a \in Clients, NEW c, NEW status,
           c.cmd \in {"lock", "unlock"} => c.feature \in Features,
           NEW l, l = LocksAfter(a, c, status)
    PROVE  /\ l \in [Features -> [Clients -> Nat]]
           /\ \A f \in Features, b \in Clients :
                 l[f][b] = IF b = a /\ c.cmd = "lock" /\ status = "OK" /\ c.feature = f THEN locks[f][b] + 1
                           ELSE IF b = a /\ c.cmd = "unlock" /\ status = "OK" /\ c.feature = f
                           THEN IF locks[f][b] > 0 THEN locks[f][b] - 1 ELSE 0
                           ELSE locks[f][b]
  <1>1. CASE c.cmd = "lock" /\ status = "OK"
    <2>1. l = [locks EXCEPT ![c.feature][a] = @ + 1]
      BY <1>1 DEF LocksAfter
    <2>2. c.feature \in Features /\ locks[c.feature] \in [Clients -> Nat]
      BY <1>1
    <2>3. PICK own : own = [locks[c.feature] EXCEPT ![a] = @ + 1]
      OBVIOUS
    <2>4. /\ own \in [Clients -> Nat] /\ own[a] = locks[c.feature][a] + 1
          /\ \A b \in Clients \ {a} : own[b] = locks[c.feature][b]
      BY <2>2, <2>3
    <2>5. l = [locks EXCEPT ![c.feature] = own]
      BY <2>1, <2>3
    <2> QED BY <1>1, <2>2, <2>4, <2>5
  <1>2. CASE c.cmd = "unlock" /\ status = "OK"
    <2>1. l = [locks EXCEPT ![c.feature][a] = IF @ > 0 THEN @ - 1 ELSE 0]
      BY <1>2 DEF LocksAfter
    <2>2. c.feature \in Features /\ locks[c.feature] \in [Clients -> Nat]
      BY <1>2
    <2>3. PICK n \in Nat : n = IF locks[c.feature][a] > 0 THEN locks[c.feature][a] - 1 ELSE 0
      BY <2>2
    <2>4. PICK own : own = [locks[c.feature] EXCEPT ![a] = n]
      OBVIOUS
    <2>5. /\ own \in [Clients -> Nat] /\ own[a] = n
          /\ \A b \in Clients \ {a} : own[b] = locks[c.feature][b]
      BY <2>2, <2>4
    <2>6. l = [locks EXCEPT ![c.feature] = own]
      BY <2>1, <2>3, <2>4
    <2> QED BY <1>2, <2>2, <2>3, <2>5, <2>6
  <1>3. CASE ~(c.cmd = "lock" /\ status = "OK") /\ ~(c.cmd = "unlock" /\ status = "OK")
    <2>1. l = locks
      BY <1>3 DEF LocksAfter
    <2> QED BY <1>3, <2>1
  <1> QED BY <1>1, <1>2, <1>3

LEMMA CommandStep ==
    ASSUME IInv, NEW a \in Clients, ReceiveCommand(a), d.ageCount < MaxFrames
    PROVE  IInv'
  <1>0. /\ Agree(d) /\ LocksMatch(d, locks) /\ AccessEarned(d, proved)
        /\ NoWrap => OldestSilent(d, silent)
        /\ locks \in [Features -> [Clients -> Nat]] /\ proved \in [Clients -> SUBSET (NO .. RWF)]
    BY DEF IInv, TypeOK
  <1>1. PICK c \in Commands, how \in Sent :
           /\ d' = [Complete(d, a, c, how).d EXCEPT !.closed = {}]
           /\ Remember(a, c, Complete(d, a, c, how).status) /\ Heard(a)
    BY DEF ReceiveCommand
  <1>2. IsCommand(c) /\ (c.cmd \in {"lock", "unlock"} => c.feature \in Features)
    BY CommandsLemma
  <1>3. PICK i : i = FindNetSession(d, a)
    OBVIOUS
  <1>4. PICK u, status : u = Complete(d, a, c, how).d /\ status = Complete(d, a, c, how).status
    OBVIOUS
  <1>6. PICK m, n : /\ Given(d, m, i, a) /\ Commanded(m, n, i, c, status)
                    /\ u = n \/ (EntryClosed(n, u, i) /\ u.ageCount = n.ageCount)
    BY <1>0, <1>2, <1>3, <1>4, CompleteLemma
  <1>7. /\ Agree(m) /\ Agree(n) /\ i \in SessionIndex /\ m.net[i].address = a
        /\ n.net = m.net /\ n.ageCount = m.ageCount /\ m.ageCount \in Nat /\ d.ageCount \in Nat
    BY <1>0, <1>6 DEF Given, Commanded, Agree, Linked, NetTables
  <1>8. ~Unused(m, i)
    <2>1. NextAge(d) # 0
      BY <1>7 DEF NextAge
    <2> QED BY <1>6, <2>1 DEF Given, Unused
  <1>9. Agree(u)
    BY <1>6, <1>7 DEF EntryClosed
  <1>10. PICK l : l = LocksAfter(a, c, status)
    OBVIOUS
  <1>11. d' = WithClosed(u, {}) /\ KeepLocks(l) /\ Heard(a)
    BY <1>1, <1>4, <1>10 DEF Remember, LocksAfter, WithClosed
  <1>12. /\ l \in [Features -> [Clients -> Nat]]
         /\ \A f \in Features, b \in Clients :
               l[f][b] = IF b = a /\ c.cmd = "lock" /\ status = "OK" /\ c.feature = f THEN locks[f][b] + 1
                         ELSE IF b = a /\ c.cmd = "unlock" /\ status = "OK" /\ c.feature = f
                         THEN IF locks[f][b] > 0 THEN locks[f][b] - 1 ELSE 0
                         ELSE locks[f][b]
    BY <1>0, <1>2, <1>10, LocksAfterLemma
  <1>13. ASSUME NEW f \in Features, NEW b \in Clients, HasEntry(u, b)
         PROVE  l[f][b] = LocksOf(u, f, b)
    <2>1. LocksOf(u, f, b) = LocksOf(n, f, b) /\ HasEntry(n, b)
      BY <1>6, <1>7, <1>13, ClosedLocks
    <2>2. HasEntry(m, b)
      BY <1>7, <2>1 DEF HasEntry, Unused
    <2>3. LocksOf(m, f, b) = locks[f][b]
      BY <1>0, <1>6, <2>2, GivenLocks DEF LocksMatch
    <2>4. LET held == LocksOf(m, f, b)
          IN  LocksOf(n, f, b) =
                  IF b = a /\ c.cmd = "lock" /\ status = "OK" /\ c.feature = f THEN held + 1
                  ELSE IF b = a /\ c.cmd = "unlock" /\ status = "OK" /\ c.feature = f
                  THEN IF held > 0 THEN held - 1 ELSE 0
                  ELSE held
      BY <1>2, <1>6, <1>7, <1>8, CommandedLocks
    <2> QED BY <1>12, <2>1, <2>3, <2>4
  <1>14. /\ proved' \in [Clients -> SUBSET (NO .. RWF)]
         /\ proved'[a] = Shown(c, proved[a]) /\ \A b \in Clients \ {a} : proved'[b] = proved[b]
    <2>1. proved' = IF c.cmd = "auth2" THEN [proved EXCEPT ![a] = @ \union ({c.known} \ {NoPassword})]
                    ELSE IF c.cmd = "auth1" /\ c.req = NO THEN [proved EXCEPT ![a] = {}]
                    ELSE proved
      BY <1>1 DEF Remember
    <2>2. Shown(c, proved[a]) \in SUBSET (NO .. RWF)
      BY <1>0, <1>2 DEF Shown, IsCommand
    <2>3. proved' = [proved EXCEPT ![a] = Shown(c, proved[a])]
      <3>1. CASE c.cmd = "auth2"
        BY <2>1, <3>1 DEF Shown
      <3>2. CASE c.cmd # "auth2" /\ c.cmd = "auth1" /\ c.req = NO
        BY <2>1, <3>2 DEF Shown
      <3>3. CASE c.cmd # "auth2" /\ ~(c.cmd = "auth1" /\ c.req = NO)
        BY <1>0, <2>1, <3>3 DEF Shown
      <3> QED BY <3>1, <3>2, <3>3
    <2> QED BY <1>0, <2>2, <2>3
  <1>15. AccessEarned(u, proved')
    <2>1. AccessEarned(m, proved)
      BY <1>0, <1>6, GivenEarned
    <2>2. AccessEarned(n, proved')
      BY <1>6, <1>7, <1>14, <2>1, CommandedEarned
    <2> QED BY <1>6, <1>7, <2>2, ClosedEarned
  <1>16. /\ silent' = Later(silent, a) /\ silent' \in SUBSET (Clients \X Clients)
         /\ from' \in Clients \union {ZeroAddress, Nobody}
    BY <1>11, HeardLemma DEF IInv
  <1>17. NoWrap => OldestSilent(u, silent')
    <2>1. NoWrap => d.ageCount < AgeMax
      BY <1>7, NetAssumption, UdpAssumption DEF NoWrap
    <2>2. NoWrap => OldestSilent(m, silent')
      BY <1>0, <1>6, <1>16, <2>1, GivenSilent
    <2>3. NoWrap => OldestSilent(n, silent')
      BY <1>7, <2>2 DEF OldestSilent, Unused
    <2>4. u.ageCount >= n.ageCount
      BY <1>6, <1>7
    <2> QED BY <1>6, <1>7, <2>3, <2>4, ClosedSilent
  <1> QED BY <1>9, <1>11, <1>12, <1>13, <1>14, <1>15, <1>16, <1>17, StepLemma

LEMMA FailsStep ==
    ASSUME IInv, ReceiveFails, d.ageCount < MaxFrames
    PROVE  IInv'
  <1>0. /\ Agree(d) /\ LocksMatch(d, locks) /\ AccessEarned(d, proved)
        /\ NoWrap => OldestSilent(d, silent)
        /\ locks \in [Features -> [Clients -> Nat]] /\ proved \in [Clients -> SUBSET (NO .. RWF)]
        /\ silent \in SUBSET (Clients \X Clients) /\ d \in NetTables /\ d.ageCount \in Nat
    BY DEF IInv, TypeOK, NetTables
  <1>1. PICK u : u = Disconnected(d, ZeroAddress)
    OBVIOUS
  <1>2. PICK i : i = FindNetSession(d, ZeroAddress)
    OBVIOUS
  <1>3. EntryClosed(d, u, i) /\ u.ageCount \in {NextAge(d) - 1, NextAge(d)}
    BY <1>0, <1>1, <1>2, DisconnectedLemma DEF Addresses
  <1>4. i \in SessionIndex /\ Agree(u)
    BY <1>0, <1>2, <1>3, FindNetLemma DEF EntryClosed
  <1>5. /\ d' = WithClosed(u, {}) /\ KeepLocks(locks) /\ proved' = proved /\ silent' = silent
        /\ from' = ZeroAddress
    BY <1>1 DEF ReceiveFails, WithClosed
  <1>6. \A f \in Features, b \in Clients : HasEntry(u, b) => locks[f][b] = LocksOf(u, f, b)
    BY <1>0, <1>3, <1>4, ClosedLocks DEF LocksMatch
  <1>7. AccessEarned(u, proved')
    BY <1>0, <1>3, <1>4, <1>5, ClosedEarned
  <1>8. NoWrap => OldestSilent(u, silent')
    <2>1. NoWrap => NextAge(d) = d.ageCount + 1
      BY <1>0, NetAssumption, UdpAssumption DEF NoWrap, NextAge
    <2>2. NoWrap => u.ageCount >= d.ageCount
      BY <1>0, <1>3, <2>1
    <2> QED BY <1>0, <1>3, <1>4, <1>5, <2>2, ClosedSilent
  <1>9. /\ proved' \in [Clients -> SUBSET (NO .. RWF)] /\ silent' \in SUBSET (Clients \X Clients)
        /\ from' \in Clients \union {ZeroAddress, Nobody}
    BY <1>0, <1>5
  <1> QED BY <1>0, <1>4, <1>5, <1>6, <1>7, <1>8, <1>9, StepLemma

LEMMA InitInv == Init => IInv
  <1>1. SUFFICES ASSUME Init PROVE IInv
    OBVIOUS
  <1>2. /\ Agree(InitNet) /\ InitNet \in NetTables /\ InitNet.closed = {} /\ InitNet.ageCount = 0
        /\ \A i \in SessionIndex : InitNet.net[i].lastUsed = 0
    BY InitAgree DEF InitNet, Agree, Linked
  <1>3. d = InitNet /\ silent = {} /\ from = Nobody
    BY <1>1 DEF Init
  <1>4. locks \in [Features -> [Clients -> Nat]] /\ proved \in [Clients -> SUBSET (NO .. RWF)]
    BY <1>1 DEF Init
  <1>5. LocksMatch(d, locks)
    <2>1. \A b : ~HasEntry(d, b)
      BY <1>2, <1>3 DEF HasEntry, Unused
    <2>2. \A f, b : LocksOf(d, f, b) = 0
      BY <1>2, <1>3, <2>1, NoEntryLemma
    <2> QED BY <1>1, <2>2 DEF Init, LocksMatch
  <1>6. AccessEarned(d, proved)
    BY <1>2, <1>3, IdLemma DEF AccessEarned, Unused
  <1>7. OldestSilent(d, silent)
    BY <1>2, <1>3 DEF OldestSilent, Unused
  <1> QED BY <1>2, <1>3, <1>4, <1>5, <1>6, <1>7 DEF IInv, TypeOK

LEMMA NextInv == IInv /\ [Next]_vars => IInv'
  <1>1. ASSUME IInv, UNCHANGED vars PROVE IInv'
    BY <1>1 DEF IInv, TypeOK, vars
  <1>2. ASSUME IInv, Next PROVE IInv'
    <2>1. CASE Idle
      BY <1>1, <1>2, <2>1 DEF Idle
    <2>2. ASSUME d.ageCount < MaxFrames, NEW a \in Clients,
                 ReceiveCommand(a) \/ ReceivePart(a) \/ ReceiveBroken(a)
          PROVE  IInv'
      BY <1>2, <2>2, CommandStep, PartStep, BrokenStep
    <2>3. CASE d.ageCount < MaxFrames /\ ReceiveFails
      BY <1>2, <2>3, FailsStep
    <2> QED BY <1>2, <2>1, <2>2, <2>3 DEF Next
  <1> QED BY <1>1, <1>2

\* The inductive invariant: the tables of the two layers agree, the locks in
\* them are the ones clients have been granted, access has been paid for with
\* passwords, and the oldest entry is that of the client silent for longest.
THEOREM Invariance == Spec => []IInv
  BY InitInv, NextInv, PTL DEF Spec
-----------------------------------------------------------------------------
(* The properties.                                                         *)

LEMMA EntryLemma ==
    ASSUME NEW a, NEW i \in EntryOf(a)
    PROVE  i \in SessionIndex /\ d.net[i].address = a /\ ~Unused(d, i)
  BY DEF EntryOf

\* The session tables of the two layers agree in every reachable state.
THEOREM SessionTables == Spec => []TablesAgree
  <1>1. IInv => TablesAgree
    BY DEF IInv, Agree, Linked, Sound, TablesAgree
  <1> QED BY <1>1, Invariance, PTL

\* No frame is ever put together from the bytes of two clients.
THEOREM OwnBytes == Spec => []FramesOfOneClient
  <1>1. IInv => FramesOfOneClient
    BY DEF IInv, Agree, Linked, FramesOfOneClient
  <1> QED BY <1>1, Invariance, PTL

\* The decoder always finds a session for the client of a complete frame.
THEOREM SessionForEveryCommand == Spec => []EveryCommandAnswered
  <1>1. IInv => EveryCommandAnswered
    <2> SUFFICES ASSUME IInv, NEW a \in Clients, Answered(a, [cmd |-> "read"], "none") PROVE FALSE
      BY DEF EveryCommandAnswered
    <2>1. PICK i \in EntryOf(a) : Command(d.p, i, [cmd |-> "read"]).status = "none"
      BY DEF Answered
    <2>2. FindSession(d.p, i) \in SessionIndex
      BY EntryLemma, SessionForEveryEntry DEF IInv
    <2>3. FindSession(d.p, i) # NoSession
      BY <2>2 DEF SessionIndex, NoSession
    <2> QED BY <2>1, <2>3, AnsweredLemma
  <1> QED BY <1>1, Invariance, PTL

\* Only the holder of a feature's lock is served by it, and nobody else holds it.
THEOREM LocksExclude == Spec => []OnlyLockHolderServed
  <1>1. IInv => OnlyLockHolderServed
    <2> SUFFICES ASSUME IInv, NEW a \in Clients, NEW f \in Features,
                        Answered(a, [cmd |-> "use", feature |-> f], "OK")
                 PROVE  locks[f][a] > 0 /\ \A b \in Clients \ {a} : locks[f][b] = 0
      BY DEF OnlyLockHolderServed
    <2>1. PICK c : c = [cmd |-> "use", feature |-> f]
      OBVIOUS
    <2>2. c.cmd = "use" /\ c.feature = f
      BY <2>1
    <2>3. PICK i \in EntryOf(a) : Command(d.p, i, c).status = "OK"
      BY <2>1 DEF Answered
    <2>4. i \in SessionIndex /\ d.net[i].address = a
      BY <2>3, EntryLemma
    <2>5. f.instance \in Nat
      BY UdpAssumption
    <2>6. Sound(d.p)
      BY DEF IInv, Agree, Linked
    <2>7. /\ FeatureGet(f) \in FeatureIndex /\ HolderOf(d.p, FeatureGet(f)) = i
          /\ d.p.feature[FeatureGet(f)].lockCount > 0
      BY <2>2, <2>3, <2>4, <2>5, <2>6, UseLemma
    <2>8. i # NoId
      BY <2>4 DEF SessionIndex, NoId
    <2>9. LocksOf(d, f, a) > 0 /\ \A b \in Clients \ {a} : LocksOf(d, f, b) = 0
      BY <2>4, <2>7, <2>8 DEF LocksOf
    <2> QED BY <2>9 DEF IInv, LocksMatch
  <1> QED BY <1>1, Invariance, PTL

\* Memory is accessed only by clients that have shown a sufficient password, or
\* where none is needed.
THEOREM AccessByPassword == Spec => []AccessIsEarned
  <1>1. ASSUME IInv, NEW a \in Clients, NEW level \in {R, RW}, NEW c, c.cmd = IF level = R THEN "read" ELSE "write",
               Answered(a, c, "OK")
        PROVE  \E l \in level .. RWF : GetAccessPassword(l) \in proved[a] \union {NoPassword}
    <2>1. PICK i \in EntryOf(a) : Command(d.p, i, c).status = "OK"
      BY <1>1 DEF Answered
    <2>2. i \in SessionIndex /\ d.net[i].address = a /\ Agree(d) /\ Sound(d.p)
      BY <1>1, <2>1, EntryLemma DEF IInv, Agree, Linked
    <2>3. \/ DefaultGrantedAccess >= level
          \/ \E s \in SessionIndex : d.p.session[s].id = i /\ d.p.session[s].access >= level
      BY <1>1, <2>1, <2>2, MemoryLemma
    <2>4. CASE DefaultGrantedAccess >= level
      <3>1. DefaultGrantedAccess \in level .. RWF
        BY <2>4, DefaultLemma DEF NO, R, RW, RWF
      <3> QED BY <3>1, DefaultLemma
    <2>5. ASSUME NEW s \in SessionIndex, d.p.session[s].id = i, d.p.session[s].access >= level
          PROVE  \E l \in level .. RWF : GetAccessPassword(l) \in proved[a] \union {NoPassword}
      <3>1. i # NoId
        BY <2>2 DEF SessionIndex, NoId
      <3>2. PICK access \in NO .. RWF : access = d.p.session[s].access
        BY <2>2, <2>5, <3>1, IdLemma
      <3>3. Opens(proved[a], access)
        BY <1>1, <2>2, <2>5, <3>1, <3>2 DEF IInv, AccessEarned
      <3>4. access # NO
        BY <2>5, <3>2 DEF NO, R, RW
      <3>5. PICK l \in access .. RWF : GetAccessPassword(l) \in proved[a] \union {NoPassword}
        BY <3>3, <3>4 DEF Opens
      <3>6. l \in level .. RWF
        BY <2>5, <3>2 DEF NO, R, RW, RWF
      <3> QED BY <3>5, <3>6
    <2> QED BY <2>3, <2>4, <2>5
  <1>2. IInv => AccessIsEarned
    <2>1. [cmd |-> "read"].cmd = "read" /\ [cmd |-> "write"].cmd = "write" /\ R # RW
      BY DEF R, RW
    <2> QED BY <1>1, <2>1 DEF AccessIsEarned
  <1> QED BY <1>2, Invariance, PTL
-----------------------------------------------------------------------------
(* Who loses an entry.                                                     *)

\* What entitles h, who was heard, to the entry of client a.
MayReplace(h, a) ==
    /\ h # Nobody /\ EntryOf(h) = {}
    /\ \A i \in SessionIndex : ~Unused(d, i)
    /\ \A b \in Clients \ {a} : EntryOf(b) # {} => <<a, b>> \in silent

\* The entry found for somebody else is given up only when it is the oldest.
LEMMA VictimLemma ==
    ASSUME NoWrap, IInv, NEW h \in Clients \union {ZeroAddress}, NEW a \in Clients, a # h,
           NEW i, i = FindNetSession(d, h), NEW j \in EntryOf(a), j = i
    PROVE  MayReplace(h, a)
  <1>0. Agree(d) /\ d \in NetTables /\ OldestSilent(d, silent)
    BY DEF IInv, TypeOK
  <1>1. /\ i \in SessionIndex
        /\ d.net[i].address # h =>
              /\ \A k \in SessionIndex : d.net[k].address # h
              /\ \/ Unused(d, i)
                 \/ \A k \in SessionIndex : ~Unused(d, k) /\ d.net[i].lastUsed <= d.net[k].lastUsed
    BY <1>0, FindNetLemma
  <1>2. d.net[i].address = a /\ ~Unused(d, i)
    BY EntryLemma
  <1>3. \A k \in SessionIndex :
           d.net[k].address # h /\ ~Unused(d, k) /\ d.net[i].lastUsed <= d.net[k].lastUsed
    BY <1>1, <1>2
  <1>4. ASSUME NEW b \in Clients \ {a}, EntryOf(b) # {} PROVE <<a, b>> \in silent
    <2>1. PICK k \in EntryOf(b) : TRUE
      BY <1>4
    <2>2. k \in SessionIndex /\ d.net[k].address = b /\ ~Unused(d, k) /\ k # i
      BY <1>2, <2>1, EntryLemma
    <2> QED BY <1>0, <1>1, <1>2, <1>3, <2>2 DEF OldestSilent
  <1>5. EntryOf(h) = {}
    BY <1>3 DEF EntryOf
  <1>6. h # Nobody
    BY UdpAssumption
  <1> QED BY <1>3, <1>4, <1>5, <1>6 DEF MayReplace

\* A step in which h was heard and that leaves all entries alone but the one
\* found for h takes an entry only from h or from who may be replaced.
LEMMA LossLemma ==
    ASSUME NoWrap, IInv, NEW h \in Clients \union {ZeroAddress}, NEW a \in Clients, a # h,
           NEW i, i = FindNetSession(d, h), \A j \in SessionIndex \ {i} : d'.net[j] = d.net[j],
           EntryOf(a) # {}, EntryOf(a)' = {}
    PROVE  MayReplace(h, a)
  <1>1. PICK j \in EntryOf(a) : TRUE
    OBVIOUS
  <1>2. j \in SessionIndex /\ d.net[j].address = a /\ ~Unused(d, j)
    BY EntryLemma
  <1>3. j = i
    <2>1. SUFFICES ASSUME j # i PROVE FALSE
      OBVIOUS
    <2>2. d'.net[j] = d.net[j]
      BY <1>2, <2>1
    <2>3. j \in EntryOf(a)'
      BY <1>2, <2>2 DEF EntryOf, Unused
    <2> QED BY <2>3
  <1> QED BY <1>3, VictimLemma

\* A client loses an entry that is in use only by its own doing, or as the one
\* silent for longest, when all entries are in use, to somebody without one.
THEOREM OldestGivesWay == ASSUME NoWrap PROVE Spec => EntriesAreKept
  <1> DEFINE Kept == \A a \in Clients : EntryOf(a) # {} /\ EntryOf(a)' = {} =>
                         from' = a \/ MayReplace(from', a)
  <1>1. ASSUME IInv, Next PROVE Kept \/ UNCHANGED vars
    <2>0. Agree(d)
      BY <1>1 DEF IInv
    <2>1. ASSUME NEW h \in Clients \union {ZeroAddress}, from' = h,
                 \A j \in SessionIndex \ {FindNetSession(d, h)} : d'.net[j] = d.net[j]
          PROVE  Kept
      BY <1>1, <2>1, LossLemma
    <2>2. ASSUME NEW a \in Clients, ReceiveCommand(a) PROVE Kept
      <3>1. PICK c \in Commands, how \in Sent :
               d' = [Complete(d, a, c, how).d EXCEPT !.closed = {}] /\ Heard(a)
        BY <2>2 DEF ReceiveCommand
      <3>2. PICK i : i = FindNetSession(d, a)
        OBVIOUS
      <3>3. PICK u, status : u = Complete(d, a, c, how).d /\ status = Complete(d, a, c, how).status
        OBVIOUS
      <3>4. PICK m, n : /\ Given(d, m, i, a) /\ Commanded(m, n, i, c, status)
                        /\ u = n \/ EntryClosed(n, u, i)
        BY <2>0, <3>2, <3>3, CommandsLemma, CompleteLemma
      <3>5. \A j \in SessionIndex \ {i} : u.net[j] = d.net[j]
        BY <3>4 DEF Given, Commanded, EntryClosed
      <3>6. Agree(u) /\ d' = WithClosed(u, {})
        BY <3>1, <3>3, <3>4 DEF Commanded, EntryClosed, WithClosed
      <3>7. d'.net = u.net
        BY <3>6, ClearedLemma
      <3>8. from' = a
        BY <3>1 DEF Heard
      <3> QED BY <2>1, <3>2, <3>5, <3>7, <3>8
    <2>3. ASSUME NEW a \in Clients, ReceivePart(a) PROVE Kept
      <3>1. PICK u : u = Incomplete(d, a)
        OBVIOUS
      <3>2. Given(d, u, FindNetSession(d, a), a)
        BY <2>0, <3>1, IncompleteLemma
      <3>3. Agree(u) /\ \A j \in SessionIndex \ {FindNetSession(d, a)} : u.net[j] = d.net[j]
        BY <3>2 DEF Given
      <3>4. d' = WithClosed(u, {}) /\ from' = a
        BY <2>3, <3>1 DEF ReceivePart, Heard, WithClosed
      <3>5. d'.net = u.net
        BY <3>3, <3>4, ClearedLemma
      <3> QED BY <2>1, <3>3, <3>4, <3>5
    <2>4. ASSUME NEW a \in Clients, ReceiveBroken(a) PROVE Kept
      <3>1. PICK u : u = Broken(d, a)
        OBVIOUS
      <3>2. PICK m : /\ Given(d, m, FindNetSession(d, a), a)
                     /\ EntryClosed(m, u, FindNetSession(d, a))
        BY <2>0, <3>1, BrokenLemma
      <3>3. Agree(u) /\ \A j \in SessionIndex \ {FindNetSession(d, a)} : u.net[j] = d.net[j]
        BY <3>2 DEF Given, EntryClosed
      <3>4. d' = WithClosed(u, {}) /\ from' = a
        BY <2>4, <3>1 DEF ReceiveBroken, Heard, WithClosed
      <3>5. d'.net = u.net
        BY <3>3, <3>4, ClearedLemma
      <3> QED BY <2>1, <3>3, <3>4, <3>5
    <2>5. CASE ReceiveFails
      <3>1. PICK u : u = Disconnected(d, ZeroAddress)
        OBVIOUS
      <3>2. EntryClosed(d, u, FindNetSession(d, ZeroAddress))
        BY <2>0, <3>1, DisconnectedLemma DEF Addresses
      <3>3. Agree(u) /\ \A j \in SessionIndex \ {FindNetSession(d, ZeroAddress)} : u.net[j] = d.net[j]
        BY <3>2 DEF EntryClosed
      <3>4. d' = WithClosed(u, {}) /\ from' = ZeroAddress
        BY <2>5, <3>1 DEF ReceiveFails, WithClosed
      <3>5. d'.net = u.net
        BY <3>3, <3>4, ClearedLemma
      <3> QED BY <2>1, <3>3, <3>4, <3>5
    <2>6. CASE Idle
      BY <2>6 DEF Idle
    <2> QED BY <1>1, <2>2, <2>3, <2>4, <2>5, <2>6 DEF Next
  <1>2. Kept =>
           \A a \in Clients : EntryOf(a) # {} /\ EntryOf(a)' = {} =>
               \/ from' = a
               \/ /\ from' # Nobody /\ EntryOf(from') = {}
                  /\ \A i \in SessionIndex : ~Unused(d, i)
                  /\ \A b \in Clients \ {a} : EntryOf(b) # {} => <<a, b>> \in silent
    BY DEF MayReplace
  <1>3. IInv /\ [Next]_vars =>
           [\A a \in Clients : EntryOf(a) # {} /\ EntryOf(a)' = {} =>
               \/ from' = a
               \/ /\ from' # Nobody /\ EntryOf(from') = {}
                  /\ \A i \in SessionIndex : ~Unused(d, i)
                  /\ \A b \in Clients \ {a} : EntryOf(b) # {} => <<a, b>> \in silent]_vars
    BY <1>1, <1>2
  <1>4. Spec => EntriesAreKept
    BY <1>3, Invariance, PTL DEF Spec, EntriesAreKept
  <1> QED BY <1>4
-----------------------------------------------------------------------------
(* Clients over TCP.                                                       *)

SockRecords == [address : Addresses \union {Seeker}, open : BOOLEAN, pending : BOOLEAN]

\* The slots of the driver's table.
SlotRange == 1 .. SessionCount + (IF build.discovery THEN 1 ELSE 0)

\* A table of sockets s in which the datagram socket, if there is one, is open
\* and belongs to no client, and every other open one belongs to a client.
SocksOK(s) ==
    /\ s \in [SlotRange -> SockRecords]
    /\ \A i \in SlotRange :
          /\ Broadcast(i) => s[i].open /\ s[i].address \in {ZeroAddress, Seeker}
          /\ ~Broadcast(i) /\ s[i].open => s[i].address \in Clients

\* Client a has an open socket in s.
HasSock(s, a) == \E i \in DOMAIN s : s[i].open /\ s[i].address = a

TcpTypeOK ==
    /\ build \in Builds
    /\ target \in NetTables /\ target.closed = {}
    /\ SocksOK(sock)
    /\ state \in [Clients -> {"out", "waiting", "connected", "closing", "gone"}]
    /\ inbox \in [Clients -> Seq(LockCommands \union {Piece})]
    /\ sent \in [Clients -> Nat] /\ answered \in [Clients -> Nat]

\* What clients that have an open socket, and that have been answered, know.
Dialogue ==
    \A a \in Clients :
        /\ HasSock(sock, a) => state[a] \in {"connected", "closing"}
        /\ state[a] \in {"out", "waiting"} => answered[a] = 0
        /\ state[a] = "closing" => answered[a] > 0
        /\ answered[a] > 0 /\ HasSock(sock, a) => HasEntry(target, a)

TcpIInv ==
    /\ TcpTypeOK /\ Agree(target)
    /\ \A a \in Clients : HasEntry(target, a) => HasSock(sock, a)
    /\ ~Silent => Dialogue
-----------------------------------------------------------------------------
(* What the drivers do with their tables of sockets.                       *)

\* A table s that polling may leave: nothing is closed or changes hands, and a
\* new socket is that of a client who waits.
PolledFrom(s) ==
    /\ SocksOK(s)
    /\ \A j \in SlotRange :
          /\ sock[j].open => s[j].open /\ s[j].address = sock[j].address
          /\ s[j].open => \/ sock[j].open /\ s[j].address = sock[j].address
                          \/ s[j].address \in Waiting

\* A loop that stops at the first entry of a kind finds one if there is one.
LEMMA FirstSlot ==
    ASSUME NEW S \in SUBSET SlotRange, S # {}
    PROVE  First(S) \in S
  <1>1. S \in SUBSET Nat
    BY DEF SlotRange
  <1>2. \E i \in S : \A j \in S : i <= j
    BY <1>1, LeastNat
  <1> QED BY <1>2 DEF First

WithSocket(s, i, e) == [s EXCEPT ![i] = e]

LEMMA SocketReplaced ==
    ASSUME NEW s \in [SlotRange -> SockRecords], NEW i \in SlotRange, NEW e \in SockRecords,
           NEW q, q = WithSocket(s, i, e)
    PROVE  /\ q \in [SlotRange -> SockRecords] /\ q[i] = e
           /\ \A j \in SlotRange \ {i} : q[j] = s[j]
  BY DEF WithSocket

\* Marking sockets leaves them as they are.
LEMMA MarkedLemma ==
    ASSUME SocksOK(sock), NEW mark \in [SlotRange -> BOOLEAN],
           NEW s, s = [j \in SlotRange |-> [sock[j] EXCEPT !.pending = mark[j]]]
    PROVE  /\ SocksOK(s)
           /\ \A j \in SlotRange : s[j].open = sock[j].open /\ s[j].address = sock[j].address
  <1>1. \A j \in SlotRange : sock[j] \in SockRecords
    BY DEF SocksOK
  <1>2. ASSUME NEW j \in SlotRange
        PROVE  s[j] \in SockRecords /\ s[j].open = sock[j].open /\ s[j].address = sock[j].address
    <2>1. PICK e \in SockRecords : e = sock[j]
      BY <1>1
    <2>2. PICK b \in BOOLEAN : b = mark[j]
      OBVIOUS
    <2>3. s[j] = [e EXCEPT !.pending = b]
      BY <2>1, <2>2
    <2> QED BY <2>1, <2>3 DEF SockRecords
  <1>3. s \in [SlotRange -> SockRecords]
    BY <1>2
  <1> QED BY <1>2, <1>3 DEF SocksOK

\* Nor does accepting a client in a free entry change the others.
LEMMA AcceptLemma ==
    ASSUME SocksOK(sock), NEW m, SocksOK(m),
           \A j \in SlotRange : m[j].open = sock[j].open /\ m[j].address = sock[j].address,
           NEW i \in SlotRange, ~sock[i].open, NEW a \in Waiting,
           NEW s, s = LwipAccept(m, i, a) \/ s = ZephyrAccept(m, i, a)
    PROVE  PolledFrom(s)
  <1>1. m \in [SlotRange -> SockRecords] /\ a \in Clients
    BY DEF SocksOK, Waiting
  <1>2. PICK yes \in BOOLEAN : yes = TRUE
    OBVIOUS
  <1>3. PICK e \in SockRecords : /\ e.address = a /\ e.open = yes
                                 /\ e = [m[i] EXCEPT !.address = a, !.open = yes]
    <2>1. PICK f \in SockRecords : f = m[i]
      BY <1>1
    <2>2. a \in Addresses \union {Seeker}
      BY <1>1 DEF Addresses
    <2>3. PICK e : e = [f EXCEPT !.address = a, !.open = yes]
      OBVIOUS
    <2>4. e = [address |-> a, open |-> yes, pending |-> f.pending]
      BY <2>1, <2>3 DEF SockRecords
    <2> QED BY <2>1, <2>2, <2>3, <2>4 DEF SockRecords
  <1>4. s = WithSocket(m, i, e)
    BY <1>2, <1>3 DEF WithSocket, LwipAccept, ZephyrAccept
  <1>5. /\ s \in [SlotRange -> SockRecords] /\ s[i] = e
        /\ \A j \in SlotRange \ {i} : s[j] = m[j]
    BY <1>1, <1>4, SocketReplaced
  <1>6. ~Broadcast(i)
    BY DEF SocksOK
  <1>7. SocksOK(s)
    BY <1>1, <1>3, <1>5, <1>6 DEF SocksOK
  <1>8. s[i].open => s[i].address \in Waiting
    BY <1>3, <1>5
  <1>9. \A j \in SlotRange \ {i} : s[j].open = sock[j].open /\ s[j].address = sock[j].address
    BY <1>5
  <1> QED BY <1>7, <1>8, <1>9 DEF PolledFrom

LEMMA PolledLemma ==
    ASSUME SocksOK(sock), NEW s \in Polled
    PROVE  PolledFrom(s)
  <1>1. Slots = SlotRange
    BY DEF SocksOK, Slots
  <1>2. PolledFrom(sock)
    BY DEF PolledFrom
  <1> DEFINE free == {i \in Slots : ~sock[i].open}
  <1>3. free # {} => First(free) \in SlotRange /\ ~sock[First(free)].open
    <2>1. free # {} => First(free) \in free
      BY <1>1, FirstSlot
    <2> QED BY <1>1, <2>1
  <1>4. ASSUME NEW mark \in [SlotRange -> BOOLEAN], NEW m,
               m = [j \in SlotRange |-> [sock[j] EXCEPT !.pending = mark[j]]]
        PROVE  /\ PolledFrom(m)
               /\ free # {} => \A a \in Waiting :
                      PolledFrom(LwipAccept(m, First(free), a)) /\ PolledFrom(ZephyrAccept(m, First(free), a))
    <2>1. /\ SocksOK(m)
          /\ \A j \in SlotRange : m[j].open = sock[j].open /\ m[j].address = sock[j].address
      BY <1>4, MarkedLemma
    <2>2. PolledFrom(m)
      BY <2>1 DEF PolledFrom
    <2>3. ASSUME free # {}, NEW a \in Waiting
          PROVE  PolledFrom(LwipAccept(m, First(free), a)) /\ PolledFrom(ZephyrAccept(m, First(free), a))
      BY <1>3, <2>1, <2>3, AcceptLemma
    <2> QED BY <2>2, <2>3
  <1>5. CASE build.drv = "lwip"
    <2>1. PICK mark \in [SlotRange -> BOOLEAN] : \A j \in SlotRange : mark[j] = Readable(j)
      <3>1. [j \in SlotRange |-> Readable(j)] \in [SlotRange -> BOOLEAN]
        BY DEF Readable
      <3> QED BY <3>1
    <2>2. PICK m : m = [j \in SlotRange |-> [sock[j] EXCEPT !.pending = mark[j]]]
      OBVIOUS
    <2>3. m = [j \in Slots |-> [sock[j] EXCEPT !.pending = Readable(j)]]
      BY <1>1, <2>1, <2>2
    <2>4. \/ s = sock \/ s = m
          \/ free # {} /\ \E a \in Waiting : s = LwipAccept(m, First(free), a)
      BY <1>5, <2>3 DEF Polled, LwipPolled
    <2> QED BY <1>2, <1>4, <2>2, <2>4
  <1>6. CASE build.drv # "lwip"
    <2> DEFINE ready == {i \in Slots : Readable(i)}
    <2>1. PICK mark \in [SlotRange -> BOOLEAN] : \A j \in SlotRange : mark[j] = (sock[j].pending \/ j \in ready)
      <3>1. [j \in SlotRange |-> (sock[j].pending \/ j \in ready)] \in [SlotRange -> BOOLEAN]
        OBVIOUS
      <3> QED BY <3>1
    <2>2. PICK m : m = [j \in SlotRange |-> [sock[j] EXCEPT !.pending = mark[j]]]
      OBVIOUS
    <2>3. m = [j \in Slots |-> [sock[j] EXCEPT !.pending = @ \/ j \in ready]]
      BY <1>1, <2>1, <2>2
    <2>4. \/ s = sock \/ s = m
          \/ free # {} /\ \E a \in Waiting : s = ZephyrAccept(m, First(free), a)
      BY <1>6, <2>3 DEF Polled, ZephyrPolled
    <2> QED BY <1>2, <1>4, <2>2, <2>4
  <1> QED BY <1>5, <1>6

\* Sending takes a mark away, and that is all.
LEMMA SentLemma ==
    ASSUME NEW s, SocksOK(s), DOMAIN sock = SlotRange, NEW i \in SlotRange, NEW a, s[i].address = a,
           NEW q, q = SentTo(s, a)
    PROVE  /\ SocksOK(q)
           /\ \A j \in SlotRange : q[j].open = s[j].open /\ q[j].address = s[j].address
  <1>1. s \in [SlotRange -> SockRecords]
    BY DEF SocksOK
  <1>2. PICK k : k = SessionFind(s, a)
    OBVIOUS
  <1>3. k \in SlotRange
    <2>1. i \in {j \in Slots : s[j].address = a} /\ {j \in Slots : s[j].address = a} \subseteq SlotRange
      BY DEF Slots
    <2>2. First({j \in Slots : s[j].address = a}) \in {j \in Slots : s[j].address = a}
      BY <2>1, FirstSlot
    <2> QED BY <1>2, <2>1, <2>2 DEF SessionFind
  <1>4. PICK no \in BOOLEAN : no = FALSE
    OBVIOUS
  <1>5. PICK e \in SockRecords : /\ e.address = s[k].address /\ e.open = s[k].open
                                 /\ e = [s[k] EXCEPT !.pending = no]
    <2>1. PICK f \in SockRecords : f = s[k]
      BY <1>1, <1>3
    <2> QED BY <2>1 DEF SockRecords
  <1>6. q = WithSocket(s, k, e)
    BY <1>2, <1>4, <1>5 DEF SentTo, LwipSend, ZephyrSend, WithSocket
  <1>7. /\ q \in [SlotRange -> SockRecords] /\ q[k] = e
        /\ \A j \in SlotRange \ {k} : q[j] = s[j]
    BY <1>1, <1>3, <1>6, SocketReplaced
  <1>8. \A j \in SlotRange : q[j].open = s[j].open /\ q[j].address = s[j].address
    BY <1>5, <1>7
  <1> QED BY <1>7, <1>8 DEF SocksOK

\* Closing the connections of some clients takes the sockets of just these.
LEMMA ClosedLemma ==
    ASSUME NEW s, SocksOK(s), DOMAIN sock = SlotRange, NEW closed, NEW q, q = Closed(s, closed)
    PROVE  /\ SocksOK(q)
           /\ \A a \in Clients : HasSock(q, a) <=> HasSock(s, a) /\ a \notin closed
  <1>1. s \in [SlotRange -> SockRecords]
    BY DEF SocksOK
  <1>2. NoSock \in SockRecords /\ NoSock.open = FALSE
    BY DEF NoSock, SockRecords, Addresses
  <1>3. ASSUME NEW i \in SlotRange
        PROVE  /\ q[i] \in {NoSock, s[i]}
               /\ Broadcast(i) => q[i] = s[i]
               /\ s[i].address \notin closed => q[i] = s[i]
               /\ s[i].address \in closed /\ ~Broadcast(i) => q[i].open = FALSE \/ s[i].open = FALSE
    <2>1. s[i].open \in BOOLEAN
      BY <1>1 DEF SockRecords
    <2>2. CASE build.drv = "lwip"
      <3>1. q[i] = IF s[i].address \in closed /\ ~Broadcast(i) THEN NoSock ELSE s[i]
        BY <2>2 DEF Closed, LwipClose, Slots
      <3> QED BY <1>2, <3>1
    <2>3. CASE build.drv # "lwip"
      <3>1. q[i] = IF s[i].address \in closed /\ ~Broadcast(i) /\ s[i].open THEN NoSock ELSE s[i]
        BY <2>3 DEF Closed, ZephyrClose, Slots
      <3> QED BY <1>2, <2>1, <3>1
    <2> QED BY <2>2, <2>3
  <1>4. q \in [SlotRange -> SockRecords]
    <2>1. q = [i \in SlotRange |-> q[i]]
      BY DEF Closed, LwipClose, ZephyrClose, Slots
    <2>2. \A i \in SlotRange : q[i] \in SockRecords
      BY <1>1, <1>2, <1>3
    <2> QED BY <2>1, <2>2
  <1>5. SocksOK(q)
    BY <1>2, <1>3, <1>4 DEF SocksOK
  <1>6. ASSUME NEW a \in Clients, NEW i \in SlotRange, s[i].open, s[i].address = a
        PROVE  ~Broadcast(i)
    <2>1. Broadcast(i) => s[i].address \in {ZeroAddress, Seeker}
      BY DEF SocksOK
    <2> QED BY <1>6, <2>1, NetAssumption, TcpAssumption
  <1>7. \A i \in SlotRange : q[i].open /\ q[i].address \in Clients => q[i] = s[i]
    BY <1>2, <1>3
  <1>8. DOMAIN q = SlotRange /\ DOMAIN s = SlotRange
    BY <1>1, <1>4
  <1>9. ASSUME NEW a \in Clients, HasSock(q, a)
        PROVE  HasSock(s, a) /\ a \notin closed
    <2>1. PICK i \in SlotRange : q[i].open /\ q[i].address = a
      BY <1>8, <1>9 DEF HasSock
    <2>2. q[i] = s[i]
      BY <1>7, <2>1
    <2>3. ~Broadcast(i)
      BY <1>6, <2>1, <2>2
    <2> QED BY <1>3, <1>8, <2>1, <2>2, <2>3 DEF HasSock
  <1>10. ASSUME NEW a \in Clients, HasSock(s, a), a \notin closed
         PROVE  HasSock(q, a)
    <2>1. PICK i \in SlotRange : s[i].open /\ s[i].address = a
      BY <1>8, <1>10 DEF HasSock
    <2>2. q[i] = s[i]
      BY <1>3, <1>10, <2>1
    <2> QED BY <1>8, <2>1, <2>2 DEF HasSock
  <1> QED BY <1>5, <1>9, <1>10
-----------------------------------------------------------------------------
(* What receiving does to who has an entry.                                *)

\* Every client in t has a socket in s that the driver is not told to close.
Keeps(t, s) == \A b \in Clients : HasEntry(t, b) => HasSock(s, b) /\ b \notin t.closed

\* Every client with a socket that t leaves open has an entry in t, once it has
\* been answered as counts tell.
Speaks(t, s, counts) ==
    \A b \in Clients : counts[b] > 0 /\ HasSock(s, b) /\ b \notin t.closed => HasEntry(t, b)

\* There are as many entries as sockets for clients, so one that has a socket
\* finds its entry or a free one.
LEMMA NoVictim ==
    ASSUME Agree(target), NEW s, SocksOK(s), \A b \in Clients : HasEntry(target, b) => HasSock(s, b),
           NEW k \in SlotRange, ~Broadcast(k), s[k].open, NEW a, s[k].address = a
    PROVE  \E j \in SessionIndex : Unused(target, j) \/ target.net[j].address = a
  <1>1. SUFFICES ASSUME \A j \in SessionIndex : ~Unused(target, j) /\ target.net[j].address # a PROVE FALSE
    OBVIOUS
  <1> DEFINE Rest == {i \in SlotRange : ~Broadcast(i)}
  <1>2. DOMAIN s = SlotRange
    BY DEF SocksOK
  <1>3. \A j \in SessionIndex : \E i \in Rest \ {k} : s[i].open /\ s[i].address = target.net[j].address
    <2>1. TAKE j \in SessionIndex
    <2>2. PICK b \in Clients : b = target.net[j].address
      <3>1. target.net \in [SessionIndex -> EntryRecords] /\ target.net[j].address # ZeroAddress
        BY <1>1 DEF Agree, Linked, NetTables
      <3>2. target.net[j].address \in Addresses
        BY <3>1 DEF EntryRecords
      <3> QED BY <3>1, <3>2 DEF Addresses
    <2>3. HasEntry(target, b)
      BY <1>1, <2>2 DEF HasEntry
    <2>4. PICK i \in SlotRange : s[i].open /\ s[i].address = b
      BY <1>2, <2>3 DEF HasSock
    <2>5. i # k
      BY <1>1, <2>2, <2>4
    <2>6. Broadcast(i) => s[i].address \in {ZeroAddress, Seeker}
      BY DEF SocksOK
    <2>7. ~Broadcast(i)
      BY <2>4, <2>6, NetAssumption, TcpAssumption
    <2> QED BY <2>2, <2>4, <2>5, <2>7
  <1>4. /\ IsFiniteSet(Rest) /\ Cardinality(Rest) = SessionCount
    <2>0. 1 \in Int /\ 2 \in Int /\ SessionCount \in Int /\ SessionCount + 1 \in Int /\ SessionCount >= 1
      BY SessionsAssumption
    <2>1. CASE build.discovery
      <3>1. Rest = 2 .. SessionCount + 1
        BY <2>0, <2>1 DEF SlotRange, Broadcast
      <3>2. PICK m \in Int, n \in Int : m = 2 /\ n = SessionCount + 1
        BY <2>0
      <3>3. IsFiniteSet(m .. n) /\ Cardinality(m .. n) = IF m > n THEN 0 ELSE n - m + 1
        BY FS_Interval, Zenon
      <3>4. Cardinality(m .. n) = SessionCount
        BY <2>0, <3>2, <3>3
      <3> QED BY <3>1, <3>2, <3>3, <3>4
    <2>2. CASE ~build.discovery
      <3>1. Rest = 1 .. SessionCount
        BY <2>0, <2>2 DEF SlotRange, Broadcast
      <3>2. /\ IsFiniteSet(1 .. SessionCount)
            /\ Cardinality(1 .. SessionCount) = IF 1 > SessionCount THEN 0 ELSE SessionCount - 1 + 1
        BY <2>0, FS_Interval, Zenon
      <3>3. Cardinality(1 .. SessionCount) = SessionCount
        BY <2>0, <3>2
      <3> QED BY <3>1, <3>2, <3>3
    <2> QED BY <2>1, <2>2
  <1>5. /\ IsFiniteSet(SessionIndex) /\ Cardinality(SessionIndex) = SessionCount
    <2>1. 1 \in Int /\ SessionCount \in Int /\ SessionCount >= 1
      BY SessionsAssumption
    <2>2. /\ IsFiniteSet(1 .. SessionCount)
          /\ Cardinality(1 .. SessionCount) = IF 1 > SessionCount THEN 0 ELSE SessionCount - 1 + 1
      BY <2>1, FS_Interval, Zenon
    <2>3. Cardinality(1 .. SessionCount) = SessionCount
      BY <2>1, <2>2
    <2> QED BY <2>2, <2>3 DEF SessionIndex
  <1>6. k \in Rest
    OBVIOUS
  <1> HIDE DEF Rest
  <1>7. IsFiniteSet(Rest \ {k}) /\ Cardinality(Rest \ {k}) = SessionCount - 1
    BY <1>4, <1>6, FS_RemoveElement
  <1>8. PICK f \in [SessionIndex -> Rest \ {k}] :
            \A j \in SessionIndex : s[f[j]].open /\ s[f[j]].address = target.net[j].address
    <2>1. PICK f : f = [j \in SessionIndex |->
                           CHOOSE i \in Rest \ {k} : s[i].open /\ s[i].address = target.net[j].address]
      OBVIOUS
    <2>2. \A j \in SessionIndex : /\ f[j] \in Rest \ {k}
                                  /\ s[f[j]].open /\ s[f[j]].address = target.net[j].address
      BY <1>3, <2>1
    <2>3. f \in [SessionIndex -> Rest \ {k}]
      BY <2>1, <2>2
    <2> QED BY <2>2, <2>3
  <1>9. Cardinality(SessionIndex) > Cardinality(Rest \ {k})
    BY <1>5, <1>7, SessionsAssumption
  <1>10. \E i, j \in SessionIndex : i # j /\ f[i] = f[j]
    BY <1>5, <1>7, <1>9, FS_PigeonHole
  <1>11. PICK i \in SessionIndex, j \in SessionIndex : i # j /\ target.net[i].address = target.net[j].address
    BY <1>8, <1>10
  <1>12. target.net[i].address = ZeroAddress
    BY <1>11 DEF Agree, Linked
  <1> QED BY <1>1, <1>12 DEF Agree

\* A client that is heard gets an entry, and everybody else keeps his.
LEMMA GivenKeeps ==
    ASSUME Agree(target), target.closed = {}, NEW q, NEW i, NEW a \in Clients, Given(target, q, i, a),
           \E j \in SessionIndex : Unused(target, j) \/ target.net[j].address = a
    PROVE  /\ \A b \in Clients : HasEntry(q, b) <=> HasEntry(target, b) \/ b = a
           /\ \A b \in Clients : HasEntry(q, b) => b \notin q.closed
  <1>1. /\ Agree(q) /\ i \in SessionIndex /\ q.net[i].address = a
        /\ q.net[i].lastUsed = NextAge(target)
        /\ \A j \in SessionIndex \ {i} : q.net[j] = target.net[j] /\ target.net[j].address # a
        /\ q.closed \subseteq {target.net[i].address} \ {a}
    BY DEF Given, OnlyCloses
  <1>2. target.net[i].address = a \/ Unused(target, i)
    BY <1>1 DEF Given
  <1>3. ~Unused(q, i)
    <2>1. target.ageCount \in Nat
      BY DEF Agree, Linked, NetTables
    <2>2. NextAge(target) # 0
      BY <2>1 DEF NextAge
    <2> QED BY <1>1, <2>2 DEF Unused
  <1>4. ASSUME NEW b \in Clients, b # a, HasEntry(target, b)
        PROVE  HasEntry(q, b)
    BY <1>1, <1>2, <1>4 DEF HasEntry, Unused
  <1>5. ASSUME NEW b \in Clients, b # a, HasEntry(q, b)
        PROVE  HasEntry(target, b) /\ b # target.net[i].address
    <2>1. PICK j \in SessionIndex : q.net[j].address = b /\ ~Unused(q, j)
      BY <1>5 DEF HasEntry
    <2>2. j # i /\ target.net[j] = q.net[j]
      BY <1>1, <1>5, <2>1
    <2>3. b # target.net[i].address
      BY <1>1, <2>1, <2>2, NetAssumption DEF Agree, Linked
    <2> QED BY <2>1, <2>2, <2>3 DEF HasEntry, Unused
  <1>6. HasEntry(q, a)
    BY <1>1, <1>3 DEF HasEntry
  <1> QED BY <1>1, <1>4, <1>5, <1>6

\* When an entry is closed its client has none any more, and everybody else
\* keeps his.
LEMMA ClosedKeeps ==
    ASSUME Agree(target), target.closed = {}, NEW q, NEW i \in SessionIndex, EntryClosed(target, q, i)
    PROVE  /\ \A b \in Clients : HasEntry(q, b) <=> HasEntry(target, b) /\ b # target.net[i].address
           /\ q.closed \subseteq {target.net[i].address}
           /\ ~Unused(target, i) => target.net[i].address \in q.closed
  <1>1. /\ q.closed \subseteq {target.net[i].address}
        /\ ~Unused(target, i) => target.net[i].address \in q.closed
        /\ Unused(q, i) /\ q.net[i].address = target.net[i].address
        /\ \A j \in SessionIndex \ {i} : q.net[j] = target.net[j]
    BY DEF EntryClosed, Unused
  <1>2. ASSUME NEW b \in Clients, HasEntry(q, b)
        PROVE  HasEntry(target, b) /\ b # target.net[i].address
    <2>1. PICK j \in SessionIndex : q.net[j].address = b /\ ~Unused(q, j)
      BY <1>2 DEF HasEntry
    <2>2. j # i /\ target.net[j] = q.net[j]
      BY <1>1, <2>1
    <2>3. b # target.net[i].address
      BY <2>1, <2>2, NetAssumption DEF Agree, Linked
    <2> QED BY <2>1, <2>2, <2>3 DEF HasEntry, Unused
  <1>3. ASSUME NEW b \in Clients, HasEntry(target, b), b # target.net[i].address
        PROVE  HasEntry(q, b)
    BY <1>1, <1>3 DEF HasEntry, Unused
  <1> QED BY <1>1, <1>2, <1>3
-----------------------------------------------------------------------------
(* The steps.                                                              *)

\* What a call of FMSTR_Poll that leaves the sockets polled to receive from,
\* and then the tables t and the sockets s to close connections of, does.
Polling(t, s, polled) ==
    /\ PolledFrom(polled) /\ Agree(t) /\ SocksOK(s) /\ After(t, s)
    /\ \A b \in Clients : HasSock(s, b) <=> HasSock(polled, b)
    /\ Keeps(t, polled)
    /\ \A b \in Clients :
          \/ answered'[b] = answered[b]
          \/ answered'[b] = answered[b] + 1 /\ HasSock(polled, b) /\ HasEntry(t, b)
    /\ ~Silent => /\ Speaks(t, polled, answered')
                  /\ \A b \in Clients : HasEntry(target, b) /\ ~HasEntry(t, b) => state[b] = "closing"
    /\ inbox' \in [Clients -> Seq(LockCommands \union {Piece})]
    /\ answered' \in [Clients -> Nat]
    /\ sent' = sent /\ build' = build

\* What polling itself keeps.
LEMMA PolledKeeps ==
    ASSUME TcpIInv, NEW s, PolledFrom(s)
    PROVE  /\ \A b \in Clients : HasSock(sock, b) => HasSock(s, b)
           /\ \A b \in Clients : HasSock(s, b) => HasSock(sock, b) \/ state[b] = "waiting"
           /\ Keeps(target, s)
           /\ ~Silent => Speaks(target, s, answered)
  <1>1. DOMAIN s = SlotRange /\ DOMAIN sock = SlotRange
    BY DEF PolledFrom, SocksOK, TcpIInv, TcpTypeOK
  <1>2. \A b \in Clients : HasSock(sock, b) => HasSock(s, b)
    BY <1>1 DEF HasSock, PolledFrom
  <1>3. \A b \in Clients : HasSock(s, b) => HasSock(sock, b) \/ state[b] = "waiting"
    BY <1>1 DEF HasSock, PolledFrom, Waiting
  <1>4. Keeps(target, s)
    BY <1>2 DEF TcpIInv, TcpTypeOK, Keeps
  <1>5. ASSUME ~Silent, NEW b \in Clients, answered[b] > 0, HasSock(s, b)
        PROVE  HasEntry(target, b)
    BY <1>3, <1>5 DEF TcpIInv, Dialogue
  <1> QED BY <1>2, <1>3, <1>4, <1>5 DEF Speaks

\* The tables after a client was heard.
LEMMA HeardKeeps ==
    ASSUME TcpIInv, NEW s, PolledFrom(s), NEW k \in SlotRange, ~Broadcast(k), s[k].open,
           NEW a \in Clients, s[k].address = a,
           NEW q, NEW i, Given(target, q, i, a),
           NEW t, Agree(t), t.net = q.net, t.closed = q.closed
    PROVE  /\ Keeps(t, s) /\ HasEntry(t, a) /\ HasSock(s, a)
           /\ \A b \in Clients : HasEntry(target, b) => HasEntry(t, b)
           /\ ~Silent => \A counts : (\A b \in Clients \ {a} : counts[b] = answered[b]) => Speaks(t, s, counts)
  <1>1. /\ \A b \in Clients : HasSock(sock, b) => HasSock(s, b)
        /\ Keeps(target, s)
        /\ ~Silent => Speaks(target, s, answered)
    BY PolledKeeps
  <1>2. Agree(target) /\ target.closed = {} /\ SocksOK(s) /\ DOMAIN s = SlotRange
    BY DEF TcpIInv, TcpTypeOK, PolledFrom, SocksOK
  <1>3. \E j \in SessionIndex : Unused(target, j) \/ target.net[j].address = a
    BY <1>1, <1>2, NoVictim DEF Keeps
  <1>4. /\ \A b \in Clients : HasEntry(q, b) <=> HasEntry(target, b) \/ b = a
        /\ \A b \in Clients : HasEntry(q, b) => b \notin q.closed
    BY <1>2, <1>3, GivenKeeps
  <1>5. \A b \in Clients : HasEntry(t, b) <=> HasEntry(q, b)
    BY DEF HasEntry, Unused
  <1>6. HasSock(s, a)
    BY <1>2 DEF HasSock
  <1>7. Keeps(t, s)
    BY <1>1, <1>4, <1>5, <1>6 DEF Keeps
  <1>8. ASSUME ~Silent, NEW counts, \A b \in Clients \ {a} : counts[b] = answered[b]
        PROVE  Speaks(t, s, counts)
    <2>1. ASSUME NEW b \in Clients \ {a}, counts[b] > 0, HasSock(s, b)
          PROVE  HasEntry(t, b)
      BY <1>1, <1>2, <1>4, <1>5, <1>8, <2>1 DEF Speaks
    <2> QED BY <1>4, <1>5, <2>1 DEF Speaks
  <1> QED BY <1>4, <1>5, <1>6, <1>7, <1>8

\* Receiving from a client.
LEMMA ReceiveLemma ==
    ASSUME TcpIInv, NEW polled, PolledFrom(polled), NEW k \in SlotRange, ~Broadcast(k), polled[k].open,
           NEW a, a = polled[k].address, Receive(polled, k, a), build' = build
    PROVE  \E t, s : Polling(t, s, polled)
  <1>0. /\ Agree(target) /\ target \in NetTables /\ target.closed = {}
        /\ inbox \in [Clients -> Seq(LockCommands \union {Piece})]
        /\ answered \in [Clients -> Nat]
        /\ SocksOK(polled) /\ DOMAIN sock = SlotRange /\ DOMAIN polled = SlotRange
    BY DEF TcpIInv, TcpTypeOK, SocksOK, PolledFrom
  <1>1. a \in Clients
    BY <1>0 DEF SocksOK
  <1>2. /\ \A b \in Clients : HasSock(sock, b) => HasSock(polled, b)
        /\ \A b \in Clients : HasSock(polled, b) => HasSock(sock, b) \/ state[b] = "waiting"
        /\ Keeps(target, polled)
        /\ ~Silent => Speaks(target, polled, answered)
    BY PolledKeeps
  <1>3. CASE /\ inbox[a] = <<>> /\ state[a] = "closing"
             /\ After(Disconnected(target, a), polled)
             /\ UNCHANGED <<inbox, sent, answered>>
    <2>1. PICK t : t = Disconnected(target, a)
      OBVIOUS
    <2>2. PICK i : i = FindNetSession(target, a)
      OBVIOUS
    <2>3. EntryClosed(target, t, i)
      BY <1>0, <1>1, <2>1, <2>2, DisconnectedLemma DEF Addresses
    <2>4. i \in SessionIndex /\ (target.net[i].address # a => \A j \in SessionIndex : target.net[j].address # a)
      BY <1>0, <2>2, FindNetLemma
    <2>5. /\ \A b \in Clients : HasEntry(t, b) <=> HasEntry(target, b) /\ b # target.net[i].address
          /\ t.closed \subseteq {target.net[i].address}
          /\ ~Unused(target, i) => target.net[i].address \in t.closed
      BY <1>0, <2>3, <2>4, ClosedKeeps
    <2>6. Agree(t)
      BY <2>3 DEF EntryClosed
    <2>7. Keeps(t, polled)
      BY <1>2, <2>5 DEF Keeps
    <2>8. ASSUME ~Silent
          PROVE  target.net[i].address = a /\ a \in t.closed
      <3>1. HasSock(polled, a) /\ state[a] # "waiting"
        BY <1>0, <1>3 DEF HasSock
      <3>2. answered[a] > 0
        BY <1>1, <1>3, <2>8 DEF TcpIInv, Dialogue
      <3>3. HasEntry(target, a)
        BY <1>1, <1>2, <2>8, <3>1, <3>2 DEF TcpIInv, Dialogue
      <3>4. PICK j \in SessionIndex : target.net[j].address = a /\ ~Unused(target, j)
        BY <3>3 DEF HasEntry
      <3>5. target.net[i].address = a
        BY <2>4, <3>4
      <3>6. i = j
        BY <1>0, <1>1, <2>4, <3>4, <3>5, NetAssumption DEF Agree, Linked
      <3> QED BY <2>5, <3>4, <3>5, <3>6
    <2>9. ASSUME ~Silent
          PROVE  /\ Speaks(t, polled, answered')
                 /\ \A b \in Clients : HasEntry(target, b) /\ ~HasEntry(t, b) => state[b] = "closing"
      <3>1. answered' = answered
        BY <1>3
      <3>2. Speaks(t, polled, answered)
        BY <1>0, <1>2, <2>5, <2>8, <2>9 DEF Speaks
      <3> QED BY <1>3, <2>5, <2>8, <2>9, <3>1, <3>2
    <2>10. Polling(t, polled, polled)
      BY <1>0, <1>3, <2>1, <2>6, <2>7, <2>9 DEF Polling
    <2> QED BY <2>10
  <1>4. CASE /\ inbox[a] # <<>> /\ Head(inbox[a]) = Piece
             /\ After(Incomplete(target, a), polled)
             /\ inbox' = [inbox EXCEPT ![a] = Tail(@)] /\ UNCHANGED <<sent, answered>>
    <2>1. PICK t : t = Incomplete(target, a)
      OBVIOUS
    <2>2. Given(target, t, FindNetSession(target, a), a)
      BY <1>0, <1>1, <2>1, IncompleteLemma
    <2>3. Agree(t)
      BY <2>2 DEF Given
    <2>4. /\ Keeps(t, polled)
          /\ \A b \in Clients : HasEntry(target, b) => HasEntry(t, b)
          /\ ~Silent => \A counts : (\A b \in Clients \ {a} : counts[b] = answered[b]) => Speaks(t, polled, counts)
      BY <1>1, <2>2, <2>3, HeardKeeps
    <2>5. inbox' \in [Clients -> Seq(LockCommands \union {Piece})]
      BY <1>0, <1>1, <1>4
    <2>6. Polling(t, polled, polled)
      BY <1>0, <1>4, <2>1, <2>3, <2>4, <2>5 DEF Polling
    <2> QED BY <2>6
  <1>5. CASE /\ inbox[a] # <<>> /\ Head(inbox[a]) # Piece
             /\ After(Complete(target, a, Head(inbox[a]), "whole").d, SentTo(polled, a))
             /\ inbox' = [inbox EXCEPT ![a] = Tail(@)]
             /\ answered' = [answered EXCEPT ![a] = @ + 1] /\ UNCHANGED sent
    <2>1. PICK c : c = Head(inbox[a])
      OBVIOUS
    <2>2. IsCommand(c)
      <3>1. c \in LockCommands \union {Piece}
        BY <1>0, <1>1, <1>5, <2>1
      <3>2. c \in [cmd : {"lock"}, feature : Lockable]
        BY <1>5, <2>1, <3>1 DEF LockCommands
      <3>3. c.cmd = "lock" /\ c.feature \in Lockable
        BY <3>2
      <3>4. c.feature.instance \in Nat
        BY <3>3, TcpAssumption
      <3> QED BY <3>3, <3>4 DEF IsCommand
    <2>3. PICK t, status : t = Complete(target, a, c, "whole").d /\ status = Complete(target, a, c, "whole").status
      OBVIOUS
    <2>4. PICK i : i = FindNetSession(target, a)
      OBVIOUS
    <2>5. PICK how : how = "whole"
      OBVIOUS
    <2>6. PICK m, n : Given(target, m, i, a) /\ Commanded(m, n, i, c, status) /\ (t = n \/ how # "whole")
      BY <1>0, <1>1, <2>2, <2>3, <2>4, <2>5, CompleteLemma
    <2>7. Agree(t) /\ t.net = m.net /\ t.closed = m.closed
      BY <2>5, <2>6 DEF Commanded
    <2>8. /\ Keeps(t, polled) /\ HasEntry(t, a) /\ HasSock(polled, a)
          /\ \A b \in Clients : HasEntry(target, b) => HasEntry(t, b)
          /\ ~Silent => \A counts : (\A b \in Clients \ {a} : counts[b] = answered[b]) => Speaks(t, polled, counts)
      BY <1>1, <2>6, <2>7, HeardKeeps
    <2>9. PICK s : s = SentTo(polled, a)
      OBVIOUS
    <2>10. /\ SocksOK(s)
           /\ \A j \in SlotRange : s[j].open = polled[j].open /\ s[j].address = polled[j].address
      BY <1>0, <2>9, SentLemma
    <2>11. \A b \in Clients : HasSock(s, b) <=> HasSock(polled, b)
      BY <1>0, <2>10 DEF HasSock, SocksOK
    <2>12. inbox' \in [Clients -> Seq(LockCommands \union {Piece})]
      BY <1>0, <1>1, <1>5
    <2>13. /\ answered' \in [Clients -> Nat] /\ answered'[a] = answered[a] + 1
           /\ \A b \in Clients \ {a} : answered'[b] = answered[b]
      BY <1>0, <1>1, <1>5
    <2>14. After(t, s) /\ sent' = sent
      BY <1>5, <2>1, <2>3, <2>9
    <2>15. Polling(t, s, polled)
      BY <2>7, <2>8, <2>10, <2>11, <2>12, <2>13, <2>14 DEF Polling
    <2> QED BY <2>15
  <1> QED BY <1>3, <1>4, <1>5 DEF Receive

\* Receiving a discovery: its entry belongs to no client.
LEMMA DiscoverLemma ==
    ASSUME TcpIInv, NEW polled, PolledFrom(polled), NEW k \in SlotRange, Broadcast(k), Discover(polled, k),
           UNCHANGED <<build, inbox, sent, answered>>
    PROVE  \E t, s : Polling(t, s, polled)
  <1>0. /\ Agree(target) /\ DOMAIN sock = SlotRange /\ SocksOK(polled)
        /\ polled \in [SlotRange -> SockRecords]
        /\ inbox \in [Clients -> Seq(LockCommands \union {Piece})] /\ answered \in [Clients -> Nat]
    BY DEF TcpIInv, TcpTypeOK, SocksOK, PolledFrom
  <1>1. PICK e \in SockRecords : /\ e.address = Seeker /\ e.open = polled[k].open
                                 /\ e = [polled[k] EXCEPT !.address = Seeker]
    <2>1. PICK f \in SockRecords : f = polled[k]
      BY <1>0
    <2> QED BY <2>1 DEF SockRecords
  <1>2. PICK m : m = WithSocket(polled, k, e)
    OBVIOUS
  <1>3. /\ m \in [SlotRange -> SockRecords] /\ m[k] = e
        /\ \A j \in SlotRange \ {k} : m[j] = polled[j]
    BY <1>0, <1>2, SocketReplaced
  <1>4. SocksOK(m)
    BY <1>0, <1>1, <1>3 DEF SocksOK
  <1>5. PICK s : s = SentTo(m, Seeker)
    OBVIOUS
  <1>6. /\ SocksOK(s)
        /\ \A j \in SlotRange : s[j].open = m[j].open /\ s[j].address = m[j].address
    <2>1. m[k].address = Seeker /\ DOMAIN sock = SlotRange
      BY <1>0, <1>1, <1>3
    <2> QED BY <1>4, <1>5, <2>1, SentLemma
  <1>7. After(target, s)
    <2>1. m = [polled EXCEPT ![k].address = Seeker]
      BY <1>1, <1>2 DEF WithSocket
    <2> QED BY <1>5, <2>1 DEF Discover, LwipReceiveBroadcast, ZephyrReceiveBroadcast
  <1>8. ASSUME NEW b \in Clients
        PROVE  HasSock(s, b) <=> HasSock(polled, b)
    <2>1. polled[k].address # b /\ e.address # b
      BY <1>0, <1>1, NetAssumption, TcpAssumption DEF SocksOK
    <2>2. DOMAIN s = SlotRange /\ DOMAIN polled = SlotRange
      BY <1>0, <1>6 DEF SocksOK
    <2>3. ~(s[k].open /\ s[k].address = b) /\ ~(polled[k].open /\ polled[k].address = b)
      BY <1>3, <1>6, <2>1
    <2>4. \A j \in SlotRange \ {k} : s[j].open = polled[j].open /\ s[j].address = polled[j].address
      BY <1>3, <1>6
    <2> QED BY <2>2, <2>3, <2>4 DEF HasSock
  <1>9. Keeps(target, polled) /\ (~Silent => Speaks(target, polled, answered))
    BY PolledKeeps
  <1>10. Polling(target, s, polled)
    BY <1>0, <1>6, <1>7, <1>8, <1>9 DEF Polling
  <1> QED BY <1>10

LEMMA PollLemma ==
    ASSUME TcpIInv, NetPoll
    PROVE  \E t, s, polled : Polling(t, s, polled)
  <1>1. PICK polled \in Polled :
            LET marked == Pending(polled)
            IN  \/ /\ marked = {} /\ After(target, polled)
                   /\ UNCHANGED <<inbox, sent, answered, found>>
                \/ /\ marked # {} /\ ~Broadcast(First(marked))
                   /\ Receive(polled, First(marked), polled[First(marked)].address)
                   /\ UNCHANGED found
                \/ /\ marked # {} /\ Broadcast(First(marked))
                   /\ Discover(polled, First(marked)) /\ UNCHANGED <<inbox, sent, answered>>
    BY DEF NetPoll
  <1>2. build' = build
    BY DEF NetPoll
  <1>3. SocksOK(sock) /\ Slots = SlotRange
    BY DEF TcpIInv, TcpTypeOK, SocksOK, Slots
  <1>4. PolledFrom(polled)
    BY <1>3, PolledLemma
  <1>5. CASE After(target, polled) /\ UNCHANGED <<inbox, sent, answered>>
    <2>1. Keeps(target, polled) /\ (~Silent => Speaks(target, polled, answered))
      BY <1>4, PolledKeeps
    <2>2. /\ Agree(target) /\ SocksOK(polled) /\ answered \in [Clients -> Nat]
          /\ inbox \in [Clients -> Seq(LockCommands \union {Piece})]
      BY <1>4 DEF TcpIInv, TcpTypeOK, PolledFrom
    <2>3. Polling(target, polled, polled)
      BY <1>2, <1>4, <1>5, <2>1, <2>2 DEF Polling
    <2> QED BY <2>3
  <1>6. CASE Pending(polled) # {} /\ ~(After(target, polled) /\ UNCHANGED <<inbox, sent, answered>>)
    <2>1. PICK k : k = First(Pending(polled))
      OBVIOUS
    <2>2. k \in SlotRange /\ polled[k].open
      <3>1. Pending(polled) \in SUBSET SlotRange
        BY <1>3 DEF Pending
      <3>2. k \in Pending(polled)
        BY <1>6, <2>1, <3>1, FirstSlot
      <3> QED BY <1>3, <3>2 DEF Pending
    <2>3. CASE ~Broadcast(k) /\ Receive(polled, k, polled[k].address)
      BY <1>2, <1>4, <2>2, <2>3, ReceiveLemma
    <2>4. CASE Broadcast(k) /\ Discover(polled, k) /\ UNCHANGED <<inbox, sent, answered>>
      BY <1>2, <1>4, <2>2, <2>4, DiscoverLemma
    <2> QED BY <1>1, <1>6, <2>1, <2>3, <2>4
  <1> QED BY <1>1, <1>5, <1>6

\* The tables, the sockets and the clients after a call of FMSTR_Poll.
LEMMA AfterLemma ==
    ASSUME TcpIInv, NEW t, NEW s, NEW polled, Polling(t, s, polled)
    PROVE  /\ Agree(target') /\ target' \in NetTables /\ target'.closed = {} /\ SocksOK(sock')
           /\ \A b : HasEntry(target', b) <=> HasEntry(t, b)
           /\ \A b \in Clients : HasSock(sock', b) <=> HasSock(polled, b) /\ b \notin t.closed
           /\ state' \in [Clients -> {"out", "waiting", "connected", "closing", "gone"}]
           /\ \A b \in Clients :
                 state'[b] = IF HasSock(sock', b)
                             THEN IF state[b] = "waiting" THEN "connected" ELSE state[b]
                             ELSE IF state[b] \in {"connected", "closing"} THEN "gone" ELSE state[b]
  <1>1. /\ target' = [t EXCEPT !.closed = {}] /\ sock' = Closed(s, t.closed)
        /\ state' = ClientStates(sock') /\ Agree(t) /\ SocksOK(s)
    BY DEF Polling, After
  <1>2. target' \in NetTables /\ target'.net = t.net /\ target'.p = t.p /\ target'.closed = {}
    <2>1. t \in NetTables /\ target' = WithClosed(t, {})
      BY <1>1 DEF Agree, Linked, WithClosed
    <2> QED BY <2>1, ClosedReplaced
  <1>3. Agree(target')
    BY <1>1, <1>2 DEF Agree, Linked, Unused
  <1>4. \A b : HasEntry(target', b) <=> HasEntry(t, b)
    BY <1>2 DEF HasEntry, Unused
  <1>5. DOMAIN sock = SlotRange
    BY DEF TcpIInv, TcpTypeOK, SocksOK
  <1>6. /\ SocksOK(sock')
        /\ \A b \in Clients : HasSock(sock', b) <=> HasSock(s, b) /\ b \notin t.closed
    BY <1>1, <1>5, ClosedLemma
  <1>7. \A b \in Clients : HasSock(sock', b) <=> HasSock(polled, b) /\ b \notin t.closed
    BY <1>6 DEF Polling
  <1>8. ASSUME NEW b \in Clients
        PROVE  state'[b] = IF HasSock(sock', b)
                           THEN IF state[b] = "waiting" THEN "connected" ELSE state[b]
                           ELSE IF state[b] \in {"connected", "closing"} THEN "gone" ELSE state[b]
    <2>1. DOMAIN sock' = DOMAIN sock
      BY <1>5, <1>6 DEF SocksOK
    <2>2. HasSock(sock', b) <=> \E i \in Slots : sock'[i].open /\ sock'[i].address = b
      BY <2>1 DEF HasSock, Slots
    <2> QED BY <1>1, <2>2 DEF ClientStates
  <1>9. state' \in [Clients -> {"out", "waiting", "connected", "closing", "gone"}]
    <2>1. state \in [Clients -> {"out", "waiting", "connected", "closing", "gone"}]
      BY DEF TcpIInv, TcpTypeOK
    <2>2. \A b \in Clients : state'[b] \in {"out", "waiting", "connected", "closing", "gone"}
      BY <1>8, <2>1
    <2>3. state' = [b \in Clients |-> state'[b]]
      BY <1>1 DEF ClientStates
    <2> QED BY <2>2, <2>3
  <1> QED BY <1>2, <1>3, <1>4, <1>6, <1>7, <1>8, <1>9

LEMMA PollInv ==
    ASSUME TcpIInv, NetPoll
    PROVE  TcpIInv'
  <1>1. PICK t, s, polled : Polling(t, s, polled)
    BY PollLemma
  <1>2. /\ Agree(target') /\ target' \in NetTables /\ target'.closed = {} /\ SocksOK(sock')
        /\ \A b : HasEntry(target', b) <=> HasEntry(t, b)
        /\ \A b \in Clients : HasSock(sock', b) <=> HasSock(polled, b) /\ b \notin t.closed
        /\ state' \in [Clients -> {"out", "waiting", "connected", "closing", "gone"}]
        /\ \A b \in Clients :
              state'[b] = IF HasSock(sock', b)
                          THEN IF state[b] = "waiting" THEN "connected" ELSE state[b]
                          ELSE IF state[b] \in {"connected", "closing"} THEN "gone" ELSE state[b]
    BY <1>1, AfterLemma
  <1>3. build' = build /\ build \in Builds /\ sent' = sent /\ sent \in [Clients -> Nat]
    BY <1>1 DEF TcpIInv, TcpTypeOK, Polling
  <1>4. TcpTypeOK'
    BY <1>1, <1>2, <1>3 DEF TcpTypeOK, Polling, SocksOK, SlotRange, Broadcast
  <1>5. \A b \in Clients : HasEntry(target', b) => HasSock(sock', b)
    BY <1>1, <1>2 DEF Polling, Keeps
  <1>6. ASSUME ~Silent, NEW b \in Clients
        PROVE  /\ HasSock(sock', b) => state'[b] \in {"connected", "closing"}
               /\ state'[b] \in {"out", "waiting"} => answered'[b] = 0
               /\ state'[b] = "closing" => answered'[b] > 0
               /\ answered'[b] > 0 /\ HasSock(sock', b) => HasEntry(target', b)
    <2>1. /\ HasSock(sock, b) => state[b] \in {"connected", "closing"}
          /\ state[b] \in {"out", "waiting"} => answered[b] = 0
          /\ state[b] = "closing" => answered[b] > 0
          /\ answered \in [Clients -> Nat]
      BY <1>6 DEF TcpIInv, TcpTypeOK, Dialogue
    <2>2. PolledFrom(polled)
      BY <1>1 DEF Polling
    <2>3. HasSock(polled, b) => HasSock(sock, b) \/ state[b] = "waiting"
      BY <2>2, PolledKeeps
    <2>4. HasSock(sock', b) => state'[b] \in {"connected", "closing"}
      BY <1>2, <2>1, <2>3
    <2>5. \/ answered'[b] = answered[b]
          \/ answered'[b] = answered[b] + 1 /\ HasSock(sock', b)
      BY <1>1, <1>2, <1>5 DEF Polling
    <2>6. ~HasSock(sock', b) => state'[b] \in {"gone", state[b]} /\ state'[b] # "closing"
      BY <1>2
    <2>7. state'[b] \in {"out", "waiting"} => answered'[b] = 0
      BY <2>1, <2>4, <2>5, <2>6
    <2>8. state'[b] = "closing" => state[b] = "closing"
      BY <1>2
    <2>9. state'[b] = "closing" => answered'[b] > 0
      BY <2>1, <2>5, <2>8
    <2>10. answered'[b] > 0 /\ HasSock(sock', b) => HasEntry(target', b)
      BY <1>1, <1>2, <1>6 DEF Polling, Speaks
    <2> QED BY <2>4, <2>7, <2>9, <2>10
  <1>7. ~Silent => Dialogue'
    BY <1>6 DEF Dialogue
  <1> QED BY <1>2, <1>4, <1>5, <1>7 DEF TcpIInv

\* Sockets and tables do not change with what clients do by themselves.
LEMMA ClientsInv ==
    ASSUME TcpIInv, UNCHANGED <<build, target, sock, answered>>,
           inbox' \in [Clients -> Seq(LockCommands \union {Piece})], sent' \in [Clients -> Nat],
           state' \in [Clients -> {"out", "waiting", "connected", "closing", "gone"}],
           ~Silent => \A a \in Clients :
               /\ state'[a] \in {"out", "waiting"} => state[a] \in {"out", "waiting"}
               /\ state'[a] = "closing" => state[a] = "closing" \/ answered[a] > 0
               /\ state[a] \in {"connected", "closing"} => state'[a] \in {"connected", "closing"}
    PROVE  TcpIInv'
  <1>1. SocksOK(sock)'
    BY DEF TcpIInv, TcpTypeOK, SocksOK, SlotRange, Broadcast
  <1>2. TcpTypeOK'
    BY <1>1 DEF TcpIInv, TcpTypeOK
  <1>3. /\ \A a : HasSock(sock, a)' <=> HasSock(sock, a)
        /\ \A a : HasEntry(target, a)' <=> HasEntry(target, a)
    BY DEF HasSock, HasEntry, Unused
  <1>4. ~Silent => Dialogue'
    BY <1>3 DEF TcpIInv, Dialogue
  <1>5. Agree(target)'
    BY DEF TcpIInv
  <1> QED BY <1>2, <1>3, <1>4, <1>5 DEF TcpIInv

LEMMA TcpInitInv == TcpInit => TcpIInv
  <1> SUFFICES ASSUME TcpInit PROVE TcpIInv
    OBVIOUS
  <1>1. build \in Builds /\ build.discovery \in BOOLEAN
    BY TcpAssumption DEF TcpInit
  <1>2. Agree(target) /\ target \in NetTables /\ target.closed = {}
    <2>1. target = InitNet
      BY DEF TcpInit
    <2>2. Agree(InitNet)
      BY InitAgree
    <2>3. InitNet.closed = {}
      BY DEF InitNet
    <2> QED BY <2>1, <2>2, <2>3 DEF Agree, Linked
  <1>3. /\ sock \in [SlotRange -> SockRecords]
        /\ \A i \in SlotRange : sock[i].open = Broadcast(i) /\ sock[i].address = ZeroAddress
    <2>1. PICK none \in SockRecords : none = NoSock /\ none.address = ZeroAddress /\ none.open = FALSE
      <3>1. NoSock \in SockRecords /\ NoSock.address = ZeroAddress /\ NoSock.open = FALSE
        BY DEF NoSock, SockRecords, Addresses
      <3> QED BY <3>1
    <2>2. PICK wide \in SockRecords : /\ wide.address = ZeroAddress /\ wide.open = TRUE
                                      /\ wide = [NoSock EXCEPT !.open = TRUE]
      BY DEF NoSock, SockRecords, Addresses
    <2>3. [NoSock EXCEPT !.open = FALSE] = none
      BY <2>1 DEF NoSock
    <2>4. sock = [i \in SlotRange |-> IF Broadcast(i) THEN wide ELSE none]
      <3>1. CASE build.drv = "lwip"
        <4>1. sock = [i \in SlotRange |-> [NoSock EXCEPT !.open = build.discovery /\ i = 1]]
          BY <3>1 DEF TcpInit, LwipInit, SlotRange
        <4>2. \A i \in SlotRange :
                 [NoSock EXCEPT !.open = build.discovery /\ i = 1] = IF Broadcast(i) THEN wide ELSE none
          BY <1>1, <2>2, <2>3 DEF Broadcast
        <4> QED BY <4>1, <4>2
      <3>2. CASE build.drv # "lwip"
        <4>1. CASE build.discovery
          <5>1. PICK blank : blank = [i \in 1 .. SessionCount + 1 |-> none]
            OBVIOUS
          <5>2. sock = [blank EXCEPT ![1] = wide]
            BY <2>1, <2>2, <3>2, <4>1, <5>1, SessionsAssumption DEF TcpInit, ZephyrInit
          <5>3. SlotRange = 1 .. SessionCount + 1 /\ \A i \in SlotRange : Broadcast(i) <=> i = 1
            BY <4>1 DEF SlotRange, Broadcast
          <5> QED BY <5>1, <5>2, <5>3
        <4>2. CASE ~build.discovery
          <5>1. sock = [i \in SessionIndex |-> none]
            BY <2>1, <3>2, <4>2 DEF TcpInit, ZephyrInit
          <5>2. SlotRange = SessionIndex
            BY <4>2, SessionsAssumption DEF SlotRange, SessionIndex
          <5>3. \A i \in SlotRange : ~Broadcast(i)
            BY <4>2 DEF Broadcast
          <5> QED BY <5>1, <5>2, <5>3
        <4> QED BY <4>1, <4>2
      <3> QED BY <3>1, <3>2
    <2>5. \A i \in SlotRange : Broadcast(i) \in BOOLEAN
      BY DEF Broadcast
    <2> QED BY <2>1, <2>2, <2>4, <2>5
  <1>4. SocksOK(sock)
    BY <1>3 DEF SocksOK
  <1>5. /\ \A a \in Clients : state[a] = "out" /\ answered[a] = 0
        /\ state \in [Clients -> {"out", "waiting", "connected", "closing", "gone"}]
        /\ sent \in [Clients -> Nat] /\ answered \in [Clients -> Nat]
        /\ inbox \in [Clients -> Seq(LockCommands \union {Piece})]
    BY DEF TcpInit
  <1>6. \A a \in Clients : ~HasSock(sock, a)
    BY <1>3, NetAssumption DEF HasSock
  <1>7. \A a \in Clients : ~HasEntry(target, a)
    BY DEF TcpInit, InitNet, HasEntry, Unused
  <1>8. Dialogue
    BY <1>5, <1>6 DEF Dialogue
  <1> QED BY <1>1, <1>2, <1>4, <1>5, <1>7, <1>8 DEF TcpIInv, TcpTypeOK

LEMMA TcpNextInv == TcpIInv /\ [TcpNext]_tcpVars => TcpIInv'
  <1>0. ASSUME TcpIInv
        PROVE  /\ state \in [Clients -> {"out", "waiting", "connected", "closing", "gone"}]
               /\ inbox \in [Clients -> Seq(LockCommands \union {Piece})]
               /\ sent \in [Clients -> Nat] /\ answered \in [Clients -> Nat]
    BY <1>0 DEF TcpIInv, TcpTypeOK
  <1>1. ASSUME TcpIInv, UNCHANGED tcpVars PROVE TcpIInv'
    BY <1>0, <1>1, ClientsInv DEF tcpVars
  <1>2. ASSUME TcpIInv, Seek PROVE TcpIInv'
    BY <1>0, <1>2, ClientsInv DEF Seek
  <1>3. ASSUME TcpIInv, NEW a \in Clients, Connect(a) PROVE TcpIInv'
    <2>1. /\ UNCHANGED <<build, target, sock, answered>> /\ inbox' = inbox /\ sent' = sent
          /\ state' = [state EXCEPT ![a] = "waiting"] /\ state[a] = "out"
      BY <1>3 DEF Connect
    <2>2. /\ state' \in [Clients -> {"out", "waiting", "connected", "closing", "gone"}]
          /\ state'[a] = "waiting" /\ \A b \in Clients \ {a} : state'[b] = state[b]
      BY <1>0, <1>3, <2>1
    <2> QED BY <1>0, <1>3, <2>1, <2>2, ClientsInv
  <1>4. ASSUME TcpIInv, NEW a \in Clients, Send(a) PROVE TcpIInv'
    <2>1. UNCHANGED <<build, target, sock, answered>> /\ state' = state
      BY <1>4 DEF Send
    <2>2. PICK c \in LockCommands, pieces \in {<<>>, <<Piece>>} :
              inbox' = [inbox EXCEPT ![a] = Append(pieces, c)]
      BY <1>4 DEF Send
    <2>3. Append(pieces, c) \in Seq(LockCommands \union {Piece})
      <3>1. PICK S : S = LockCommands \union {Piece}
        OBVIOUS
      <3>2. c \in S /\ Piece \in S
        BY <2>2, <3>1
      <3>3. <<>> \in Seq(S) /\ <<Piece>> \in Seq(S)
        BY <3>2
      <3>4. pieces \in Seq(S)
        BY <2>2, <3>3
      <3>5. Append(pieces, c) \in Seq(S)
        BY <3>2, <3>4
      <3> QED BY <3>1, <3>5
    <2>4. inbox' \in [Clients -> Seq(LockCommands \union {Piece})]
      BY <1>0, <1>4, <2>2, <2>3
    <2>5. sent' \in [Clients -> Nat]
      BY <1>0, <1>4 DEF Send
    <2> QED BY <1>0, <1>4, <2>1, <2>4, <2>5, ClientsInv
  <1>5. ASSUME TcpIInv, NEW a \in Clients, Close(a) PROVE TcpIInv'
    <2>1. /\ UNCHANGED <<build, target, sock, answered>> /\ inbox' = inbox /\ sent' = sent
          /\ state' = [state EXCEPT ![a] = "closing"] /\ state[a] = "connected"
          /\ ~Silent => answered[a] > 0
      BY <1>0, <1>5 DEF Close
    <2>2. /\ state' \in [Clients -> {"out", "waiting", "connected", "closing", "gone"}]
          /\ state'[a] = "closing" /\ \A b \in Clients \ {a} : state'[b] = state[b]
      BY <1>0, <1>5, <2>1
    <2> QED BY <1>0, <1>5, <2>1, <2>2, ClientsInv
  <1> QED BY <1>1, <1>2, <1>3, <1>4, <1>5, PollInv DEF TcpNext

\* The inductive invariant: the tables of the two layers agree, and a client
\* with an entry in the transport's has a socket in the driver's; if no client
\* closes a connection that it has not used, also the other way round for every
\* client that has been answered.
THEOREM TcpInvariance == TcpSpec => []TcpIInv
  BY TcpInitInv, TcpNextInv, PTL DEF TcpSpec

\* The driver has a socket for every client that the transport serves.
THEOREM ServedHaveSockets == TcpSpec => []SocketForEveryEntry
  <1>1. TcpIInv => SocketForEveryEntry
    <2>1. \A a : Served(a) <=> HasEntry(target, a)
      BY DEF Served, HasEntry
    <2>2. \A a : HasSock(sock, a) <=> \E i \in Slots : sock[i].open /\ sock[i].address = a
      BY DEF HasSock, Slots
    <2> QED BY <2>1, <2>2 DEF TcpIInv, SocketForEveryEntry
  <1> QED BY <1>1, TcpInvariance, PTL

\* Provided that no client closes a connection before it has sent anything, one
\* that is served is let go of only when it has closed its own.
\* Over TCP, whoever owns a lock has an open connection (OwnersAreConnected):
\* none outlives the connection of the client that took it.
THEOREM LocksHaveConnections == TcpSpec => []OwnersAreConnected
  <1>1. ASSUME TcpIInv, NEW f \in FeatureIndex, target.p.feature[f].owner # NoSession
        PROVE  LET id == target.p.session[target.p.feature[f].owner].id
               IN  /\ id # NoId /\ ~Unused(target, id)
                   /\ \E i \in Slots : sock[i].open /\ ~Broadcast(i) /\ sock[i].address = target.net[id].address
    <2>1. PICK s \in SessionIndex, i \in SessionIndex :
              /\ s = target.p.feature[f].owner /\ i = target.p.session[s].id
              /\ i # NoId /\ ~Unused(target, i)
      <3>1. target.p.feature[f].owner \in SessionIndex
        BY <1>1 DEF TcpIInv, Agree, Linked, Sound, ProtocolTables, LockRecords, SessionIndex, NoSession
      <3>2. target.p.session[target.p.feature[f].owner].id # NoId
        BY <1>1, Zenon DEF TcpIInv, Agree, Linked, Sound
      <3>3. target.p.session[target.p.feature[f].owner].id \in SessionIndex
        <4>1. target.p.session \in [SessionIndex -> SessionRecords]
          BY <1>1 DEF TcpIInv, Agree, Linked, Sound, ProtocolTables
        <4>2. \A s \in SessionIndex : target.p.session[s] \in SessionRecords
          BY <4>1
        <4>3. \A s \in SessionIndex : target.p.session[s].id \in 0 .. SessionCount
          BY <4>2 DEF SessionRecords
        <4>4. \A x \in 0 .. SessionCount : x # NoId => x \in SessionIndex
          BY SessionsAssumption DEF SessionIndex, NoId
        <4> QED BY <3>1, <3>2, <4>3, <4>4
      <3>4. ~Unused(target, target.p.session[target.p.feature[f].owner].id)
        BY <1>1, <3>1, <3>2, Zenon DEF TcpIInv, Agree, Linked
      <3> QED BY <3>1, <3>2, <3>3, <3>4
    <2>2. target.net[i].address \in Clients
      <3>1. target \in NetTables
        BY <1>1, Zenon DEF TcpIInv, Agree, Linked
      <3>2. target.net \in [SessionIndex -> EntryRecords]
        BY <3>1 DEF NetTables
      <3>3. target.net[i] \in EntryRecords
        BY <2>1, <3>2
      <3>4. target.net[i].address \in Addresses
        BY <3>3 DEF EntryRecords
      <3>5. target.net[i].address # ZeroAddress
        BY <1>1, <2>1, Zenon DEF TcpIInv, Agree
      <3> QED BY <3>4, <3>5 DEF Addresses
    <2>3. PICK j \in Slots : sock[j].open /\ sock[j].address = target.net[i].address
      <3>1. HasSock(sock, target.net[i].address)
        BY <1>1, <2>1, <2>2 DEF TcpIInv, HasEntry
      <3> QED BY <3>1 DEF HasSock, Slots
    <2>4. ~Broadcast(j)
      <3>1. j \in SlotRange
        BY <1>1, <2>3 DEF TcpIInv, TcpTypeOK, SocksOK, Slots
      <3> QED BY <1>1, <2>2, <2>3, <3>1, NetAssumption, TcpAssumption DEF TcpIInv, TcpTypeOK, SocksOK
    <2> QED BY <2>1, <2>3, <2>4
  <1>2. TcpIInv => OwnersAreConnected
    BY <1>1 DEF OwnersAreConnected
  <1> QED BY <1>2, TcpInvariance, PTL

THEOREM NobodyGivesWay == ASSUME ~Silent PROVE TcpSpec => ServedUntilClosed
  <1> DEFINE Kept == \A a \in Clients : Served(a) /\ ~Served(a)' => state[a] = "closing"
  <1>1. ASSUME TcpIInv, TcpNext PROVE Kept \/ UNCHANGED tcpVars
    <2>1. CASE NetPoll
      <3>1. PICK t, s, polled : Polling(t, s, polled)
        BY <1>1, <2>1, PollLemma
      <3>2. \A b : HasEntry(target', b) <=> HasEntry(t, b)
        BY <1>1, <3>1, AfterLemma
      <3>3. \A b \in Clients : HasEntry(target, b) /\ ~HasEntry(t, b) => state[b] = "closing"
        BY <3>1 DEF Polling
      <3> QED BY <3>2, <3>3 DEF Served, HasEntry, Unused
    <2>2. CASE target' = target
      BY <2>2 DEF Served, Unused
    <2> QED BY <1>1, <2>1, <2>2 DEF TcpNext, Seek, Connect, Send, Close
  <1>2. TcpIInv /\ [TcpNext]_tcpVars =>
           [\A a \in Clients : Served(a) /\ ~Served(a)' => state[a] = "closing"]_tcpVars
    BY <1>1
  <1> QED BY <1>2, TcpInvariance, PTL DEF TcpSpec, ServedUntilClosed
=============================================================================
