------------------------------ MODULE NetUdp ------------------------------
(***************************************************************************)
(* Clients of the network transport over a datagram driver, for lwIP       *)
(* (freemaster_net_lwip_udp.c) or for Zephyr (freemaster_zephyr_net_udp.c):*)
(* any of them may send at any time, nobody says goodbye, and an entry is  *)
(* given up when a client comes for which there is none.  Each step is one *)
(* _FMSTR_NetProcess, called by FMSTR_Poll.  The drivers keep no state but *)
(* their socket, and mark nothing as broadcast: a discovery is a frame     *)
(* like a PING.                                                            *)
(***************************************************************************)
EXTENDS NetTable

CONSTANTS
    Nobody,        \* not an address
    Features,      \* what clients lock and use, each a type and an instance
    Drivers,       \* "lwip", "zephyr"
    Blocking,      \* FMSTR_NET_BLOCKING_TIMEOUT > 0
    Requests,      \* bound: access levels a client asks for
    MaxFrames,     \* bound: frames in one behaviour
    MaxLock        \* bound: how often a feature is locked at a time

ASSUME UdpAssumption ==
    /\ Nobody \notin Clients \union {ZeroAddress}
    /\ Features \subseteq [type : STRING, instance : Nat]
    /\ Drivers \subseteq {"lwip", "zephyr"} /\ Blocking \in BOOLEAN
    /\ Requests \subseteq NO .. RWF /\ MaxFrames \in Nat /\ MaxLock \in Nat

VARIABLES
    d,         \* the tables of the driver
    locks,     \* history: how often each client with an entry has been granted each lock
               \* and not given it back
    proved,    \* history: the passwords each client has shown since it last logged out
    silent,    \* history: the pairs of a client and one that was heard after it
    from       \* history: who was heard in the last step, ZeroAddress if receiving failed

vars == <<d, locks, proved, silent, from>>

Commands ==
    [cmd : {"ping", "discovery", "read", "write"}]
        \union [cmd : {"lock", "unlock", "use"}, feature : Features]
        \union [cmd : {"auth1"}, req : Requests]
        \union [cmd : {"auth2"}, req : Requests, known : PasswordLevels \union {NoPassword}]

Init ==
    /\ d = InitNet
    /\ locks = [f \in Features |-> [a \in Clients |-> 0]]
    /\ proved = [a \in Clients |-> {}]
    /\ silent = {} /\ from = Nobody

\* FMSTR_NET_DRV.Recv: who sent what is received; Nobody if nothing came, and
\* the zero address if receiving fails.  For lwIP's driver a receive timeout
\* is a failure.
LwipUdpRecv   == Clients \union {IF Blocking THEN ZeroAddress ELSE Nobody}
ZephyrUdpRecv == Clients \union {Nobody}

\* FMSTR_NET_DRV.Send: a datagram is sent whole or not at all.
LwipUdpSend   == {"whole", "error"}
ZephyrUdpSend == {"whole", "error"}

Recv == UNION {IF drv = "lwip" THEN LwipUdpRecv ELSE ZephyrUdpRecv : drv \in Drivers}
Sent == UNION {IF drv = "lwip" THEN LwipUdpSend ELSE ZephyrUdpSend : drv \in Drivers}

\* Once more a client has been heard, and all others are silent.
Heard(a) ==
    /\ silent' = {r \in silent : r[1] # a} \union {<<b, a>> : b \in Clients \ {a}}
    /\ from' = a

\* The entry that serves a client.
EntryOf(a) == {i \in SessionIndex : d.net[i].address = a /\ ~Unused(d, i)}

\* With its entry a client loses its locks.
KeepLocks(l) ==
    locks' = [f \in Features |-> [a \in Clients |-> IF EntryOf(a)' = {} THEN 0 ELSE l[f][a]]]

\* What the histories keep of client a's command c, answered with status.
Remember(a, c, status) ==
    /\ KeepLocks(CASE c.cmd = "lock" /\ status = "OK" -> [locks EXCEPT ![c.feature][a] = @ + 1]
                   [] c.cmd = "unlock" /\ status = "OK" ->
                          [locks EXCEPT ![c.feature][a] = IF @ > 0 THEN @ - 1 ELSE 0]
                   [] OTHER -> locks)
    /\ proved' = IF c.cmd = "auth2" THEN [proved EXCEPT ![a] = @ \union ({c.known} \ {NoPassword})]
                 ELSE IF c.cmd = "auth1" /\ c.req = NO THEN [proved EXCEPT ![a] = {}]
                 ELSE proved

\* A bound on the locks a client takes without releasing them.
Bounded(c) ==
    c.cmd = "lock" /\ FeatureGet(c.feature) # NoFeature =>
        d.p.feature[FeatureGet(c.feature)].lockCount < MaxLock

ReceiveCommand(a) ==
    \E c \in Commands, how \in Sent :
        LET done == Complete(d, a, c, how)
        IN  /\ Bounded(c)
            /\ d' = [done.d EXCEPT !.closed = {}]
            /\ Remember(a, c, done.status) /\ Heard(a)

ReceivePart(a) ==
    /\ d' = [Incomplete(d, a) EXCEPT !.closed = {}]
    /\ KeepLocks(locks) /\ UNCHANGED proved /\ Heard(a)

ReceiveBroken(a) ==
    /\ d' = [Broken(d, a) EXCEPT !.closed = {}]
    /\ KeepLocks(locks) /\ UNCHANGED proved /\ Heard(a)

\* Recv fails and gives no address: the entry found for none is closed.
ReceiveFails ==
    /\ ZeroAddress \in Recv
    /\ d' = [Disconnected(d, ZeroAddress) EXCEPT !.closed = {}]
    /\ from' = ZeroAddress /\ KeepLocks(locks) /\ UNCHANGED <<proved, silent>>

\* FMSTR_Poll finds nothing to receive.
Idle == Nobody \in Recv /\ UNCHANGED vars

Next ==
    \/ /\ d.ageCount < MaxFrames
       /\ \/ \E a \in Recv \intersect Clients :
                 ReceiveCommand(a) \/ ReceivePart(a) \/ ReceiveBroken(a)
          \/ ReceiveFails
    \/ Idle

Spec == Init /\ [][Next]_vars
-----------------------------------------------------------------------------
\* How a command of a client would be answered.
Answered(a, c, status) == \E i \in EntryOf(a) : Command(d.p, i, c).status = status

\* The tables of the two layers agree: every client is served by one entry,
\* every session belongs to an entry in use, no entry has two sessions, and a
\* feature is locked by such a session or by none.
TablesAgree ==
    /\ \A i, j \in SessionIndex :
           i # j /\ d.net[i].address = d.net[j].address => d.net[i].address = ZeroAddress
    /\ \A s \in SessionIndex : LET id == d.p.session[s].id
                               IN  id # NoId => /\ ~Unused(d, id)
                                                /\ \A t \in SessionIndex \ {s} : d.p.session[t].id # id
    /\ \A f \in FeatureIndex : LET l == d.p.feature[f]
                               IN  /\ l.lockCount = 0 <=> l.owner = NoSession
                                   /\ l.owner # NoSession => d.p.session[l.owner].id # NoId

\* "The state-full resources ... are locked to a client session upon first
\* use and access is denied to other clients until lock is released"
\* (doc/user_guide/20_features.md): a command that needs a feature succeeds
\* only for a client that was granted its lock and has not given it back as
\* often, and while it has an entry nobody else has been granted it.
OnlyLockHolderServed ==
    \A a \in Clients, f \in Features :
        Answered(a, [cmd |-> "use", feature |-> f], "OK") =>
            locks[f][a] > 0 /\ \A b \in Clients \ {a} : locks[f][b] = 0

\* Memory is read and written only for a client that has shown a password of
\* a sufficient level since it last logged out, or where none is needed.
AccessIsEarned ==
    \A a \in Clients :
        LET opens(level) == \E l \in level .. RWF :
                                GetAccessPassword(l) \in proved[a] \union {NoPassword}
        IN  /\ Answered(a, [cmd |-> "read"], "OK") => opens(R)
            /\ Answered(a, [cmd |-> "write"], "OK") => opens(RW)

\* There is a session for every client that has an entry: the decoder's
\* assertion that it finds one holds, and each complete frame is answered.
EveryCommandAnswered == \A a \in Clients : ~Answered(a, [cmd |-> "read"], "none")

\* No frame is put together from the bytes of two clients.
FramesOfOneClient == \A i \in SessionIndex : d.net[i].rx \subseteq {d.net[i].address}

\* A client whose entry is in use loses it only by what it sends itself, or
\* when no entry is free and no client that is served has been silent for
\* longer: to a client that was not served, or because receiving has failed,
\* when _FMSTR_FindNetSession finds the oldest entry for no address at all.
EntriesAreKept ==
    [][\A a \in Clients : EntryOf(a) # {} /\ EntryOf(a)' = {} =>
           \/ from' = a
           \/ /\ from' # Nobody /\ EntryOf(from') = {}
              /\ \A i \in SessionIndex : ~Unused(d, i)
              /\ \A b \in Clients \ {a} : EntryOf(b) # {} => <<a, b>> \in silent]_vars
=============================================================================
