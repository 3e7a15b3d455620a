----------------------------- MODULE Sessions -----------------------------
(***************************************************************************)
(* The client sessions of the protocol layer (freemaster_protocol.c):      *)
(* which client of the transport each belongs to, the access it has been   *)
(* granted, and the locks the sessions hold on the features that keep      *)
(* state between commands (recorders, scopes, pipes, application           *)
(* commands).  Configured with FMSTR_SESSION_COUNT > 1 and                 *)
(* FMSTR_CFG_F1_RESTRICTED_ACCESS.                                         *)
(*                                                                         *)
(* The tables are a record p, so that a transport can compose what it does *)
(* to its own tables with what it makes the protocol layer do, in one      *)
(* step.  The salted hash a client answers AUTH1's challenge with is       *)
(* reduced to the password it was computed from, NoPassword if that or the *)
(* salt was wrong.                                                         *)
(***************************************************************************)
EXTENDS Integers

CONSTANTS
    SessionCount,  \* FMSTR_SESSION_COUNT
    Counts,        \* FMSTR_USE_SCOPE, FMSTR_USE_RECORDER, FMSTR_USE_APPCMD, FMSTR_USE_PIPES
    Ports,         \* the port of each slot of the table of pipes
    PasswordLevels \* levels for which FMSTR_RESTRICTED_ACCESS_.._PASSWORD is defined

\* FMSTR_RESTRICTED_ACCESS_..
NO  == 0
R   == 1
RW  == 2
RWF == 3

ASSUME SessionsAssumption ==
    /\ SessionCount \in Nat \ {0, 1}
    /\ Counts \in [{"scope", "rec", "appcmd", "pipe"} -> Nat]
    /\ Counts["appcmd"] < 2 /\ Counts["pipe"] <= 127 \* freemaster_defcfg.h
    /\ Ports \in [0 .. Counts["pipe"] - 1 -> Nat]
    /\ PasswordLevels \subseteq R .. RWF

NoId       == 0  \* the identification of a free session
NoSession  == 0  \* NULL for a session
NoPassword == 0

SessionIndex == 1 .. SessionCount

\* The first element of a set of indices, in the order of the code's loops.
First(S) == CHOOSE i \in S : \A j \in S : i <= j

\* The password of an access level, named by the level it is defined for: the
\* highest defined one not above it.
GetAccessPassword(level) ==
    LET defined == {k \in PasswordLevels : k <= level}
    IN  IF defined = {} THEN NoPassword ELSE CHOOSE k \in defined : \A j \in defined : j <= k

\* The highest level below all protected ones.
DefaultGrantedAccess ==
    CHOOSE level \in NO .. RWF :
        /\ GetAccessPassword(level) = NoPassword
        /\ level = RWF \/ GetAccessPassword(level + 1) # NoPassword

\* The table of features, fmstr_features: the scopes, the recorders, one
\* place for all application commands, one for the flash programmer, the pipes.
FeatureScopeInstance(n)     == n
FeatureRecInstance(n)       == Counts["scope"] + n
FeatureAppcmdInstance(n)    == Counts["scope"] + Counts["rec"]
FeatureFlashprogInstance(n) == Counts["scope"] + Counts["rec"] + Counts["appcmd"]
FeaturePipeInstance(n)      == Counts["scope"] + Counts["rec"] + Counts["appcmd"] + 1 + n
FeatureLockCount            == FeaturePipeInstance(Counts["pipe"])

FeatureIndex == 0 .. FeatureLockCount - 1
NoFeature    == -1

FindPipeIndex(port) ==
    LET found == {i \in DOMAIN Ports : Ports[i] = port} IN IF found = {} THEN -1 ELSE First(found)

\* The place of a feature, a type and an instance; a pipe's instance is its
\* port, but its place is that of the slot the port is open in.  That no pipe
\* is found shows only in an index behind the table, (FMSTR_U8)(-1).
FeatureGet(f) ==
    LET n     == f.instance
        pipe  == FindPipeIndex(n)
        index == CASE f.type = "scope" /\ n < Counts["scope"] -> FeatureScopeInstance(n)
                   [] f.type = "rec" /\ n < Counts["rec"] -> FeatureRecInstance(n)
                   [] f.type = "appcmd" /\ n < Counts["appcmd"] -> FeatureAppcmdInstance(n)
                   [] f.type = "flashprog" /\ n < 1 -> FeatureFlashprogInstance(n)
                   [] f.type = "pipe" /\ pipe < Counts["pipe"] -> FeaturePipeInstance((256 + pipe) % 256)
                   [] OTHER -> -1
    IN  IF index < 0 \/ index > FeatureLockCount THEN NoFeature ELSE index

\* FMSTR_Init.
InitProtocol ==
    [session |-> [s \in SessionIndex |-> [id |-> NoId, access |-> NO]],
     feature |-> [f \in FeatureIndex |-> [owner |-> NoSession, lockCount |-> 0]]]

\* Mutant: the search ends at a free session.
FindSessionEarly(p, id) ==
    LET usable == {s \in SessionIndex : p.session[s].id \in {id, NoId}}
    IN  IF usable = {} THEN NoSession ELSE First(usable)

\* The session of a client, or a free one, or none.
FindSession(p, id) ==
    LET mine == {s \in SessionIndex : p.session[s].id = id}
        free == {s \in SessionIndex : p.session[s].id = NoId}
    IN  IF mine # {} THEN First(mine)
        ELSE IF free # {} THEN First(free) ELSE NoSession

\* The tables after finding it, where a free session is given to the client.
CreateSession(p, id) ==
    LET s == FindSession(p, id)
    IN  IF s = NoSession \/ p.session[s].id = id THEN p
        ELSE [p EXCEPT !.session[s] = [id |-> id, access |-> DefaultGrantedAccess]]

UnlockFeatures(p, s) ==
    [p EXCEPT !.feature = [f \in FeatureIndex |->
        IF p.feature[f].owner = s THEN [owner |-> NoSession, lockCount |-> 0] ELSE p.feature[f]]]

\* Mutant: a session is freed with its locks held.
FreeSessionKeepLocks(p, id) ==
    LET s == FindSession(p, id)
    IN  IF s # NoSession /\ p.session[s].id = id
        THEN [p EXCEPT !.session[s] = [id |-> NoId, access |-> NO]] ELSE p

FreeSession(p, id) ==
    LET s == FindSession(p, id)
    IN  IF s # NoSession /\ p.session[s].id = id
        THEN [UnlockFeatures(p, s) EXCEPT !.session[s] = [id |-> NoId, access |-> NO]]
        ELSE p

IsFeatureOwned(p, s, f) ==
    /\ FeatureGet(f) # NoFeature
    /\ p.feature[FeatureGet(f)].owner = s /\ p.feature[FeatureGet(f)].lockCount > 0
-----------------------------------------------------------------------------
(* The command handlers: the tables after the command of session s, and    *)
(* the status it is answered with.                                         *)

Answer(p, status) == [p |-> p, status |-> status]

\* The lock of the feature at index i, taken once more by session s or given
\* back once.
Locked(p, s, i, lock) ==
    LET feature == p.feature[i]
        n == IF lock THEN feature.lockCount + 1
             ELSE IF feature.lockCount > 0 THEN feature.lockCount - 1 ELSE 0
        owner == IF lock THEN s ELSE IF n = 0 THEN NoSession ELSE feature.owner
    IN  [p EXCEPT !.feature[i] = [owner |-> owner, lockCount |-> n]]

\* Mutant of FeatureLock: whoever asks last gets the lock.
LockTaken(p, s, f, lock) ==
    LET i == FeatureGet(f)
    IN  IF i = NoFeature THEN Answer(p, "EINSTANCE") ELSE Answer(Locked(p, s, i, lock), "OK")

\* FEATLOCK.
FeatureLock(p, s, f, lock) ==
    LET i == FeatureGet(f)
    IN  CASE p.session[s].access < R -> Answer(p, "EAUTH")
          [] p.session[s].access >= R /\ i = NoFeature -> Answer(p, "EINSTANCE")
          [] OTHER -> IF p.feature[i].lockCount > 0 /\ p.feature[i].owner # s
                      THEN Answer(p, "SERVBUSY") ELSE Answer(Locked(p, s, i, lock), "OK")

\* AUTH1: an open level, and logging out, take effect at once; otherwise the
\* client is sent a challenge.  The code then calls FMSTR_FreeSession with the
\* session in the place of its identification, which finds nothing to free.
Authenticate1(p, s, req) ==
    Answer(IF req = NO \/ GetAccessPassword(req) = NoPassword
           THEN [p EXCEPT !.session[s].access = req] ELSE p, "OK")

\* The highest level that is open or has the password known.
AccessFor(known) ==
    LET held == {level \in R .. RWF : GetAccessPassword(level) \in {known, NoPassword}}
    IN  IF held = {} THEN NO ELSE CHOOSE level \in held : \A l \in held : l <= level

\* Mutant: the level asked for is granted whatever the password opens.
Authenticate2AsAsked(p, s, req, known) ==
    Answer([p EXCEPT !.session[s].access = req],
           IF AccessFor(known) # NO \/ req = NO THEN "OK" ELSE "EPASS")

\* AUTH2, answering the challenge with a password.
Authenticate2(p, s, req, known) ==
    LET access == AccessFor(known)
    IN  Answer([p EXCEPT !.session[s].access = IF access <= req THEN access ELSE req],
               IF access # NO \/ req = NO THEN "OK" ELSE "EPASS")

\* READMEM and WRITEMEM.
Memory(p, s, level) == Answer(p, IF p.session[s].access < level THEN "EAUTH" ELSE "OK")

\* The commands that only the owner of a feature may give: SETREC, SETSCOPE,
\* PIPE, SENDAPPCMD and so on.
Use(p, s, f) == Answer(p, IF IsFeatureOwned(p, s, f) THEN "OK" ELSE "SERVBUSY")

Execute(p, s, c) ==
    CASE c.cmd = "lock"   -> FeatureLock(p, s, c.feature, TRUE)
      [] c.cmd = "unlock" -> FeatureLock(p, s, c.feature, FALSE)
      [] c.cmd = "use"    -> Use(p, s, c.feature)
      [] c.cmd = "auth1"  -> Authenticate1(p, s, c.req)
      [] c.cmd = "auth2"  -> Authenticate2(p, s, c.req, c.known)
      [] c.cmd = "read"   -> Memory(p, s, R)
      [] c.cmd = "write"  -> Memory(p, s, RW)

\* FMSTR_ProtocolDecoder: without a session there is no answer.
Decode(p, id, c) ==
    IF FindSession(p, id) = NoSession THEN Answer(p, "none")
    ELSE Execute(CreateSession(p, id), FindSession(p, id), c)
=============================================================================
