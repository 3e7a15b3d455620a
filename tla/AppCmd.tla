------------------------------ MODULE AppCmd ------------------------------
(***************************************************************************)
(* Application commands (freemaster_appcmd.c): a host sends a command with *)
(* arguments (SENDAPPCMD), asks for its status until that is a result      *)
(* (GETAPPCMDSTS), and fetches response data (GETAPPCMDDATA).  The         *)
(* application processes the command where it polls for it, or in a        *)
(* callback that runs when the host first asks for the status.             *)
(*                                                                         *)
(* The handlers run in FMSTR_Poll.  The application calls it between its   *)
(* own API calls, except that it finishes a command without a poll between *)
(* its last two.  The host owns the feature's lock (module Sessions), has  *)
(* one exchange under way at a time and repeats it when the response is    *)
(* lost; a request that is lost changes nothing.                           *)
(*                                                                         *)
(* Commands are numbered as they are accepted.  A byte of the buffer is    *)
(* known by the command it belongs to, as an argument or as a response; a  *)
(* result is known by the command it was given for.                        *)
(***************************************************************************)
EXTENDS Integers, FiniteSets

CONSTANTS
    Codes,       \* command codes, FMSTR_APPCMDRESULT_NOCMD not among them
    NoCmd,       \* FMSTR_APPCMDRESULT_NOCMD as a code
    AppCmdBuffSize,    \* FMSTR_APPCMD_BUFF_SIZE
    CommSize,    \* FMSTR_COMM_BUFFER_SIZE
    MaxCalls,    \* FMSTR_MAX_APPCMD_CALLS
    Lens,        \* bound: lengths of arguments and of response data
    MaxCommands, \* bound: commands the host sends
    MaxLost      \* bound: responses that are lost

ASSUME AppCmdAssumption ==
    /\ NoCmd \notin Codes /\ AppCmdBuffSize \in Nat /\ CommSize \in Nat /\ MaxCalls \in Nat
    /\ Lens \subseteq Nat /\ MaxCommands \in Nat /\ MaxLost \in Nat

VARIABLES
    t,          \* the target: appCmd, len, buff, result and dataLen
    registered, \* the codes that have a callback
    held,       \* the command the application is processing, or None
    accepted,   \* history: how many commands have been accepted
    runs,       \* history: how often each was processed
    given,      \* history: how much response data was set for each after it was
                \* acknowledged, or in its callback
    phase,      \* what the host is doing: "idle", "sending", "waiting" or "done"
    request,    \* the command it sends: code, len, and whether it has been sent before
    hostResult, \* the result it has got
    sent, lost  \* how many commands it has sent, and how many responses were lost

appCmdVars == <<t, registered, held, accepted, runs, given, phase, request, hostResult, sent, lost>>

targetVars == <<t, registered, held, accepted, runs, given>>

None    == 0   \* no command
Running == -1  \* FMSTR_APPCMDRESULT_RUNNING
Never   == -2  \* FMSTR_APPCMDRESULT_NOCMD as a result

\* Each of the commands accepted may be accepted again when its response is lost.
Numbers == 1 .. MaxCommands + MaxLost

Cells == 0 .. AppCmdBuffSize - 1

Arg(k)  == [kind |-> "argument", of |-> k]
Data(k) == [kind |-> "data", of |-> k]

AppCmdInit ==
    /\ t = [appCmd |-> NoCmd, len |-> 0, buff |-> [i \in Cells |-> Arg(None)],
            result |-> Never, dataLen |-> 0]
    /\ registered = {} /\ held = None
    /\ accepted = 0 /\ runs = [k \in Numbers |-> 0] /\ given = [k \in Numbers |-> 0]
    /\ phase = "idle" /\ request = [code |-> NoCmd, len |-> 0, again |-> FALSE]
    /\ hostResult = Never /\ sent = 0 /\ lost = 0

\* The first n bytes of the buffer replaced by byte.
Filled(buff, n, byte) == [i \in Cells |-> IF i < n THEN byte ELSE buff[i]]
-----------------------------------------------------------------------------
(* The API, as what each call makes of the target.                         *)

AppCmdAck(s, k) == [s EXCEPT !.result = k, !.dataLen = 0, !.appCmd = NoCmd]

\* n bytes of response data for command k, or as many as fit.
AppCmdSetResponseData(s, n, k) ==
    LET len == IF n > AppCmdBuffSize THEN AppCmdBuffSize ELSE n
    IN  [s EXCEPT !.dataLen = len, !.buff = Filled(@, len, Data(k))]

\* Mutant: a command is reported though its callback will process it.
GetAppCmdOfAll(s, calls) == s.appCmd

\* The command the application gets to see.
GetAppCmd(s, calls) == IF s.appCmd \in calls THEN NoCmd ELSE s.appCmd
-----------------------------------------------------------------------------
(* The handlers.                                                           *)

\* Mutant: a command replaces one that is still being processed.
StoreStatusAnyTime(s, len) == IF len > AppCmdBuffSize THEN "INVBUFF" ELSE "OK"

StoreStatus(s, len) ==
    IF s.appCmd # NoCmd THEN "SERVBUSY" ELSE IF len > AppCmdBuffSize THEN "INVBUFF" ELSE "OK"

\* Mutant: the response data of the last command are kept.
StoreKeepData(s, code, len, k) ==
    [s EXCEPT !.appCmd = code, !.len = len, !.buff = Filled(@, len, Arg(k)), !.result = Running]

\* SENDAPPCMD, accepted as command k.
StoreAppCmd(s, code, len, k) ==
    [s EXCEPT !.appCmd = code, !.len = len, !.buff = Filled(@, len, Arg(k)),
              !.result = Running, !.dataLen = 0]

\* The application gives n bytes of response data; if it has none, it does not
\* make the call.
WithData(s, n, k) == IF n = 0 THEN s ELSE AppCmdSetResponseData(s, n, k)

\* Mutant: a command that its callback has processed stays pending.
CalledStaysPending(s, n, k) == [WithData(s, n, k) EXCEPT !.result = k]

\* GETAPPCMDSTS of a command with a callback, which gives n bytes of data.
Called(s, n, k) == [WithData(s, n, k) EXCEPT !.result = k, !.appCmd = NoCmd]

\* GETAPPCMDDATA.
RespDataStatus(s, offset, len) ==
    IF s.appCmd # NoCmd THEN "SERVBUSY"
    ELSE IF len > CommSize THEN "RSPBUFFOVF"
    ELSE IF offset + len <= offset \/ offset + len > s.dataLen THEN "INVSIZE" ELSE "OK"
-----------------------------------------------------------------------------
(* The application.  It registers callbacks between commands, polls for    *)
(* commands, and takes any time to process one.                            *)

RegisterAppCmdCall(code) ==
    /\ held = None
    /\ registered' \in IF Cardinality(registered \union {code}) <= MaxCalls
                       THEN {registered \union {code}, registered \ {code}}
                       ELSE {registered \ {code}}
    /\ UNCHANGED <<t, held, accepted, runs, given, phase, request, hostResult, sent, lost>>

Fetch ==
    /\ held = None /\ GetAppCmd(t, registered) # NoCmd
    /\ held' = accepted
    /\ runs' = [runs EXCEPT ![accepted] = @ + 1]
    /\ UNCHANGED <<t, registered, accepted, given, phase, request, hostResult, sent, lost>>

\* It is done: it acknowledges and sets n bytes of response data, in this order
\* or in the other.
Finish(n, ackFirst) ==
    /\ held # None
    /\ t' = IF ackFirst THEN WithData(AppCmdAck(t, held), n, held)
            ELSE AppCmdAck(WithData(t, n, held), held)
    /\ given' = [given EXCEPT ![held] = IF ackFirst THEN n ELSE 0]
    /\ held' = None
    /\ UNCHANGED <<registered, accepted, runs, phase, request, hostResult, sent, lost>>
-----------------------------------------------------------------------------
(* The host's exchanges, each a request that arrives and is handled, and a *)
(* response that arrives or is lost.                                       *)

NewCommand(code, len) ==
    /\ phase \in {"idle", "done"} /\ sent < MaxCommands
    /\ phase' = "sending" /\ sent' = sent + 1
    /\ request' = [code |-> code, len |-> len, again |-> FALSE]
    /\ UNCHANGED <<targetVars, hostResult, lost>>

Respond(arrives) ==
    /\ ~arrives => lost < MaxLost
    /\ lost' = IF arrives THEN lost ELSE lost + 1

\* A host that is told "busy" on a repetition takes it that its command is
\* being processed.
SendAppCmd(arrives) ==
    LET status == StoreStatus(t, request.len)
        ok     == status = "OK"
    IN  /\ phase = "sending" /\ Respond(arrives)
        /\ t' = IF ok THEN StoreAppCmd(t, request.code, request.len, accepted + 1) ELSE t
        /\ accepted' = IF ok THEN accepted + 1 ELSE accepted
        /\ request' = [request EXCEPT !.again = TRUE]
        /\ phase' = IF ~arrives THEN phase
                    ELSE IF ok \/ (status = "SERVBUSY" /\ request.again) THEN "waiting" ELSE "idle"
        /\ UNCHANGED <<registered, held, runs, given, hostResult, sent>>

GetAppCmdStatus(n, arrives) ==
    LET call == t.appCmd \in registered
    IN  /\ phase \in {"waiting", "done"} /\ Respond(arrives)
        /\ t' = IF call THEN Called(t, n, accepted) ELSE t
        /\ runs' = IF call THEN [runs EXCEPT ![accepted] = @ + 1] ELSE runs
        /\ given' = IF call THEN [given EXCEPT ![accepted] = n] ELSE given
        /\ IF arrives /\ t'.result # Running
           THEN phase' = "done" /\ hostResult' = t'.result
           ELSE UNCHANGED <<phase, hostResult>>
        /\ UNCHANGED <<registered, held, accepted, request, sent>>

AppCmdNext ==
    \/ \E code \in Codes : RegisterAppCmdCall(code)
    \/ Fetch \/ \E n \in Lens, ackFirst \in BOOLEAN : Finish(n, ackFirst)
    \/ \E code \in Codes, len \in Lens : NewCommand(code, len)
    \/ \E arrives \in BOOLEAN :
           SendAppCmd(arrives) \/ \E n \in Lens : GetAppCmdStatus(n, arrives)

AppCmdSpec == AppCmdInit /\ [][AppCmdNext]_appCmdVars

\* The application polls for commands and finishes what it processes, the host
\* repeats its requests, and neither always misses the other's turn because the
\* application registers and unregisters a callback over and over.
AppCmdFairSpec ==
    /\ AppCmdSpec
    /\ SF_appCmdVars(Fetch) /\ WF_appCmdVars(\E n \in Lens, ackFirst \in BOOLEAN : Finish(n, ackFirst))
    /\ WF_appCmdVars(\E arrives \in BOOLEAN : SendAppCmd(arrives))
    /\ SF_appCmdVars(\E arrives \in BOOLEAN, n \in Lens : GetAppCmdStatus(n, arrives))
-----------------------------------------------------------------------------
\* A command that was accepted is processed once, by the callback or where the
\* application polls, however often the host repeats its requests.
RunsOnce == \A k \in Numbers : runs[k] <= 1

\* While the application processes a command, that command stays the pending
\* one and its arguments stay in the buffer.
ArgumentsKept ==
    held # None => /\ held = accepted /\ t.appCmd # NoCmd
                   /\ \A i \in Cells : i < t.len => t.buff[i] = Arg(held)

\* The result the host is given is that of the command it sent, which has run,
\* and not what an earlier one left behind.  In the response data it can then
\* fetch, piece by piece, there is no byte of another command nor an argument of
\* its own, whatever the application did first; and all that was set after
\* FMSTR_AppCmdAck, or in a callback, is there, as far as it fits the buffer.  Of
\* data set before FMSTR_AppCmdAck nothing is left, although the user guide
\* allows the call "before the Application Command processing finishes"
\* (doc/user_guide/api/fmstr_appcmdsetresponsedata.md).
ResponseDataKept ==
    phase = "done" =>
        /\ hostResult = accepted /\ runs[hostResult] = 1
        /\ \A offset \in Cells, len \in 1 .. CommSize :
               /\ RespDataStatus(t, offset, len) = "OK" <=>
                      offset + len <= AppCmdBuffSize /\ offset + len <= given[hostResult]
               /\ RespDataStatus(t, offset, len) = "OK" =>
                      \A i \in offset .. offset + len - 1 : t.buff[i] = Data(hostResult)

\* Every command gets through and is answered, or is refused because its
\* arguments do not fit.
EventuallyAnswered ==
    \A n \in 1 .. MaxCommands :
        phase = "sending" /\ sent = n ~> phase = "done" \/ (phase = "idle" /\ request.len > AppCmdBuffSize)
=============================================================================
