# A verification model of the FreeMASTER driver

FreeMASTER is an embedded communication driver. A PC tool (the *host*) sends commands over a serial
line, CAN, a debugger or a network; the driver on the target answers them: it reads and writes memory,
records and scopes variables, runs application commands, and carries byte streams (pipes). The code is
written in C, keeps its state in static variables, has no locks, and is driven by `FMSTR_Poll` from the
application's main loop and, depending on its configuration, by interrupts.

This directory holds TLA+ modules that model the stateful core of the driver, the TLC configurations
that check them on small instances, and machine-checked proofs about the pipes, sessions and network, application
commands, the recorder, the serial, CAN and PDBDM transports, memory commands and digests. Source paths below are
relative to `src/src/common/` unless they say otherwise.

## The system

| Component | State it keeps | Operations | Modelled in |
|---|---|---|---|
| Protocol core (`freemaster_protocol.c`) | sessions (identification, access granted, salt), feature locks | `FMSTR_ProtocolDecoder`, FEATLOCK, AUTH1, AUTH2, memory access, `FMSTR_FreeSession` | `Sessions`, `Decoder` |
| Network transport (`freemaster_net.c`) | session table: address, age, bytes of an unfinished frame | `_FMSTR_NetProcess`, `_FMSTR_FindNetSession`, `_FMSTR_NetCloseSession`, the sending loop | `NetTable`, `NetUdp`, `NetTcp` |
| lwIP and Zephyr drivers (`src/src/drivers/mcuxsdk/network`, `zephyr`) | UDP: none; TCP: a table of sockets, each with `receivePending` | `Poll`, `Recv`, `Send`, `Close` | `NetUdp`, `NetTcp` |
| Pipes (`freemaster_pipes.c`) | a table of ports, each with two circular buffers, `bExpectOdd`, `nLastBytesReceived`, `printfBuff` | `FMSTR_PipeWrite`, `FMSTR_PipePuts`, `FMSTR_PipeRead`, `FMSTR_PipeFrame`, `FMSTR_PipeOpen`, `FMSTR_PipeClose`, `FMSTR_PipePrintf...` | `PipeBuffer`, `PipeLink`, `PipePorts`, `PipePrint` |
| Application commands (`freemaster_appcmd.c`) | the pending command, its result, one buffer for arguments and response data, callbacks | SENDAPPCMD, GETAPPCMDSTS, GETAPPCMDDATA; `FMSTR_GetAppCmd`, `FMSTR_AppCmdAck`, `FMSTR_AppCmdSetResponseData`, `FMSTR_RegisterAppCmdCall` | `AppCmd` |
| Recorder (`freemaster_rec.c`) | configuration, flags, write pointer, counters, a circular buffer | SETREC, GETREC, start, stop, trigger, `FMSTR_Recorder` | `Recorder` |
| Serial transport (`freemaster_serial.c`) | one buffer for receiving and sending, framing state, receive queue | `FMSTR_ProcessSerial`, `_FMSTR_RxDequeue`, `_FMSTR_Rx`, `_FMSTR_Tx`, `_FMSTR_SerialSendResponse`, `_FMSTR_Listen` | `Serial`, `SerialLink` |
| CAN transport (`freemaster_can.c`) | the same over frames of 8 to 64 bytes with a toggle bit, one buffer, the transmit position | `FMSTR_ProcessCanRx`, `FMSTR_ProcessCanTx`, `_FMSTR_RxCan`, `_FMSTR_TxCan`, `_FMSTR_SendResponse` | `Can`, `CanLink` |
| PDBDM transport (`freemaster_pdbdm.c`) | one buffer that a debugger fills and reads | `_FMSTR_PdBdmPoll`, `_FMSTR_PdBdmSendResponse` | `Pdbdm` |
| Scope (`freemaster_scope.c`) | a table of variables | SETSCOPE, READSCOPE | `Scope` |
| TSA (`freemaster_tsa.c`) | constant tables, and a dynamic one with a count | `FMSTR_SetUpTsaBuff`, `FMSTR_TsaAddVar`, `FMSTR_CheckTsaSpace`, GETTSAINFO, `FMSTR_FindUresInTsa` | `Tsa` |
| User resources (`freemaster_ures.c`) | none; handlers belong to the application | URESRWI (read, write, IOCTL) | `Ures` |
| Utilities (`freemaster_utils.c`) | the receive queue | `_FMSTR_RingBuffPut`, `_FMSTR_RingBuffGet`; copying memory, LEB128, fields of a buffer, CRC8 | `RingQueue`, `MemCopy`, `Codec`, `Message` |
| SHA-1 (`freemaster_sha.c`) | a partial block and a length | `FMSTR_Sha1Init`, `FMSTR_Sha1Update`, `FMSTR_Sha1Final` | `Sha1`, `Digest` |
| Serial drivers (`src/src/drivers/*/serial`, `dreg`, `zephyr`) and USB support | registers, FIFOs, packets, pending flags | `PutChar`, `GetChar`, `Flush`, `Is...`, `Enable...`, `Poll`, the interrupt handlers | `SerialDevices` |
| CAN drivers | mailboxes, flags | `GetRxFrameLen`, `PrepareTxFrame`, `PutTxFrame`, the interrupt handlers | `Can` |
| RTT, Zephyr threads and shell, other register-level drivers, configuration | | | not modelled |

How they interact. A transport receives bytes, finds where a frame ends, checks it, and calls
`FMSTR_ProtocolDecoder` with the frame and an identification of its client. The decoder finds or makes
the client's session, dispatches the command to a component, and leaves the response in the transport's
buffer, which the transport sends. Components that keep state between commands are *features*: a session
locks one before it uses it (FEATLOCK), and the lock goes when the transport tells the decoder that the
client is gone (`FMSTR_FreeSession`). The application shares state with the handlers by calling the API
of pipes, recorder and application commands. In the modes `FMSTR_POLL_DRIVEN` and `FMSTR_SHORT_INTR`,
handlers run in `FMSTR_Poll`, so no API call is interrupted by one; with `FMSTR_LONG_INTR` they run in
the communication interrupt, and `FMSTR_Recorder` is meant to be called in a timer interrupt.

What is hard. The host's protocol over a lossy line is one of repetition: a request or a response may be
lost and the request comes again. Every handler that changes state must therefore say whether a request
is new, and only pipes have a mechanism for that. Two session tables, of the transport and of the
decoder, and the driver's socket table are kept in step by calls made at different moments, while clients
come, go, and are evicted. The circular buffers of pipes and recorder tell empty from full by a flag.
And nothing is protected from interrupts. `PROJECT.json` lists the hazards with their lines.

What makes each component correct:

- pipes: each reader gets the writer's bytes, each once, in order; nothing is dropped before the other
  side has it; everything arrives in the end;
- sessions and network: the tables agree, only the client that holds a lock uses the feature, access is
  given only for a password, every command of a client with an entry is answered, frames are never put
  together from two clients, a client loses its entry only when it must;
- application commands: a command runs once, its arguments stay while it runs, and the host reads the
  result and the data of its own command;
- serial, CAN and PDBDM transports: only what the host sent is executed, a response leaves as it was prepared,
  and after whatever was lost the receiver finds the next request again;
- memory commands: a variable is never torn between an application and a debugger, and with TSA safety nothing
  outside the tables is touched, while entries come and go;
- coding: what is written into a buffer comes back, damage is found, a digest is of the data and not of the
  pieces it came in;
- recorder: what is reported is the latest samples in order, and the trigger sits at the point that was
  asked for.

## Modules

**Pipes.** `PipeBuffer` has the circular buffer (`FMSTR_PIPE_BUFF`) as a record with the source's fields
and each routine that moves bytes as an operator, the casts to `FMSTR_SIZE8` and `FMSTR_PIPE_SIZE`
included. `PipeLink` puts a pipe, the application, a lossy link and a host together: an action for each
API call and one for the command handler, callback included. The host's side is external: it is what the
comments and the handler of `FMSTR_PipeFrame` assume, a round per request, alternating parity, and a skip
count. `PipeStream` is the abstract specification, one direction of a plain byte stream, and `PipeLink`
implements two of them (`ImplementsStreams`). `PipePorts` is the table of pipes: slots and ports, opening,
closing and opening again while a host keeps the parity and the bytes of its round; `PipePrint` is formatted
printing, from the items of a format to the small buffer they pass through. `PipeBufferProofs` has what is
proved of the buffer routines, `PipeLinkProofs` and `PipePortsProofs` the theorems.

**Sessions and network.** `Sessions` has the decoder's tables as a record and each handler as an operator
from tables to tables and a status, with the numbering of features by what the target is configured for;
`NetTable` adds the transport's table around it, so that one `_FMSTR_NetProcess` with everything it calls in the
decoder is one step. `NetUdp` composes them with datagram clients that may send anything at any time; `NetTcp`
with the TCP drivers' socket table, the socket for discovery, and clients that connect, wait for answers and
close. What lwIP and Zephyr do differently is chosen in the initial state. The hash of the password challenge is
reduced to the password it was computed from. `NetProofs` has what is proved of the operators on the tables,
and the theorems about both.

**Application commands.** `AppCmd` is the whole of `freemaster_appcmd.c` with an application that polls or
has callbacks, and a host that repeats requests whose response was lost. A byte of the buffer is known by
the command it belongs to. `FeatureProofs` holds the theorems.

**Recorder.** `Recorder` is one recorder with every call atomic; a byte of its buffer is known by its age,
the number of samples since it was written, which keeps the state space finite without a bound on the
samples. Variables and thresholds are raw numbers that the type of the trigger reads as unsigned, signed or
floating; a comparison may come out as it does for some raw value, NaNs included. `FeatureProofs` holds
these theorems, too.

**Serial.** `RingQueue` is the ring buffer of `freemaster_utils.c`; `Serial` has the receiver, the transmitter
and their common buffer as a record with the source's names, and each routine as an operator. `SerialDevices` has
seven devices, each with the entry points of `FMSTR_SERIAL_DRV`: LPUART (register and shifter), USART (FIFOs),
LINFlexD (flags that are reset by writing), Zephyr (the UART driver's ring), USB (packets, a queue, attaching), EOnCE
over JTAG, and the same with the workaround for old parts. A character is a byte and, for a checksum, the bytes it was
computed from, so that an accidental match of a checksum does not occur; the byte decides whether it has
to be doubled. `SerialLink` adds the line, which loses and changes characters, a USB host that resets its bus,
and a host; it drives the transport as a polled driver, in interrupts, or with interrupts and a queue. What
`FMSTR_ProtocolDecoder` answers is a table (`Requests`). `SerialProofs` has the theorems on commands and on
responses.

**CAN.** `Can` has the transport and three devices (FlexCAN, MSCAN, Zephyr) in the same style; `CanLink` adds
the bus, the interrupt, which in the mode `FMSTR_SHORT_INTR` comes between any two steps of `FMSTR_Poll`, the
work item of Zephyr, and a host. A frame is a record with the bits of its control byte. `CanProofs` holds the theorems.

**Memory.** `MemCopy` computes the accesses of which a copy consists (`FMSTR_MemCpyFrom`, `FMSTR_MemCpyTo`, with a
mask, and their aligned helpers); `Tsa` the tables, the check of an access and the search for a resource; `Scope`
its two commands; `Ures` what reaches a handler; `Decoder` the memory, scope, TSA and resource commands of
`FMSTR_ProtocolDecoder`, each as a status and a list of accesses. `Pdbdm` composes them: a debugger writes the
parts of a request in any order, the driver polls, decodes and then copies, one access a step, and the
application's interrupts change variables and its main loop the dynamic table in between. `PdbdmProofs` holds the
theorems, with a lemma on copies that is about `MemCopy` alone.

**Coding.** `Codec` has LEB128 numbers, strings, comparisons and CRC8 byte by byte, as they are; `Sha1` cuts, pads
and counts, and keeps the list of blocks that a digest is of; `Message` writes fields into a buffer, perhaps damages
it, and reads them back; `Digest` computes digest after digest in the one context `fmstr_sha1Ctx`, of data that come in
pieces. `MCMessage` takes one or the other from its initial state on. `FeatureProofs` holds the theorem on digests.

Each definition that models code is listed in `PROJECT.json` under `map` with its lines. A definition
whose comment begins with "Mutant" is a wrong version of the one that follows; the mutants show that
every checked property can be broken by a plausible mistake in the code.

## What the runs check

| Run | Module | Checks | Bounds |
|---|---|---|---|
| `pipe_link` | `MCPipeLink` | delivery, retention, the two streams, and that everything written is delivered in the end | buffers of 2, three bytes each way, two frames on the link each way, every length and granularity, callbacks |
| `pipe_ports` | `MCPipePorts` | one pipe a port, buffers and acknowledgements of the present opening, formatted text | 2 slots, 2 ports, 4 calls that open or print, 3 frames, transmit buffer of 3, `printfBuff` of 8, 12 calls of printf and puts |
| `net_udp` | `MCNetUdp` | six properties of sessions, locks, access, reassembly and eviction | 3 clients, 2 sessions, three features of which one is absent, one password level, 5 frames |
| `net_tcp` | `MCNetTcp` | clients are served until they close, all are answered, locks have owners with a connection and are released | 3 clients, 2 sessions, 2 frames on one connection, a discovery, age counter running over at 3 |
| `appcmd` | `MCAppCmd` | running once, arguments, results and response data, progress | 3 commands, 2 lost responses, buffer of 2, lengths 0, 1, 3 |
| `serial` | `MCSerial` | commands executed, responses intact, recovery after errors, 13 builds | 4 requests, one fault (a character lost or changed, a request repeated too early, a bus reset), buffer of 6, queue of 3 |
| `can` | `MCCan` | the same for CAN, 7 builds, classic and FD, with and without echo | 4 requests of one to four frames, three faults (frames lost, requests repeated too early), buffer of 9 |
| `pdbdm` | `MCPdbdm` | untorn variables, guarded memory, requests executed as sent, progress | 17 requests of every kind, 51 bytes of memory, a table of three entries and one added and removed at run time |
| `codec` | `MCMessage` | fields come back and damage is found; or digests of whole data, whatever was in the context | numbers of 2, 4 and 8 bytes at every carry, sign and group boundary; strings; up to 26 bytes in pieces of 1, 5 and 9, blocks of 8 with two bytes of length |
| `recorder` | `MCRecorder` | layout, order of points, place of the trigger, edges, termination | 7 bytes of memory, up to 2 variables of 4 kinds, raw values of 3 bits |

Why the bounds are enough. In a buffer of two bytes with three to move, both pointers wrap, the buffer is
full and empty with equal pointers at either place, and a block is split; the alternating bit of the pipe
protocol repeats after two rounds. The theorems below free the pipe results from these bounds. Two slots and two
ports are the least with which a free slot precedes a used one; four calls open, print, close and open again. Three
clients on two sessions are the least that make an eviction with a choice; five frames let a client come,
lock, be evicted and come back. Three application commands let the state left by one be seen by the next
twice over. The four serial requests put a start character into checksum, length, argument and response, and
are too long in both directions; one wrong character anywhere puts the receiver out of step in every way it
knows. The CAN requests take one frame and several, with all lengths of a last frame, and are too long in both
directions; three faults are the two lost frames after which the toggle bit is right again, and one more. The memory of
`pdbdm` has variables at every alignment and blocks that begin and end inside them, in a gap, and across two entries.
The numbers of `codec` are those at which a byte, a group of seven bits or a sign begins or ends; 26 bytes
are three blocks and every remainder, cut in every place. Seven bytes of recorder memory give buffers of one to six points, which the
age of a byte tells apart for ever.

Deadlock is checked in every run but `pipe_ports` and `codec`, whose bounded calls come to an end.

Two more runs show where the code and what is said of it part, listed under `findings`:

- `ures`: `FMSTR_FindUresInTsa` compares the first entry of a table only, so a resource that is listed later is
  not found;
- `rec_threshold`: a variable configuration that the recorder refuses, because it is configured or running, has
  changed the variable's threshold before: a running recorder compares with the new one from then on.

### Where a property holds only under a condition

The passing runs exclude the following, most of them found with TLC in a variant of the run and named under `hazards` of
`PROJECT.json`. Two are exclusions only, which no variant was run of: the queue of USB and the index of GETCONFIG.

- A pipe buffer and a copy of more than 255 bytes: a cast to `FMSTR_SIZE8` copies a part and moves the pointers
  past the whole (`NarrowPipe` of the theorems).
- A PIPE frame handled in an interrupt inside `FMSTR_PipeRead`, between moving `rp` and clearing `bIsFull`: the mark
  of a buffer that the frame has filled is wiped.
- A number with more digits than `FMSTR_PIPES_PRINTF_BUFF_SIZE`, which may be as small as 8: the check for their space
  subtracts as many as there can be, 10 to 32, from the size, an unsigned difference that wraps and lets them pass, and
  they are written behind `printfBuff`. With a zero flag, no width and a sign, `alen--` wraps and the filling does the same. The model calls
  either an `Overrun`, after which nothing can be said, and the calls of a run make none (`CallsFitAssumption`).
- Response data that the application sets before it acknowledges its command: `FMSTR_AppCmdAck` sets their length to
  zero (`freemaster_appcmd.c:331`), so the host reads none, although the user guide says that the function "can be used
  before the Application Command processing finishes" (`src/doc/user_guide/api/fmstr_appcmdsetresponsedata.md:19`).
  The application of `appcmd` does either, in any order; what `ResponseDataKept` promises is data set behind the acknowledgement, or in a callback.
- A USB packet that arrives while a packet of the response waits to be fetched (`Overlap`): the USB application sends
  from the buffer it receives into, so the host would fetch its own command. A comment there says "FreeMASTER uses
  half-duplex communication anyway" (`src/src/support/mcuxsdk_usb/freemaster_usb.c:209`), which a host that repeats a
  request too early does not. With `Overlap` TRUE TLC finds `ResponseIntact` violated; that only commands of the host are
  executed holds with it as well.
- A queue of the USB driver (`UsbQueue`) that a packet and what is not yet read do not fit into: characters are lost in
  the middle of a frame without a fault of the line. The code's queue is as long as a packet or the communication buffer,
  whichever is longer, and holds one character less. The run's is longer for its size, 12 characters for packets of 4
  and a buffer of 6, so it assumes a target that is polled often enough for what a host sends between two polls.
- A request whose block ends behind the last address (`RequestsDoNotWrap`): `FMSTR_CheckMemSpace` adds address and size
  in the width of an address, the sum wraps, and the block passes as part of any entry that begins at or below it.
  `FMSTR_CheckNoWrapAddr` exists, and no caller asks it. With such a request TLC finds `GuardedMemory` violated.
- GETCONFIG with an index behind the table of names: the name is read out of bounds and copied into the response before
  the index is refused (`freemaster_protocol.c:529`). What that does is left open (`RequestsAssumption` of `Pdbdm`).
- A receive that fails without an address (a timeout of the UDP driver): `_FMSTR_FindNetSession` returns a free or
  the oldest entry even when asked not to create one, and that entry is closed. `EntriesAreKept` allows this one loss.
- A TCP client that closes without having sent (`Silent`): the failed receive closes another entry as above, and the
  socket is waited for ever after.
- A polled or long-interrupt LPUART or USART whose FIFO holds three or more characters: what is left in it behind a
  command, of a request repeated too early or of a frame that the line has shortened, is received into the response that
  has begun, because `FMSTR_ProcessSerial` looks at `bTxActive` once, before its loop (`Shallow` of the theorems). The run
  has a `FifoSize` of 2; with 3 TLC finds `ResponseIntact` violated.
- A CAN interrupt or Zephyr work item in the middle of `_FMSTR_TxCan` called by `FMSTR_Poll`, where the device can
  take another frame then: MSCAN, which has several transmit buffers, and a preempting work queue (`Preempted`). The
  MSCAN driver says of it: "Facing strange race/overrun condition when using multiple buffers". With Zephyr and short
  interrupts a host that repeats a command too early brings the work item there, too (`EarlyBuilds` of `can`).
- A USB bus reset while a packet waits to be fetched: `txActive` stays set.
- A sample taken in an interrupt inside `FMSTR_RecorderTrigger` or while a recorder is started: it counts down from
  the number of an earlier run.
- `totalSmps * pointSize` wider than `FMSTR_SIZE` (`SizeRange`).
- A write that has a part of a variable in its block: the application sees the old and the new part together
  (`WholeVariables`). No code can help that; the host's tools write variables whole.
- A scope variable in the buffer of the dynamic table (`ScopesOffTable`). A scope checks its variables against the
  tables when it is configured and not when it is read; the entry that describes the buffer is gone once the
  application has taken the buffer back with `FMSTR_SetUpTsaBuff`, and the scope is still read.

Modelled as they are, and seen to do no harm to what is checked: AUTH1 calls `FMSTR_FreeSession` with the session in
the place of its identification, so nothing is freed; the sending loop of the network transport takes a response sent
in several parts for an error after the last part and closes the session (`Complete` in `NetTable`); a lock
on a pipe belongs to its slot in the table.

## Fairness

Liveness is claimed only under what the code's own scheduling gives:

- `pipe_link`: `FMSTR_Poll` is called again and again, and the handler answers a frame that is waiting
  infinitely often (strong fairness, because the link may lose the frame first); the application keeps
  reading; the host repeats its request until it is answered, puts data into it when it has
  any (`EagerHost`), and receives a response that arrives
  infinitely often. Losing frames is never fair, and a link that loses everything is excluded by the
  strong fairness of the two receiving actions.
- `net_tcp`: weak fairness of `NetPoll` alone, the main loop. Nothing is assumed of the clients. The run
  uses `FairSpecForTLC`, where ENABLED is written out as `PollWorks`: TLC evaluates ENABLED too slowly.
- `serial`: weak fairness of `FMSTR_ProcessSerial` (polled, or called for an interrupt that is on), of
  `_FMSTR_RxDequeue`, of the device's poll, of the line, and of a host that sends again when nothing moves and
  configures its USB device after a reset. The application polls often enough that the device and the queue lose
  no more than `MaxFaults` characters. `FairSpecForTLC` writes ENABLED out as above.
- `can`: weak fairness of `FMSTR_Poll`, of the interrupt, of the work item, of the bus in both directions, and of a host
  that repeats when nothing moves; again with ENABLED written out.
- `pdbdm`: weak fairness of the driver's steps, which `FMSTR_Poll` makes, and of a debugger that finishes the request it
  has begun to write.
- `appcmd`: the application polls and finishes what it started, the host repeats. Strong fairness where a
  callback that is registered and removed over and over could always be in the way.
- `recorder`: weak fairness of `FMSTR_Recorder`, which the application calls periodically.

## What is proved

Everything below holds for every value of the constants that the named assumptions of the modules allow: sizes, counts
of clients, sessions, slots, ports, variables and commands, and every bound that a run gives. An inductive invariant
called `IInv` stands behind each module's theorems (`Invariance`), with the prefix `AppCmd` or `Tcp` where one module
proves about two (`Hashed` for digests), in `CanProofs` the three invariants `DecodeInv`,
`Sending` and `LinkInv`, in `SerialProofs` `IInv` together with `Responding`; TLC has checked each of them, too.

| Module | Theorem | States | Under |
|---|---|---|---|
| `PipeLinkProofs` | `TypeCorrect` | `[]TypeOK`: pointers stay inside their buffers | `NarrowPipe` |
| | `Delivery` | `[]DeliveredInOrder` | `NarrowPipe` |
| | `Retention` | `[]NoByteDropped` | `NarrowPipe` |
| | `Refinement` | two byte streams are implemented, `ImplementsStreams` | `NarrowPipe` |
| `PipePortsProofs` | `PortHasOnePipe` | `[]OnePipePerPort` | |
| | `AckOfThisOpening` | `[]AckIsOfThisOpening` | |
| | `NothingInherited` | `[]BuffersAreOwn` | `NarrowPipes` |
| | `TextComesOut` | `TextPrinted` | `NarrowPipes`, `Converted` |
| `NetProofs` | `SessionTables` | `[]TablesAgree` | |
| | `OwnBytes` | `[]FramesOfOneClient` | |
| | `SessionForEveryCommand` | `[]EveryCommandAnswered` | |
| | `LocksExclude` | `[]OnlyLockHolderServed` | |
| | `AccessByPassword` | `[]AccessIsEarned` | |
| | `OldestGivesWay` | `EntriesAreKept` | `NoWrap` |
| | `ServedHaveSockets` | `[]SocketForEveryEntry` | |
| | `LocksHaveConnections` | `[]OwnersAreConnected` | |
| | `NobodyGivesWay` | `ServedUntilClosed` | `~Silent` |
| `FeatureProofs` | `CommandsRunOnce` | `[]RunsOnce` | |
| | `ArgumentsStay` | `[]ArgumentsKept` | |
| | `ResponseDataStay` | `[]ResponseDataKept` | |
| | `LayoutStays` | `[]LayoutIsFresh` | `NoWrap` |
| | `PointsStayInOrder` | `[]PointsInOrder` | `NoWrap` |
| | `TriggerStaysInPlace` | `[]TriggerInPlace` | `NoWrap` |
| | `EdgesTrigger` | `TriggersOnEdges` | |
| | `DigestsOfWholes` | `[]DigestOfWhole` | |
| `PdbdmProofs` | `RequestsAreExecutedAsSent` | `[]ExecutedAsSent` | |
| | `VariablesStayWhole` | `[]NoTornVariable` | `WholeVariables` |
| | `MemoryIsGuarded` | `[]GuardedMemory` | `RequestsDoNotWrap`, `ScopesOffTable` |
| `SerialProofs` | `CommandsAreDecodedAsSent` | `[]DecodedAsSent` | |
| | `ResponsesAreIntact` | `[]ResponseIntact` | `Shallow`, `~Overlap` |
| `CanProofs` | `CommandsAreDecodedAsSent` | `[]DecodedAsSent` | |
| | `ResponsesAreSentAsBegun` | `[](Len(d.txmb) <= 1 => ResponseIntact)` | |
| | `ResponsesAreSentOnce` | `[]ResponseIntact` | `Orderly` |

The conditions in the last column are those of the section "Where a property holds only under a condition", where the
code does not guarantee more:

- `NarrowPipe`, `NarrowPipes`: buffers are below `Size8` and below 65536 bytes, which is what the casts need;
- `Converted`: each conversion of the calls comes out as the text it stands for, or fails because that text is longer
  than `printfBuff`, and never overruns it. `MCPipePorts` has an `ASSUME` that TLC evaluates of it, for the calls of the
  run; for numbers of every type with every radix, flag and width it says when exactly the buffer is overrun, and that
  the rest come out so;
- `NoWrap` of `NetProofs`: no more frames arrive than the age counter counts. When it starts again the order of the
  entries is lost, and who is evicted then is not who was silent for longest;
- `~Silent`: no client closes a TCP connection that it has not used;
- `NoWrap` of `FeatureProofs`: the number of samples that is asked for, times the largest size a point can have, is
  counted by `FMSTR_SIZE`. A host may ask for more; then the end of the buffer is computed from a product that has wrapped;
- `WholeVariables`: a request to write has a variable in its block, and in its mask, or not, never a part of it;
- `RequestsDoNotWrap`: no block that a request names, for reading, writing or a scope, reaches the last address;
- `ScopesOffTable`: no scope is given a variable in the buffer of the dynamic table. `MCPdbdm` has an `ASSUME` that its
  requests meet these three;
- `Shallow`: a FIFO holds two characters at most, or every LPUART and USART is read into a queue (short interrupts).
  What can follow the last character of a command in such a FIFO starts no frame, so the loop that goes on receiving
  after a response has begun leaves the buffer alone. No condition is put on the other devices;
- `~Overlap`: over USB the host sends nothing while it has a packet to fetch;
- `Orderly`: the bus does not outrun the interrupt's handler and the work item (`Preempted` is FALSE), MSCAN is not built
  with short interrupts, and with Zephyr's driver and short interrupts the host does not repeat a command before its
  response is over (`EarlyBuilds`). The run `can` meets it. In each of these cases a handler comes between two steps of
  `FMSTR_Poll` while the device takes another frame, and a frame may be sent twice. What is sent is the response even
  then, up to that moment: `ResponsesAreSentAsBegun` needs no condition but that no second frame is in the device's buffer.

And these are assumptions on constants, each with its reason in the source: there is at most one application command
interface and there are at most 127 pipes (`SessionsAssumption`; `freemaster_defcfg.h:260` refuses more), there are at
least two sessions, the memory handed to the recorder has room for its variables (`SizesAssumption`, an `FMSTR_ASSERT`),
a format of the bounded calls has the arguments it converts (`CallsAssumption`) and no number that overruns `printfBuff`
(`CallsFitAssumption`, the application's care), an index of GETCONFIG is not behind the table, and no command's code is the
start-of-block character, nor are its arguments so many that `fmstr_nRxTodo`, one more, wraps, and what the decoder answers fits into
`fmstr_pCommBuffer` with its status and its length (`RequestsAssumption`; the decoder refuses a longer answer,
`freemaster_protocol.c:791`, `:850`), and a block of a digest has room for the length (`Sha1Assumption`; 8 bytes of 64).

**A pipe and its host.** `DeliveredInOrder` is not inductive: it says nothing of the bytes on their way. `IInv` adds
what the buffers hold (`Buffers`: the cells from `rp` on hold the bytes that follow those already taken),
that frames of the present round come last on the link and agree with each other (`Requests`), and which
side is ahead (`Rounds`). Either the target has not seen the present round (`BeforeFrame`: no response of it
is on the link, and both sides agree but for what `skip` will release), or it has (`AfterFrame`: every
request on the link is of that round, hence a repetition to be ignored, and every response of it says the
same). `PipeFrame` leads from the one to the other and `HostReceive` back. `PipeBufferProofs` proves what
each buffer routine does to the cells in terms of `Holds`, with the modular arithmetic in lemmas of its own;
the step lemmas of `PipeLinkProofs` then speak of streams only, one lemma per action.

**The table of pipes.** A byte is known by the opening that wrote it, so that `Own` says of a whole buffer whose it is;
the buffer lemmas of `PipeBufferProofs` give one lemma per routine. Printing is a loop over the items of a format: each
item leaves the pipe in a state in which only this opening has written (`Writes`), which is shown with a least
counterexample, because induction cannot be cited. The text is proved in the same way: what a call has put into the pipe
and what is in `printfBuff` come, in this order, behind what was there before (`Exactly`); a flush moves characters from
the one to the other, an item puts its text behind both, and a call that has ended early has printed the beginning of
its text (`HasPrinted`).

**Sessions and network.** `NetProofs` shows operator by operator that the tables stay linked (`Agree`): an entry
in use has at most one decoder session, that has no other, and a lock is held by a session in use. The awkward places
are those where the code frees by the wrong name: AUTH1, and closing after a receive without an address. On top of that,
it relates locks and access to the histories of what clients were granted and have shown (`LocksMatch`,
`AccessEarned`), and ages to who was heard last (`OldestSilent`: of two clients that are served, the one with the older
entry has been silent since the other was heard). For TCP (`TcpIInv`) it relates entries and sockets, both ways when no
client is silent (`Dialogue`); with that and `Agree`, a lock's owner has a connection.

**Application commands.** While a command is pending (`Pending`), the buffer holds its arguments and it has run just if
the application holds it; when none is (`Processed`, `DataLeft`), the result and the data are those of the last one.
The host's result, once it
has one, is of the command accepted last (`HostKnows`), which may be a repetition that was taken for a new command.

**Recorder.** The circular buffer is described by one number: the next point to be written (`At`). Behind it lie the
samples of the run from the latest back, so the age of point `j` is known (`AgeOf`), to the beginning of the buffer in
the first cycle and all around it later. A sample writes point `w`, makes every other byte one older and moves `w`
(`AgesLemma`); that no two points share a byte and the last one ends in the buffer is arithmetic (`SlotLemma`). `Counted`
ties the countdown to the samples since the trigger: their sum is what was asked for. `Edges` says that the last state
of each variable is its comparison in the sample before; it breaks in the middle of a sample, where the trigger is pulled,
so `Core` holds the rest. `PointBytes` is a recursive function, whose values are shown to be sums by a least
counterexample (`SumsLemma`); it depends on nothing but the configuration of the variables (`SameBytes`), which is why a
later threshold does no harm, and a later configuration is refused (`VarsLemma`).

**Digests.** `Hashed` says what the context is when some data were hashed: the blocks they fill are transformed, the rest
of them waits in the buffer, and the bits of the former are counted. A byte keeps it, hence a piece does: the loop of
`FMSTR_Sha1Update` is a recursive function, of which there is no first byte that breaks it (`RunLemma`, `UpdateLemma`).
Finishing is then arithmetic: the only number of zeros that fills the last block (`ZerosLemma`) is the one that both
branches of the padding come to, and block by block the buffer is the message (`WholeLemma`).

**Memory.** `Exchange` says what the shared buffer and the driver's job are in each of the three states of the exchange:
whatever parts of the next request are there, the code in the buffer is a request's only when length, body and checksum
are of that request. The lemma on copies (`CopyLemma`) says of the accesses of a copy that they lie in the block, leave
no gap and do not overlap, and that a variable at its natural alignment is inside one of them: odd operands up to the
alignment, then the widest operations first. It is shown operation width by operation width, the bytes left being what
each hands to the next. `WholeSoFar` then relates what is copied so far with the memory: the bytes that were read of a
variable are all of one value of it, and memory itself holds each variable whole. For the guard (`Guard`), a request
that copies has accesses inside what the tables describe, because the application changes the tables only between calls
of `FMSTR_Poll`; what needs an invariant is a scope, whose variables were checked requests ago (`ScopeOK`): they lie in
what stays described when the dynamic table is taken back (`Lasting`), that is anywhere but in the table's buffer.

**Serial commands.** While a command is received, each byte the checksum covers is in the buffer where it belongs,
unless the frame did not fit (`Stored`): a frame start, the length and every byte add to both, and what the transmitter
writes into the same buffer it writes while nothing is received. A checksum in the line, in the device, in the driver's
own queue or in the ring is one that was computed over a command the host has sent, changed characters being none
(`Chars`, `Inputs`). So a checksum that matches (`Matches`) makes the bytes in the buffer a command, with the length the
host gave it (`HeldLemma`). The seven devices are described by what they leave alone (`Kept`): whatever switches and
flags they change, they neither invent characters nor touch the receiver. `IsDriver` lists the fields of the record, so
that the provers see through its updates. The loops over a device's characters are shown with a least counterexample. The line
to EOnCE is cut into words, hence always a whole number of them (`Whole`).

**Serial responses.** `ResponseIntact` says nothing of what is still to be sent. `Sending` does: the response is what is
gone, then what the device holds (`Holds`, in registers, FIFOs, packets or words), then what the bytes from `pTxBuff` on
stand for, each start character doubled (`Sends`). The last word to EOnCE is filled up, but not before the buffer is at its end
(`Unfilled`). `Listening` says that nothing is left in the hand of a device that could no longer tell (`Ready`). A
response begins in the buffer with its status, length, data and checksum, coded as the host expects it (`WireCoded`,
`HeadLemma`), and whatever the transmitter does next, one character, word or packet moves from one of the three parts to
the one before (`SendSending`, `ProcessTxSending`). Beginning is the awkward place, because it happens inside the loop that
receives: from there on no character may start a frame (`Hearing`, `Deaf`), which is what needs `Shallow`. USB handled at its
events needs one more fact, that a transmitting device has something to wait for (`Loaded`): two events in a row do not
begin twice, and the transmitter is not left with a packet that nobody fetches.

**CAN commands.** While a command is received (`Reception`), the buffer holds what the checksum was computed over, frame
after frame (`Stored`); a frame in the device is one that the host sent, with or without those before it, and the last
byte of the last frame of a command is the checksum of that command. So when it matches, the bytes summed are those of the
command, however many frames are missing between, and the buffer holds them (`Holds`). Each function of the driver is
described by what it changes (`Acknowledged`, `Pushed`, `Listening`, `Responding`) and what it leaves; one lemma per
handler then shows that `Reception` stays.

**CAN responses.** `ResponseIntact` says nothing of the bytes still to be sent. `Sending` does: the frames sent are the
answer from its beginning, marked and toggled as they should be (`PartOf`), and while the driver sends, the buffer holds
the rest at `pTxBuff` (`Left`), because nothing is received into it: a response begins after `bRxActive` was cleared, and
`bRxActive` is set again only as `bTxActive` is cleared. That needs no order between the handlers. That no frame is
sent while another is in the device does, and `LinkInv` states it: a device with a frame says that it is busy (`Box`);
FlexCAN tells that it has sent only while its buffer is empty and still taken, so that one handler alone may fill it
(`Mail`); and Zephyr's work item, which sends on its own, is idle as long as a command is received or run, since no
command begins on the bus before the response to the one before is over (`OneAtATime`).

Only model-checked:

- liveness, in all modules, since fairness and ENABLED are beyond the prover;
- the digits of numbers (`Converted`), whose conversion is a loop over data, checked over bounded numbers by the `ASSUME`
  of `MCPipePorts`;
- `FieldsComeBack` and whatever uses `Codec`, whose bit operations (`Bitwise`) are defined by recursion that the provers
  cannot follow;
- `ThresholdsStay` and `ResourceIsFound`, which are false of the code.

## Not modelled

The interrupt inside the serial `_FMSTR_SerialSendResponse` of the short-interrupt mode, and the test frames of
`FMSTR_DEBUG_TX`; commands in broadcast frames, which no host sends; the non-blocking mode
of the TCP drivers; several recorders, FASTREC options and recorder memory read by other commands. CRC16 and random numbers; the
compression of a SHA-1 block, arithmetic on 32-bit words. The RTT drivers, whose ring buffer is not in the
repository; the Zephyr thread, thread list and shell; register-level drivers of the structure of a modelled one, and
MCAN; the descriptors and requests of the USB device.

## Plan

Done, in this order: `PipeBuffer`, `PipeStream`, `PipeLink` and their proofs; `Sessions`, `NetTable`, `NetUdp`,
`NetTcp` and their proofs; `AppCmd` and `Recorder` and their proofs; `RingQueue`, `Serial`, `SerialDevices`, `SerialLink`
and their proofs; `Can`, `CanLink` and their proofs;
`MemCopy`, `Tsa`, `Scope`, `Ures`, `Decoder`, `Pdbdm`; `Codec`, `Sha1`, `Message`, `Digest`; `PipePrint`, `PipePorts` and their proofs.

Next, the most important first:

1. An abstract request and response link, which `SerialLink`, `CanLink` and `Pdbdm` implement.
2. The interrupt inside `_FMSTR_SerialSendResponse`, with `Serial` split there, and the TCP drivers'
   non-blocking mode.
