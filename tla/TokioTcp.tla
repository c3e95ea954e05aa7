------------------------------ MODULE TokioTcp ------------------------------
(***************************************************************************)
(* What the platform modules of tokio-tfo stand on and do not contain: the *)
(* kernel's TCP socket, tokio's readiness cache for a registered file      *)
(* descriptor, and the executor that polls the tasks using a stream.  It   *)
(* is modelled from how src/ uses it.                                      *)
(*                                                                         *)
(* One stream is shared by two futures, as after tokio::io::split: "R"     *)
(* reads it and "W" writes it.  Each is polled by a task; a task that got  *)
(* Poll::Pending runs again only when a waker of it is used.               *)
(***************************************************************************)
EXTENDS Naturals

CONSTANTS
  ReaderTasks,    \* the tasks the read future may be polled by
  WriterTasks,    \* the tasks the write future may be polled by
  NoTask,         \* an empty waker slot
  EarlyWritable,  \* phases before the handshake that poll as writable
  MaxBuf,         \* bound: longest buffer given to poll_write
  MaxWire         \* bound: bytes the kernel accepts on one stream

Tasks   == ReaderTasks \cup WriterTasks
Futures == {"R", "W"}
Phases  == {"new", "deferred", "syn", "fastsyn", "est", "dead", "closed"}

ASSUME TaskAssumption ==
  /\ ReaderTasks # {} /\ WriterTasks # {}
  /\ NoTask \notin Tasks
ASSUME BoundAssumption == MaxBuf \in Nat /\ MaxWire \in Nat
ASSUME PhaseAssumption == EarlyWritable \subseteq {"deferred", "fastsyn"}

VARIABLES
  phase,    \* new: no connect yet; deferred: SYN held back until the first
            \* write; syn: SYN sent without data; fastsyn: SYN sent with data
  soerr,    \* SO_ERROR is set
  inbox,    \* there is data, or the end of the stream, to read
  full,     \* the send buffer is full
  shut,     \* the write side is shut down
  wire,     \* bytes of the caller the kernel has accepted
  reg,      \* the descriptor is registered with tokio's driver
  edge,     \* readiness events the driver has not delivered yet
  ready,    \* readiness tokio has cached
  ticked,   \* an event was delivered since the poll's readiness snapshot
  slot,     \* wakers tokio holds, one per direction
  woken,    \* tasks scheduled to run
  task,     \* the task that polls each future
  fut,      \* idle | awake (its code runs) | due (will be polled) | parked
  accepted, \* bytes the writer was told were written
  told      \* an error of this socket was returned to a caller

sockVars == <<phase, soerr, inbox, full, shut, wire>>
ioVars   == <<reg, edge, ready, ticked, slot>>
execVars == <<woken, task, fut>>
userVars == <<accepted, told>>

TokioTypeOK ==
  /\ phase \in Phases
  /\ soerr \in BOOLEAN /\ inbox \in BOOLEAN /\ full \in BOOLEAN /\ shut \in BOOLEAN
  /\ reg \in BOOLEAN /\ ticked \in BOOLEAN /\ told \in BOOLEAN
  /\ wire \in Nat /\ accepted \in Nat
  /\ edge \subseteq {"R", "W", "HUP"} /\ ready \subseteq {"R", "W", "HUP"}
  /\ slot \in [Futures -> Tasks \cup {NoTask}]
  /\ woken \subseteq Tasks
  /\ task \in [Futures -> Tasks \cup {NoTask}]
  /\ fut \in [Futures -> {"idle", "awake", "due", "parked", "done"}]

\* A new socket that no future uses yet.
TokioInit ==
  /\ phase = "new" /\ wire = 0
  /\ soerr = FALSE /\ inbox = FALSE /\ full = FALSE /\ shut = FALSE
  /\ reg = FALSE /\ edge = {} /\ ready = {} /\ ticked = FALSE
  /\ slot = [f \in Futures |-> NoTask]
  /\ woken = {}
  /\ task = [f \in Futures |-> NoTask]
  /\ fut = [f \in Futures |-> "idle"]
  /\ accepted = 0 /\ told = FALSE

-----------------------------------------------------------------------------
(* The kernel: what poll reports, and what the network does to the socket. *)

Level ==
  (IF inbox \/ phase = "dead" THEN {"R"} ELSE {})
    \cup (IF \/ phase \in EarlyWritable \cup {"dead"}
             \/ phase = "est" /\ ~full
             \/ shut THEN {"W"} ELSE {})
    \cup (IF phase = "dead" THEN {"HUP"} ELSE {})

\* Edge-triggered notification: what has become true is queued once.
RaiseEdges == edge' = IF reg THEN edge \cup (Level' \ Level) ELSE edge

CanSend    == phase = "est" /\ ~full /\ ~shut
Opening    == phase \in {"syn", "fastsyn"}
WouldBlock == ~shut /\ ((Opening /\ phase \notin EarlyWritable) \/ (phase = "est" /\ full))
Broken     == phase = "dead" \/ shut
Taken(len) == IF len = 0 THEN {0} ELSE 1..len

HandshakeOk ==
  /\ Opening
  /\ phase' = "est"
  /\ UNCHANGED <<soerr, inbox, full, shut, wire, reg, ready, ticked, slot, execVars, userVars>>
  /\ RaiseEdges

\* The handshake is refused or times out, or the peer resets.
Break ==
  /\ Opening \/ phase = "est"
  /\ phase' = "dead" /\ soerr' = TRUE
  /\ UNCHANGED <<inbox, full, shut, wire, reg, ready, ticked, slot, execVars, userVars>>
  /\ RaiseEdges

HandshakeEnds == HandshakeOk \/ (Opening /\ Break)

PeerSends ==
  /\ phase = "est" /\ ~inbox
  /\ inbox' = TRUE
  /\ UNCHANGED <<phase, soerr, full, shut, wire, reg, ready, ticked, slot, execVars, userVars>>
  /\ RaiseEdges

Drain ==
  /\ phase = "est" /\ full
  /\ full' = FALSE
  /\ UNCHANGED <<phase, soerr, inbox, shut, wire, reg, ready, ticked, slot, execVars, userVars>>
  /\ RaiseEdges

-----------------------------------------------------------------------------
(* tokio: the readiness cache and the calls of its own TcpStream.           *)

IsReady(f) == f \in ready \/ "HUP" \in ready

\* TcpStream::from_std and connect: register; epoll reports the level found.
Register(lvl) == reg' = TRUE /\ edge' = lvl /\ ready' = {} /\ ticked' = FALSE

\* One turn of the driver: cache what is still true and wake who waits for it.
Deliver ==
  /\ reg /\ edge # {}
  /\ LET ev   == edge \cap Level
         hit  == {f \in Futures : f \in ev \/ "HUP" \in ev}
     IN  /\ ready' = ready \cup ev
         /\ ticked' = (ticked \/ ev # {})
         /\ woken' = woken \cup ({slot[f] : f \in hit} \ {NoTask})
         /\ slot' = [f \in Futures |-> IF f \in hit THEN NoTask ELSE slot[f]]
  /\ edge' = {}
  /\ UNCHANGED <<sockVars, reg, task, fut, userVars>>

\* Keep the waker in the slot of f and return Poll::Pending.
Park(f) ==
  /\ slot' = [slot EXCEPT ![f] = task[f]]
  /\ fut' = [fut EXCEPT ![f] = "parked"]
  /\ UNCHANGED <<woken, task>>

\* Return Poll::Ready to the future.
Return(f) == fut' = [fut EXCEPT ![f] = "awake"] /\ UNCHANGED <<woken, task>>

\* A call fails with the socket's own error if it has one, which clears it.
TakeError == soerr' = FALSE /\ told' = (told \/ soerr)

\* TcpStream::poll_read of a registered stream.
TokioPollRead ==
  \/ /\ ~IsReady("R") \/ (~inbox /\ phase # "dead")
     /\ ready' = ready \ {"R"}
     /\ Park("R")
     /\ UNCHANGED <<sockVars, reg, edge, ticked, userVars>>
  \/ /\ IsReady("R") /\ inbox
     /\ inbox' = FALSE
     /\ Return("R")
     /\ UNCHANGED <<phase, soerr, full, shut, wire, ioVars, userVars>>
  \/ /\ IsReady("R") /\ ~inbox /\ phase = "dead"
     /\ TakeError
     /\ Return("R")
     /\ UNCHANGED <<phase, inbox, full, shut, wire, ioVars, accepted>>

\* TcpStream::poll_write of a registered stream: it parks the task, or takes
\* some of len bytes, or fails with the error of the socket (or EPIPE).
WritePends ==
  /\ ~IsReady("W") \/ WouldBlock
  /\ ready' = ready \ {"W"}
  /\ Park("W")
  /\ UNCHANGED <<sockVars, reg, edge, ticked, userVars>>

WriteTakes(len) ==
  /\ IsReady("W") /\ CanSend
  /\ \E n \in Taken(len) : wire' = wire + n /\ accepted' = accepted + n
  /\ full' \in BOOLEAN
  /\ Return("W")
  /\ UNCHANGED <<phase, soerr, inbox, shut, ioVars, told>>

WriteFails ==
  /\ IsReady("W") /\ Broken
  /\ TakeError
  /\ Return("W")
  /\ UNCHANGED <<phase, inbox, full, shut, wire, ioVars, accepted>>

-----------------------------------------------------------------------------
(* The executor and the application.                                        *)

Due(t, f) == task[f] = t /\ fut[f] = "parked"

\* A woken task runs and polls again every future of it that is pending.
RunTask(t) ==
  /\ t \in woken
  /\ woken' = woken \ {t}
  /\ fut' = [f \in Futures |-> IF Due(t, f) THEN "due" ELSE fut[f]]
  /\ UNCHANGED <<sockVars, ioVars, task, userVars>>

\* A task resumes for a reason of its own (a timer, a channel) and runs the
\* code that owns f; a call of f that is pending is abandoned, and the half
\* may have moved to another task.  Pending futures of the task run again.
Resume(f, t) ==
  /\ fut[f] \in {"idle", "parked"}
  /\ t \in IF f = "R" THEN ReaderTasks ELSE WriterTasks
  /\ task' = [task EXCEPT ![f] = t]
  /\ fut' = [g \in Futures |-> IF g = f THEN "awake"
                               ELSE IF Due(t, g) THEN "due" ELSE fut[g]]
  /\ UNCHANGED <<sockVars, ioVars, woken, userVars>>

\* The code that owns f waits for something else than the stream.
Rest(f) ==
  /\ fut[f] = "awake"
  /\ fut' = [fut EXCEPT ![f] = "idle"]
  /\ UNCHANGED <<sockVars, ioVars, woken, task, userVars>>

\* It calls read or write; the call is polled next.
Submit(f) ==
  /\ fut[f] = "awake"
  /\ fut' = [fut EXCEPT ![f] = "due"]
  /\ UNCHANGED <<sockVars, ioVars, woken, task, userVars>>

Network == HandshakeOk \/ Break \/ PeerSends \/ Drain
Executor == Deliver \/ \E t \in Tasks : RunTask(t)
=============================================================================
