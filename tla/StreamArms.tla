----------------------------- MODULE StreamArms -----------------------------
(***************************************************************************)
(* The TcpStream of linux.rs, freebsd.rs and macos.rs: its state and the   *)
(* arms of poll_read and poll_write those files repeat word for word.      *)
(* Lines are given for linux.rs; LinuxTfo, FreeBsdTfo and MacTfo say which *)
(* arms a platform has and add its own.                                    *)
(*                                                                         *)
(* poll_write is a loop over the state of the stream.  Every iteration is  *)
(* cut where the kernel, the driver or another thread may get between two  *)
(* of its system calls; pc says where the poll is.  poll_read cannot run   *)
(* meanwhile: both take &mut self.                                         *)
(***************************************************************************)
EXTENDS TokioTcp, Integers

CONSTANT RegisterMayFail  \* whether TcpStream::from_std may return an error

ASSUME RegisterAssumption == RegisterMayFail \in BOOLEAN

VARIABLES
  state,     \* TcpStreamState
  stream,    \* TcpStreamOption; Absent until connect returns
  reader,    \* the reader waker of TcpStreamOption::Connecting
  pc,        \* where connect or poll_write is between two system calls
  buf,       \* length of the buffer of the pending write
  ret,       \* result of the last send or sendto, cnt its byte count
  cnt,
  panicked   \* an unreachable!() was reached

streamVars == <<state, stream, reader>>
callVars   == <<pc, buf, ret, cnt>>
armVars == <<sockVars, ioVars, execVars, userVars, streamVars, callVars, panicked>>

States  == {"Established", "Connected", "FastOpenConnect", "FastOpenConnecting", "FastOpenWrite"}
Streams == {"Absent", "Connected", "Connecting", "Empty"}

ArmTypeOK ==
  /\ panicked \in BOOLEAN
  /\ state \in States
  /\ stream \in Streams
  /\ reader \in Tasks \cup {NoTask}
  /\ pc \in {"none", "probe", "await", "failed", "top", "soerr", "send", "match", "adopt"}
  /\ buf \in Nat /\ cnt \in Nat
  /\ ret \in {"none", "ok", "inprogress", "again", "err"}

TypeOK == TokioTypeOK /\ ArmTypeOK

\* A socket connect_with_socket has not been called with yet.
ArmsInit ==
  /\ TokioInit
  /\ state = "FastOpenConnect" /\ stream = "Absent" /\ reader = NoTask
  /\ pc = "none" /\ buf = 0 /\ ret = "none" /\ cnt = 0
  /\ panicked = FALSE

-----------------------------------------------------------------------------
(* The ends of connect_with_socket, and From<TokioTcpStream>.               *)

\* setsockopt, connect() or the await fails: the socket is dropped.
ConnectFails ==
  /\ pc = "probe" \/ (pc = "await" /\ IsReady("W") /\ soerr)
  /\ pc' = "failed" /\ phase' = "closed"
  /\ TakeError
  /\ UNCHANGED <<inbox, full, shut, wire, ioVars, execVars, accepted, streamVars, buf, ret, cnt, panicked>>

\* The stream that will sendto in its first poll_write.
ReturnConnecting ==
  /\ stream' = "Connecting" /\ pc' = "none"
  /\ UNCHANGED <<sockVars, ioVars, execVars, userVars, state, reader, buf, ret, cnt, panicked>>

\* From<TokioTcpStream>: a stream accepted by TfoListener.
from ==
  /\ stream = "Absent" /\ pc = "none"
  /\ phase' = "est"
  /\ state' = "Connected" /\ stream' = "Connected"
  /\ UNCHANGED <<soerr, inbox, full, shut, wire, slot, execVars, userVars, reader, callVars, panicked>>
  /\ Register(Level')

-----------------------------------------------------------------------------
(* How a poll ends, and the move from Connecting to Connected.              *)

EndCall == pc' = "none" /\ buf' = 0 /\ ret' = "none" /\ cnt' = 0

\* fault: the length of the buffer is returned for the number of bytes sent
TellLen(n) == accepted' = accepted + buf

\* Ok(n): the writer is told of n bytes.
Tell(n) == accepted' = accepted + n

\* fault: poll_write loops after bytes were sent, and sends the buffer again
SendAgain(n) ==
  /\ pc' = "top" /\ ret' = "none" /\ cnt' = 0
  /\ UNCHANGED <<execVars, userVars, buf>>

ReturnOk(n) == Return("W") /\ Tell(n) /\ UNCHANGED told /\ EndCall

\* unreachable!() unwinds the task.
Panic(f) ==
  /\ panicked' = TRUE
  /\ fut' = [fut EXCEPT ![f] = "done"]
  /\ EndCall
  /\ UNCHANGED <<sockVars, ioVars, woken, task, userVars, streamVars>>

ForgetReader == reader' = NoTask /\ UNCHANGED woken   \* fault: never woken

\* reader.take(), woken unless it is the waker of the task that is polling.
WakeReader ==
  /\ reader' = NoTask
  /\ woken' = IF reader \in {NoTask, task["W"]} THEN woken ELSE woken \cup {reader}

\* fault: the stream is replaced and the state is not
AdoptStreamOnly(next) ==
  stream' = "Connected" /\ Register(Level) /\ WakeReader /\ UNCHANGED state

\* mem::replace by Empty, then from_std: the stream becomes Connected.
Adopt(next) ==
  /\ stream' = "Connected" /\ state' = next
  /\ Register(Level)
  /\ WakeReader

\* from_std fails: `?` returns with Empty in place, socket and waker dropped.
AdoptFails ==
  /\ RegisterMayFail
  /\ stream' = "Empty" /\ reader' = NoTask /\ phase' = "closed"
  /\ Return("W") /\ EndCall
  /\ UNCHANGED <<state, soerr, inbox, full, shut, wire, ioVars, userVars, panicked>>

-----------------------------------------------------------------------------
(* poll_read                                                                *)

poll_read ==
  /\ fut["R"] = "due" /\ pc = "none"
  /\ \/ /\ stream = "Connected"
        /\ TokioPollRead
        /\ UNCHANGED <<streamVars, callVars, panicked>>
     \/ /\ stream = "Connecting"
        /\ reader' = task["R"]
        /\ woken' = IF reader \in {NoTask, task["R"]} THEN woken ELSE woken \cup {reader}
        /\ fut' = [fut EXCEPT !["R"] = "parked"]
        /\ UNCHANGED <<sockVars, ioVars, task, userVars, state, stream, callVars, panicked>>
     \/ stream = "Empty" /\ Panic("R")

-----------------------------------------------------------------------------
(* poll_write                                                               *)

poll_write ==
  /\ fut["W"] = "due" /\ pc = "none"
  /\ pc' = "top"
  /\ UNCHANGED <<sockVars, ioVars, execVars, userVars, streamVars, buf, ret, cnt, panicked>>

\* The arm of state s returns what tokio's poll_write returns.
PassOn(s) ==
  /\ pc = "top" /\ state = s /\ stream = "Connected"
  /\ WritePends \/ WriteTakes(buf) \/ WriteFails
  /\ pc' = "none" /\ buf' = IF fut'["W"] = "parked" THEN buf ELSE 0
  /\ UNCHANGED <<streamVars, ret, cnt, panicked>>

\* The errors of a BSD send that leave SO_ERROR alone: ENOTCONN and EPIPE while
\* the fast open is under way, EPIPE ever after the write side is gone.
SendErrors == (IF Opening THEN {"ENOTCONN", "EPIPE"} ELSE {})
                \cup (IF Broken THEN {"EPIPE"} ELSE {})

RetryClears == ready' = ready \ {"W"}   \* fault: EAGAIN is taken at its word

\* The readiness tokio has cached stays for the retry.
RetryReady == UNCHANGED ready

\* The arm Connected on BSD: until a write succeeds, the errors in retried make
\* it look at SO_ERROR and loop.
RetryingWrite(retried) ==
  /\ pc = "top" /\ state = "Connected" /\ stream = "Connected"
  /\ \/ WriteTakes(buf) /\ state' = "Established" /\ EndCall
     \/ WritePends /\ pc' = "none" /\ UNCHANGED <<state, buf, ret, cnt>>
     \/ soerr /\ WriteFails /\ EndCall /\ UNCHANGED state
     \/ /\ IsReady("W") /\ SendErrors \cap retried # {}
        /\ state' = "FastOpenConnecting" /\ RetryReady
        /\ UNCHANGED <<sockVars, reg, edge, ticked, slot, execVars, userVars, callVars>>
     \/ /\ IsReady("W") /\ SendErrors \ retried # {}
        /\ Return("W") /\ EndCall
        /\ UNCHANGED <<sockVars, ioVars, userVars, state>>
  /\ UNCHANGED <<stream, reader, panicked>>

\* poll_write_ready, in the arms FastOpenConnecting and FastOpenWrite.
poll_write_ready(next) ==
  /\ pc = "top" /\ stream = "Connected"
  /\ \/ IsReady("W") /\ pc' = next /\ UNCHANGED <<slot, execVars>>
     \/ ~IsReady("W") /\ pc' = "none" /\ Park("W")
  /\ UNCHANGED <<sockVars, reg, edge, ready, ticked, userVars, streamVars, buf, ret, cnt, panicked>>

FastOpenConnecting_ready == state = "FastOpenConnecting" /\ poll_write_ready("soerr")

\* fault: SO_ERROR is read, which clears it, and not looked at
IgnoreError ==
  /\ pc = "soerr"
  /\ soerr' = FALSE /\ state' = "Connected" /\ pc' = "top"
  /\ UNCHANGED <<phase, inbox, full, shut, wire, ioVars, execVars, userVars>>
  /\ UNCHANGED <<stream, reader, buf, ret, cnt, panicked>>

CheckedForGood == state' = "Established"   \* fault: the next write is not retried
Checked == state' = "Connected"

\* SO_ERROR, read and cleared: fail with it, or loop as Connected.  The
\* getsockopt may fail too.
FastOpenConnecting_take_error ==
  /\ pc = "soerr"
  /\ \/ soerr /\ TakeError /\ Return("W") /\ EndCall /\ UNCHANGED state
     \/ Return("W") /\ EndCall /\ UNCHANGED <<soerr, told, state>>
     \/ /\ ~soerr /\ Checked /\ pc' = "top"
        /\ UNCHANGED <<soerr, told, execVars, buf, ret, cnt>>
  /\ UNCHANGED <<phase, inbox, full, shut, wire, ioVars, accepted, stream, reader, panicked>>

\* fault: the -1 of a failed sendto is taken for a number of bytes
MinusOneSent == ret' = "ok" /\ cnt' = -1

\* sendto failed with an error other than EINPROGRESS.
SendtoFailed == ret' = "err" /\ UNCHANGED cnt

\* Arm FastOpenConnect: sendto(MSG_FASTOPEN).  With a cookie the kernel sends
\* the SYN with data; without one, or with no data, a bare SYN.
FastOpenConnect_sendto ==
  /\ pc = "top" /\ state = "FastOpenConnect" /\ stream = "Connecting"
  /\ pc' = "adopt"
  /\ \/ \E n \in 1..buf :
          ret' = "ok" /\ cnt' = n /\ wire' = wire + n /\ phase' = "fastsyn"
     \/ ret' = "inprogress" /\ phase' = "syn" /\ UNCHANGED <<wire, cnt>>
     \/ SendtoFailed /\ UNCHANGED <<phase, wire>>
  /\ UNCHANGED <<soerr, inbox, full, shut, ioVars, execVars, userVars, streamVars, buf, panicked>>

\* After it: return the count, loop to wait for the handshake, or fail.
FastOpenConnect_adopt ==
  /\ pc = "adopt"
  /\ \/ /\ ret = "ok" /\ Adopt("Connected")
        /\ fut' = [fut EXCEPT !["W"] = "awake"]
        /\ Tell(cnt)
        /\ EndCall
        /\ UNCHANGED <<sockVars, slot, task, told, panicked>>
     \/ /\ ret = "inprogress" /\ Adopt("FastOpenConnecting")
        /\ pc' = "top" /\ ret' = "none"
        /\ UNCHANGED <<sockVars, slot, task, fut, userVars, buf, cnt, panicked>>
     \/ ret \in {"ok", "inprogress"} /\ AdoptFails
     \/ /\ ret = "err" /\ Return("W") /\ EndCall
        /\ UNCHANGED <<sockVars, ioVars, userVars, streamVars, panicked>>

\* Arm FastOpenWrite: the first write after TCP_FASTOPEN_CONNECT.
FastOpenWrite_ready == state = "FastOpenWrite" /\ poll_write_ready("send")

\* send() within try_io, which snapshots the readiness first.
FastOpenWrite_send ==
  /\ pc = "send"
  /\ pc' = "match" /\ ticked' = FALSE
  /\ \/ /\ phase = "deferred" \/ CanSend
        /\ \E n \in IF phase = "deferred" THEN 1..buf ELSE Taken(buf) :
             ret' = "ok" /\ cnt' = n /\ wire' = wire + n
        /\ phase' = IF phase = "deferred" THEN "fastsyn" ELSE phase
        /\ UNCHANGED <<soerr, told>>
     \/ /\ phase = "deferred"
        /\ ret' = "inprogress" /\ phase' = "syn"
        /\ UNCHANGED <<soerr, told, wire, cnt>>
     \/ /\ phase = "deferred" \/ Broken
        /\ ret' = "err" /\ TakeError
        /\ UNCHANGED <<phase, wire, cnt>>
     \/ /\ WouldBlock
        /\ ret' = "again"
        /\ UNCHANGED <<phase, soerr, told, wire, cnt>>
  /\ UNCHANGED <<inbox, full, shut, reg, edge, ready, slot, execVars, accepted, streamVars, buf, panicked>>

KeepReady   == UNCHANGED ready          \* fault: EINPROGRESS is no WouldBlock
ClearAlways == ready' = ready \ {"W"}   \* fault: an event come since is lost

\* try_io clears the readiness on WouldBlock, unless an event came since.
ClearReady == ready' = IF ticked THEN ready ELSE ready \ {"W"}

\* Then the match on the result.
FastOpenWrite_match ==
  /\ pc = "match"
  /\ \/ /\ ret = "ok" /\ state' = "Connected" /\ ReturnOk(cnt) /\ UNCHANGED ready
     \/ /\ ret \in {"inprogress", "again"}
        /\ ClearReady
        /\ state' = IF ret = "inprogress" THEN "FastOpenConnecting" ELSE state
        /\ pc' = "top" /\ ret' = "none"
        /\ UNCHANGED <<execVars, userVars, buf, cnt>>
     \/ ret = "err" /\ Return("W") /\ EndCall /\ UNCHANGED <<ready, state, userVars>>
  /\ UNCHANGED <<sockVars, reg, edge, ticked, slot, stream, reader, panicked>>

\* connected() and the arm FastOpenConnect on a stream that is neither.
unreachable ==
  /\ pc = "top"
  /\ stream # IF state = "FastOpenConnect" THEN "Connecting" ELSE "Connected"
  /\ Panic("W")

-----------------------------------------------------------------------------
(* poll_shutdown, the accessors and the owner of the stream                 *)

\* A no-op unless Connected.  It closes the write side of a connection, or
\* makes the kernel abort one that is not open yet.
poll_shutdown(aborted) ==
  /\ fut["W"] = "awake" /\ pc = "none" /\ stream = "Connected"
  /\ \/ /\ phase \in {"est", "syn", "fastsyn"} \ aborted
        /\ shut' = TRUE /\ UNCHANGED <<phase, soerr>>
     \/ /\ phase \in aborted
        /\ phase' = "dead" /\ soerr' = TRUE /\ UNCHANGED shut
  /\ UNCHANGED <<inbox, full, wire, reg, ready, ticked, slot, execVars, userVars, streamVars, callVars, panicked>>
  /\ RaiseEdges

\* peer_addr, local_addr, nodelay, ttl, as_raw_fd ... change nothing unless
\* the stream is Empty.
accessor ==
  /\ stream = "Empty" /\ pc = "none"
  /\ \E f \in Futures : fut[f] = "awake" /\ Panic(f)

\* The code of a task runs unless the task is inside poll_write.
CanRun(t) == pc = "none" \/ t # task["W"]

Use ==
  /\ stream # "Absent"
  /\ \/ /\ \/ \E t \in Tasks, f \in Futures : CanRun(t) /\ Resume(f, t)
           \/ \E f \in Futures : CanRun(task[f]) /\ Rest(f)
           \/ CanRun(task["R"]) /\ Submit("R")
        /\ UNCHANGED buf
     \/ Submit("W") /\ \E n \in 0..MaxBuf : wire + n <= MaxWire /\ buf' = n
  /\ UNCHANGED <<streamVars, pc, ret, cnt, panicked>>

\* No stream came of it, or both halves hit an unreachable!().
Terminated ==
  /\ pc = "failed" \/ \A f \in Futures : fut[f] = "done"
  /\ UNCHANGED armVars

-----------------------------------------------------------------------------
Outside(A) == A /\ UNCHANGED <<streamVars, callVars, panicked>>
External   == Outside(Network \/ Executor)

\* The loop, arm by arm; the arms of the state Connected are the platform's.
FastOpenConnect_arm == FastOpenConnect_sendto \/ FastOpenConnect_adopt
FastOpenConnecting_arm == FastOpenConnecting_ready \/ FastOpenConnecting_take_error
FastOpenWrite_arm == FastOpenWrite_ready \/ FastOpenWrite_send \/ FastOpenWrite_match
=============================================================================
