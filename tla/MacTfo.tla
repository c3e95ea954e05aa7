------------------------------- MODULE MacTfo -------------------------------
(***************************************************************************)
(* src/src/sys/unix/bsd/macos.rs: TcpStream on macOS and iOS.  connectx    *)
(* holds the SYN back until the first send, so there is a registered       *)
(* tokio stream from the start and the reader needs no waker of its own.   *)
(***************************************************************************)
EXTENDS StreamProps

Init == ArmsInit

\* set_tcp_fastopen_force_enable may fail, which is only logged; connectx
\* resumes on the first read or write; then from_std.
connect_with_socket ==
  /\ stream = "Absent" /\ pc = "none"
  /\ phase' = "deferred"
  /\ state' = "FastOpenWrite" /\ stream' = "Connected"
  /\ UNCHANGED <<soerr, inbox, full, shut, wire, slot, execVars, userVars, reader, callVars, panicked>>
  /\ Register(Level')

\* connectx or from_std fails: the socket is dropped.
connect_fails ==
  /\ stream = "Absent" /\ pc = "none"
  /\ pc' = "failed" /\ phase' = "closed"
  /\ UNCHANGED <<soerr, inbox, full, shut, wire, ioVars, execVars, userVars>>
  /\ UNCHANGED <<streamVars, buf, ret, cnt, panicked>>

\* fault: a read before the first write keeps no waker
ReadNeedsConnection ==
  /\ fut["R"] = "due" /\ pc = "none" /\ stream = "Connected"
  /\ IF state = "FastOpenWrite"
     THEN /\ fut' = [fut EXCEPT !["R"] = "parked"]
          /\ UNCHANGED <<sockVars, ioVars, woken, task, userVars>>
     ELSE TokioPollRead
  /\ UNCHANGED <<streamVars, callVars, panicked>>

\* poll_read is tokio's.
inner_poll_read ==
  /\ fut["R"] = "due" /\ pc = "none" /\ stream = "Connected"
  /\ TokioPollRead
  /\ UNCHANGED <<streamVars, callVars, panicked>>

\* poll_shutdown is tokio's; shutdown(SHUT_WR) waits for a handshake.
inner_poll_shutdown == poll_shutdown({})

-----------------------------------------------------------------------------
(* The loop of poll_write.                                                  *)

\* Arm Established: tokio's poll_write, whose EPIPE may come before SO_ERROR.
EstablishedFails ==
  /\ pc = "top" /\ state = "Established" /\ stream = "Connected"
  /\ IsReady("W") /\ SendErrors # {}
  /\ Return("W") /\ EndCall
  /\ UNCHANGED <<sockVars, ioVars, userVars, streamVars, panicked>>
Established_write == PassOn("Established") \/ EstablishedFails

RetriesAll == RetryingWrite({"ENOTCONN", "EPIPE"})   \* fault: EPIPE is retried too

\* Arm Connected: ENOTCONN is retried, EPIPE is not.
Connected_write == RetryingWrite({"ENOTCONN"})

Connecting_arm == FastOpenConnecting_arm
Send_arm       == FastOpenWrite_arm

PollWrite == \/ poll_write \/ Established_write \/ Connected_write
             \/ Connecting_arm \/ Send_arm

Next == \/ connect_with_socket \/ connect_fails \/ from
        \/ inner_poll_read \/ PollWrite \/ inner_poll_shutdown
        \/ Use \/ Terminated \/ External
Spec == Init /\ [][Next]_armVars

\* As on Linux: a woken task is polled, a poll goes on, the reader gets the
\* lock, a handshake ends, the peer reads.
FairSpec ==
  /\ Spec
  /\ WF_armVars(PollWrite) /\ SF_armVars(inner_poll_read)
  /\ WF_armVars(Outside(Deliver))
  /\ \A t \in Tasks : WF_armVars(Outside(RunTask(t)))
  /\ WF_armVars(Outside(HandshakeEnds))
  /\ WF_armVars(Outside(Drain))
=============================================================================
