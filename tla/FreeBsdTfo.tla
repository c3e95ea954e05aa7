----------------------------- MODULE FreeBsdTfo -----------------------------
(***************************************************************************)
(* src/src/sys/unix/bsd/freebsd.rs: TcpStream on FreeBSD.  The first       *)
(* poll_write calls sendto; the second write may be too early, so the      *)
(* stream retries it until one succeeds and it is Established.             *)
(***************************************************************************)
EXTENDS StreamProps

Init == ArmsInit

\* setsockopt(TCP_FASTOPEN): the stream will sendto, or connect fails.
connect_with_socket ==
  /\ stream = "Absent" /\ pc = "none"
  /\ pc' = "probe"
  /\ UNCHANGED <<sockVars, ioVars, execVars, userVars, streamVars, buf, ret, cnt, panicked>>
connect_prepared == pc = "probe" /\ ReturnConnecting

Connect == connect_with_socket \/ connect_prepared \/ ConnectFails \/ from

-----------------------------------------------------------------------------
(* The impl blocks freebsd.rs has in common with linux.rs.                  *)

AsyncRead_poll_read == poll_read
Accessors           == accessor
Sendto_arm          == FastOpenConnect_arm
Connecting_arm      == FastOpenConnecting_arm

\* shutdown(SHUT_WR) waits for a handshake under way.
Shutdown == poll_shutdown({})

-----------------------------------------------------------------------------
(* Its own arms of poll_write.                                              *)

RetriesNothing == RetryingWrite({})   \* fault: ENOTCONN and EPIPE are returned

\* Arm Connected: ENOTCONN and EPIPE are retried.
Connected_write == RetryingWrite({"ENOTCONN", "EPIPE"})

\* Arm Established: tokio's poll_write, whose EPIPE may come before SO_ERROR.
EstablishedFails ==
  /\ pc = "top" /\ state = "Established" /\ stream = "Connected"
  /\ IsReady("W") /\ SendErrors # {}
  /\ Return("W") /\ EndCall
  /\ UNCHANGED <<sockVars, ioVars, userVars, streamVars, panicked>>
Established_write == PassOn("Established") \/ EstablishedFails

PollWrite == \/ poll_write \/ Established_write \/ Connected_write
             \/ Sendto_arm \/ Connecting_arm \/ unreachable

Next == \/ Connect \/ AsyncRead_poll_read \/ PollWrite \/ Shutdown \/ Accessors
        \/ Use \/ Terminated \/ External
Spec == Init /\ [][Next]_armVars

\* As on Linux: a woken task is polled, a poll goes on, the reader gets the
\* lock, a handshake ends, the peer reads.
FairSpec ==
  /\ Spec
  /\ WF_armVars(PollWrite) /\ SF_armVars(AsyncRead_poll_read)
  /\ WF_armVars(Outside(Deliver))
  /\ \A t \in Tasks : WF_armVars(Outside(RunTask(t)))
  /\ WF_armVars(Outside(HandshakeEnds))
  /\ WF_armVars(Outside(Drain))
=============================================================================
