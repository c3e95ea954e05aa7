------------------------------ MODULE LinuxTfo ------------------------------
(***************************************************************************)
(* src/src/sys/unix/linux.rs: TcpStream on Linux and Android.              *)
(***************************************************************************)
EXTENDS StreamProps

VARIABLES
  modern,    \* the kernel has TCP_FASTOPEN_CONNECT
  support    \* SUPPORT_TCP_FASTOPEN_CONNECT, shared by every connect

procVars == <<modern, support>>
vars == <<armVars, procVars>>

LinuxTypeOK == TypeOK /\ modern \in BOOLEAN /\ support \in BOOLEAN

Init == ArmsInit /\ modern \in BOOLEAN /\ support = TRUE

-----------------------------------------------------------------------------
(* connect_with_socket                                                      *)

\* The load of the flag.  A clear flag leads to a stream that will sendto.
connect_with_socket ==
  /\ stream = "Absent" /\ pc = "none"
  /\ \/ /\ support /\ pc' = "probe"
        /\ UNCHANGED <<sockVars, ioVars, execVars, userVars, streamVars, buf, ret, cnt, panicked>>
     \/ ~support /\ ReturnConnecting
  /\ UNCHANGED procVars

\* setsockopt(TCP_FASTOPEN_CONNECT) says ENOPROTOOPT.
AnyError == TRUE   \* fault: every error of setsockopt is taken for it
NoProtoOpt == ~modern

\* It does: clear the flag, go on with sendto.
connect_unsupported ==
  /\ pc = "probe" /\ NoProtoOpt
  /\ support' = FALSE /\ UNCHANGED modern
  /\ ReturnConnecting

\* It succeeds, and connect() starts: with a cookie the SYN waits for data.
connect_start ==
  /\ pc = "probe" /\ modern
  /\ phase' \in {"deferred", "syn"}
  /\ pc' = "await"
  /\ UNCHANGED <<soerr, inbox, full, shut, wire, slot, execVars, userVars, procVars, streamVars, buf, ret, cnt, panicked>>
  /\ Register(Level')

\* socket.connect(addr).await ends.
connect_done ==
  /\ pc = "await" /\ IsReady("W") /\ ~soerr
  /\ state' = "FastOpenWrite" /\ stream' = "Connected"
  /\ pc' = "none"
  /\ UNCHANGED <<sockVars, ioVars, execVars, userVars, procVars, reader, buf, ret, cnt, panicked>>

\* Another stream's connect finds out that the kernel is too old.
rival_connect ==
  /\ ~modern /\ support
  /\ support' = FALSE
  /\ UNCHANGED <<armVars, modern>>

-----------------------------------------------------------------------------
(* The loop of poll_write.                                                  *)

Connected_write == PassOn("Connected")

PollWrite == \/ poll_write \/ Connected_write \/ FastOpenConnect_arm
             \/ FastOpenConnecting_arm \/ FastOpenWrite_arm \/ unreachable

\* shutdown(SHUT_WR) in SYN_SENT disconnects the socket.
Shutdown == poll_shutdown({"deferred", "syn", "fastsyn"})

Connect == \/ connect_with_socket \/ connect_unsupported \/ connect_start \/ connect_done
           \/ (ConnectFails \/ from) /\ UNCHANGED procVars
Stream  == /\ poll_read \/ PollWrite \/ Shutdown \/ accessor \/ Use \/ Terminated \/ External
           /\ UNCHANGED procVars

Next == Connect \/ rival_connect \/ Stream
Spec == Init /\ [][Next]_vars

(***************************************************************************)
(* Fairness.  tokio polls a woken task and turns its driver; a poll that   *)
(* began runs to its end; the lock of tokio::io::split does not starve the *)
(* reader; TCP ends a handshake by success or time-out; the peer goes on   *)
(* reading.  Nothing is assumed of the application.                        *)
(***************************************************************************)
Fairness ==
  /\ WF_vars(PollWrite /\ UNCHANGED procVars)
  /\ SF_vars(poll_read /\ UNCHANGED procVars)
  /\ WF_vars(Outside(Deliver) /\ UNCHANGED procVars)
  /\ \A t \in Tasks : WF_vars(Outside(RunTask(t)) /\ UNCHANGED procVars)
  /\ WF_vars(Outside(HandshakeEnds) /\ UNCHANGED procVars)
  /\ WF_vars(Outside(Drain) /\ UNCHANGED procVars)

FairSpec == Spec /\ Fairness

-----------------------------------------------------------------------------
\* sendto is the fallback of an old kernel only: a clear flag, which any stream
\* may have cleared, means the kernel lacks TCP_FASTOPEN_CONNECT, and no other
\* failure of setsockopt leads to a stream that will sendto (linux.rs:85-130).
SupportSound == (support \/ ~modern) /\ (stream = "Connecting" => ~modern)
=============================================================================
