----------------------------- MODULE WindowsTfo -----------------------------
(***************************************************************************)
(* src/src/sys/windows/mod.rs: TcpStream on Windows.  ConnectEx connects   *)
(* and sends the first buffer in one overlapped call, whose result a later *)
(* poll_write may be the one to collect.  RegisterMayFail also stands for  *)
(* the setsockopt that precedes the registration.                          *)
(***************************************************************************)
EXTENDS StreamProps

VARIABLES
  ovl,      \* the overlapped ConnectEx: none | pending | done | failed
  given,    \* length of the buffer it was called with
  owed,     \* bytes it sent that no caller was told of
  context   \* SO_UPDATE_CONNECT_CONTEXT is set: the socket is a full one

winVars == <<ovl, given, owed, context>>
vars == <<armVars, winVars>>

WinTypeOK ==
  /\ TypeOK
  /\ ovl \in {"none", "pending", "done", "failed"}
  /\ given \in Nat /\ owed \in Nat /\ context \in BOOLEAN

Init == ArmsInit /\ ovl = "none" /\ given = 0 /\ owed = 0 /\ context = FALSE

-----------------------------------------------------------------------------
(* connect_with_socket: TCP_FASTOPEN, then bind, which may find the socket  *)
(* bound already.  Either may fail.                                         *)

connect_with_socket ==
  /\ stream = "Absent" /\ pc = "none"
  /\ pc' = "probe"
  /\ UNCHANGED <<sockVars, ioVars, execVars, userVars, streamVars, buf, ret, cnt, panicked>>
connect_bound == pc = "probe" /\ ReturnConnecting

Connect ==
  \/ (connect_with_socket \/ connect_bound \/ ConnectFails) /\ UNCHANGED winVars
  \/ from /\ context' = TRUE /\ UNCHANGED <<ovl, given, owed>>

-----------------------------------------------------------------------------
(* Arm FastOpenConnect.                                                     *)

\* fault: the caller is told the length of its buffer
SettleBuffer(n) == accepted' = accepted + buf /\ owed' = owed - buf
SettleAll(n)    == accepted' = accepted + buf /\ owed' = 0

\* Ok(n): the caller is told of the bytes ConnectEx sent.
Settle(n) == accepted' = accepted + n /\ owed' = owed - n

SkipContext == UNCHANGED context   \* fault: the context is not updated
set_update_connect_context == context' = TRUE

\* ConnectEx is done at once, or pending, or fails.
connect_ex ==
  /\ pc = "top" /\ state = "FastOpenConnect" /\ stream = "Connecting"
  /\ pc' = "adopt"
  /\ \/ /\ ret' = "ok" /\ ovl' = "done" /\ phase' = "est"
        /\ \E n \in Taken(buf) : cnt' = n /\ wire' = wire + n /\ owed' = owed + n
        /\ UNCHANGED given
     \/ /\ ret' = "inprogress" /\ ovl' = "pending" /\ given' = buf
        /\ phase' = IF buf = 0 THEN "syn" ELSE "fastsyn"
        /\ UNCHANGED <<cnt, wire, owed>>
     \/ ret' = "err" /\ UNCHANGED <<phase, wire, cnt, ovl, given, owed>>
  /\ UNCHANGED <<soerr, inbox, full, shut, ioVars, execVars, userVars, streamVars, buf, panicked, context>>

connect_ex_adopt ==
  /\ pc = "adopt"
  /\ \/ /\ ret = "ok" /\ set_update_connect_context /\ Adopt("Connected")
        /\ fut' = [fut EXCEPT !["W"] = "awake"]
        /\ Settle(cnt)
        /\ EndCall
        /\ UNCHANGED <<sockVars, slot, task, told, panicked, ovl, given>>
     \/ /\ ret = "inprogress" /\ Adopt("FastOpenConnecting")
        /\ pc' = "top" /\ ret' = "none"
        /\ UNCHANGED <<sockVars, slot, task, fut, userVars, buf, cnt, panicked, winVars>>
     \/ ret \in {"ok", "inprogress"} /\ AdoptFails /\ UNCHANGED winVars
     \/ /\ ret = "err" /\ Return("W") /\ EndCall
        /\ UNCHANGED <<sockVars, ioVars, userVars, streamVars, panicked, winVars>>

-----------------------------------------------------------------------------
(* Arm FastOpenConnecting.                                                  *)

FastOpenConnecting_wait ==
  state = "FastOpenConnecting" /\ poll_write_ready("send") /\ UNCHANGED winVars

\* WSAGetOverlappedResult within try_io.  When it is incomplete, mio asks for
\* the readiness again, so what is true now is reported once more.
WSAGetOverlappedResult ==
  /\ pc = "send"
  /\ pc' = "match" /\ ticked' = FALSE
  /\ \/ /\ ovl = "done" /\ set_update_connect_context
        /\ ret' = "ok" /\ cnt' = owed
        /\ UNCHANGED <<edge, told>>
     \/ /\ ovl = "done" /\ ret' = "err" /\ UNCHANGED <<edge, told, cnt, context>>
     \/ /\ ovl = "pending" /\ ret' = "again"
        /\ edge' = edge \cup Level
        /\ UNCHANGED <<told, cnt, context>>
     \/ /\ ovl = "failed" /\ ret' = "err" /\ told' = TRUE
        /\ UNCHANGED <<edge, cnt, context>>
  /\ UNCHANGED <<sockVars, reg, ready, slot, execVars, accepted, streamVars, buf, panicked, ovl, given, owed>>

\* fault: the stream keeps its state, and the next poll collects the same result
CollectAgain ==
  /\ soerr' = FALSE /\ Settle(cnt)
  /\ UNCHANGED <<told, state>>

\* SO_ERROR is read, which clears it, and `if let Err` looks only at whether
\* the call itself failed.
socket_take_error ==
  \/ /\ soerr' = FALSE /\ state' = "Connected" /\ Settle(cnt)
     /\ UNCHANGED told
  \/ UNCHANGED <<soerr, told, state, accepted, owed>>

\* The match on the result.
FastOpenConnecting_match ==
  /\ pc = "match"
  /\ \/ ret = "ok" /\ socket_take_error /\ Return("W") /\ EndCall /\ UNCHANGED ready
     \/ /\ ret = "again" /\ ClearReady
        /\ pc' = "top" /\ ret' = "none"
        /\ UNCHANGED <<soerr, execVars, userVars, state, buf, cnt, owed>>
     \/ /\ ret = "err" /\ Return("W") /\ EndCall
        /\ UNCHANGED <<soerr, ready, userVars, state, owed>>
  /\ UNCHANGED <<phase, inbox, full, shut, wire, reg, edge, ticked, slot, stream, reader, panicked>>
  /\ UNCHANGED <<ovl, given, context>>

-----------------------------------------------------------------------------
\* The overlapped call ends after the handshake, with the bytes it sent.
ConnectExEnds ==
  /\ ovl = "pending"
  /\ \/ /\ phase = "est" /\ ovl' = "done"
        /\ \E n \in Taken(given) : wire' = wire + n /\ owed' = owed + n
     \/ phase = "dead" /\ ovl' = "failed" /\ UNCHANGED <<wire, owed>>
  /\ UNCHANGED <<phase, soerr, inbox, full, shut, ioVars, execVars, userVars>>
  /\ UNCHANGED <<streamVars, callVars, panicked, given, context>>

AsyncRead_poll_read == poll_read /\ UNCHANGED winVars
Accessors == accessor /\ UNCHANGED winVars

PollWrite ==
  \/ (poll_write \/ PassOn("Connected") \/ unreachable) /\ UNCHANGED winVars
  \/ connect_ex \/ connect_ex_adopt
  \/ FastOpenConnecting_wait \/ WSAGetOverlappedResult \/ FastOpenConnecting_match

\* shutdown(SD_SEND) is refused until the socket is a full one.
Shutdown == context /\ phase = "est" /\ poll_shutdown({})

Next ==
  \/ Connect \/ PollWrite \/ AsyncRead_poll_read \/ Accessors \/ ConnectExEnds
  \/ (Shutdown \/ Use \/ Terminated \/ External) /\ UNCHANGED winVars
Spec == Init /\ [][Next]_vars

\* As on Linux; and an overlapped call ends once the handshake has.
FairSpec ==
  /\ Spec
  /\ WF_vars(PollWrite) /\ SF_vars(AsyncRead_poll_read)
  /\ WF_vars(Outside(Deliver) /\ UNCHANGED winVars)
  /\ \A t \in Tasks : WF_vars(Outside(RunTask(t)) /\ UNCHANGED winVars)
  /\ WF_vars(Outside(HandshakeEnds) /\ UNCHANGED winVars)
  /\ WF_vars(Outside(Drain) /\ UNCHANGED winVars)
  /\ WF_vars(ConnectExEnds)

-----------------------------------------------------------------------------
\* Every byte ConnectEx or a write put on the wire is told once or still owed,
\* whichever poll_write collects the result, and although an error may be
\* returned between the two; a Connected stream owes none
\* (windows/mod.rs:309-340, 391-424).
ConnectExOnce ==
  stream # "Empty" => /\ wire = accepted + owed
                      /\ state = "Connected" => owed = 0

\* A Connected stream is a full socket, whose overlapped call is over: its
\* address, shutdown and writes work (windows/mod.rs:252-270, 325, 395).
ContextUpdated == state = "Connected" => context /\ ovl # "pending"

\* debug_assert!(bytes_sent as usize <= buf.len()): what is reported fits the
\* buffer of the call that reports it (windows/mod.rs:397-399).
CountFits == pc = "match" /\ ret = "ok" => cnt <= buf

\* What ConnectExStream sees of the overlapped call and of the write.
First == IF state = "Connected" THEN "settled"
         ELSE CASE ovl = "none"    -> "none"
                [] ovl = "pending" -> "flying"
                [] ovl = "done"    -> "landed"
                [] ovl = "failed"  -> "lost"
Call  == IF Waiting("W") THEN "pending" ELSE "none"

CES == INSTANCE ConnectExStream WITH conn <- Conn, first <- First, write <- Call, taken <- wire

\* The Windows stream implements ConnectExStream: whichever write collects the
\* result of ConnectEx, it is the only one answered with it, and no write takes
\* bytes before (windows/mod.rs:272-432).
ConnectExRefinement == CES!Spec
=============================================================================
