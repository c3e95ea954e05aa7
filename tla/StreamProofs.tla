---------------------------- MODULE StreamProofs ----------------------------
(***************************************************************************)
(* What every arm the Unix streams share preserves.  The platforms' proofs *)
(* add their own actions to these lemmas.                                  *)
(***************************************************************************)
EXTENDS StreamProps, TLAPS

\* Where a poll is agrees with the stream and with the last result.
CallOK ==
  /\ pc \in {"probe", "await", "failed"} => stream = "Absent"
  /\ pc = "adopt" => stream = "Connecting"
  /\ pc \notin {"match", "adopt"} => ret = "none"

\* The inductive invariant behind ExactlyOnce.
BytesInv == TypeOK /\ CallOK /\ ExactlyOnce

\* The states of a poll that is running.
Polling == {"top", "soerr", "send", "match", "adopt"}

\* The state and the stream agree, at every point of connect and poll_write.
ShapeOK ==
  /\ NoUnreachable
  /\ stream = "Absent" => /\ state = "FastOpenConnect"
                          /\ pc \in {"none", "probe", "await", "failed"}
                          /\ \A f \in Futures : fut[f] = "idle"
  /\ stream = "Connecting" => state = "FastOpenConnect" /\ pc \in {"none", "top", "adopt"}
  /\ stream = "Connected" => state # "FastOpenConnect" /\ pc \in {"none"} \cup (Polling \ {"adopt"})
  /\ stream = "Empty" => RegisterMayFail /\ pc \in {"none", "top"}

ShapeInv == TypeOK /\ ShapeOK

\* A future that was called has a task, its half's own; poll_write runs in it.
TasksOK ==
  /\ task["R"] \in ReaderTasks \cup {NoTask} /\ task["W"] \in WriterTasks \cup {NoTask}
  /\ \A f \in Futures : fut[f] \in {"awake", "due", "parked"} => task[f] # NoTask
  /\ pc \in Polling => fut["W"] = "due"
  /\ pc \in {"probe", "await", "failed"} => stream = "Absent"
  /\ pc = "adopt" => stream = "Connecting"
  /\ stream = "Absent" => \A f \in Futures : fut[f] = "idle"

TaskInv == TypeOK /\ TasksOK

\* No task runs both halves: then will_wake tells them apart (linux.rs:262).
Apart == ReaderTasks \cap WriterTasks = {}

\* The arms of poll_write, for the states and errors of any platform.
WriteStep ==
  \/ poll_write
  \/ \E s \in States : PassOn(s)
  \/ \E E \in SUBSET {"ENOTCONN", "EPIPE"} : RetryingWrite(E)
  \/ FastOpenConnect_arm \/ FastOpenConnecting_arm \/ FastOpenWrite_arm
  \/ unreachable

\* The rest of what the platforms share.
OtherStep ==
  \/ ConnectFails \/ from \/ (pc = "probe" /\ ReturnConnecting)
  \/ poll_read \/ accessor \/ Use \/ Terminated \/ External
  \/ \E A \in SUBSET Phases : poll_shutdown(A)

ArmStep == WriteStep \/ OtherStep

-----------------------------------------------------------------------------
\* Polling a socket reports a set of events, before a step and after it.
LEMMA LevelType ==
  Level \subseteq {"R", "W", "HUP"} /\ Level' \subseteq {"R", "W", "HUP"}
  BY DEF Level

\* What is queued for the driver stays a set of events.
LEMMA EdgesType ==
  ASSUME edge \subseteq {"R", "W", "HUP"}, RaiseEdges
  PROVE  edge' \subseteq {"R", "W", "HUP"}
  BY LevelType DEF RaiseEdges

-----------------------------------------------------------------------------
(* Type correctness.                                                        *)

\* A new socket is well typed.
LEMMA TypeInit == ArmsInit => TypeOK
<1> SUFFICES ASSUME ArmsInit PROVE TypeOK
  OBVIOUS
<1>1. TokioTypeOK
  BY DEF ArmsInit, TokioInit, TokioTypeOK, Phases
<1> QED
  BY <1>1 DEF ArmsInit, TypeOK, ArmTypeOK, States, Streams

\* The network, the driver and the executor keep the types.
LEMMA TypeExternal == TypeOK /\ External => TypeOK'
<1> SUFFICES ASSUME TypeOK, External PROVE TypeOK'
  OBVIOUS
<1>1. TokioTypeOK /\ UNCHANGED <<streamVars, callVars, panicked>>
  BY DEF TypeOK, External, Outside
<1>2. SUFFICES TokioTypeOK'
  BY <1>1 DEF TypeOK, ArmTypeOK, streamVars, callVars
<1> USE <1>1 DEF TokioTypeOK, execVars, userVars, sockVars, Phases
<1>3. CASE HandshakeOk
  BY <1>3, EdgesType DEF HandshakeOk
<1>4. CASE Break
  BY <1>4, EdgesType DEF Break
<1>5. CASE PeerSends
  BY <1>5, EdgesType DEF PeerSends
<1>6. CASE Drain
  BY <1>6, EdgesType DEF Drain
<1>7. CASE Deliver
  BY <1>7, LevelType DEF Deliver, Futures
<1>8. CASE \E t \in Tasks : RunTask(t)
  <2> PICK t \in Tasks : RunTask(t)
    BY <1>8
  <2> QED
    BY DEF RunTask, ioVars, Due
<1> QED
  BY <1>3, <1>4, <1>5, <1>6, <1>7, <1>8 DEF External, Outside, Network, Executor

\* tokio's poll_read and poll_write keep the types of what they touch.
LEMMA TypeTokioRead ==
  ASSUME TypeOK, TokioPollRead
  PROVE  TokioTypeOK'
<1> USE DEF TypeOK, TokioTypeOK, TokioPollRead, Park, Return, TakeError, IsReady,
            ArmTypeOK, sockVars, ioVars, userVars, Futures
<1> QED
  OBVIOUS

LEMMA TypeTokioWrite ==
  ASSUME TypeOK, WritePends \/ WriteTakes(buf) \/ WriteFails
  PROVE  TokioTypeOK'
<1> USE DEF TypeOK, ArmTypeOK, TokioTypeOK, Park, Return, TakeError, sockVars, ioVars, userVars, Futures
<1>1. CASE WritePends
  BY <1>1 DEF WritePends
<1>2. CASE WriteTakes(buf)
  <2>1. PICK n \in Taken(buf) : wire' = wire + n /\ accepted' = accepted + n
    BY <1>2 DEF WriteTakes
  <2>2. n \in Nat
    BY DEF Taken
  <2> QED
    BY <1>2, <2>1, <2>2 DEF WriteTakes
<1>3. CASE WriteFails
  BY <1>3 DEF WriteFails
<1> QED
  BY <1>1, <1>2, <1>3

\* So do the arms of poll_write.
LEMMA TypeWrite == TypeOK /\ WriteStep => TypeOK'
<1> SUFFICES ASSUME TokioTypeOK, ArmTypeOK, WriteStep PROVE TokioTypeOK' /\ ArmTypeOK'
  BY DEF TypeOK
<1> USE DEF EndCall, Return, Park, TakeError, streamVars, callVars
<1>1. CASE poll_write
  BY <1>1 DEF poll_write, TokioTypeOK, ArmTypeOK, sockVars, ioVars, execVars, userVars
<1>2. CASE \E s \in States : PassOn(s)
  <2>1. TokioTypeOK'
    BY <1>2, TypeTokioWrite DEF PassOn, TypeOK
  <2>2. ArmTypeOK'
    BY <1>2 DEF PassOn, ArmTypeOK
  <2> QED
    BY <2>1, <2>2
<1>3. CASE \E E \in SUBSET {"ENOTCONN", "EPIPE"} : RetryingWrite(E)
  <2>1. PICK E : RetryingWrite(E)
    BY <1>3
  <2>5. ArmTypeOK'
    BY <2>1 DEF RetryingWrite, ArmTypeOK, States
  <2> SUFFICES TokioTypeOK'
    BY <2>5
  <2>2. CASE WritePends \/ WriteTakes(buf) \/ WriteFails
    BY <2>1, <2>2, TypeTokioWrite DEF TypeOK
  <2>3. CASE RetryReady /\ UNCHANGED <<sockVars, reg, edge, ticked, slot, execVars, userVars, callVars>>
    BY <2>1, <2>3 DEF RetryReady, TokioTypeOK, sockVars, ioVars, execVars, userVars
  <2>4. CASE Return("W") /\ EndCall /\ UNCHANGED <<sockVars, ioVars, userVars, state>>
    BY <2>1, <2>4 DEF TokioTypeOK, sockVars, ioVars, userVars, Futures
  <2> QED
    BY <2>1, <2>2, <2>3, <2>4 DEF RetryingWrite
<1>4. CASE FastOpenConnect_sendto
  BY <1>4 DEF FastOpenConnect_sendto, SendtoFailed, TokioTypeOK, ArmTypeOK, Phases, ioVars, execVars, userVars
<1>5. CASE FastOpenConnect_adopt
  <2>1. ArmTypeOK'
    BY <1>5 DEF FastOpenConnect_adopt, Adopt, AdoptFails, WakeReader, ArmTypeOK, Streams, States
  <2> SUFFICES TokioTypeOK'
    BY <2>1
  <2>2. CASE AdoptFails
    BY <2>2 DEF AdoptFails, TokioTypeOK, Phases, Futures, ioVars, userVars
  <2>3. CASE Return("W") /\ UNCHANGED <<sockVars, ioVars, userVars>>
    BY <2>3 DEF TokioTypeOK, Futures, sockVars, ioVars, userVars
  <2>4. CASE \E s \in States : Adopt(s) /\ UNCHANGED <<sockVars, slot, task, told>>
    <3>1. edge' \subseteq {"R", "W", "HUP"} /\ ready' = {} /\ reg' = TRUE /\ ticked' = FALSE
      BY <2>4, LevelType DEF Adopt, Register
    <3>2. woken' \subseteq Tasks
      BY <2>4 DEF Adopt, WakeReader, ArmTypeOK, TokioTypeOK
    <3>3. fut' \in [Futures -> {"idle", "awake", "due", "parked", "done"}] /\ accepted' \in Nat
      BY <1>5, <2>4 DEF FastOpenConnect_adopt, Tell, AdoptFails, ArmTypeOK, TokioTypeOK, userVars, Futures
    <3> QED
      BY <2>4, <3>1, <3>2, <3>3 DEF TokioTypeOK, sockVars
  <2> QED
    BY <1>5, <2>2, <2>3, <2>4 DEF FastOpenConnect_adopt, States, userVars
<1>6. CASE FastOpenConnecting_ready
  BY <1>6 DEF FastOpenConnecting_ready, poll_write_ready, TokioTypeOK, ArmTypeOK, Futures, sockVars, execVars, userVars
<1>7. CASE FastOpenConnecting_take_error
  <2>1. ArmTypeOK'
    BY <1>7 DEF FastOpenConnecting_take_error, Checked, ArmTypeOK, States
  <2>2. TokioTypeOK'
    BY <1>7 DEF FastOpenConnecting_take_error, Checked, TokioTypeOK, Futures, ioVars, execVars
  <2> QED
    BY <2>1, <2>2
<1>8. CASE FastOpenWrite_ready
  BY <1>8 DEF FastOpenWrite_ready, poll_write_ready, TokioTypeOK, ArmTypeOK, Futures, sockVars, execVars, userVars
<1>9. CASE FastOpenWrite_send
  <2>1. phase' \in Phases /\ wire' \in Nat
    BY <1>9 DEF FastOpenWrite_send, ArmTypeOK, TokioTypeOK, Phases, Taken
  <2>3. soerr' \in BOOLEAN /\ told' \in BOOLEAN
    BY <1>9 DEF FastOpenWrite_send, TokioTypeOK
  <2>4. ticked' = FALSE /\ UNCHANGED <<inbox, full, shut, reg, edge, ready, slot, execVars, accepted>>
    BY <1>9 DEF FastOpenWrite_send
  <2>5. TokioTypeOK'
    BY <2>1, <2>3, <2>4 DEF TokioTypeOK, execVars
  <2>2. ArmTypeOK'
    BY <1>9 DEF FastOpenWrite_send, ArmTypeOK, Taken
  <2> QED
    BY <2>2, <2>5
<1>10. CASE FastOpenWrite_match
  <2>1. ArmTypeOK'
    BY <1>10 DEF FastOpenWrite_match, ReturnOk, Tell, ArmTypeOK, States
  <2>2. ready' \subseteq {"R", "W", "HUP"} /\ fut' \in [Futures -> {"idle", "awake", "due", "parked", "done"}]
    BY <1>10 DEF FastOpenWrite_match, ReturnOk, Tell, ClearReady, TokioTypeOK, Futures, execVars
  <2>3. accepted' \in Nat /\ UNCHANGED <<told, woken, task>>
    BY <1>10 DEF FastOpenWrite_match, ReturnOk, Tell, ArmTypeOK, TokioTypeOK, userVars, execVars
  <2> QED
    BY <1>10, <2>1, <2>2, <2>3 DEF FastOpenWrite_match, TokioTypeOK, sockVars
<1>11. CASE unreachable
  BY <1>11 DEF unreachable, Panic, TokioTypeOK, ArmTypeOK, Futures, sockVars, ioVars, userVars
<1> QED
  BY <1>1, <1>2, <1>3, <1>4, <1>5, <1>6, <1>7, <1>8, <1>9, <1>10, <1>11
  DEF WriteStep, FastOpenConnect_arm, FastOpenConnecting_arm, FastOpenWrite_arm

\* And everything else.
LEMMA TypeOther == TypeOK /\ OtherStep => TypeOK'
<1> SUFFICES ASSUME TokioTypeOK, ArmTypeOK, OtherStep PROVE TokioTypeOK' /\ ArmTypeOK'
  BY DEF TypeOK
<1> USE DEF EndCall, streamVars, callVars, Futures
<1>1. CASE ConnectFails
  BY <1>1 DEF ConnectFails, TakeError, TokioTypeOK, ArmTypeOK, Phases, ioVars, execVars
<1>2. CASE from
  <2>1. ArmTypeOK'
    BY <1>2 DEF from, ArmTypeOK, Streams, States
  <2>2. edge' \subseteq {"R", "W", "HUP"}
    BY <1>2, LevelType DEF from, Register
  <2> QED
    BY <1>2, <2>1, <2>2 DEF from, Register, TokioTypeOK, Phases, execVars, userVars
<1>3. CASE pc = "probe" /\ ReturnConnecting
  BY <1>3 DEF ReturnConnecting, TokioTypeOK, ArmTypeOK, Streams, sockVars, ioVars, execVars, userVars
<1>4. CASE poll_read
  <2>1. CASE TokioPollRead /\ UNCHANGED <<streamVars, callVars, panicked>>
    BY <2>1, TypeTokioRead DEF ArmTypeOK, TypeOK
  <2>2. CASE stream = "Connecting"
    <3>1. task["R"] \in Tasks \cup {NoTask}
      BY DEF TokioTypeOK
    <3>2. ArmTypeOK'
      BY <1>4, <2>2, <3>1 DEF poll_read, ArmTypeOK
    <3>3. woken' \subseteq Tasks
      BY <1>4, <2>2 DEF poll_read, ArmTypeOK, TokioTypeOK
    <3> QED
      BY <1>4, <2>2, <3>2, <3>3 DEF poll_read, TokioTypeOK, sockVars, ioVars, userVars
  <2>3. CASE Panic("R")
    BY <2>3 DEF Panic, TokioTypeOK, ArmTypeOK, sockVars, ioVars, userVars
  <2> QED
    BY <1>4, <2>1, <2>2, <2>3 DEF poll_read
<1>5. CASE accessor
  BY <1>5 DEF accessor, Panic, TokioTypeOK, ArmTypeOK, sockVars, ioVars, userVars
<1>6. CASE Use
  <2>1. ArmTypeOK'
    BY <1>6, BoundAssumption DEF Use, ArmTypeOK
  <2>2. fut' \in [Futures -> {"idle", "awake", "due", "parked", "done"}]
    BY <1>6 DEF Use, Resume, Rest, Submit, TokioTypeOK
  <2>3. task' \in [Futures -> Tasks \cup {NoTask}]
    BY <1>6 DEF Use, Resume, Rest, Submit, TokioTypeOK, Tasks
  <2>4. UNCHANGED <<sockVars, ioVars, woken, userVars>>
    BY <1>6 DEF Use, Resume, Rest, Submit
  <2> QED
    BY <2>1, <2>2, <2>3, <2>4 DEF TokioTypeOK, sockVars, ioVars, userVars
<1>7. CASE Terminated
  BY <1>7 DEF Terminated, armVars, TokioTypeOK, ArmTypeOK, sockVars, ioVars, execVars, userVars
<1>8. CASE External
  BY <1>8, TypeExternal DEF TypeOK
<1>9. CASE \E A \in SUBSET Phases : poll_shutdown(A)
  <2>1. edge' \subseteq {"R", "W", "HUP"}
    BY <1>9, EdgesType DEF poll_shutdown, TokioTypeOK
  <2>2. phase' \in Phases /\ soerr' \in BOOLEAN /\ shut' \in BOOLEAN
    BY <1>9 DEF poll_shutdown, TokioTypeOK, Phases
  <2>3. UNCHANGED <<inbox, full, wire, reg, ready, ticked, slot, execVars, userVars, streamVars, callVars, panicked>>
    BY <1>9 DEF poll_shutdown
  <2> QED
    BY <2>1, <2>2, <2>3 DEF TokioTypeOK, ArmTypeOK, execVars, userVars
<1> QED
  BY <1>1, <1>2, <1>3, <1>4, <1>5, <1>6, <1>7, <1>8, <1>9 DEF OtherStep

LEMMA TypeStutter == TypeOK /\ UNCHANGED armVars => TypeOK'
  BY DEF armVars, sockVars, ioVars, execVars, userVars, streamVars, callVars,
         TypeOK, ArmTypeOK, TokioTypeOK

-----------------------------------------------------------------------------
(* Every byte is told once.  The sum of ExactlyOnce can only be kept if a   *)
(* result is never overwritten before the writer had it, which CallOK says. *)

\* A new socket has sent nothing.
LEMMA BytesInit == ArmsInit => BytesInv
  BY TypeInit DEF ArmsInit, TokioInit, BytesInv, CallOK, ExactlyOnce

\* The arms of poll_write account for what the kernel took.
LEMMA BytesWrite == BytesInv /\ WriteStep => CallOK' /\ ExactlyOnce'
<1> SUFFICES ASSUME TokioTypeOK, ArmTypeOK, CallOK, ExactlyOnce, WriteStep
             PROVE  CallOK' /\ ExactlyOnce'
  BY DEF BytesInv, TypeOK
<1>0. wire \in Nat /\ accepted \in Nat /\ cnt \in Nat /\ buf \in Nat
  BY DEF TokioTypeOK, ArmTypeOK
<1> USE <1>0 DEF CallOK, ExactlyOnce, EndCall, sockVars, userVars, streamVars, callVars
<1>1. CASE poll_write
  BY <1>1 DEF poll_write
<1>2. CASE \E s \in States : PassOn(s)
  <2>1. CASE WriteTakes(buf)
    <3>1. PICK n \in Taken(buf) : wire' = wire + n /\ accepted' = accepted + n
      BY <2>1 DEF WriteTakes
    <3>2. n \in Nat
      BY DEF Taken
    <3> QED
      BY <1>2, <3>1, <3>2 DEF PassOn
  <2>2. CASE WritePends \/ WriteFails
    BY <1>2, <2>2 DEF PassOn, WritePends, WriteFails
  <2> QED
    BY <1>2, <2>1, <2>2 DEF PassOn
<1>3. CASE \E E \in SUBSET {"ENOTCONN", "EPIPE"} : RetryingWrite(E)
  <2>1. CallOK' /\ UNCHANGED stream /\ ret = "none" /\ ret' = "none"
    BY <1>3 DEF RetryingWrite
  <2>2. CASE WriteTakes(buf)
    <3>1. PICK n \in Taken(buf) : wire' = wire + n /\ accepted' = accepted + n
      BY <2>2 DEF WriteTakes
    <3>2. n \in Nat
      BY DEF Taken
    <3> QED
      BY <2>1, <3>1, <3>2
  <2>3. CASE UNCHANGED <<wire, accepted>>
    BY <2>1, <2>3
  <2> QED
    BY <1>3, <2>2, <2>3 DEF RetryingWrite, WritePends, WriteFails
<1>4. CASE FastOpenConnect_sendto
  BY <1>4 DEF FastOpenConnect_sendto, SendtoFailed
<1>5. CASE FastOpenConnect_adopt
  BY <1>5 DEF FastOpenConnect_adopt, Tell, Adopt, AdoptFails
<1>6. CASE FastOpenConnecting_ready
  BY <1>6 DEF FastOpenConnecting_ready, poll_write_ready
<1>7. CASE FastOpenConnecting_take_error
  BY <1>7 DEF FastOpenConnecting_take_error
<1>8. CASE FastOpenWrite_ready
  BY <1>8 DEF FastOpenWrite_ready, poll_write_ready
<1>9. CASE FastOpenWrite_send
  <2>1. CallOK' /\ UNCHANGED <<accepted, stream>> /\ ret = "none"
    BY <1>9 DEF FastOpenWrite_send
  <2>2. \/ ret' = "ok" /\ wire' = wire + cnt' /\ cnt' \in Nat
        \/ ret' # "ok" /\ wire' = wire
    BY <1>9 DEF FastOpenWrite_send, Taken
  <2> QED
    BY <2>1, <2>2
<1>10. CASE FastOpenWrite_match
  BY <1>10 DEF FastOpenWrite_match, ReturnOk, Tell
<1>11. CASE unreachable
  BY <1>11 DEF unreachable, Panic
<1> QED
  BY <1>1, <1>2, <1>3, <1>4, <1>5, <1>6, <1>7, <1>8, <1>9, <1>10, <1>11
  DEF WriteStep, FastOpenConnect_arm, FastOpenConnecting_arm, FastOpenWrite_arm

\* Nothing else sends or tells.
LEMMA BytesOther == BytesInv /\ OtherStep => CallOK' /\ ExactlyOnce'
<1> SUFFICES ASSUME CallOK, ExactlyOnce, OtherStep PROVE CallOK' /\ ExactlyOnce'
  BY DEF BytesInv
<1> USE DEF CallOK, ExactlyOnce, EndCall, sockVars, userVars, streamVars, callVars
<1>1. CASE ConnectFails
  BY <1>1 DEF ConnectFails
<1>2. CASE from
  BY <1>2 DEF from
<1>3. CASE pc = "probe" /\ ReturnConnecting
  BY <1>3 DEF ReturnConnecting
<1>4. CASE poll_read
  BY <1>4 DEF poll_read, Panic, TokioPollRead
<1>5. CASE accessor
  BY <1>5 DEF accessor, Panic
<1>6. CASE Use
  BY <1>6 DEF Use, Resume, Rest, Submit
<1>7. CASE Terminated
  BY <1>7 DEF Terminated, armVars
<1>8. CASE External
  BY <1>8 DEF External, Outside, Network, Executor, HandshakeOk, Break, PeerSends, Drain, Deliver, RunTask
<1>9. CASE \E A \in SUBSET Phases : poll_shutdown(A)
  BY <1>9 DEF poll_shutdown
<1> QED
  BY <1>1, <1>2, <1>3, <1>4, <1>5, <1>6, <1>7, <1>8, <1>9 DEF OtherStep

\* Every step the platforms share preserves the invariant.
LEMMA BytesStep == BytesInv /\ ArmStep => BytesInv'
  BY TypeWrite, TypeOther, BytesWrite, BytesOther DEF ArmStep, BytesInv

LEMMA BytesStutter == BytesInv /\ UNCHANGED armVars => BytesInv'
  BY TypeStutter
  DEF BytesInv, CallOK, ExactlyOnce, armVars, sockVars, userVars, streamVars, callVars

-----------------------------------------------------------------------------
(* Nothing unreachable is reached, unless a registration failed.            *)

LEMMA ShapeInit == ArmsInit => ShapeInv
  BY TypeInit DEF ArmsInit, TokioInit, ShapeInv, ShapeOK, NoUnreachable

\* The arms of poll_write change state and stream together.
LEMMA ShapeWrite ==
  ASSUME ShapeInv, WriteStep
  PROVE  ShapeOK'
<1> USE DEF ShapeInv, ShapeOK, NoUnreachable, Polling, EndCall, Return, Park, Futures,
            streamVars, callVars, execVars
<1>0. fut \in [Futures -> {"idle", "awake", "due", "parked", "done"}] /\ stream \in Streams
  BY DEF TypeOK, TokioTypeOK, ArmTypeOK
<1>1. CASE poll_write
  BY <1>0, <1>1 DEF poll_write, Streams
<1>2. CASE \E s \in States : PassOn(s)
  BY <1>2 DEF PassOn
<1>3. CASE \E E \in SUBSET {"ENOTCONN", "EPIPE"} : RetryingWrite(E)
  BY <1>3 DEF RetryingWrite
<1>4. CASE FastOpenConnect_sendto
  BY <1>4 DEF FastOpenConnect_sendto
<1>5. CASE FastOpenConnect_adopt
  BY <1>5 DEF FastOpenConnect_adopt, Tell, Adopt, AdoptFails
<1>6. CASE FastOpenConnecting_ready
  BY <1>6 DEF FastOpenConnecting_ready, poll_write_ready
<1>7. CASE FastOpenConnecting_take_error
  BY <1>0, <1>7 DEF FastOpenConnecting_take_error, Checked, Streams
<1>8. CASE FastOpenWrite_ready
  BY <1>8 DEF FastOpenWrite_ready, poll_write_ready
<1>9. CASE FastOpenWrite_send
  BY <1>0, <1>9 DEF FastOpenWrite_send, Streams
<1>10. CASE FastOpenWrite_match
  BY <1>0, <1>10 DEF FastOpenWrite_match, ReturnOk, Tell, Streams
<1>11. CASE unreachable
  BY <1>0, <1>11 DEF unreachable, Panic, Streams
<1> QED
  BY <1>1, <1>2, <1>3, <1>4, <1>5, <1>6, <1>7, <1>8, <1>9, <1>10, <1>11
  DEF WriteStep, FastOpenConnect_arm, FastOpenConnecting_arm, FastOpenWrite_arm

\* So does everything else.
LEMMA ShapeOther == ShapeInv /\ OtherStep => ShapeOK'
<1> SUFFICES ASSUME ShapeInv, OtherStep PROVE ShapeOK'
  OBVIOUS
<1> USE DEF ShapeInv, ShapeOK, NoUnreachable, Polling, EndCall, Futures, streamVars, callVars, execVars
<1>0. fut \in [Futures -> {"idle", "awake", "due", "parked", "done"}] /\ stream \in Streams
  BY DEF TypeOK, TokioTypeOK, ArmTypeOK
<1>1. CASE ConnectFails
  BY <1>0, <1>1 DEF ConnectFails, Streams
<1>2. CASE from
  BY <1>2 DEF from
<1>3. CASE pc = "probe" /\ ReturnConnecting
  BY <1>0, <1>3 DEF ReturnConnecting, Streams
<1>4. CASE poll_read
  BY <1>0, <1>4 DEF poll_read, Panic
<1>5. CASE accessor
  BY <1>0, <1>5 DEF accessor, Panic
<1>6. CASE Use
  BY <1>0, <1>6 DEF Use
<1>7. CASE Terminated
  BY <1>7 DEF Terminated, armVars
<1>8. CASE External
  <2>1. UNCHANGED <<stream, state, pc, panicked>>
    BY <1>8 DEF External, Outside
  <2>2. \A f \in Futures : fut[f] = "idle" => fut'[f] = "idle"
    BY <1>0, <1>8 DEF External, Outside, Network, Executor, HandshakeOk, Break, PeerSends,
       Drain, Deliver, RunTask, Due
  <2> QED
    BY <2>1, <2>2
<1>9. CASE \E A \in SUBSET Phases : poll_shutdown(A)
  BY <1>9 DEF poll_shutdown
<1> QED
  BY <1>1, <1>2, <1>3, <1>4, <1>5, <1>6, <1>7, <1>8, <1>9 DEF OtherStep

LEMMA ShapeStep == ShapeInv /\ ArmStep => ShapeInv'
  BY TypeWrite, TypeOther, ShapeWrite, ShapeOther DEF ArmStep, ShapeInv

LEMMA ShapeStutter == ShapeInv /\ UNCHANGED armVars => ShapeInv'
  BY TypeStutter
  DEF ShapeInv, ShapeOK, NoUnreachable, armVars, streamVars, callVars, execVars

-----------------------------------------------------------------------------
(* Who runs what.                                                           *)

LEMMA TasksInit == ArmsInit => TaskInv
  BY TypeInit DEF ArmsInit, TokioInit, TaskInv, TasksOK, Polling, Futures

\* poll_write runs in the writer's task, and connect in none of the halves.
LEMMA TasksWrite == TaskInv /\ WriteStep => TasksOK'
<1> SUFFICES ASSUME TaskInv, WriteStep PROVE TasksOK'
  OBVIOUS
<1>0. fut \in [Futures -> {"idle", "awake", "due", "parked", "done"}] /\ TasksOK
  BY DEF TaskInv, TypeOK, TokioTypeOK
<1> USE <1>0 DEF TasksOK, Polling, EndCall, Return, Park, Futures, streamVars, callVars, execVars
<1>1. CASE poll_write
  BY <1>1 DEF poll_write
<1>2. CASE \E s \in States : PassOn(s)
  BY <1>2 DEF PassOn, WritePends, WriteTakes, WriteFails
<1>3. CASE \E E \in SUBSET {"ENOTCONN", "EPIPE"} : RetryingWrite(E)
  BY <1>3 DEF RetryingWrite, WritePends, WriteTakes, WriteFails
<1>4. CASE FastOpenConnect_sendto
  BY <1>4 DEF FastOpenConnect_sendto
<1>5. CASE FastOpenConnect_adopt
  BY <1>5 DEF FastOpenConnect_adopt, Adopt, AdoptFails
<1>6. CASE FastOpenConnecting_ready \/ FastOpenWrite_ready
  BY <1>6 DEF FastOpenConnecting_ready, FastOpenWrite_ready, poll_write_ready
<1>7. CASE FastOpenConnecting_take_error
  BY <1>7 DEF FastOpenConnecting_take_error
<1>8. CASE FastOpenWrite_send
  BY <1>8 DEF FastOpenWrite_send
<1>9. CASE FastOpenWrite_match
  BY <1>9 DEF FastOpenWrite_match, ReturnOk
<1>10. CASE unreachable
  BY <1>10 DEF unreachable, Panic
<1> QED
  BY <1>1, <1>2, <1>3, <1>4, <1>5, <1>6, <1>7, <1>8, <1>9, <1>10
  DEF WriteStep, FastOpenConnect_arm, FastOpenConnecting_arm, FastOpenWrite_arm

LEMMA TasksOther == TaskInv /\ OtherStep => TasksOK'
<1> SUFFICES ASSUME TaskInv, OtherStep PROVE TasksOK'
  OBVIOUS
<1>0. /\ fut \in [Futures -> {"idle", "awake", "due", "parked", "done"}]
      /\ task \in [Futures -> Tasks \cup {NoTask}]
      /\ TasksOK
  BY DEF TaskInv, TypeOK, TokioTypeOK
<1> USE <1>0 DEF TasksOK, Polling, EndCall, Futures, streamVars, callVars, execVars
<1>1. CASE ConnectFails \/ from \/ (pc = "probe" /\ ReturnConnecting)
  BY <1>1 DEF ConnectFails, from, ReturnConnecting
<1>2. CASE poll_read \/ accessor
  BY <1>2 DEF poll_read, accessor, Panic, TokioPollRead, Park, Return
<1>3. CASE Use
  <2>1. CASE \E t \in Tasks, f \in Futures : CanRun(t) /\ Resume(f, t)
    <3>1. PICK t \in Tasks, f \in Futures : Resume(f, t)
      BY <2>1
    <3>2. t # NoTask
      BY TaskAssumption
    <3> QED
      BY <1>3, <3>1, <3>2 DEF Use, Resume, Due
  <2>2. CASE (\E f \in Futures : CanRun(task[f]) /\ Rest(f)) \/ Submit("R") \/ Submit("W")
    BY <1>3, <2>2 DEF Use, Rest, Submit
  <2> QED
    BY <1>3, <2>1, <2>2 DEF Use
<1>4. CASE Terminated
  BY <1>4 DEF Terminated, armVars
<1>5. CASE External
  BY <1>5 DEF External, Outside, Network, Executor, HandshakeOk, Break, PeerSends, Drain,
     Deliver, RunTask, Due
<1>6. CASE \E A \in SUBSET Phases : poll_shutdown(A)
  BY <1>6 DEF poll_shutdown
<1> QED
  BY <1>1, <1>2, <1>3, <1>4, <1>5, <1>6 DEF OtherStep

LEMMA TasksStep == TaskInv /\ ArmStep => TaskInv'
  BY TypeWrite, TypeOther, TasksWrite, TasksOther DEF ArmStep, TaskInv

LEMMA TasksStutter == TaskInv /\ UNCHANGED armVars => TaskInv'
  BY TypeStutter DEF TaskInv, TasksOK, Polling, armVars, streamVars, callVars, execVars

-----------------------------------------------------------------------------
(* Nobody waits without a waker.  The writer never does.  The reader needs  *)
(* a task of its own when poll_write replaces a Connecting stream.          *)

\* Waiting still, f has the waker it had or is scheduled.
LEMMA WakerKept ==
  ASSUME NEW f \in Futures, HasWaker(f), fut'[f] = "parked" => fut[f] = "parked",
         UNCHANGED <<task, reader, slot>>, woken \subseteq woken',
         stream' \in {stream, "Empty"}
  PROVE  HasWaker(f)'
  BY DEF HasWaker

\* Parking puts the waker into tokio's slot.
LEMMA WakerParked ==
  ASSUME NEW f \in Futures, HasWaker(f), stream = "Connected", UNCHANGED <<stream, reader>>,
         NEW g \in Futures, Park(g),
         fut \in [Futures -> {"idle", "awake", "due", "parked", "done"}],
         slot \in [Futures -> Tasks \cup {NoTask}]
  PROVE  HasWaker(f)'
  BY DEF HasWaker, Park

\* The reader of a Connecting stream is woken when the stream is replaced,
\* unless its task is the writer's.
LEMMA WakerAdopted ==
  ASSUME TaskInv, NEW f \in Futures, HasWaker(f), f = "W" \/ Apart, pc = "adopt",
         WakeReader, UNCHANGED task, fut'["R"] = fut["R"], fut'["W"] # "parked"
  PROVE  HasWaker(f)'
<1>1. stream = "Connecting" /\ task["W"] \in WriterTasks
  BY DEF TaskInv, TasksOK, Polling, Futures
<1>2. ASSUME f = "R", fut["R"] = "parked" PROVE task["R"] \in woken'
  <2>1. task["R"] \in ReaderTasks
    BY <1>2 DEF TaskInv, TasksOK, Futures
  <2>2. task["R"] # task["W"] /\ task["R"] # NoTask
    BY <1>1, <1>2, <2>1, TaskAssumption DEF Apart, Tasks
  <2> QED
    BY <1>1, <1>2, <2>2 DEF WakeReader, HasWaker
<1> QED
  BY <1>2 DEF HasWaker, Futures

\* A poll_write that parks leaves its waker; one that connects wakes the reader.
LEMMA WakerWrite ==
  ASSUME TaskInv, NEW f \in Futures, HasWaker(f), f = "W" \/ Apart \/ stream # "Connecting",
         WriteStep
  PROVE  HasWaker(f)'
<1>0. /\ fut \in [Futures -> {"idle", "awake", "due", "parked", "done"}]
      /\ slot \in [Futures -> Tasks \cup {NoTask}]
      /\ pc = "adopt" => stream = "Connecting"
      /\ pc \in Polling => fut["W"] = "due"
  BY DEF TaskInv, TasksOK, TypeOK, TokioTypeOK
<1> USE <1>0 DEF EndCall, Return, Futures, streamVars, callVars, execVars, ioVars
<1>1. CASE poll_write \/ FastOpenConnect_sendto \/ FastOpenWrite_send \/ unreachable
  BY <1>1, WakerKept DEF poll_write, FastOpenConnect_sendto, FastOpenWrite_send, unreachable, Panic
<1>2. CASE \E s \in States : PassOn(s)
  BY <1>2, WakerKept, WakerParked DEF PassOn, WritePends, WriteTakes, WriteFails
<1>3. CASE \E E \in SUBSET {"ENOTCONN", "EPIPE"} : RetryingWrite(E)
  <2>1. /\ stream = "Connected" /\ UNCHANGED <<stream, reader>>
        /\ Park("W") \/ (Return("W") /\ UNCHANGED slot) \/ UNCHANGED <<slot, execVars>>
    BY <1>3 DEF RetryingWrite, WritePends, WriteTakes, WriteFails
  <2> QED
    BY <2>1, WakerKept, WakerParked
<1>4. CASE FastOpenConnect_adopt
  <2>1. pc = "adopt" /\ fut["W"] = "due" /\ UNCHANGED <<slot, task>>
    BY <1>4 DEF FastOpenConnect_adopt, AdoptFails, Polling
  <2>2. CASE AdoptFails
    BY <2>1, <2>2 DEF AdoptFails, HasWaker
  <2>3. CASE Return("W") /\ UNCHANGED streamVars
    BY <2>1, <2>3, WakerKept
  <2>4. CASE \E s \in States : Adopt(s) /\ fut' \in {fut, [fut EXCEPT !["W"] = "awake"]}
    BY <2>1, <2>4, WakerAdopted DEF Adopt
  <2> QED
    BY <1>4, <2>2, <2>3, <2>4 DEF FastOpenConnect_adopt, States
<1>5. CASE FastOpenConnecting_ready \/ FastOpenWrite_ready
  BY <1>5, WakerKept, WakerParked DEF FastOpenConnecting_ready, FastOpenWrite_ready, poll_write_ready
<1>6. CASE FastOpenConnecting_take_error
  BY <1>6, WakerKept DEF FastOpenConnecting_take_error
<1>7. CASE FastOpenWrite_match
  BY <1>7, WakerKept DEF FastOpenWrite_match, ReturnOk
<1> QED
  BY <1>1, <1>2, <1>3, <1>4, <1>5, <1>6, <1>7
  DEF WriteStep, FastOpenConnect_arm, FastOpenConnecting_arm, FastOpenWrite_arm

\* The driver uses the waker it has when it wakes, and a task that runs polls
\* its futures.
LEMMA WakerExternal ==
  ASSUME TaskInv, NEW f \in Futures, HasWaker(f), External
  PROVE  HasWaker(f)'
<1>0. fut \in [Futures -> {"idle", "awake", "due", "parked", "done"}] /\ TasksOK
  BY DEF TaskInv, TypeOK, TokioTypeOK
<1> USE <1>0 DEF External, Outside, streamVars, execVars
<1>1. CASE Network
  BY <1>1, WakerKept DEF Network, HandshakeOk, Break, PeerSends, Drain
<1>2. CASE Deliver
  BY <1>2 DEF Deliver, HasWaker, TasksOK
<1>3. CASE \E t \in Tasks : RunTask(t)
  BY <1>3 DEF RunTask, Due, HasWaker, ioVars
<1> QED
  BY <1>1, <1>2, <1>3 DEF Executor

\* Everything else leaves the wakers where they are, or puts one.
LEMMA WakerOther ==
  ASSUME TaskInv, NEW f \in Futures, HasWaker(f), OtherStep
  PROVE  HasWaker(f)'
<1>0. /\ fut \in [Futures -> {"idle", "awake", "due", "parked", "done"}]
      /\ slot \in [Futures -> Tasks \cup {NoTask}]
      /\ TasksOK
  BY DEF TaskInv, TypeOK, TokioTypeOK
<1> USE <1>0 DEF Futures, streamVars, callVars, execVars, ioVars
<1>1. CASE ConnectFails
  BY <1>1, WakerKept DEF ConnectFails
<1>2. CASE from \/ (pc = "probe" /\ ReturnConnecting)
  BY <1>2 DEF from, ReturnConnecting, TasksOK, HasWaker
<1>3. CASE poll_read
  <2>1. CASE stream = "Connected" /\ TokioPollRead /\ UNCHANGED <<streamVars, callVars, panicked>>
    BY <2>1, WakerKept, WakerParked DEF TokioPollRead, Return
  <2>2. CASE stream = "Connecting"
    BY <1>3, <2>2 DEF poll_read, HasWaker
  <2>3. CASE stream = "Empty" /\ Panic("R")
    BY <2>3, WakerKept DEF Panic
  <2> QED
    BY <1>3, <2>1, <2>2, <2>3 DEF poll_read
<1>4. CASE accessor
  BY <1>4, WakerKept DEF accessor, Panic
<1>5. CASE Use
  <2>1. UNCHANGED <<stream, reader, slot, woken>>
    BY <1>5 DEF Use, Resume, Rest, Submit
  <2>2. fut'[f] = "parked" => fut[f] = "parked" /\ task'[f] = task[f]
    <3>1. ASSUME NEW t \in Tasks, NEW g \in Futures, Resume(g, t)
          PROVE  fut'[f] = "parked" => fut[f] = "parked" /\ task'[f] = task[f]
      BY <3>1 DEF Resume, Due
    <3>2. ASSUME NEW g \in Futures, Rest(g) \/ Submit(g)
          PROVE  fut'[f] = "parked" => fut[f] = "parked" /\ task'[f] = task[f]
      BY <3>2 DEF Rest, Submit
    <3> QED
      BY <1>5, <3>1, <3>2 DEF Use
  <2> QED
    BY <2>1, <2>2 DEF HasWaker
<1>6. CASE Terminated
  BY <1>6, WakerKept DEF Terminated, armVars
<1>7. CASE \E A \in SUBSET Phases : poll_shutdown(A)
  BY <1>7, WakerKept DEF poll_shutdown
<1> QED
  BY <1>1, <1>2, <1>3, <1>4, <1>5, <1>6, <1>7, WakerExternal DEF OtherStep

LEMMA WakerStep ==
  ASSUME TaskInv, NEW f \in Futures, HasWaker(f), f = "W" \/ Apart \/ stream # "Connecting",
         ArmStep
  PROVE  HasWaker(f)'
  BY WakerWrite, WakerOther DEF ArmStep
=============================================================================
