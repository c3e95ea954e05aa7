---------------------------- MODULE EventProofs ----------------------------
(***************************************************************************)
(* No readiness event is lost or believed after it went stale: what every  *)
(* arm the platforms share preserves.  The invariant relates what the      *)
(* socket polls as, what the driver has queued and what tokio has cached.  *)
(***************************************************************************)
EXTENDS StreamProofs

\* The socket is registered when it is part of a tokio stream.
RegOK ==
  /\ stream = "Connected" => reg
  /\ stream = "Connecting" => ~reg
  /\ stream = "Absent" /\ pc \in {"none", "probe"} => ~reg
  /\ stream \in {"Absent", "Connecting"} => state = "FastOpenConnect"
  /\ pc = "await" => reg
  /\ pc \in {"soerr", "send", "match"} => stream = "Connected"
  /\ ~reg => edge = {} /\ ready = {}

\* The stages of a connection that a place of the code may find.
PhaseOK ==
  /\ stream = "Absent" /\ pc \in {"none", "probe"} => phase = "new"
  /\ stream = "Connecting" /\ (pc # "adopt" \/ ret = "err") => phase = "new"
  /\ stream = "Connecting" => phase # "deferred"
  /\ phase = "deferred" => ~shut
  /\ shut => stream \in {"Connected", "Empty"}
  /\ inbox => phase \in {"est", "dead", "closed"}
  /\ phase = "closed" => stream = "Empty" \/ (stream = "Absent" /\ pc = "failed")
  /\ "HUP" \in edge \cup ready => phase \in {"dead", "closed"}

\* What the socket polls as is cached by tokio or on its way.
Covered == reg => Level \subseteq edge \cup ready

\* Clearing the readiness after EINPROGRESS or EAGAIN loses nothing.
ClearOK ==
  pc = "match" /\ ret \in {"inprogress", "again"} /\ ~ticked /\ "W" \in Level
    => "W" \in edge

\* poll_write goes on only when it may write.
ReadyOK == pc \in {"soerr", "send"} => IsReady("W")

EventInv == TaskInv /\ RegOK /\ PhaseOK /\ Covered /\ ClearOK /\ ReadyOK

\* The SYN carried data, or the handshake is over; or it no longer matters.
Resolved == shut \/ phase \in {"fastsyn", "est", "dead", "closed"}

\* What is cached after the connect is about the connection, not about the
\* socket as it was before.
FreshOK ==
  /\ ConnectedMeansResolved
  /\ state = "FastOpenConnecting" => phase # "deferred"
  /\ state = "FastOpenConnecting" /\ IsReady("W") => Resolved
  /\ pc = "soerr" => Resolved
  /\ pc = "match" /\ ret = "inprogress" => phase # "deferred"
  /\ pc = "match" /\ (ret = "ok" \/ (ret = "inprogress" /\ ticked)) => Resolved
  /\ pc = "adopt" /\ ret = "ok" => Resolved

-----------------------------------------------------------------------------
\* What the socket polls as, term by term.
LEMMA LevelMembers ==
  /\ Level \subseteq {"R", "W", "HUP"}
  /\ "R" \in Level <=> inbox \/ phase = "dead"
  /\ "W" \in Level <=> phase \in EarlyWritable \cup {"dead"} \/ (phase = "est" /\ ~full) \/ shut
  /\ "HUP" \in Level <=> phase = "dead"
  BY DEF Level

LEMMA LevelMembersNext ==
  /\ Level' \subseteq {"R", "W", "HUP"}
  /\ "R" \in Level' <=> inbox' \/ phase' = "dead"
  /\ "W" \in Level' <=> phase' \in EarlyWritable \cup {"dead"} \/ (phase' = "est" /\ ~full') \/ shut'
  /\ "HUP" \in Level' <=> phase' = "dead"
  BY DEF Level

\* A socket that has not changed polls the same.
LEMMA LevelSame == UNCHANGED <<phase, inbox, full, shut>> => Level' = Level
  BY DEF Level

\* The types the proofs below need.
LEMMA EventTypes ==
  ASSUME EventInv
  PROVE  /\ edge \subseteq {"R", "W", "HUP"} /\ ready \subseteq {"R", "W", "HUP"}
         /\ fut \in [Futures -> {"idle", "awake", "due", "parked", "done"}]
         /\ slot \in [Futures -> Tasks \cup {NoTask}]
         /\ task \in [Futures -> Tasks \cup {NoTask}]
         /\ woken \subseteq Tasks
         /\ stream \in Streams /\ phase \in Phases
  BY DEF EventInv, TaskInv, TypeOK, TokioTypeOK, ArmTypeOK

Event == RegOK /\ PhaseOK /\ Covered /\ ClearOK /\ ReadyOK

\* Steps that only run code of the stream.
LEMMA EventQuiet ==
  ASSUME EventInv,
         UNCHANGED <<phase, inbox, full, shut, ioVars, stream, state>>,
         pc' \in {"none", "top"}, ret' = "none" \/ UNCHANGED ret,
         stream = "Absent" => UNCHANGED pc,
         stream = "Connecting" => pc # "adopt" \/ ret = "err"
  PROVE  Event'
<1> USE EventTypes DEF EventInv, ioVars
<1>1. RegOK'
  BY DEF RegOK
<1>2. PhaseOK'
  BY DEF PhaseOK
<1>3. Covered' /\ ClearOK'
  BY LevelSame DEF Covered, ClearOK
<1>4. ReadyOK'
  BY DEF ReadyOK, IsReady
<1> QED
  BY <1>1, <1>2, <1>3, <1>4 DEF Event

\* tokio's poll_read.
LEMMA EventTokioRead ==
  ASSUME EventInv, stream = "Connected", pc = "none", TokioPollRead,
         UNCHANGED <<streamVars, callVars>>
  PROVE  Event'
<1> USE EventTypes DEF EventInv, streamVars, callVars
<1>1. RegOK' /\ ClearOK'
  BY DEF RegOK, ClearOK, TokioPollRead, ioVars
<1>2. PhaseOK'
  BY DEF PhaseOK, TokioPollRead, ioVars, sockVars
<1>3. Covered'
  BY LevelMembers, LevelMembersNext DEF RegOK, Covered, TokioPollRead, ioVars, sockVars, IsReady
<1>4. ReadyOK'
  BY DEF ReadyOK
<1> QED
  BY <1>1, <1>2, <1>3, <1>4 DEF Event

\* tokio's poll_write.
LEMMA EventTokioWrite ==
  ASSUME EventInv, stream = "Connected", pc = "top",
         WritePends \/ WriteTakes(buf) \/ WriteFails,
         UNCHANGED <<stream, reader>>, pc' = "none"
  PROVE  Event'
<1> USE EventTypes DEF EventInv, WritePends, WriteTakes, WriteFails
<1>1. RegOK' /\ ClearOK'
  BY DEF RegOK, ClearOK, ioVars
<1>2. PhaseOK'
  BY DEF PhaseOK, ioVars, sockVars
<1>3. Covered'
  <2> USE LevelMembers, LevelMembersNext DEF RegOK, Covered, ioVars, sockVars
  <2>1. CASE WritePends
    BY <2>1, PhaseAssumption DEF IsReady, WouldBlock, Opening
  <2>2. CASE WriteTakes(buf)
    BY <2>2 DEF CanSend
  <2>3. CASE WriteFails
    BY <2>3
  <2> QED
    BY <2>1, <2>2, <2>3
<1>4. ReadyOK'
  BY DEF ReadyOK
<1> QED
  BY <1>1, <1>2, <1>3, <1>4 DEF Event

\* The arm Connected of the BSD streams.
LEMMA EventRetrying ==
  ASSUME EventInv, NEW E, RetryingWrite(E)
  PROVE  Event'
<1>1. CASE pc' = "none" /\ (WritePends \/ WriteTakes(buf) \/ WriteFails)
  BY <1>1, EventTokioWrite DEF RetryingWrite
<1>2. CASE state' = "FastOpenConnecting" /\ RetryReady
           /\ UNCHANGED <<sockVars, reg, edge, ticked, slot, execVars, userVars, callVars>>
  BY <1>2, LevelSame DEF RetryingWrite, RetryReady, EventInv, Event, RegOK, PhaseOK, Covered,
     ClearOK, ReadyOK, IsReady, sockVars, execVars, callVars
<1>3. CASE Return("W") /\ EndCall /\ UNCHANGED <<sockVars, ioVars, userVars, state>>
  BY <1>3, EventQuiet DEF RetryingWrite, EndCall, sockVars
<1> QED
  BY <1>1, <1>2, <1>3 DEF RetryingWrite, EndCall

\* poll_write_ready goes on when ready, and parks when not.
LEMMA EventWriteReady ==
  ASSUME EventInv, NEW next \in {"soerr", "send"}, poll_write_ready(next)
  PROVE  Event'
<1> USE EventTypes DEF EventInv, poll_write_ready, streamVars
<1>1. RegOK'
  BY DEF RegOK
<1>2. PhaseOK' /\ Covered' /\ ClearOK'
  BY LevelSame DEF PhaseOK, Covered, ClearOK, sockVars
<1>3. ReadyOK'
  BY DEF ReadyOK, IsReady
<1> QED
  BY <1>1, <1>2, <1>3 DEF Event

\* sendto works on a socket that is not registered yet.
LEMMA EventSendto == EventInv /\ FastOpenConnect_sendto => Event'
<1> SUFFICES ASSUME EventInv, FastOpenConnect_sendto PROVE Event'
  OBVIOUS
<1> USE EventTypes DEF EventInv, FastOpenConnect_sendto, SendtoFailed, streamVars, ioVars
<1>1. RegOK'
  BY DEF RegOK
<1>2. PhaseOK'
  BY DEF RegOK, PhaseOK
<1>3. Covered' /\ ClearOK' /\ ReadyOK'
  BY DEF RegOK, Covered, ClearOK, ReadyOK, execVars
<1> QED
  BY <1>1, <1>2, <1>3 DEF Event

\* Registration reports what is true then, to a driver that has cached nothing.
LEMMA EventAdopt ==
  ASSUME EventInv, stream = "Connecting", NEW s \in States, Adopt(s), s # "FastOpenConnect",
         UNCHANGED <<sockVars, slot, task>>, pc' \in {"none", "top"}
  PROVE  Event'
<1> USE DEF EventInv, Adopt, Register, sockVars
<1>1. RegOK' /\ ClearOK' /\ ReadyOK'
  BY DEF RegOK, ClearOK, ReadyOK, IsReady
<1>2. PhaseOK'
  BY LevelMembers DEF PhaseOK
<1>3. Covered'
  BY LevelSame DEF Covered
<1> QED
  BY <1>1, <1>2, <1>3 DEF Event

LEMMA EventAdoptFails == EventInv /\ pc = "adopt" /\ stream = "Connecting" /\ AdoptFails => Event'
  BY DEF AdoptFails, EndCall, EventInv, Event, RegOK, PhaseOK, Covered, ClearOK, ReadyOK, ioVars

LEMMA EventAdoptArm == EventInv /\ FastOpenConnect_adopt => Event'
<1> SUFFICES ASSUME EventInv, FastOpenConnect_adopt PROVE Event'
  OBVIOUS
<1>0. pc = "adopt" /\ stream = "Connecting"
  BY DEF FastOpenConnect_adopt, EventInv, TaskInv, TasksOK
<1>1. CASE AdoptFails
  BY <1>0, <1>1, EventAdoptFails
<1>2. CASE ret = "err" /\ Return("W") /\ EndCall /\ UNCHANGED <<sockVars, ioVars, userVars, streamVars, panicked>>
  BY <1>0, <1>2, EventQuiet DEF EndCall, sockVars, streamVars
<1>3. CASE Adopt("Connected") /\ EndCall /\ UNCHANGED <<sockVars, slot, task, told, panicked>>
  BY <1>0, <1>3, EventAdopt DEF EndCall, States
<1>4. CASE Adopt("FastOpenConnecting") /\ pc' = "top" /\ UNCHANGED <<sockVars, slot, task, fut, userVars, buf, cnt, panicked>>
  BY <1>0, <1>4, EventAdopt DEF States
<1> QED
  BY <1>1, <1>2, <1>3, <1>4 DEF FastOpenConnect_adopt

\* SO_ERROR is no readiness.
LEMMA EventTakeError == EventInv /\ FastOpenConnecting_take_error => Event'
<1> SUFFICES ASSUME EventInv, FastOpenConnecting_take_error PROVE Event'
  OBVIOUS
<1>0. stream = "Connected"
  BY DEF FastOpenConnecting_take_error, EventInv, RegOK
<1>2. UNCHANGED <<phase, inbox, full, shut, ioVars, stream>>
      /\ pc' \in {"none", "top"} /\ (ret' = "none" \/ UNCHANGED ret)
  BY DEF FastOpenConnecting_take_error, EndCall
<1> USE <1>0, <1>2, EventTypes DEF EventInv, ioVars
<1>3. RegOK' /\ PhaseOK'
  BY DEF RegOK, PhaseOK
<1>4. Covered' /\ ClearOK'
  BY LevelSame DEF Covered, ClearOK
<1>5. ReadyOK'
  BY DEF ReadyOK, IsReady
<1> QED
  BY <1>3, <1>4, <1>5 DEF Event

\* send happens while the stream may write, and what it changes is not news.
LEMMA EventSend == EventInv /\ FastOpenWrite_send => Event'
<1> SUFFICES ASSUME EventInv, FastOpenWrite_send PROVE Event'
  OBVIOUS
<1>0. pc = "send" /\ stream = "Connected" /\ reg /\ IsReady("W")
      /\ (phase = "deferred" => ~shut) /\ (inbox => phase # "deferred")
  BY DEF EventInv, FastOpenWrite_send, RegOK, PhaseOK, ReadyOK
<1>1. /\ UNCHANGED <<inbox, full, shut, reg, edge, ready, slot, execVars, stream, state, reader>>
      /\ ~ticked' /\ pc' = "match"
      /\ phase' = phase \/ (phase = "deferred" /\ phase' \in {"syn", "fastsyn"})
      /\ ret' = "inprogress" => phase' = "syn" /\ ~shut
      /\ ret' = "again" => phase' = phase /\ WouldBlock
      /\ phase = "deferred" => ~shut
  BY <1>0 DEF FastOpenWrite_send, streamVars
<1>2. RegOK'
  BY <1>0, <1>1 DEF EventInv, RegOK
<1>3. PhaseOK'
  BY <1>0, <1>1, EventTypes DEF EventInv, PhaseOK
<1>4. Covered'
  <2>1. Level' \subseteq Level \cup {"W"}
    BY <1>1, LevelMembers, LevelMembersNext
  <2>2. CASE "W" \in ready
    BY <1>0, <1>1, <2>1, <2>2 DEF EventInv, Covered
  <2>3. CASE "HUP" \in ready
    BY <1>0, <1>1, <2>3, LevelSame DEF EventInv, Covered, PhaseOK
  <2> QED
    BY <1>0, <2>2, <2>3 DEF IsReady
<1>5. ClearOK'
  <2>1. ret' \in {"inprogress", "again"} => "W" \notin Level'
    BY <1>1, LevelMembersNext, PhaseAssumption DEF WouldBlock, Opening
  <2> QED
    BY <2>1 DEF ClearOK
<1>6. ReadyOK'
  BY <1>0, <1>1 DEF EventInv, ReadyOK, IsReady, execVars
<1> QED
  BY <1>2, <1>3, <1>4, <1>5, <1>6 DEF Event

\* try_io clears the readiness.
LEMMA EventClear ==
  ASSUME EventInv, pc = "match", ret \in {"inprogress", "again"}, ClearReady,
         UNCHANGED <<phase, inbox, full, shut, reg, edge, stream, execVars>>, pc' = "top"
  PROVE  Event'
<1> USE EventTypes DEF EventInv, ClearReady
<1>1. RegOK' /\ PhaseOK'
  BY DEF RegOK, PhaseOK
<1>2. Covered'
  BY LevelSame DEF Covered, ClearOK
<1>3. ClearOK' /\ ReadyOK'
  BY DEF ClearOK, ReadyOK, IsReady, execVars
<1> QED
  BY <1>1, <1>2, <1>3 DEF Event

LEMMA EventMatch == EventInv /\ FastOpenWrite_match => Event'
<1> SUFFICES ASSUME EventInv, FastOpenWrite_match PROVE Event'
  OBVIOUS
<1>0. pc = "match" /\ stream = "Connected"
  BY DEF EventInv, FastOpenWrite_match, RegOK
<1>1. CASE ret \in {"inprogress", "again"} /\ ClearReady /\ pc' = "top" /\ UNCHANGED execVars
  BY <1>0, <1>1, EventClear DEF FastOpenWrite_match, sockVars
<1>2. CASE UNCHANGED ready /\ Return("W") /\ EndCall
  <2> USE <1>0, <1>2, EventTypes DEF EventInv, FastOpenWrite_match, EndCall, sockVars
  <2>2. RegOK' /\ PhaseOK'
    BY DEF RegOK, PhaseOK
  <2>3. Covered' /\ ClearOK' /\ ReadyOK'
    BY LevelSame DEF Covered, ClearOK, ReadyOK, IsReady
  <2> QED
    BY <2>2, <2>3 DEF Event
<1> QED
  BY <1>1, <1>2 DEF FastOpenWrite_match, ReturnOk

\* Every arm of poll_write.
LEMMA EventWrite == EventInv /\ WriteStep => Event'
<1> SUFFICES ASSUME EventInv, WriteStep PROVE Event'
  OBVIOUS
<1>1. CASE poll_write
  <2>1. stream # "Absent"
    BY <1>1 DEF poll_write, EventInv, TaskInv, TasksOK, Futures
  <2> QED
    BY <1>1, <2>1, EventQuiet DEF poll_write, sockVars, execVars, streamVars
<1>2. CASE \E s \in States : PassOn(s)
  BY <1>2, EventTokioWrite DEF PassOn, streamVars
<1>3. CASE unreachable
  <2>2. pc = "top" /\ (stream = "Absent" => fut["W"] = "idle") /\ fut["W"] = "due"
    BY <1>3 DEF unreachable, EventInv, TaskInv, TasksOK, Polling, Futures
  <2> QED
    BY <1>3, <2>2, EventQuiet DEF unreachable, Panic, EndCall, sockVars, streamVars
<1> QED
  BY <1>1, <1>2, <1>3, EventRetrying, EventWriteReady, EventSendto, EventAdoptArm,
     EventTakeError, EventSend, EventMatch
  DEF WriteStep, FastOpenConnect_arm, FastOpenConnecting_arm, FastOpenWrite_arm,
      FastOpenConnecting_ready, FastOpenWrite_ready

-----------------------------------------------------------------------------
\* What happens to the connection is queued for the driver.
LEMMA EventRaised ==
  ASSUME EventInv, RaiseEdges, PhaseOK',
         UNCHANGED <<reg, ready, ticked, execVars, stream, state, pc, ret>>
  PROVE  Event'
<1> USE EventTypes DEF EventInv, RaiseEdges
<1>1. RegOK'
  BY DEF RegOK
<1>2. Covered'
  BY DEF Covered
<1>3. ClearOK'
  BY DEF ClearOK, RegOK
<1>4. ReadyOK'
  BY DEF ReadyOK, IsReady, execVars
<1> QED
  BY <1>1, <1>2, <1>3, <1>4 DEF Event

LEMMA EventNetwork ==
  ASSUME EventInv, Outside(Network)
  PROVE  Event'
<1> USE DEF Outside, Network, HandshakeOk, Break, PeerSends, Drain, streamVars, callVars
<1>1. UNCHANGED <<reg, ready, ticked, execVars, stream, state, pc, ret>> /\ RaiseEdges
  OBVIOUS
<1>2. PhaseOK'
  <2>1. "HUP" \in edge' => "HUP" \in edge \/ phase' = "dead"
    BY <1>1, LevelMembersNext DEF RaiseEdges
  <2>2. stream = "Connecting" /\ pc # "adopt" => phase = "new"
    BY DEF EventInv, PhaseOK
  <2> QED
    BY <1>1, <2>1, <2>2 DEF EventInv, PhaseOK, Opening
<1> QED
  BY <1>1, <1>2, EventRaised

LEMMA EventShutdown ==
  ASSUME EventInv, NEW A, poll_shutdown(A)
  PROVE  Event'
<1>1. UNCHANGED <<reg, ready, ticked, execVars, stream, state, pc, ret>> /\ RaiseEdges
  BY DEF poll_shutdown, streamVars, callVars
<1>2. PhaseOK'
  <2>1. "HUP" \in edge' => "HUP" \in edge \/ phase' = "dead"
    BY <1>1, LevelMembersNext DEF RaiseEdges
  <2> QED
    BY <1>1, <2>1 DEF EventInv, PhaseOK, poll_shutdown
<1> QED
  BY <1>1, <1>2, EventRaised

\* The driver caches what it delivers.
LEMMA EventDeliver ==
  ASSUME EventInv, Outside(Deliver)
  PROVE  Event'
<1> DEFINE ev == edge \cap Level
<1>0. /\ reg /\ edge' = {} /\ ready' = ready \cup ev
      /\ ticked' = (ticked \/ ev # {})
      /\ UNCHANGED <<sockVars, reg, stream, state, pc, ret>>
  BY DEF Outside, Deliver, streamVars, callVars
<1> USE DEF EventInv
<1>1. Level' = Level
  BY <1>0, LevelSame DEF sockVars
<1>2. RegOK'
  BY <1>0 DEF RegOK
<1>3. PhaseOK'
  BY <1>0, LevelMembers DEF PhaseOK, sockVars
<1>4. Covered' /\ ClearOK'
  BY <1>0, <1>1 DEF Covered, ClearOK
<1>5. ReadyOK'
  BY <1>0 DEF ReadyOK, IsReady
<1> QED
  BY <1>2, <1>3, <1>4, <1>5 DEF Event

\* Running a task and the code that owns a future touches no readiness.
LEMMA EventTasks ==
  ASSUME EventInv, UNCHANGED <<sockVars, ioVars, stream, state, pc, ret>>
  PROVE  Event'
<1> USE DEF EventInv, sockVars, ioVars
<1>1. RegOK' /\ PhaseOK'
  BY DEF RegOK, PhaseOK
<1>2. Covered' /\ ClearOK'
  BY LevelSame DEF Covered, ClearOK
<1>3. ReadyOK'
  BY DEF ReadyOK, IsReady
<1> QED
  BY <1>1, <1>2, <1>3 DEF Event

LEMMA EventRunTask ==
  ASSUME EventInv, NEW t \in Tasks, Outside(RunTask(t))
  PROVE  Event'
  BY EventTasks DEF Outside, RunTask, streamVars, callVars

LEMMA EventUse == EventInv /\ Use => Event'
  BY EventTasks DEF Use, Resume, Rest, Submit, streamVars

\* Connecting, reading and the rest.
LEMMA EventOther == EventInv /\ OtherStep => Event'
<1> SUFFICES ASSUME EventInv, OtherStep PROVE Event'
  OBVIOUS
<1>0. stream = "Absent" => \A f \in Futures : fut[f] = "idle"
  BY DEF EventInv, TaskInv, TasksOK
<1>1. CASE ConnectFails
  <2> USE <1>1 DEF ConnectFails, EventInv, streamVars, ioVars
  <2>1. pc \in {"probe", "await"} /\ stream = "Absent"
    BY DEF TaskInv, TasksOK
  <2>2. RegOK' /\ PhaseOK'
    BY <2>1 DEF RegOK, PhaseOK
  <2>3. Covered'
    BY LevelMembers, LevelMembersNext, PhaseAssumption DEF Covered
  <2>4. ClearOK' /\ ReadyOK'
    BY <2>1 DEF ClearOK, ReadyOK
  <2> QED
    BY <2>2, <2>3, <2>4 DEF Event
<1>2. CASE from
  BY <1>0, <1>2, LevelMembersNext DEF from, Register, EventInv, Event, RegOK, PhaseOK, Covered,
     ClearOK, ReadyOK, execVars, callVars
<1>3. CASE pc = "probe" /\ ReturnConnecting
  <2>1. stream = "Absent"
    BY <1>3 DEF EventInv, TaskInv, TasksOK
  <2> USE <1>3, <2>1 DEF ReturnConnecting, EventInv, sockVars, ioVars
  <2>2. RegOK'
    BY DEF RegOK
  <2>3. PhaseOK'
    BY DEF PhaseOK
  <2>4. Covered' /\ ClearOK' /\ ReadyOK'
    BY LevelSame DEF Covered, ClearOK, ReadyOK
  <2> QED
    BY <2>2, <2>3, <2>4 DEF Event
<1>4. CASE poll_read
  <2>1. CASE stream = "Connected" /\ TokioPollRead /\ UNCHANGED <<streamVars, callVars, panicked>>
    BY <1>4, <2>1, EventTokioRead DEF poll_read
  <2>2. CASE stream = "Connecting" /\ UNCHANGED <<sockVars, ioVars, state, stream, callVars>>
    <3> USE <2>2 DEF EventInv, sockVars, ioVars, callVars
    <3>1. RegOK' /\ PhaseOK'
      BY DEF RegOK, PhaseOK
    <3>2. Covered' /\ ClearOK' /\ ReadyOK'
      BY <1>4, LevelSame DEF Covered, ClearOK, ReadyOK, poll_read
    <3> QED
      BY <3>1, <3>2 DEF Event
  <2>3. CASE stream = "Empty" /\ Panic("R")
    BY <1>4, <2>3, EventQuiet DEF Panic, EndCall, sockVars, streamVars
  <2> QED
    BY <1>4, <2>1, <2>2, <2>3 DEF poll_read
<1>5. CASE accessor
  BY <1>5, EventQuiet DEF accessor, Panic, EndCall, sockVars, streamVars
<1>6. CASE Use
  BY <1>6, EventUse
<1>7. CASE Terminated
  BY <1>7, EventTasks DEF Terminated, armVars, streamVars, callVars, execVars
<1>8. CASE External
  BY <1>8, EventNetwork, EventDeliver, EventRunTask DEF External, Outside, Executor
<1>9. CASE \E A \in SUBSET Phases : poll_shutdown(A)
  BY <1>9, EventShutdown
<1> QED
  BY <1>1, <1>2, <1>3, <1>4, <1>5, <1>6, <1>7, <1>8, <1>9 DEF OtherStep

\* The invariant holds of a new socket and is kept by every shared step.
LEMMA EventInit == ArmsInit => EventInv
<1> SUFFICES ASSUME ArmsInit PROVE RegOK /\ PhaseOK /\ Covered /\ ClearOK /\ ReadyOK
  BY TasksInit DEF EventInv
<1> QED
  BY DEF ArmsInit, TokioInit, RegOK, PhaseOK, Covered, ClearOK, ReadyOK

LEMMA EventStep == EventInv /\ ArmStep => EventInv'
<1> SUFFICES ASSUME EventInv, ArmStep PROVE EventInv'
  OBVIOUS
<1>1. TaskInv'
  BY TasksStep DEF EventInv
<1>2. Event'
  BY EventWrite, EventOther DEF ArmStep
<1> QED
  BY <1>1, <1>2 DEF Event, EventInv

LEMMA EventStutter == EventInv /\ UNCHANGED armVars => EventInv'
<1> SUFFICES ASSUME EventInv, UNCHANGED armVars PROVE EventInv'
  OBVIOUS
<1>1. TaskInv'
  BY TasksStutter DEF EventInv
<1>2. Event'
  BY EventTasks DEF armVars, streamVars, callVars, execVars
<1> QED
  BY <1>1, <1>2 DEF Event, EventInv

-----------------------------------------------------------------------------
(* Whoever waits on a registered stream waits for something yet to come.    *)

\* Parked and not woken, f is parked for a readiness tokio does not have.
ParkedOK(f) ==
  stream = "Connected" /\ fut[f] = "parked" /\ task[f] \notin woken => ~IsReady(f)

WaitOK(f) == HasWaker(f) /\ ParkedOK(f)

LEMMA WaitInit == ASSUME ArmsInit, NEW f \in Futures PROVE WaitOK(f)
  BY DEF ArmsInit, TokioInit, WaitOK, HasWaker, ParkedOK

\* No step parks f, unschedules its task or makes a readiness up.
LEMMA ParkedKept ==
  ASSUME NEW f \in Futures, ParkedOK(f), UNCHANGED stream, ready' \subseteq ready,
         fut'[f] = "parked" /\ task'[f] \notin woken' => fut[f] = "parked" /\ task[f] \notin woken
  PROVE  ParkedOK(f)'
  BY DEF ParkedOK, IsReady

\* A stream that has just been registered has no readiness cached.
LEMMA ParkedFresh == ASSUME NEW f \in Futures, ready' = {} PROVE ParkedOK(f)'
  BY DEF ParkedOK, IsReady

\* Who parks has found or left nothing cached for its direction.
LEMMA ParkedNow ==
  ASSUME EventInv, NEW f \in Futures, ParkedOK(f), NEW g \in Futures, Park(g), UNCHANGED stream,
         ready' \subseteq ready, ~IsReady(g)'
  PROVE  ParkedOK(f)'
  BY EventTypes DEF ParkedOK, Park, IsReady

\* tokio's poll_read and poll_write.
LEMMA ParkedTokio ==
  ASSUME EventInv, NEW f \in Futures, ParkedOK(f), UNCHANGED stream, stream = "Connected",
         TokioPollRead \/ WritePends \/ WriteTakes(buf) \/ WriteFails
  PROVE  ParkedOK(f)'
<1>1. "HUP" \in ready => phase \in {"dead", "closed"} /\ (phase = "closed" => stream # "Connected")
  BY DEF EventInv, PhaseOK, RegOK
<1>2. CASE WritePends
  <2>1. ~IsReady("W")'
    BY <1>1, <1>2 DEF WritePends, IsReady, WouldBlock, Opening
  <2> QED
    BY <1>2, <2>1, ParkedNow DEF WritePends, Futures
<1>3. CASE WriteTakes(buf) \/ WriteFails
  BY <1>3, ParkedKept, EventTypes DEF WriteTakes, WriteFails, Return, ioVars, Futures
<1>4. CASE TokioPollRead
  <2>1. CASE Park("R") /\ ready' = ready \ {"R"} /\ (~IsReady("R") \/ phase # "dead")
    <3>1. ~IsReady("R")'
      BY <1>1, <2>1 DEF IsReady
    <3> QED
      BY <2>1, <3>1, ParkedNow DEF Futures
  <2>2. CASE Return("R") /\ UNCHANGED ioVars
    BY <2>2, ParkedKept, EventTypes DEF Return, ioVars, Futures
  <2> QED
    BY <1>4, <2>1, <2>2 DEF TokioPollRead
<1> QED
  BY <1>2, <1>3, <1>4

\* The arms of poll_write.
LEMMA ParkedWrite ==
  ASSUME EventInv, NEW f \in Futures, ParkedOK(f), WriteStep
  PROVE  ParkedOK(f)'
<1> USE EventTypes DEF Return, EndCall, Futures, streamVars, execVars, ioVars
<1>1. CASE poll_write \/ FastOpenConnect_sendto \/ FastOpenWrite_send \/ unreachable
  BY <1>1, ParkedKept DEF poll_write, FastOpenConnect_sendto, FastOpenWrite_send, unreachable, Panic
<1>2. CASE \E s \in States : PassOn(s)
  BY <1>2, ParkedTokio DEF PassOn
<1>3. CASE \E E \in SUBSET {"ENOTCONN", "EPIPE"} : RetryingWrite(E)
  <2>1. stream = "Connected" /\ UNCHANGED stream
    BY <1>3 DEF RetryingWrite
  <2>2. \/ WritePends \/ WriteTakes(buf) \/ WriteFails
        \/ UNCHANGED ready /\ (UNCHANGED execVars \/ Return("W"))
    BY <1>3 DEF RetryingWrite, RetryReady
  <2> QED
    BY <2>1, <2>2, ParkedTokio, ParkedKept
<1>4. CASE FastOpenConnect_adopt
  <2>1. CASE AdoptFails
    BY <2>1 DEF AdoptFails, ParkedOK
  <2>2. CASE \E s \in States : Adopt(s)
    BY <2>2, ParkedFresh DEF Adopt, Register
  <2>3. CASE Return("W") /\ UNCHANGED <<ioVars, streamVars>>
    BY <2>3, ParkedKept
  <2> QED
    BY <1>4, <2>1, <2>2, <2>3 DEF FastOpenConnect_adopt, States
<1>5. CASE FastOpenConnecting_ready \/ FastOpenWrite_ready
  BY <1>5, ParkedKept, ParkedNow
  DEF FastOpenConnecting_ready, FastOpenWrite_ready, poll_write_ready, IsReady
<1>6. CASE FastOpenConnecting_take_error
  BY <1>6, ParkedKept DEF FastOpenConnecting_take_error
<1>7. CASE FastOpenWrite_match
  BY <1>7, ParkedKept DEF FastOpenWrite_match, ReturnOk, ClearReady
<1> QED
  BY <1>1, <1>2, <1>3, <1>4, <1>5, <1>6, <1>7
  DEF WriteStep, FastOpenConnect_arm, FastOpenConnecting_arm, FastOpenWrite_arm

\* What the driver delivers to a direction wakes who waits for it, since its
\* waker is there.
LEMMA ParkedDeliver ==
  ASSUME EventInv, NEW f \in Futures, WaitOK(f), Outside(Deliver)
  PROVE  ParkedOK(f)'
<1> DEFINE ev  == edge \cap Level
           hit == {g \in Futures : g \in ev \/ "HUP" \in ev}
<1>1. /\ ready' = ready \cup ev
      /\ woken' = woken \cup ({slot[g] : g \in hit} \ {NoTask})
      /\ UNCHANGED <<task, fut, stream>>
  BY DEF Outside, Deliver, streamVars
<1> SUFFICES ASSUME stream = "Connected", fut[f] = "parked", task[f] \notin woken'
             PROVE  ~IsReady(f)'
  BY <1>1 DEF ParkedOK
<1>2. task[f] \notin woken
  BY <1>1
<1>3. slot[f] = task[f] /\ task[f] # NoTask
  BY <1>2 DEF WaitOK, HasWaker, EventInv, TaskInv, TasksOK
<1>4. f \notin hit
  BY <1>1, <1>3
<1> QED
  BY <1>1, <1>2, <1>4 DEF WaitOK, ParkedOK, IsReady

\* The rest of what the platforms share.
LEMMA ParkedOther ==
  ASSUME EventInv, NEW f \in Futures, WaitOK(f), OtherStep
  PROVE  ParkedOK(f)'
<1> USE EventTypes DEF WaitOK, Futures, streamVars, execVars, ioVars
<1>1. CASE ConnectFails \/ Terminated \/ accessor
  BY <1>1, ParkedKept DEF ConnectFails, Terminated, accessor, Panic, armVars
<1>2. CASE from \/ (pc = "probe" /\ ReturnConnecting)
  BY <1>2, ParkedFresh DEF from, Register, ReturnConnecting, ParkedOK
<1>3. CASE poll_read
  <2>1. CASE stream = "Connected" /\ TokioPollRead /\ UNCHANGED streamVars
    BY <2>1, ParkedTokio
  <2>2. CASE stream = "Connecting" /\ UNCHANGED stream
    BY <2>2 DEF ParkedOK
  <2>3. CASE stream = "Empty" /\ Panic("R")
    BY <2>3 DEF Panic, ParkedOK
  <2> QED
    BY <1>3, <2>1, <2>2, <2>3 DEF poll_read
<1>4. CASE Use
  <2>1. UNCHANGED <<stream, ready, woken>>
    BY <1>4 DEF Use, Resume, Rest, Submit
  <2>2. fut'[f] = "parked" => fut[f] = "parked" /\ task'[f] = task[f]
    BY <1>4 DEF Use, Resume, Rest, Submit
  <2> QED
    BY <2>1, <2>2, ParkedKept
<1>5. CASE External
  <2>1. CASE Outside(Network)
    BY <2>1, ParkedKept DEF Outside, Network, HandshakeOk, Break, PeerSends, Drain
  <2>2. CASE \E t \in Tasks : Outside(RunTask(t))
    BY <2>2, ParkedKept DEF Outside, RunTask, Due
  <2> QED
    BY <1>5, <2>1, <2>2, ParkedDeliver DEF External, Outside, Executor
<1>6. CASE \E A \in SUBSET Phases : poll_shutdown(A)
  BY <1>6, ParkedKept DEF poll_shutdown
<1> QED
  BY <1>1, <1>2, <1>3, <1>4, <1>5, <1>6 DEF OtherStep

\* Every shared step keeps it, for the reader with the one condition the waker
\* has.
LEMMA WaitStep ==
  ASSUME EventInv, NEW f \in Futures, WaitOK(f), f = "W" \/ Apart \/ stream # "Connecting",
         ArmStep
  PROVE  WaitOK(f)'
<1>1. HasWaker(f)'
  BY WakerStep DEF WaitOK, EventInv
<1>2. ParkedOK(f)'
  BY ParkedWrite, ParkedOther DEF ArmStep, WaitOK
<1> QED
  BY <1>1, <1>2 DEF WaitOK

LEMMA WaitStutter == ASSUME NEW f \in Futures, WaitOK(f), UNCHANGED armVars PROVE WaitOK(f)'
  BY DEF WaitOK, HasWaker, ParkedOK, IsReady, armVars, ioVars, execVars, streamVars

\* It is what NoMissedEvent needs.
LEMMA WaitMeans ==
  ASSUME EventInv, NEW f \in Futures, WaitOK(f)
  PROVE  HasWaker(f) /\ IsTold(f)
  BY DEF EventInv, RegOK, Covered, WaitOK, ParkedOK, IsReady, IsTold

LEMMA AllWait ==
  ASSUME EventInv, \A f \in Futures : WaitOK(f)
  PROVE  ParkedHasWaker /\ NoMissedEvent
  BY WaitMeans DEF ParkedHasWaker, NoMissedEvent

\* What holds of the writer whoever runs the reader.
WriterTold == HasWaker("W") /\ IsTold("W")

-----------------------------------------------------------------------------
(* The connection is resolved when the stream says so.                      *)

\* The arms of poll_write.
LEMMA FreshWrite == EventInv /\ FreshOK /\ WriteStep => FreshOK'
<1> SUFFICES ASSUME EventInv, FreshOK, WriteStep PROVE FreshOK'
  OBVIOUS
<1> USE DEF FreshOK, ConnectedMeansResolved, Resolved, IsReady, sockVars, ioVars
<1>1. CASE poll_write \/ unreachable
  BY <1>1 DEF poll_write, unreachable, Panic, EndCall, streamVars
<1>2. CASE \E s \in States : PassOn(s)
  BY <1>2 DEF PassOn, WritePends, WriteTakes, WriteFails, streamVars
<1>3. CASE \E E \in SUBSET {"ENOTCONN", "EPIPE"} : RetryingWrite(E)
  <2>1. PICK E : RetryingWrite(E)
    BY <1>3
  <2>2. /\ UNCHANGED <<phase, shut>> /\ pc' \in {"none", "top"}
        /\ state' \in {"Connected", "Established", "FastOpenConnecting"}
    BY <2>1 DEF RetryingWrite, WritePends, WriteTakes, WriteFails, EndCall, callVars
  <2> QED
    BY <2>1, <2>2 DEF RetryingWrite, EventInv, PhaseOK
<1>4. CASE FastOpenConnect_sendto
  BY <1>4 DEF FastOpenConnect_sendto, SendtoFailed, streamVars
<1>5. CASE FastOpenConnect_adopt
  <2>1. pc = "adopt" /\ stream = "Connecting"
    BY <1>5 DEF FastOpenConnect_adopt, EventInv, TaskInv, TasksOK
  <2> QED
    BY <1>5, <2>1 DEF FastOpenConnect_adopt, Adopt, AdoptFails, Register, EndCall, streamVars,
       EventInv, PhaseOK
<1>6. CASE FastOpenConnecting_ready \/ FastOpenWrite_ready
  BY <1>6 DEF FastOpenConnecting_ready, FastOpenWrite_ready, poll_write_ready, streamVars
<1>7. CASE FastOpenConnecting_take_error
  BY <1>7 DEF FastOpenConnecting_take_error, Checked, EndCall
<1>8. CASE FastOpenWrite_send
  BY <1>8 DEF FastOpenWrite_send, CanSend, streamVars, EventInv, PhaseOK
<1>9. CASE FastOpenWrite_match
  <2>1. "HUP" \in ready => phase \in {"dead", "closed"}
    BY DEF EventInv, PhaseOK
  <2> QED
    BY <1>9, <2>1 DEF FastOpenWrite_match, ReturnOk, ClearReady, EndCall
<1> QED
  BY <1>1, <1>2, <1>3, <1>4, <1>5, <1>6, <1>7, <1>8, <1>9
  DEF WriteStep, FastOpenConnect_arm, FastOpenConnecting_arm, FastOpenWrite_arm

\* A step that adds nothing to what is cached, and that no connection fears.
LEMMA FreshKeeps ==
  ASSUME FreshOK, UNCHANGED <<state, ret>>, pc' = pc \/ pc' = "none",
         Resolved => Resolved', phase' = "deferred" => phase = "deferred",
         IsReady("W")' => IsReady("W"), UNCHANGED ticked
  PROVE  FreshOK'
<1>1. Resolved => Resolved'
  OBVIOUS
<1>2. (state = "Connected" => Resolved) /\ (state' = "Connected" => Resolved')
  BY <1>1 DEF FreshOK, ConnectedMeansResolved, Resolved
<1> QED
  BY <1>1, <1>2 DEF FreshOK, ConnectedMeansResolved, Resolved

\* What the driver delivers is true of the connection as it is now.
LEMMA FreshDeliver == EventInv /\ FreshOK /\ Outside(Deliver) => FreshOK'
<1> SUFFICES ASSUME EventInv, FreshOK, Outside(Deliver) PROVE FreshOK'
  OBVIOUS
<1> DEFINE ev == edge \cap Level
<1>1. /\ ready' = ready \cup ev /\ ticked' = (ticked \/ ev # {})
      /\ UNCHANGED <<sockVars, state, pc, ret>>
  BY DEF Outside, Deliver, streamVars, callVars
<1>2. phase # "deferred" /\ ev # {} => Resolved
  <2> SUFFICES ASSUME phase # "deferred", NEW e \in ev PROVE Resolved
    OBVIOUS
  <2> QED
    BY LevelMembers, PhaseAssumption DEF Resolved, EventInv, PhaseOK
<1>3. IsReady("W")' => IsReady("W") \/ ev # {}
  BY <1>1 DEF IsReady
<1> QED
  BY <1>1, <1>2, <1>3 DEF FreshOK, ConnectedMeansResolved, Resolved, sockVars

\* The rest of what the platforms share.
LEMMA FreshOther == EventInv /\ FreshOK /\ OtherStep => FreshOK'
<1> SUFFICES ASSUME EventInv, FreshOK, OtherStep PROVE FreshOK'
  OBVIOUS
<1> USE DEF Resolved, IsReady, sockVars, ioVars
<1>1. CASE ConnectFails
  <2>1. stream = "Absent" /\ state = "FastOpenConnect"
    BY <1>1 DEF ConnectFails, EventInv, TaskInv, TasksOK, RegOK
  <2> QED
    BY <1>1, <2>1 DEF ConnectFails, streamVars, FreshOK, ConnectedMeansResolved
<1>2. CASE from
  BY <1>2 DEF from, callVars, FreshOK, ConnectedMeansResolved
<1>3. CASE pc = "probe" /\ ReturnConnecting
  BY <1>3, FreshKeeps DEF ReturnConnecting
<1>4. CASE poll_read
  BY <1>4, FreshKeeps DEF poll_read, TokioPollRead, Panic, EndCall, streamVars, callVars,
     FreshOK, ConnectedMeansResolved
<1>5. CASE accessor
  BY <1>5 DEF accessor, Panic, EndCall, streamVars, FreshOK, ConnectedMeansResolved
<1>6. CASE Use
  BY <1>6, FreshKeeps DEF Use, Resume, Rest, Submit, streamVars
<1>7. CASE Terminated
  BY <1>7, FreshKeeps DEF Terminated, armVars, streamVars, callVars
<1>8. CASE External
  <2>1. CASE Outside(Deliver)
    BY <2>1, FreshDeliver
  <2>2. CASE \E t \in Tasks : Outside(RunTask(t))
    BY <2>2, FreshKeeps DEF Outside, RunTask, streamVars, callVars
  <2>3. CASE Outside(Network)
    BY <2>3, FreshKeeps DEF Outside, Network, HandshakeOk, Break, PeerSends, Drain, streamVars, callVars
  <2> QED
    BY <1>8, <2>1, <2>2, <2>3 DEF External, Outside, Executor
<1>9. CASE \E A \in SUBSET Phases : poll_shutdown(A)
  BY <1>9, FreshKeeps DEF poll_shutdown, streamVars, callVars
<1> QED
  BY <1>1, <1>2, <1>3, <1>4, <1>5, <1>6, <1>7, <1>8, <1>9 DEF OtherStep

FreshInv == EventInv /\ FreshOK

LEMMA FreshInit == ArmsInit => FreshInv
<1> SUFFICES ASSUME ArmsInit PROVE FreshOK
  BY EventInit DEF FreshInv
<1> QED
  BY DEF ArmsInit, FreshOK, ConnectedMeansResolved

LEMMA FreshStep == FreshInv /\ ArmStep => FreshInv'
  BY EventStep, FreshWrite, FreshOther DEF FreshInv, ArmStep

LEMMA FreshStutter == FreshInv /\ UNCHANGED armVars => FreshInv'
<1> SUFFICES ASSUME FreshInv, UNCHANGED armVars PROVE FreshInv'
  OBVIOUS
<1>1. FreshOK'
  BY FreshKeeps DEF FreshInv, armVars, sockVars, ioVars, streamVars, callVars, Resolved, IsReady
<1> QED
  BY <1>1, EventStutter DEF FreshInv

LEMMA FreshMeans == FreshInv => ConnectedMeansResolved
  BY DEF FreshInv, FreshOK

-----------------------------------------------------------------------------
(* SO_ERROR is returned by whoever clears it.                               *)

LEMMA ReportedInit == ArmsInit => FailureReported
  BY DEF ArmsInit, TokioInit, FailureReported

LEMMA ReportedStep == FailureReported /\ ArmStep => FailureReported'
<1> SUFFICES ASSUME FailureReported, ArmStep PROVE FailureReported'
  OBVIOUS
<1> USE DEF FailureReported, TakeError, sockVars, userVars
<1>0. WritePends \/ WriteTakes(buf) \/ WriteFails => FailureReported'
  <2>1. WritePends => FailureReported'
    BY DEF WritePends
  <2>2. WriteTakes(buf) => FailureReported'
    BY DEF WriteTakes
  <2>3. WriteFails => FailureReported'
    BY DEF WriteFails
  <2> QED
    BY <2>1, <2>2, <2>3
<1>1. CASE WriteStep
  <2>1. CASE poll_write \/ unreachable
    BY <2>1 DEF poll_write, unreachable, Panic
  <2>2. CASE \E s \in States : PassOn(s)
    BY <1>0, <2>2 DEF PassOn
  <2>3. CASE \E E \in SUBSET {"ENOTCONN", "EPIPE"} : RetryingWrite(E)
    BY <1>0, <2>3 DEF RetryingWrite
  <2>4. CASE FastOpenConnect_sendto
    BY <2>4 DEF FastOpenConnect_sendto
  <2>5. CASE FastOpenConnect_adopt
    BY <2>5 DEF FastOpenConnect_adopt, AdoptFails, Tell
  <2>6. CASE FastOpenConnecting_arm
    BY <2>6 DEF FastOpenConnecting_arm, FastOpenConnecting_ready, poll_write_ready,
       FastOpenConnecting_take_error
  <2>7. CASE FastOpenWrite_ready \/ FastOpenWrite_match
    BY <2>7 DEF FastOpenWrite_ready, poll_write_ready, FastOpenWrite_match, ReturnOk, Tell
  <2>8. CASE FastOpenWrite_send
    BY <2>8 DEF FastOpenWrite_send
  <2> QED
    BY <1>1, <2>1, <2>2, <2>3, <2>4, <2>5, <2>6, <2>7, <2>8
    DEF WriteStep, FastOpenConnect_arm, FastOpenWrite_arm
<1>2. CASE OtherStep
  <2>1. CASE ConnectFails \/ from \/ ReturnConnecting
    BY <2>1 DEF ConnectFails, from, ReturnConnecting
  <2>2. CASE poll_read
    BY <2>2 DEF poll_read, TokioPollRead, Panic
  <2>3. CASE accessor \/ Use \/ Terminated
    BY <2>3 DEF accessor, Panic, Use, Resume, Rest, Submit, Terminated, armVars
  <2>4. CASE External
    BY <2>4 DEF External, Outside, Network, Executor, HandshakeOk, Break, PeerSends, Drain,
       Deliver, RunTask
  <2>5. CASE \E A \in SUBSET Phases : poll_shutdown(A)
    BY <2>5 DEF poll_shutdown
  <2> QED
    BY <1>2, <2>1, <2>2, <2>3, <2>4, <2>5 DEF OtherStep
<1> QED
  BY <1>1, <1>2 DEF ArmStep

LEMMA ReportedStutter == FailureReported /\ UNCHANGED armVars => FailureReported'
  BY DEF FailureReported, armVars, sockVars, userVars

-----------------------------------------------------------------------------
(* Established is for good.                                                 *)

\* Only a Connected stream leaves the state FastOpenConnect.
StageOK ==
  /\ stream \in {"Absent", "Connecting"} => state = "FastOpenConnect"
  /\ pc \in {"soerr", "send", "match"} => stream = "Connected"

OpenInv == StageOK /\ EstablishedMeansOpen

LEMMA OpenInit == ArmsInit => OpenInv
  BY DEF ArmsInit, OpenInv, StageOK, EstablishedMeansOpen

LEMMA OpenStep == CallOK /\ OpenInv /\ ArmStep => OpenInv'
<1> SUFFICES ASSUME CallOK, OpenInv, ArmStep PROVE OpenInv'
  OBVIOUS
<1> USE DEF OpenInv, StageOK, EstablishedMeansOpen, EndCall, sockVars, streamVars, callVars
<1>1. CASE WriteStep
  <2>1. CASE poll_write \/ unreachable
    BY <2>1 DEF poll_write, unreachable, Panic
  <2>2. CASE \E s \in States : PassOn(s)
    BY <2>2 DEF PassOn, WritePends, WriteTakes, WriteFails
  <2>3. CASE \E E \in SUBSET {"ENOTCONN", "EPIPE"} : RetryingWrite(E)
    BY <2>3 DEF RetryingWrite, WritePends, WriteTakes, WriteFails, CanSend
  <2>4. CASE FastOpenConnect_sendto
    BY <2>4 DEF FastOpenConnect_sendto
  <2>5. CASE FastOpenConnect_adopt
    <3>1. stream = "Connecting"
      BY <2>5 DEF FastOpenConnect_adopt, CallOK
    <3> QED
      BY <2>5, <3>1 DEF FastOpenConnect_adopt, Adopt, AdoptFails
  <2>6. CASE FastOpenConnecting_arm
    BY <2>6 DEF FastOpenConnecting_arm, FastOpenConnecting_ready, poll_write_ready,
       FastOpenConnecting_take_error, Checked
  <2>7. CASE FastOpenWrite_ready \/ FastOpenWrite_match
    BY <2>7 DEF FastOpenWrite_ready, poll_write_ready, FastOpenWrite_match
  <2>8. CASE FastOpenWrite_send
    BY <2>8 DEF FastOpenWrite_send
  <2> QED
    BY <1>1, <2>1, <2>2, <2>3, <2>4, <2>5, <2>6, <2>7, <2>8
    DEF WriteStep, FastOpenConnect_arm, FastOpenWrite_arm
<1>2. CASE OtherStep
  <2>1. CASE ConnectFails \/ from \/ (pc = "probe" /\ ReturnConnecting)
    <3>1. CASE ConnectFails
      BY <3>1 DEF ConnectFails, CallOK
    <3>2. CASE from
      BY <3>2 DEF from
    <3>3. CASE pc = "probe" /\ ReturnConnecting
      BY <3>3 DEF ReturnConnecting, CallOK
    <3> QED
      BY <2>1, <3>1, <3>2, <3>3
  <2>2. CASE poll_read
    BY <2>2 DEF poll_read, TokioPollRead, Panic
  <2>3. CASE accessor \/ Use \/ Terminated
    BY <2>3 DEF accessor, Panic, Use, Resume, Rest, Submit, Terminated, armVars
  <2>4. CASE External
    BY <2>4 DEF External, Outside, Network, Executor, HandshakeOk, Break, PeerSends, Drain,
       Deliver, RunTask
  <2>5. CASE \E A \in SUBSET Phases : poll_shutdown(A)
    BY <2>5 DEF poll_shutdown
  <2> QED
    BY <1>2, <2>1, <2>2, <2>3, <2>4, <2>5 DEF OtherStep
<1> QED
  BY <1>1, <1>2 DEF ArmStep

LEMMA OpenStutter == OpenInv /\ UNCHANGED armVars => OpenInv'
  BY DEF OpenInv, StageOK, EstablishedMeansOpen, armVars, sockVars, streamVars, callVars

-----------------------------------------------------------------------------
(* The stream implements FastOpenStream.                                    *)

AbstractStep == [FOS!Next]_(FOS!vars)
ImplInv == BytesInv /\ EventInv

\* What the refinement maps the phases and the calls to.
LEMMA ConnIs ==
  ASSUME phase \in Phases
  PROVE  /\ Conn = "unsent" <=> phase \in {"new", "deferred"}
         /\ Conn = "sent" <=> phase \in {"syn", "fastsyn"}
         /\ Conn = "open" <=> phase = "est"
         /\ Conn = "broken" <=> phase \in {"dead", "closed"}
  BY DEF Conn, Phases

LEMMA ConnNext ==
  ASSUME phase' \in Phases
  PROVE  /\ Conn' = "unsent" <=> phase' \in {"new", "deferred"}
         /\ Conn' = "sent" <=> phase' \in {"syn", "fastsyn"}
         /\ Conn' = "open" <=> phase' = "est"
         /\ Conn' = "broken" <=> phase' \in {"dead", "closed"}
  BY DEF Conn, Phases

LEMMA ConnSame == UNCHANGED phase => UNCHANGED Conn
  BY DEF Conn

\* Only fut["W"] and ret matter to Write.
LEMMA WriteIs ==
  /\ fut["W"] \in {"due", "parked"} /\ ret = "ok" => Write = "taken"
  /\ fut["W"] \in {"due", "parked"} /\ ret # "ok" => Write = "pending"
  /\ fut["W"] \notin {"due", "parked"} => Write = "none"
  BY DEF Write, Waiting

LEMMA WriteNext ==
  /\ fut'["W"] \in {"due", "parked"} /\ ret' = "ok" => Write' = "taken"
  /\ fut'["W"] \in {"due", "parked"} /\ ret' # "ok" => Write' = "pending"
  /\ fut'["W"] \notin {"due", "parked"} => Write' = "none"
  BY DEF Write, Waiting

\* A step that is none of FastOpenStream's.
LEMMA AbstractStutter ==
  UNCHANGED <<Conn, Write, wire, accepted>> => AbstractStep
  BY DEF AbstractStep, FOS!vars

\* A write that ends without having taken anything.
LEMMA AbstractFail ==
  ASSUME ret # "ok", fut["W"] \in {"due", "parked"}, fut'["W"] \notin {"due", "parked"},
         UNCHANGED <<phase, wire, accepted>>
  PROVE  AbstractStep
  BY ConnSame, WriteIs, WriteNext DEF AbstractStep, FOS!Next, FOS!Fail

\* A connection that ends, outside poll_write.
LEMMA AbstractBreak ==
  ASSUME phase \in Phases, phase' \in {"dead", "closed"},
         UNCHANGED <<Write, wire, accepted>>
  PROVE  AbstractStep
<1>1. Conn' = "broken"
  BY ConnNext DEF Phases
<1>2. CASE Conn = "broken"
  BY <1>1, <1>2, AbstractStutter
<1>3. CASE Conn # "broken"
  BY <1>1, <1>3 DEF AbstractStep, FOS!Next, FOS!Break
<1> QED
  BY <1>2, <1>3

\* tokio's poll_write waits, takes bytes and tells of them, or fails.
LEMMA AbstractTokioWrite ==
  ASSUME ImplInv, stream = "Connected", pc = "top", WritePends \/ WriteTakes(buf) \/ WriteFails,
         ret' = "none"
  PROVE  AbstractStep
<1>0. /\ fut["W"] = "due" /\ ret = "none" /\ wire = accepted
      /\ fut \in [Futures -> {"idle", "awake", "due", "parked", "done"}]
      /\ wire \in Nat /\ accepted \in Nat /\ buf \in Nat /\ phase \in Phases
  BY DEF ImplInv, BytesInv, CallOK, ExactlyOnce, TypeOK, TokioTypeOK, ArmTypeOK,
         EventInv, TaskInv, TasksOK, Polling
<1>1. CASE WritePends
  <2>1. UNCHANGED <<phase, wire, accepted>> /\ fut'["W"] = "parked"
    BY <1>0, <1>1 DEF WritePends, Park, Futures, sockVars, userVars
  <2> QED
    BY <1>0, <2>1, ConnSame, WriteIs, WriteNext, AbstractStutter
<1>2. CASE WriteTakes(buf)
  <2>1. PICK n \in Taken(buf) : wire' = wire + n /\ accepted' = accepted + n
    BY <1>2 DEF WriteTakes
  <2>2. n \in Nat
    BY <1>0 DEF Taken
  <2>3. phase = "est" /\ UNCHANGED phase /\ fut'["W"] = "awake"
    BY <1>0, <1>2 DEF WriteTakes, CanSend, Return, Futures
  <2>4. Conn = "open" /\ UNCHANGED Conn /\ Write = "pending" /\ Write' = "none"
    BY <1>0, <2>3, ConnIs, ConnSame, WriteIs, WriteNext
  <2>5. FOS!TakeAndTell
    BY <1>0, <2>1, <2>2, <2>4 DEF FOS!TakeAndTell
  <2> QED
    BY <2>5 DEF AbstractStep, FOS!Next
<1>3. CASE WriteFails
  BY <1>0, <1>3, AbstractFail DEF WriteFails, Return, Futures
<1> QED
  BY <1>1, <1>2, <1>3

\* What the steps below need of the invariant.
LEMMA ImplTypes ==
  ASSUME ImplInv
  PROVE  /\ fut \in [Futures -> {"idle", "awake", "due", "parked", "done"}]
         /\ wire \in Nat /\ accepted \in Nat /\ buf \in Nat /\ cnt \in Nat /\ phase \in Phases
         /\ pc \in Polling => fut["W"] = "due"
         /\ pc \notin {"match", "adopt"} => ret = "none"
  BY DEF ImplInv, BytesInv, CallOK, TypeOK, TokioTypeOK, ArmTypeOK, EventInv, TaskInv, TasksOK

\* sendto and send put the SYN or the bytes on the wire, the match tells of
\* the bytes once.
LEMMA AbstractSendto == ImplInv /\ FastOpenConnect_sendto => AbstractStep
<1> SUFFICES ASSUME ImplInv, FastOpenConnect_sendto PROVE AbstractStep
  OBVIOUS
<1> USE ImplTypes DEF FastOpenConnect_sendto, Polling, execVars, userVars
<1>1. phase = "new" /\ fut["W"] = "due" /\ ret = "none" /\ UNCHANGED <<fut, accepted>>
  BY DEF ImplInv, EventInv, PhaseOK
<1>2. Conn = "unsent" /\ Write = "pending"
  BY <1>1, ConnIs, WriteIs
<1>3. CASE \E n \in 1..buf : ret' = "ok" /\ cnt' = n /\ wire' = wire + n /\ phase' = "fastsyn"
  <2>1. wire' > wire
    BY <1>3
  <2>2. Conn' = "sent" /\ Write' = "taken"
    BY <1>1, <1>3, ConnNext, WriteNext DEF Phases
  <2> QED
    BY <1>1, <1>2, <2>1, <2>2 DEF AbstractStep, FOS!Next, FOS!SynData
<1>4. CASE ret' = "inprogress" /\ phase' = "syn" /\ UNCHANGED <<wire, cnt>>
  <2>1. Conn' = "sent" /\ Write' = "pending"
    BY <1>1, <1>4, ConnNext, WriteNext DEF Phases
  <2> QED
    BY <1>1, <1>2, <1>4, <2>1 DEF AbstractStep, FOS!Next, FOS!Syn
<1>5. CASE SendtoFailed /\ UNCHANGED <<phase, wire>>
  BY <1>1, <1>2, <1>5, ConnSame, WriteNext, AbstractStutter DEF SendtoFailed
<1> QED
  BY <1>3, <1>4, <1>5

LEMMA AbstractTell ==
  ASSUME ImplInv, fut["W"] = "due", ret = "ok", stream # "Empty",
         fut'["W"] = "awake", accepted' = accepted + cnt, UNCHANGED <<phase, wire>>
  PROVE  AbstractStep
<1>1. Write = "taken" /\ Write' = "none"
  BY WriteIs, WriteNext
<1>2. accepted' = wire
  BY ImplTypes DEF ImplInv, BytesInv, ExactlyOnce
<1> QED
  BY <1>1, <1>2, ConnSame DEF AbstractStep, FOS!Next, FOS!Tell

LEMMA AbstractAdopt == ImplInv /\ FastOpenConnect_adopt => AbstractStep
<1> SUFFICES ASSUME ImplInv, FastOpenConnect_adopt PROVE AbstractStep
  OBVIOUS
<1> USE ImplTypes DEF FastOpenConnect_adopt, Polling, Futures, sockVars, userVars, Return, EndCall
<1>1. pc = "adopt" /\ fut["W"] = "due" /\ stream = "Connecting"
  BY DEF ImplInv, BytesInv, CallOK
<1>2. CASE ret = "ok" /\ fut' = [fut EXCEPT !["W"] = "awake"] /\ Tell(cnt) /\ UNCHANGED sockVars
  BY <1>1, <1>2, AbstractTell DEF Tell
<1>3. CASE ret = "inprogress" /\ ret' = "none" /\ UNCHANGED <<sockVars, fut, userVars>>
  BY <1>1, <1>3, ConnSame, WriteIs, WriteNext, AbstractStutter
<1>4. CASE AdoptFails
  <2>1. Write # "none" /\ Write' = "none" /\ UNCHANGED <<wire, accepted>>
    BY <1>1, <1>4, WriteIs, WriteNext DEF AdoptFails
  <2>2. Conn' = "broken"
    BY <1>4, ConnNext DEF AdoptFails, Phases
  <2> QED
    BY <2>1, <2>2 DEF AbstractStep, FOS!Next, FOS!Lose
<1>5. CASE ret = "err" /\ Return("W") /\ UNCHANGED <<sockVars, userVars>>
  BY <1>1, <1>5, AbstractFail
<1> QED
  BY <1>2, <1>3, <1>4, <1>5

LEMMA AbstractSend == ImplInv /\ FastOpenWrite_send => AbstractStep
<1> SUFFICES ASSUME ImplInv, FastOpenWrite_send PROVE AbstractStep
  OBVIOUS
<1>1. fut["W"] = "due" /\ ret = "none" /\ UNCHANGED <<fut, accepted>>
  BY ImplTypes DEF FastOpenWrite_send, Polling, execVars
<1>2. Write = "pending" /\ (ret' = "ok" => Write' = "taken") /\ (ret' # "ok" => Write' = "pending")
  BY <1>1, WriteIs, WriteNext
<1>3. CASE ret' = "ok" /\ phase = "deferred"
  <2>1. wire' > wire /\ phase' = "fastsyn"
    BY <1>3, ImplTypes DEF FastOpenWrite_send
  <2>2. Conn = "unsent" /\ Conn' = "sent"
    BY <1>3, <2>1, ConnIs, ConnNext DEF Phases
  <2> QED
    BY <1>1, <1>2, <1>3, <2>1, <2>2 DEF AbstractStep, FOS!Next, FOS!SynData
<1>4. CASE ret' = "ok" /\ phase # "deferred"
  <2>1. PICK n \in Taken(buf) : wire' = wire + n
    BY <1>4 DEF FastOpenWrite_send
  <2>2. wire' >= wire
    BY <2>1, ImplTypes DEF Taken
  <2>3. phase = "est" /\ UNCHANGED phase
    BY <1>4 DEF FastOpenWrite_send, CanSend
  <2>4. Conn = "open" /\ UNCHANGED Conn
    BY <2>3, ConnIs, ConnSame, ImplTypes
  <2> QED
    BY <1>1, <1>2, <1>4, <2>2, <2>4 DEF AbstractStep, FOS!Next, FOS!Take
<1>5. CASE ret' = "inprogress"
  <2>1. phase = "deferred" /\ phase' = "syn" /\ UNCHANGED wire
    BY <1>5 DEF FastOpenWrite_send
  <2>2. Conn = "unsent" /\ Conn' = "sent"
    BY <2>1, ConnIs, ConnNext DEF Phases
  <2> QED
    BY <1>1, <1>2, <1>5, <2>1, <2>2 DEF AbstractStep, FOS!Next, FOS!Syn
<1>6. CASE ret' \in {"again", "err"}
  <2>1. UNCHANGED <<phase, wire>>
    BY <1>6 DEF FastOpenWrite_send
  <2> QED
    BY <1>1, <1>2, <1>6, <2>1, ConnSame, AbstractStutter
<1> QED
  BY <1>3, <1>4, <1>5, <1>6 DEF FastOpenWrite_send

LEMMA AbstractMatch == ImplInv /\ FastOpenWrite_match => AbstractStep
<1> SUFFICES ASSUME ImplInv, FastOpenWrite_match PROVE AbstractStep
  OBVIOUS
<1> USE ImplTypes DEF FastOpenWrite_match, Polling, Futures, sockVars, userVars, execVars, Return, EndCall
<1>1. pc = "match" /\ fut["W"] = "due" /\ stream # "Empty" /\ UNCHANGED <<phase, wire>>
  BY DEF ImplInv, EventInv, RegOK
<1>2. CASE ret = "ok" /\ ReturnOk(cnt)
  BY <1>1, <1>2, AbstractTell DEF ReturnOk, Tell
<1>3. CASE ret \in {"inprogress", "again"} /\ ret' = "none" /\ UNCHANGED <<execVars, userVars>>
  BY <1>1, <1>3, ConnSame, WriteIs, WriteNext, AbstractStutter
<1>4. CASE ret = "err" /\ Return("W") /\ UNCHANGED userVars
  BY <1>1, <1>4, AbstractFail
<1> QED
  BY <1>2, <1>3, <1>4

LEMMA AbstractWrite == ImplInv /\ WriteStep => AbstractStep
<1> SUFFICES ASSUME ImplInv, WriteStep PROVE AbstractStep
  OBVIOUS
<1> USE ImplTypes DEF Polling, Futures, EndCall, Return, sockVars, userVars, execVars
<1>1. CASE poll_write
  BY <1>1, ConnSame, WriteIs, WriteNext, AbstractStutter DEF poll_write
<1>2. CASE \E s \in States : PassOn(s)
  BY <1>2, AbstractTokioWrite DEF PassOn
<1>3. CASE \E E \in SUBSET {"ENOTCONN", "EPIPE"} : RetryingWrite(E)
  <2>1. PICK E : RetryingWrite(E)
    BY <1>3
  <2>2. stream = "Connected" /\ pc = "top" /\ fut["W"] = "due" /\ ret = "none"
    BY <2>1 DEF RetryingWrite
  <2>3. CASE ret' = "none" /\ (WritePends \/ WriteTakes(buf) \/ WriteFails)
    BY <2>2, <2>3, AbstractTokioWrite
  <2>4. CASE UNCHANGED <<sockVars, execVars, userVars, callVars>>
    BY <2>2, <2>4, ConnSame, WriteIs, WriteNext, AbstractStutter DEF callVars
  <2>5. CASE Return("W") /\ UNCHANGED <<sockVars, userVars>>
    BY <2>2, <2>5, AbstractFail
  <2> QED
    BY <2>1, <2>2, <2>3, <2>4, <2>5 DEF RetryingWrite
<1>4. CASE FastOpenConnecting_ready \/ FastOpenWrite_ready
  <2>1. pc = "top" /\ UNCHANGED <<sockVars, userVars, ret>> /\ fut'["W"] \in {"due", "parked"}
    BY <1>4 DEF FastOpenConnecting_ready, FastOpenWrite_ready, poll_write_ready, Park
  <2> QED
    BY <2>1, ConnSame, WriteIs, WriteNext, AbstractStutter
<1>5. CASE FastOpenConnecting_take_error
  <2>1. pc = "soerr" /\ UNCHANGED <<phase, wire, accepted>>
    BY <1>5 DEF FastOpenConnecting_take_error
  <2>2. CASE fut'["W"] = "awake"
    BY <2>1, <2>2, AbstractFail
  <2>3. CASE UNCHANGED <<execVars, ret>>
    BY <2>1, <2>3, ConnSame, WriteIs, WriteNext, AbstractStutter
  <2> QED
    BY <1>5, <2>2, <2>3 DEF FastOpenConnecting_take_error
<1>6. CASE unreachable
  <2>1. pc = "top" /\ fut'["W"] = "done" /\ UNCHANGED <<sockVars, userVars>>
    BY <1>6 DEF unreachable, Panic
  <2> QED
    BY <2>1, AbstractFail
<1> QED
  BY <1>1, <1>2, <1>3, <1>4, <1>5, <1>6, AbstractSendto, AbstractAdopt, AbstractSend, AbstractMatch
  DEF WriteStep, FastOpenConnect_arm, FastOpenConnecting_arm, FastOpenWrite_arm

\* The code that owns the write future begins a call, or drops one.
LEMMA AbstractUse == ImplInv /\ Use => AbstractStep
<1> SUFFICES ASSUME ImplInv, Use PROVE AbstractStep
  OBVIOUS
<1>1. UNCHANGED <<phase, wire, accepted, ret, pc>>
  BY DEF Use, Resume, Rest, Submit, sockVars, userVars
<1>2. fut["W"] # "due" => ret = "none"
  BY ImplTypes DEF Polling
<1>3. CASE fut'["W"] = fut["W"] \/ (fut["W"] = "parked" /\ fut'["W"] = "due")
           \/ {fut["W"], fut'["W"]} \subseteq {"idle", "awake", "done"}
  BY <1>1, <1>3, ConnSame, WriteIs, WriteNext, AbstractStutter
<1>4. CASE fut["W"] = "parked" /\ fut'["W"] = "awake"
  BY <1>1, <1>2, <1>4, AbstractFail
<1>5. CASE fut["W"] = "awake" /\ fut'["W"] = "due"
  <2>1. Write = "none" /\ Write' = "pending"
    BY <1>1, <1>2, <1>5, WriteIs, WriteNext
  <2> QED
    BY <1>1, <2>1, ConnSame DEF AbstractStep, FOS!Next, FOS!Begin
<1> QED
  BY <1>3, <1>4, <1>5, ImplTypes DEF Use, Resume, Rest, Submit, Due, Futures

\* The network opens the connection or breaks it; the driver and the executor
\* only move wake-ups.
LEMMA AbstractExternal == ImplInv /\ External => AbstractStep
<1> SUFFICES ASSUME ImplInv, External PROVE AbstractStep
  OBVIOUS
<1> USE ImplTypes DEF External, Outside, callVars, userVars, execVars
<1>0. UNCHANGED <<ret, pc>>
  OBVIOUS
<1>1. CASE HandshakeOk
  <2>1. phase \in {"syn", "fastsyn"} /\ phase' = "est" /\ UNCHANGED <<wire, accepted, fut>>
    BY <1>1 DEF HandshakeOk, Opening
  <2>2. UNCHANGED Write
    BY <1>0, <2>1 DEF Write, Waiting
  <2>3. Conn = "sent" /\ Conn' = "open"
    BY <2>1, ConnIs, ConnNext DEF Phases
  <2> QED
    BY <2>1, <2>2, <2>3 DEF AbstractStep, FOS!Next, FOS!Establish
<1>2. CASE Break
  <2>1. phase' = "dead" /\ UNCHANGED <<wire, accepted, fut>>
    BY <1>2 DEF Break
  <2>2. UNCHANGED Write
    BY <1>0, <2>1 DEF Write, Waiting
  <2> QED
    BY <2>1, <2>2, AbstractBreak
<1>3. CASE PeerSends \/ Drain \/ Deliver
  <2>1. UNCHANGED <<phase, wire, accepted, fut>>
    BY <1>3 DEF PeerSends, Drain, Deliver, sockVars
  <2> QED
    BY <1>0, <2>1, ConnSame, AbstractStutter DEF Write, Waiting
<1>4. CASE \E t \in Tasks : RunTask(t)
  <2>1. UNCHANGED <<phase, wire, accepted>>
        /\ (fut'["W"] = fut["W"] \/ (fut["W"] = "parked" /\ fut'["W"] = "due"))
    BY <1>4 DEF RunTask, Due, Futures, sockVars
  <2> QED
    BY <1>0, <2>1, ConnSame, WriteIs, WriteNext, AbstractStutter
<1> QED
  BY <1>1, <1>2, <1>3, <1>4 DEF Network, Executor

LEMMA AbstractOther == ImplInv /\ OtherStep => AbstractStep
<1> SUFFICES ASSUME ImplInv, OtherStep PROVE AbstractStep
  OBVIOUS
<1>1. CASE ConnectFails
  <2>1. phase' = "closed" /\ UNCHANGED <<wire, accepted, fut, ret>>
    BY <1>1 DEF ConnectFails, TakeError, execVars
  <2>2. UNCHANGED Write
    BY <2>1 DEF Write, Waiting
  <2> QED
    BY <2>1, <2>2, AbstractBreak, ImplTypes
<1>2. CASE from
  <2>1. phase = "new" /\ phase' = "est" /\ UNCHANGED <<wire, accepted, fut, ret>>
    BY <1>2 DEF from, ImplInv, EventInv, PhaseOK, execVars, userVars, callVars
  <2>2. UNCHANGED Write
    BY <2>1 DEF Write, Waiting
  <2>3. Conn = "unsent" /\ Conn' = "open"
    BY <2>1, ConnIs, ConnNext DEF Phases
  <2> QED
    BY <2>1, <2>2, <2>3 DEF AbstractStep, FOS!Next, FOS!Wrap
<1>3. CASE ReturnConnecting \/ Terminated
  <2>1. UNCHANGED <<phase, wire, accepted, fut, ret>>
    BY <1>3 DEF ReturnConnecting, Terminated, armVars, sockVars, userVars, execVars, callVars
  <2> QED
    BY <2>1, ConnSame, AbstractStutter DEF Write, Waiting
<1>4. CASE poll_read \/ accessor
  <2>1. /\ pc = "none" /\ ret' \in {ret, "none"} /\ UNCHANGED <<phase, wire, accepted>>
        /\ fut'["W"] = fut["W"] \/ (fut["W"] = "awake" /\ fut'["W"] = "done")
    BY <1>4, ImplTypes DEF poll_read, accessor, Panic, EndCall, TokioPollRead, Park, Return, TakeError,
       Futures, sockVars, userVars, callVars
  <2>2. ret = "none" /\ ret' = "none"
    BY <2>1, ImplTypes
  <2> QED
    BY <2>1, <2>2, ConnSame, WriteIs, WriteNext, AbstractStutter DEF Write, Waiting
<1>5. CASE \E A \in SUBSET Phases : poll_shutdown(A)
  <2>1. UNCHANGED <<wire, accepted, fut, ret>> /\ (UNCHANGED phase \/ phase' = "dead")
    BY <1>5 DEF poll_shutdown, execVars, userVars, callVars
  <2>2. UNCHANGED Write
    BY <2>1 DEF Write, Waiting
  <2> QED
    BY <2>1, <2>2, ConnSame, AbstractStutter, AbstractBreak, ImplTypes
<1> QED
  BY <1>1, <1>2, <1>3, <1>4, <1>5, AbstractUse, AbstractExternal DEF OtherStep

LEMMA AbstractInit == ArmsInit => FOS!Init
  BY ConnIs, WriteIs DEF ArmsInit, TokioInit, FOS!Init, Phases, Futures

LEMMA AbstractArm == ImplInv /\ ArmStep => AbstractStep
  BY AbstractWrite, AbstractOther DEF ArmStep
=============================================================================
