----------------------------- MODULE MacProofs -----------------------------
(* Theorems about macos.rs for any number of tasks and bytes. *)
EXTENDS MacTfo, EventProofs

\* What macos.rs does beyond the shared arms.
MacStep == connect_with_socket \/ connect_fails \/ EstablishedFails

\* A step of the stream is a shared one, or one of macos.rs alone.
LEMMA MacNext == Next => ArmStep \/ MacStep
  BY DEF Next, inner_poll_read, poll_read, inner_poll_shutdown, Connecting_arm, Send_arm,
         PollWrite, Established_write, Connected_write,
         ArmStep, WriteStep, OtherStep, MacStep, Phases, States

\* Those keep the types.
LEMMA MacTypesStep == TypeOK /\ MacStep => TypeOK'
<1> SUFFICES ASSUME TokioTypeOK, ArmTypeOK, MacStep PROVE TokioTypeOK' /\ ArmTypeOK'
  BY DEF TypeOK
<1>1. ArmTypeOK'
  BY DEF MacStep, connect_with_socket, connect_fails, EstablishedFails, EndCall, ArmTypeOK,
         States, Streams, streamVars, callVars
<1>2. CASE connect_with_socket
  <2>1. edge' \subseteq {"R", "W", "HUP"}
    BY <1>2, LevelType DEF connect_with_socket, Register
  <2>2. TokioTypeOK'
    BY <1>2, <2>1 DEF connect_with_socket, Register, TokioTypeOK, Phases, execVars, userVars
  <2> QED
    BY <1>1, <2>2
<1>3. CASE connect_fails
  BY <1>1, <1>3 DEF connect_fails, TokioTypeOK, Phases, ioVars, execVars, userVars
<1>4. CASE EstablishedFails
  BY <1>1, <1>4 DEF EstablishedFails, Return, TokioTypeOK, Futures, sockVars, ioVars, userVars
<1> QED
  BY <1>2, <1>3, <1>4 DEF MacStep

\* They neither send nor tell.
LEMMA MacBytes == BytesInv /\ MacStep => BytesInv'
<1> SUFFICES ASSUME CallOK, ExactlyOnce, MacStep PROVE CallOK' /\ ExactlyOnce'
  BY MacTypesStep DEF BytesInv
<1> QED
  BY DEF MacStep, connect_with_socket, connect_fails, EstablishedFails, EndCall, CallOK,
         ExactlyOnce, streamVars, callVars, sockVars, userVars

LEMMA MacBytesInv == Spec => []BytesInv
<1>1. Init => BytesInv
  BY BytesInit DEF Init
<1>2. BytesInv /\ [Next]_armVars => BytesInv'
  BY MacNext, BytesStep, MacBytes, BytesStutter
<1> QED
  BY <1>1, <1>2, PTL DEF Spec

\* Every variable of the macOS stream keeps its type (macos.rs:23-37).
THEOREM MacTypes == Spec => []TypeOK
<1>1. BytesInv => TypeOK
  BY DEF BytesInv
<1> QED
  BY <1>1, MacBytesInv, PTL

\* On macOS, where ENOTCONN is retried, no byte is sent twice and none is left
\* untold (macos.rs:115-227).
THEOREM MacExactlyOnce == Spec => []ExactlyOnce
<1>1. BytesInv => ExactlyOnce
  BY DEF BytesInv
<1> QED
  BY <1>1, MacBytesInv, PTL

\* macos.rs leaves the futures with the tasks they have.
LEMMA MacTasks == TaskInv /\ MacStep => TaskInv'
<1> SUFFICES ASSUME TypeOK, TasksOK, MacStep PROVE TasksOK'
  BY MacTypesStep DEF TaskInv
<1> QED
  BY DEF MacStep, connect_with_socket, connect_fails, EstablishedFails, Return, EndCall, TypeOK,
         TokioTypeOK, TasksOK, Polling, Futures, streamVars, callVars, execVars

\* It parks nobody beyond the shared arms.
LEMMA MacParks ==
  ASSUME TaskInv, NEW f \in Futures, WaitOK(f), MacStep
  PROVE  WaitOK(f)'
<1>0. fut \in [Futures -> {"idle", "awake", "due", "parked", "done"}]
  BY DEF TaskInv, TypeOK, TokioTypeOK
<1>1. CASE connect_with_socket
  <2>1. fut'[f] = "idle"
    BY <1>1 DEF connect_with_socket, TaskInv, TasksOK, execVars
  <2> QED
    BY <2>1 DEF WaitOK, HasWaker, ParkedOK
<1>2. CASE connect_fails \/ EstablishedFails
  BY <1>0, <1>2, WakerKept, ParkedKept
  DEF connect_fails, EstablishedFails, Return, Futures, WaitOK, streamVars, ioVars, execVars
<1> QED
  BY <1>1, <1>2 DEF MacStep

-----------------------------------------------------------------------------
\* connectx registers a socket whose SYN is still to come.
LEMMA MacEvents == FreshInv /\ MacStep => Event' /\ FreshOK'
<1> SUFFICES ASSUME EventInv, FreshOK, MacStep PROVE Event' /\ FreshOK'
  BY DEF FreshInv
<1>0. /\ stream = "Absent" => \A f \in Futures : fut[f] = "idle"
      /\ stream = "Absent" /\ pc = "none" =>
           /\ state = "FastOpenConnect" /\ phase = "new" /\ ~reg
           /\ ~shut /\ ~inbox /\ edge = {} /\ ready = {}
  BY DEF EventInv, TaskInv, TasksOK, RegOK, PhaseOK
<1>1. CASE connect_with_socket
  <2> USE <1>0, <1>1 DEF connect_with_socket, EventInv, Register, execVars, callVars
  <2>1. RegOK' /\ Covered' /\ ClearOK' /\ ReadyOK'
    BY DEF RegOK, Covered, ClearOK, ReadyOK, IsReady
  <2>2. PhaseOK'
    BY LevelMembersNext DEF PhaseOK
  <2>3. FreshOK'
    BY DEF FreshOK, ConnectedMeansResolved, IsReady
  <2> QED
    BY <2>1, <2>2, <2>3 DEF Event
<1>2. CASE connect_fails
  <2> USE <1>0, <1>2 DEF connect_fails, EventInv, execVars, ioVars, streamVars
  <2>1. RegOK' /\ PhaseOK' /\ Covered' /\ ClearOK' /\ ReadyOK'
    BY DEF RegOK, PhaseOK, Covered, ClearOK, ReadyOK
  <2>2. FreshOK'
    BY DEF FreshOK, ConnectedMeansResolved
  <2> QED
    BY <2>1, <2>2 DEF Event
<1>3. CASE EstablishedFails
  <2>2. Event'
    BY <1>3, EventQuiet DEF EstablishedFails, Return, EndCall, sockVars, streamVars
  <2>3. FreshOK'
    BY <1>3 DEF EstablishedFails, EndCall, FreshOK, ConnectedMeansResolved, Resolved, IsReady,
       sockVars, ioVars, streamVars
  <2> QED
    BY <2>2, <2>3
<1> QED
  BY <1>1, <1>2, <1>3 DEF MacStep

LEMMA MacFresh == Spec => []FreshInv
<1>1. Init => FreshInv
  BY FreshInit DEF Init
<1>2. FreshInv /\ MacStep => FreshInv'
  BY MacEvents, MacTasks DEF FreshInv, EventInv, Event
<1>3. FreshInv /\ [Next]_armVars => FreshInv'
  BY <1>2, MacNext, FreshStep, FreshStutter
<1> QED
  BY <1>1, <1>3, PTL DEF Spec

\* On macOS too poll_write leaves the fast open states only once the SYN
\* carried data, the handshake is over or the write side is shut down
\* (macos.rs:155-168, 208-221).
THEOREM MacConnectedMeansResolved == Spec => []ConnectedMeansResolved
  BY MacFresh, FreshMeans, PTL

\* macos.rs has no TcpStreamOption: there is a tokio stream from the start.
Whole == stream \in {"Absent", "Connected"} /\ pc \notin {"probe", "adopt"}

LEMMA MacWhole == Spec => []Whole
<1>1. Init => Whole
  BY DEF Init, ArmsInit, Whole
<1>2. Whole /\ [Next]_armVars => Whole'
  <2> SUFFICES ASSUME Whole, [Next]_armVars PROVE Whole'
    OBVIOUS
  <2> USE DEF Whole, EndCall, streamVars, callVars
  <2>1. CASE connect_with_socket \/ connect_fails \/ from
    BY <2>1 DEF connect_with_socket, connect_fails, from
  <2>2. CASE inner_poll_read \/ inner_poll_shutdown \/ Use \/ Terminated \/ External
    BY <2>2 DEF inner_poll_read, inner_poll_shutdown, poll_shutdown, Use, Terminated, armVars,
       External, Outside
  <2>3. CASE poll_write \/ Established_write \/ Connected_write
    BY <2>3 DEF poll_write, Established_write, PassOn, EstablishedFails, Connected_write,
       RetryingWrite
  <2>4. CASE Connecting_arm \/ Send_arm
    BY <2>4 DEF Connecting_arm, FastOpenConnecting_arm, FastOpenConnecting_ready, poll_write_ready,
       FastOpenConnecting_take_error, Send_arm, FastOpenWrite_arm, FastOpenWrite_ready,
       FastOpenWrite_send, FastOpenWrite_match, ReturnOk
  <2>5. CASE UNCHANGED armVars
    BY <2>5 DEF armVars
  <2> QED
    BY <2>1, <2>2, <2>3, <2>4, <2>5 DEF Next, PollWrite
<1> QED
  BY <1>1, <1>2, PTL DEF Spec

\* So each half waits in tokio's slot, whichever tasks run them.
AllOK == \A f \in Futures : WaitOK(f)

LEMMA MacAllOK == Spec => []AllOK
<1>1. Init => AllOK
  BY WaitInit DEF Init, AllOK
<1>2. EventInv /\ Whole /\ AllOK /\ [Next]_armVars => AllOK'
  <2> SUFFICES ASSUME EventInv, Whole, AllOK, [Next]_armVars, NEW f \in Futures PROVE WaitOK(f)'
    BY DEF AllOK
  <2>1. WaitOK(f) /\ TaskInv /\ stream # "Connecting"
    BY DEF AllOK, EventInv, Whole
  <2> QED
    BY <2>1, MacNext, WaitStep, MacParks, WaitStutter
<1> QED
  BY <1>1, <1>2, MacFresh, MacWhole, PTL DEF Spec, FreshInv

\* Each half waits in tokio's slot of its own direction, so that a waker is
\* kept for whoever waits, be the halves in one task or in two
\* (macos.rs:108-168).
THEOREM MacParkedHasWaker == Spec => []ParkedHasWaker
<1>1. FreshInv /\ AllOK => ParkedHasWaker
  BY AllWait DEF FreshInv, AllOK
<1> QED
  BY <1>1, MacFresh, MacAllOK, PTL

\* No wake-up is lost on macOS, where a stream is registered before its SYN
\* goes out (macos.rs:76, 182-221).
THEOREM MacNoMissedEvent == Spec => []NoMissedEvent
<1>1. FreshInv /\ AllOK => NoMissedEvent
  BY AllWait DEF FreshInv, AllOK
<1> QED
  BY <1>1, MacFresh, MacAllOK, PTL

\* The macOS stream stops retrying only when the handshake is over
\* (macos.rs:124-127, 155-168).
THEOREM MacEstablishedMeansOpen == Spec => []EstablishedMeansOpen
<1>1. Init => OpenInv
  BY OpenInit DEF Init
<1>2. EventInv /\ CallOK /\ OpenInv /\ [Next]_armVars => OpenInv'
  <2>1. EventInv /\ OpenInv /\ MacStep => OpenInv'
    BY DEF MacStep, connect_with_socket, connect_fails, EstablishedFails, EndCall, OpenInv, StageOK,
       EstablishedMeansOpen, sockVars, streamVars, callVars, EventInv, RegOK, PhaseOK, TaskInv, TasksOK
  <2> QED
    BY <2>1, MacNext, OpenStep, OpenStutter
<1>3. BytesInv => CallOK
  BY DEF BytesInv
<1>4. OpenInv => EstablishedMeansOpen
  BY DEF OpenInv
<1> QED
  BY <1>1, <1>2, <1>3, <1>4, MacBytesInv, MacFresh, PTL DEF Spec, FreshInv

\* On macOS whoever clears SO_ERROR returns it to a caller (macos.rs:155-168).
THEOREM MacFailureReported == Spec => []FailureReported
<1>1. Init => FailureReported
  BY ReportedInit DEF Init
<1>2. FailureReported /\ MacStep => FailureReported'
  BY DEF MacStep, connect_with_socket, connect_fails, EstablishedFails, FailureReported, sockVars, userVars
<1>3. FailureReported /\ [Next]_armVars => FailureReported'
  BY <1>2, MacNext, ReportedStep, ReportedStutter
<1> QED
  BY <1>1, <1>3, PTL DEF Spec

\* The macOS stream implements FastOpenStream (macos.rs:52-82, 115-227).
THEOREM MacImplements == Spec => Refinement
<1>1. Init => FOS!Init
  BY AbstractInit DEF Init
<1>2. ImplInv /\ [Next]_armVars => AbstractStep
  <2>1. UNCHANGED armVars => UNCHANGED <<Conn, Write, wire, accepted>>
    BY DEF armVars, sockVars, userVars, execVars, callVars, Conn, Write, Waiting
  <2>2. ImplInv /\ connect_with_socket => AbstractStep
    <3>1. ASSUME ImplInv, connect_with_socket
          PROVE  /\ phase = "new" /\ phase' = "deferred"
                 /\ UNCHANGED <<wire, accepted, fut, ret>>
      BY <3>1 DEF connect_with_socket, ImplInv, EventInv, PhaseOK, execVars, userVars, callVars
    <3> QED
      BY <3>1, AbstractStutter DEF Conn, Write, Waiting
  <2>3. ImplInv /\ connect_fails => AbstractStep
    BY ImplTypes, AbstractBreak DEF connect_fails, userVars, execVars, Write, Waiting
  <2>4. ImplInv /\ EstablishedFails => AbstractStep
    BY ImplTypes, AbstractFail DEF EstablishedFails, Return, Futures, Polling, sockVars, userVars
  <2> QED
    BY <2>1, <2>2, <2>3, <2>4, MacNext, AbstractArm, AbstractStutter DEF MacStep
<1>3. Spec => []ImplInv
  BY MacFresh, MacBytesInv, PTL DEF FreshInv, ImplInv
<1> QED
  BY <1>1, <1>2, <1>3, PTL DEF Spec, Refinement, FOS!Spec, AbstractStep
=============================================================================
