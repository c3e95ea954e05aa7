--------------------------- MODULE FreeBsdProofs ---------------------------
(* Theorems about freebsd.rs for any number of tasks and bytes. *)
EXTENDS FreeBsdTfo, EventProofs

\* What freebsd.rs does beyond the shared arms.
FreeBsdStep == connect_with_socket \/ EstablishedFails

\* A step of the stream is a shared one, or one of freebsd.rs alone.
LEMMA FreeBsdNext == Next => ArmStep \/ FreeBsdStep
  BY DEF Next, Connect, connect_prepared, AsyncRead_poll_read, Accessors, Sendto_arm, Connecting_arm,
         Shutdown, PollWrite, Established_write, Connected_write,
         ArmStep, WriteStep, OtherStep, FreeBsdStep, Phases, States

\* Those keep the types.
LEMMA FreeBsdTypesStep == TypeOK /\ FreeBsdStep => TypeOK'
<1> SUFFICES ASSUME TokioTypeOK, ArmTypeOK, FreeBsdStep PROVE TokioTypeOK' /\ ArmTypeOK'
  BY DEF TypeOK
<1>1. TokioTypeOK'
  BY DEF FreeBsdStep, connect_with_socket, EstablishedFails, Return, TokioTypeOK,
         Futures, sockVars, ioVars, execVars, userVars
<1>2. ArmTypeOK'
  BY DEF FreeBsdStep, connect_with_socket, EstablishedFails, EndCall, ArmTypeOK, streamVars
<1> QED
  BY <1>1, <1>2

\* They neither send nor tell.
LEMMA FreeBsdBytes == BytesInv /\ FreeBsdStep => BytesInv'
<1> SUFFICES ASSUME CallOK, ExactlyOnce, FreeBsdStep PROVE CallOK' /\ ExactlyOnce'
  BY FreeBsdTypesStep DEF BytesInv
<1> QED
  BY DEF FreeBsdStep, connect_with_socket, EstablishedFails, EndCall, CallOK,
         ExactlyOnce, streamVars, sockVars, userVars

LEMMA FreeBsdBytesInv == Spec => []BytesInv
<1>1. Init => BytesInv
  BY BytesInit DEF Init
<1>2. BytesInv /\ [Next]_armVars => BytesInv'
  BY FreeBsdNext, BytesStep, FreeBsdBytes, BytesStutter
<1> QED
  BY <1>1, <1>2, PTL DEF Spec

\* Every variable of the FreeBSD stream keeps its type (freebsd.rs:53-57).
THEOREM FreeBsdTypes == Spec => []TypeOK
<1>1. BytesInv => TypeOK
  BY DEF BytesInv
<1> QED
  BY <1>1, FreeBsdBytesInv, PTL

\* Also on FreeBSD, where a write is retried after ENOTCONN and EPIPE, no byte
\* is sent twice and none is left untold (freebsd.rs:175-311).
THEOREM FreeBsdExactlyOnce == Spec => []ExactlyOnce
<1>1. BytesInv => ExactlyOnce
  BY DEF BytesInv
<1> QED
  BY <1>1, FreeBsdBytesInv, PTL

\* No poll and no accessor reaches an unreachable!(), but for the Empty stream
\* that a failed from_std leaves (freebsd.rs:46, 116, 169, 232, 255, 287).
THEOREM FreeBsdNoUnreachable == Spec => []NoUnreachable
<1>1. Init => ShapeInv
  BY ShapeInit DEF Init
<1>2. ShapeInv /\ FreeBsdStep => ShapeOK'
  BY DEF FreeBsdStep, connect_with_socket, EstablishedFails, Return, EndCall, ShapeInv, ShapeOK,
         NoUnreachable, Polling, Futures, streamVars, execVars
<1>3. ShapeInv /\ [Next]_armVars => ShapeInv'
  BY <1>2, FreeBsdNext, ShapeStep, ShapeStutter, FreeBsdTypesStep DEF ShapeInv
<1>4. ShapeInv => NoUnreachable
  BY DEF ShapeInv, ShapeOK
<1> QED
  BY <1>1, <1>3, <1>4, PTL DEF Spec

\* freebsd.rs leaves the futures with the tasks they have.
LEMMA FreeBsdTasks == TaskInv /\ FreeBsdStep => TaskInv'
<1> SUFFICES ASSUME TypeOK, TasksOK, FreeBsdStep PROVE TasksOK'
  BY FreeBsdTypesStep DEF TaskInv
<1> QED
  BY DEF FreeBsdStep, connect_with_socket, EstablishedFails, Return, EndCall, TypeOK, TokioTypeOK,
         TasksOK, Polling, Futures, streamVars, execVars

\* It parks nobody beyond the shared arms.
LEMMA FreeBsdParks ==
  ASSUME TaskInv, NEW f \in Futures, WaitOK(f), FreeBsdStep
  PROVE  WaitOK(f)'
<1>0. fut \in [Futures -> {"idle", "awake", "due", "parked", "done"}]
  BY DEF TaskInv, TypeOK, TokioTypeOK
<1> QED
  BY <1>0, WakerKept, ParkedKept
  DEF FreeBsdStep, connect_with_socket, EstablishedFails, Return, Futures, WaitOK,
      streamVars, ioVars, execVars

-----------------------------------------------------------------------------
\* sendto registers the socket; the arm Established returns what it found.
LEMMA FreeBsdEvents == Spec => []EventInv
<1>1. Init => EventInv
  BY EventInit DEF Init
<1>2. EventInv /\ FreeBsdStep => Event'
  <2> SUFFICES ASSUME EventInv, FreeBsdStep PROVE Event'
    OBVIOUS
  <2> USE EventTypes DEF EventInv, sockVars, ioVars, streamVars
  <2>1. CASE connect_with_socket
    BY <2>1, LevelSame DEF connect_with_socket, execVars, Event, RegOK, PhaseOK, Covered,
       ClearOK, ReadyOK
  <2>2. CASE EstablishedFails
    BY <2>2, EventQuiet DEF EstablishedFails, Return, EndCall
  <2> QED
    BY <2>1, <2>2 DEF FreeBsdStep
<1>3. EventInv /\ [Next]_armVars => EventInv'
  <2>1. EventInv /\ FreeBsdStep => EventInv'
    BY <1>2, FreeBsdTasks DEF EventInv, Event
  <2> QED
    BY <2>1, FreeBsdNext, EventStep, EventStutter
<1> QED
  BY <1>1, <1>3, PTL DEF Spec

\* Who keeps its waker: the writer always, the reader if its task is another.
SafeWait == \A f \in Futures : f = "W" \/ Apart => WaitOK(f)

LEMMA FreeBsdSafeWait == Spec => []SafeWait
<1>1. Init => SafeWait
  BY WaitInit DEF Init, SafeWait
<1>2. EventInv /\ SafeWait /\ [Next]_armVars => SafeWait'
  <2> SUFFICES ASSUME EventInv, SafeWait, [Next]_armVars, NEW f \in Futures, f = "W" \/ Apart
               PROVE  WaitOK(f)'
    BY DEF SafeWait
  <2>1. WaitOK(f) /\ TaskInv
    BY DEF SafeWait, EventInv
  <2> QED
    BY <2>1, FreeBsdNext, WaitStep, FreeBsdParks, WaitStutter
<1> QED
  BY <1>1, <1>2, FreeBsdEvents, PTL DEF Spec

\* With the halves in tasks of their own, nobody waits without a waker
\* (freebsd.rs:161-166, 263-268, 297-302).
THEOREM FreeBsdParkedHasWaker ==
  ASSUME Apart
  PROVE  Spec => []ParkedHasWaker
<1>1. EventInv /\ SafeWait => ParkedHasWaker
  BY AllWait DEF SafeWait
<1> QED
  BY <1>1, FreeBsdEvents, FreeBsdSafeWait, PTL

\* Nor is a wake-up lost: a retried write keeps the readiness it found, and
\* sendto is followed by the registration (freebsd.rs:189-200, 258, 292).
THEOREM FreeBsdNoMissedEvent ==
  ASSUME Apart
  PROVE  Spec => []NoMissedEvent
<1>1. EventInv /\ SafeWait => NoMissedEvent
  BY AllWait DEF SafeWait
<1> QED
  BY <1>1, FreeBsdEvents, FreeBsdSafeWait, PTL

\* The writer keeps its waker and its wake-ups whoever runs the reader: the
\* waker that freebsd.rs:263-268 and 297-302 do not wake is the reader's.
THEOREM FreeBsdWriterTold == Spec => []WriterTold
<1>1. EventInv /\ SafeWait => WriterTold
  BY WaitMeans DEF SafeWait, Futures, WriterTold
<1> QED
  BY <1>1, FreeBsdEvents, FreeBsdSafeWait, PTL

\* On FreeBSD whoever clears SO_ERROR returns it to a caller: the retry of a
\* write does not swallow it (freebsd.rs:189-200, 208-221).
THEOREM FreeBsdFailureReported == Spec => []FailureReported
<1>1. Init => FailureReported
  BY ReportedInit DEF Init
<1>2. FailureReported /\ FreeBsdStep => FailureReported'
  BY DEF FreeBsdStep, connect_with_socket, EstablishedFails, FailureReported, sockVars, userVars
<1>3. FailureReported /\ [Next]_armVars => FailureReported'
  BY <1>2, FreeBsdNext, ReportedStep, ReportedStutter
<1> QED
  BY <1>1, <1>3, PTL DEF Spec

\* The FreeBSD stream stops retrying only when the handshake is over
\* (freebsd.rs:184-187, 208-221).
THEOREM FreeBsdEstablishedMeansOpen == Spec => []EstablishedMeansOpen
<1>1. Init => OpenInv
  BY OpenInit DEF Init
<1>2. CallOK /\ OpenInv /\ [Next]_armVars => OpenInv'
  <2>1. OpenInv /\ FreeBsdStep => OpenInv'
    BY DEF FreeBsdStep, connect_with_socket, EstablishedFails, EndCall, OpenInv, StageOK,
       EstablishedMeansOpen, sockVars, streamVars
  <2> QED
    BY <2>1, FreeBsdNext, OpenStep, OpenStutter
<1>3. BytesInv => CallOK
  BY DEF BytesInv
<1>4. OpenInv => EstablishedMeansOpen
  BY DEF OpenInv
<1> QED
  BY <1>1, <1>2, <1>3, <1>4, FreeBsdBytesInv, PTL DEF Spec

\* While the fast open is under way and nobody shut the stream down, a write
\* of the state Connected does not end: ENOTCONN and EPIPE stay inside
\* poll_write (freebsd.rs:189-200).
THEOREM FreeBsdNoEarlyFailure == Spec => NoEarlyFailure
<1> DEFINE Quiet == pc = "top" /\ state = "Connected" /\ Opening /\ ~shut => fut'["W"] # "awake"
<1>1. EventInv /\ [Next]_armVars => [Quiet]_armVars
  <2> SUFFICES ASSUME EventInv, Next, pc = "top", state = "Connected", Opening, ~shut
               PROVE  fut'["W"] # "awake"
    OBVIOUS
  <2>0. fut["W"] = "due" /\ stream # "Absent"
        /\ fut \in [Futures -> {"idle", "awake", "due", "parked", "done"}]
    BY DEF EventInv, TaskInv, TypeOK, TokioTypeOK, TasksOK, Polling, Futures
  <2> USE <2>0 DEF Futures, execVars
  <2>1. CASE Connect
    BY <2>1 DEF Connect, connect_with_socket, connect_prepared, ConnectFails, from
  <2>2. CASE PollWrite
    <3>1. CASE RetryingWrite({"ENOTCONN", "EPIPE"})
      <4>1. ~(WriteTakes(buf) \/ WriteFails)
        BY DEF WriteTakes, WriteFails, CanSend, Broken, Opening
      <4>2. SendErrors \ {"ENOTCONN", "EPIPE"} = {}
        BY DEF SendErrors
      <4> QED
        BY <3>1, <4>1, <4>2 DEF RetryingWrite, WritePends, Park
    <3>2. CASE FastOpenConnect_adopt \/ FastOpenConnecting_take_error
      BY <3>2 DEF FastOpenConnect_adopt, FastOpenConnecting_take_error
    <3>3. CASE FastOpenConnect_sendto \/ FastOpenConnecting_ready \/ poll_write \/ unreachable
      BY <3>3 DEF FastOpenConnect_sendto, FastOpenConnecting_ready, poll_write, unreachable, Panic
    <3> QED
      BY <2>2, <3>1, <3>2, <3>3 DEF PollWrite, Established_write, PassOn, EstablishedFails,
         Connected_write, Sendto_arm, FastOpenConnect_arm, Connecting_arm, FastOpenConnecting_arm
  <2>3. CASE AsyncRead_poll_read \/ Shutdown \/ Accessors
    BY <2>3 DEF AsyncRead_poll_read, poll_read, Shutdown, poll_shutdown, Accessors, accessor
  <2>4. CASE Use \/ Terminated
    BY <2>4 DEF Use, Resume, Rest, Submit, Due, Terminated, armVars
  <2>5. CASE External
    BY <2>5 DEF External, Outside, Network, Executor, HandshakeOk, Break, PeerSends, Drain,
       Deliver, RunTask, Due
  <2> QED
    BY <2>1, <2>2, <2>3, <2>4, <2>5 DEF Next
<1> QED
  BY <1>1, FreeBsdEvents, PTL DEF Spec, NoEarlyFailure

\* The FreeBSD stream implements FastOpenStream: a retried write has sent
\* nothing, each write is answered once with what it took (freebsd.rs:175-311).
THEOREM FreeBsdImplements == Spec => Refinement
<1>1. Init => FOS!Init
  BY AbstractInit DEF Init
<1>2. ImplInv /\ [Next]_armVars => AbstractStep
  <2>1. UNCHANGED armVars => UNCHANGED <<Conn, Write, wire, accepted>>
    BY DEF armVars, sockVars, userVars, execVars, callVars, Conn, Write, Waiting
  <2>2. connect_with_socket => UNCHANGED <<Conn, Write, wire, accepted>>
    BY DEF connect_with_socket, sockVars, userVars, execVars, Conn, Write, Waiting
  <2>3. ImplInv /\ EstablishedFails => AbstractStep
    BY ImplTypes, AbstractFail DEF EstablishedFails, Return, Futures, Polling, sockVars, userVars
  <2> QED
    BY <2>1, <2>2, <2>3, FreeBsdNext, AbstractArm, AbstractStutter DEF FreeBsdStep
<1>3. Spec => []ImplInv
  BY FreeBsdEvents, FreeBsdBytesInv, PTL DEF ImplInv
<1> QED
  BY <1>1, <1>2, <1>3, PTL DEF Spec, Refinement, FOS!Spec, AbstractStep
=============================================================================
