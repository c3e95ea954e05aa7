---------------------------- MODULE LinuxProofs ----------------------------
(* Theorems about linux.rs for any number of tasks and bytes. *)
EXTENDS LinuxTfo, EventProofs

\* What linux.rs does beyond the shared arms: connect, and rival connects.
LinuxStep == connect_with_socket \/ connect_start \/ connect_done \/ rival_connect

\* A step of the stream is a shared one, or one of linux.rs alone.
LEMMA LinuxNext == Next => ArmStep \/ LinuxStep
  BY DEF Next, Connect, Stream, PollWrite, Connected_write, Shutdown, connect_unsupported,
         ArmStep, WriteStep, OtherStep, LinuxStep, Phases, States

\* The steps of connect keep the types.
LEMMA LinuxTypesStep == TypeOK /\ LinuxStep => TypeOK'
<1> SUFFICES ASSUME TokioTypeOK, ArmTypeOK, LinuxStep PROVE TokioTypeOK' /\ ArmTypeOK'
  BY DEF TypeOK
<1> USE DEF ArmTypeOK, Streams, States, streamVars, callVars, execVars, userVars
<1>1. CASE connect_start
  <2>1. edge' \subseteq {"R", "W", "HUP"}
    BY <1>1, LevelType DEF connect_start, Register
  <2>2. TokioTypeOK'
    BY <1>1, <2>1 DEF connect_start, Register, TokioTypeOK, Phases
  <2>3. ArmTypeOK'
    BY <1>1 DEF connect_start
  <2> QED
    BY <2>2, <2>3
<1>2. CASE connect_done
  <2>1. TokioTypeOK'
    BY <1>2 DEF connect_done, TokioTypeOK, sockVars, ioVars
  <2>2. ArmTypeOK'
    BY <1>2 DEF connect_done
  <2> QED
    BY <2>1, <2>2
<1>3. CASE connect_with_socket
  <2>1. TokioTypeOK'
    BY <1>3 DEF connect_with_socket, ReturnConnecting, TokioTypeOK, sockVars, ioVars
  <2>2. ArmTypeOK'
    BY <1>3 DEF connect_with_socket, ReturnConnecting
  <2> QED
    BY <2>1, <2>2
<1>4. CASE rival_connect
  BY <1>4 DEF rival_connect, armVars, TokioTypeOK, sockVars, ioVars
<1> QED
  BY <1>1, <1>2, <1>3, <1>4 DEF LinuxStep

\* They neither send nor tell.
LEMMA LinuxBytes == BytesInv /\ LinuxStep => BytesInv'
<1> SUFFICES ASSUME CallOK, ExactlyOnce, LinuxStep PROVE CallOK' /\ ExactlyOnce'
  BY LinuxTypesStep DEF BytesInv
<1> USE DEF CallOK, ExactlyOnce, streamVars, callVars, userVars, sockVars
<1>1. CASE connect_start
  BY <1>1 DEF connect_start
<1>2. CASE connect_done
  BY <1>2 DEF connect_done
<1>3. CASE connect_with_socket
  BY <1>3 DEF connect_with_socket, ReturnConnecting
<1>4. CASE rival_connect
  BY <1>4 DEF rival_connect, armVars
<1> QED
  BY <1>1, <1>2, <1>3, <1>4 DEF LinuxStep

LEMMA LinuxBytesInv == Spec => []BytesInv
<1>1. Init => BytesInv
  BY BytesInit DEF Init
<1>2. BytesInv /\ [Next]_vars => BytesInv'
  BY LinuxNext, BytesStep, LinuxBytes, BytesStutter DEF vars
<1> QED
  BY <1>1, <1>2, PTL DEF Spec

\* Every variable of the Linux stream keeps its type (linux.rs:53-58, 85).
THEOREM LinuxTypes == Spec => []LinuxTypeOK
<1> DEFINE Proc == modern \in BOOLEAN /\ support \in BOOLEAN
<1>1. Init => Proc
  BY DEF Init
<1>2. Proc /\ [Next]_vars => Proc'
  BY DEF Next, vars, procVars, Connect, Stream, connect_with_socket, connect_unsupported,
         connect_start, connect_done, rival_connect
<1>3. BytesInv /\ Proc => LinuxTypeOK
  BY DEF BytesInv, LinuxTypeOK
<1> QED
  BY <1>1, <1>2, <1>3, LinuxBytesInv, PTL DEF Spec

\* On Linux the writer is told of every byte the kernel took, once, whatever
\* the interleaving of the loop of poll_write with everything else
\* (linux.rs:200-361).
THEOREM LinuxExactlyOnce == Spec => []ExactlyOnce
<1>1. BytesInv => ExactlyOnce
  BY DEF BytesInv
<1> QED
  BY <1>1, LinuxBytesInv, PTL

\* Only connect makes a stream that will sendto.
LEMMA NoWayBack ==
  ASSUME Stream \/ ConnectFails \/ from, stream' = "Connecting"
  PROVE  stream = "Connecting"
<1> USE DEF streamVars, armVars
<1>1. CASE PollWrite
  BY <1>1 DEF PollWrite, poll_write, Connected_write, PassOn, FastOpenConnect_arm,
       FastOpenConnect_sendto, FastOpenConnect_adopt, Adopt, AdoptFails, FastOpenConnecting_arm,
       FastOpenConnecting_ready, poll_write_ready, FastOpenConnecting_take_error,
       FastOpenWrite_arm, FastOpenWrite_ready, FastOpenWrite_send, FastOpenWrite_match,
       unreachable, Panic
<1>2. CASE poll_read \/ Shutdown \/ accessor \/ Use \/ Terminated \/ External
  BY <1>2 DEF poll_read, Panic, accessor, Use, Terminated, External, Outside, Shutdown, poll_shutdown
<1> QED
  BY <1>1, <1>2 DEF Stream, ConnectFails, from

\* The sendto fallback is used on kernels without TCP_FASTOPEN_CONNECT only,
\* whatever other connects do to the shared flag (linux.rs:85-130).
THEOREM LinuxSupportSound == Spec => []SupportSound
<1>1. Init => SupportSound
  BY DEF Init, ArmsInit, SupportSound
<1>2. SupportSound /\ [Next]_vars => SupportSound'
  <2> SUFFICES ASSUME SupportSound, [Next]_vars PROVE SupportSound'
    OBVIOUS
  <2> USE DEF procVars
  <2>1. /\ modern' = modern
        /\ support' = support \/ ~modern
    BY DEF SupportSound, Next, vars, Connect, Stream, connect_with_socket,
         connect_unsupported, NoProtoOpt, connect_start, connect_done, rival_connect
  <2>2. ASSUME stream' = "Connecting" PROVE stream = "Connecting" \/ ~modern
    <3>1. CASE connect_with_socket
      BY <2>2, <3>1 DEF connect_with_socket, SupportSound, streamVars
    <3>2. CASE connect_unsupported
      BY <3>2 DEF connect_unsupported, NoProtoOpt
    <3>3. CASE connect_start \/ connect_done
      BY <2>2, <3>3 DEF connect_start, connect_done, streamVars
    <3>4. CASE rival_connect \/ UNCHANGED vars
      BY <2>2, <3>4 DEF rival_connect, vars, armVars, streamVars
    <3>5. CASE Stream \/ ConnectFails \/ from
      BY <2>2, <3>5, NoWayBack
    <3> QED
      BY <3>1, <3>2, <3>3, <3>4, <3>5 DEF Next, Connect
  <2> QED
    BY <2>1, <2>2 DEF SupportSound
<1> QED
  BY <1>1, <1>2, PTL DEF Spec

-----------------------------------------------------------------------------
\* connect gives the stream the state that goes with it.
LEMMA LinuxShape == ShapeInv /\ LinuxStep => ShapeOK'
<1> SUFFICES ASSUME ShapeInv, LinuxStep PROVE ShapeOK'
  OBVIOUS
<1> USE DEF ShapeInv, ShapeOK, NoUnreachable, Polling, Futures, streamVars, callVars, execVars
<1>1. CASE connect_with_socket
  BY <1>1 DEF connect_with_socket, ReturnConnecting
<1>2. CASE connect_start
  BY <1>2 DEF connect_start
<1>3. CASE connect_done
  BY <1>3 DEF connect_done
<1>4. CASE rival_connect
  BY <1>4 DEF rival_connect, armVars
<1> QED
  BY <1>1, <1>2, <1>3, <1>4 DEF LinuxStep

\* No poll and no accessor reaches an unreachable!(), but for the Empty stream
\* that a failed from_std leaves (linux.rs:47, 141, 194, 230, 253, 285, 383, 393).
THEOREM LinuxNoUnreachable == Spec => []NoUnreachable
<1>1. Init => ShapeInv
  BY ShapeInit DEF Init
<1>2. ShapeInv /\ [Next]_vars => ShapeInv'
  <2>1. ShapeInv /\ LinuxStep => ShapeInv'
    BY LinuxShape, LinuxTypesStep DEF ShapeInv
  <2> QED
    BY <2>1, LinuxNext, ShapeStep, ShapeStutter DEF vars
<1>3. ShapeInv => NoUnreachable
  BY DEF ShapeInv, ShapeOK
<1> QED
  BY <1>1, <1>2, <1>3, PTL DEF Spec

\* connect runs before there is a stream to poll.
LEMMA LinuxTasks == TaskInv /\ LinuxStep => TaskInv'
<1> SUFFICES ASSUME TaskInv, LinuxStep PROVE TasksOK'
  BY LinuxTypesStep DEF TaskInv
<1> USE DEF TaskInv, TasksOK, Polling, Futures, streamVars, callVars, execVars
<1>1. CASE connect_with_socket
  BY <1>1 DEF connect_with_socket, ReturnConnecting
<1>2. CASE connect_start
  BY <1>2 DEF connect_start
<1>3. CASE connect_done
  BY <1>3 DEF connect_done
<1>4. CASE rival_connect
  BY <1>4 DEF rival_connect, armVars
<1> QED
  BY <1>1, <1>2, <1>3, <1>4 DEF LinuxStep

\* So it parks nobody.
LEMMA LinuxParks ==
  ASSUME TaskInv, NEW f \in Futures, WaitOK(f), LinuxStep
  PROVE  WaitOK(f)'
<1>1. CASE connect_with_socket \/ connect_start \/ connect_done
  <2>1. stream = "Absent" /\ UNCHANGED fut
    BY <1>1 DEF connect_with_socket, ReturnConnecting, connect_start, connect_done, execVars,
       TaskInv, TasksOK
  <2>2. fut'[f] = "idle"
    BY <2>1 DEF TaskInv, TasksOK
  <2> QED
    BY <2>2 DEF WaitOK, HasWaker, ParkedOK
<1>2. CASE rival_connect
  BY <1>2, WaitStutter DEF rival_connect
<1> QED
  BY <1>1, <1>2 DEF LinuxStep

-----------------------------------------------------------------------------
\* connect registers the socket it returns, and with it what is true of it.
LEMMA LinuxEvents == FreshInv /\ LinuxStep => Event' /\ FreshOK'
<1> SUFFICES ASSUME EventInv, FreshOK, LinuxStep PROVE Event' /\ FreshOK'
  BY DEF FreshInv
<1>0. /\ stream = "Absent" => \A f \in Futures : fut[f] = "idle"
      /\ pc \in {"none", "probe", "await"} /\ stream = "Absent" => state = "FastOpenConnect"
      /\ pc = "await" => stream = "Absent"
  BY DEF EventInv, TaskInv, TasksOK, RegOK
<1> USE DEF execVars
<1>1. CASE connect_with_socket
  <2>1. /\ UNCHANGED <<sockVars, ioVars, execVars, state, ret>>
        /\ stream = "Absent" /\ pc = "none"
        /\ \/ pc' = "probe" /\ stream' = "Absent"
           \/ pc' = "none" /\ stream' = "Connecting"
    BY <1>1 DEF connect_with_socket, ReturnConnecting, streamVars, sockVars, ioVars
  <2> USE <1>0, <2>1 DEF EventInv, sockVars, ioVars
  <2>2. RegOK' /\ PhaseOK' /\ Covered' /\ ClearOK' /\ ReadyOK'
    BY LevelSame DEF RegOK, PhaseOK, Covered, ClearOK, ReadyOK
  <2>3. FreshOK'
    BY DEF FreshOK, ConnectedMeansResolved
  <2> QED
    BY <2>2, <2>3 DEF Event
<1>2. CASE connect_start
  <2> USE <1>0, <1>2 DEF connect_start, EventInv, Register, streamVars
  <2>1. stream = "Absent" /\ phase = "new" /\ ~shut /\ ~inbox /\ state = "FastOpenConnect"
    BY DEF RegOK, PhaseOK, TaskInv, TasksOK
  <2>2. RegOK' /\ Covered' /\ ClearOK' /\ ReadyOK'
    BY <2>1 DEF RegOK, Covered, ClearOK, ReadyOK
  <2>3. PhaseOK'
    BY <2>1, LevelMembersNext DEF PhaseOK
  <2>4. FreshOK'
    BY <2>1 DEF FreshOK, ConnectedMeansResolved
  <2> QED
    BY <2>2, <2>3, <2>4 DEF Event
<1>3. CASE connect_done
  <2> USE <1>0, <1>3 DEF connect_done, EventInv, sockVars, ioVars
  <2>1. RegOK' /\ PhaseOK' /\ Covered' /\ ClearOK' /\ ReadyOK'
    BY LevelSame DEF RegOK, PhaseOK, Covered, ClearOK, ReadyOK
  <2>2. FreshOK'
    BY DEF FreshOK, ConnectedMeansResolved
  <2> QED
    BY <2>1, <2>2 DEF Event
<1>4. CASE rival_connect
  <2>1. EventInv' /\ FreshInv'
    BY <1>4, EventStutter, FreshStutter DEF rival_connect, FreshInv
  <2> QED
    BY <2>1 DEF EventInv, Event, FreshInv
<1> QED
  BY <1>1, <1>2, <1>3, <1>4 DEF LinuxStep

LEMMA LinuxFresh == Spec => []FreshInv
<1>1. Init => FreshInv
  BY FreshInit DEF Init
<1>2. FreshInv /\ LinuxStep => FreshInv'
  BY LinuxEvents, LinuxTasks DEF FreshInv, EventInv, Event
<1>3. FreshInv /\ [Next]_vars => FreshInv'
  BY <1>2, LinuxNext, FreshStep, FreshStutter DEF vars
<1> QED
  BY <1>1, <1>3, PTL DEF Spec

\* On Linux poll_write leaves the fast open states only once the SYN carried
\* data, the handshake is over or its write side is shut down, so that what was
\* cached before the SYN is not believed (linux.rs:207-219, 334).
THEOREM LinuxConnectedMeansResolved == Spec => []ConnectedMeansResolved
  BY LinuxFresh, FreshMeans, PTL

\* Who keeps its waker: the writer always, the reader unless its task is the
\* writer's and the stream is one that will sendto.
Safe(f) == f = "W" \/ Apart \/ modern
SafeWait == \A f \in Futures : Safe(f) => WaitOK(f)

LEMMA LinuxSafeWait == Spec => []SafeWait
<1>1. Init => SafeWait
  BY WaitInit DEF Init, SafeWait
<1>2. FreshInv /\ SupportSound /\ SafeWait /\ [Next]_vars => SafeWait'
  <2> SUFFICES ASSUME FreshInv, SupportSound, SafeWait, [Next]_vars, NEW f \in Futures, Safe(f)'
               PROVE  WaitOK(f)'
    BY DEF SafeWait
  <2>1. modern' = modern
    BY DEF Next, Connect, Stream, connect_with_socket, connect_unsupported, connect_start,
           connect_done, rival_connect, procVars, vars
  <2>2. Safe(f) /\ WaitOK(f) /\ EventInv
    BY <2>1 DEF Safe, SafeWait, FreshInv
  <2>3. f = "W" \/ Apart \/ stream # "Connecting"
    BY <2>2 DEF Safe, SupportSound
  <2> QED
    BY <2>2, <2>3, LinuxNext, WaitStep, LinuxParks, WaitStutter DEF vars, EventInv
<1> QED
  BY <1>1, <1>2, LinuxFresh, LinuxSupportSound, PTL DEF Spec

\* With the halves in tasks of their own, nobody waits without a waker,
\* although the reader's waker moves from the stream to the scheduler when
\* poll_write connects (linux.rs:186-191, 261-266, 295-300).
THEOREM LinuxParkedHasWaker ==
  ASSUME Apart
  PROVE  Spec => []ParkedHasWaker
<1>1. FreshInv /\ SafeWait => ParkedHasWaker
  BY AllWait DEF FreshInv, SafeWait, Safe
<1> QED
  BY <1>1, LinuxFresh, LinuxSafeWait, PTL

\* Nor is a wake-up lost: not when the events of the unconnected socket are
\* cleared, nor when the stream is registered after sendto (linux.rs:290, 335).
THEOREM LinuxNoMissedEvent ==
  ASSUME Apart
  PROVE  Spec => []NoMissedEvent
<1>1. FreshInv /\ SafeWait => NoMissedEvent
  BY AllWait DEF FreshInv, SafeWait, Safe
<1> QED
  BY <1>1, LinuxFresh, LinuxSafeWait, PTL

\* The writer keeps its waker and its wake-ups whoever runs the reader: the
\* waker that linux.rs:261-266 and 295-300 do not wake is only ever the reader's.
THEOREM LinuxWriterTold == Spec => []WriterTold
<1>1. FreshInv /\ SafeWait => WriterTold
  BY WaitMeans DEF FreshInv, SafeWait, Safe, Futures, WriterTold
<1> QED
  BY <1>1, LinuxFresh, LinuxSafeWait, PTL

\* Where the kernel has TCP_FASTOPEN_CONNECT both halves may run in one task:
\* no stream is ever Connecting, so no waker is forgotten when poll_write
\* replaces it (linux.rs:106-127, 261-266, 295-300).
THEOREM LinuxOneTaskWhereModern ==
  Spec => [](modern => ParkedHasWaker /\ NoMissedEvent)
<1>1. FreshInv /\ SafeWait => (modern => ParkedHasWaker /\ NoMissedEvent)
  BY AllWait DEF FreshInv, SafeWait, Safe
<1> QED
  BY <1>1, LinuxFresh, LinuxSafeWait, PTL

\* On Linux whoever clears SO_ERROR returns it to a caller, also after a
\* shutdown that aborted the connection (linux.rs:214-217).
THEOREM LinuxFailureReported == Spec => []FailureReported
<1>1. Init => FailureReported
  BY ReportedInit DEF Init
<1>2. FailureReported /\ LinuxStep => FailureReported'
  BY DEF LinuxStep, connect_with_socket, connect_start, connect_done, rival_connect,
     ReturnConnecting, FailureReported, armVars, sockVars, userVars
<1>3. FailureReported /\ [Next]_vars => FailureReported'
  BY <1>2, LinuxNext, ReportedStep, ReportedStutter DEF vars
<1> QED
  BY <1>1, <1>3, PTL DEF Spec

-----------------------------------------------------------------------------
\* connect sends a bare SYN or holds it back.
LEMMA LinuxAbstract == ImplInv /\ LinuxStep => AbstractStep
<1> SUFFICES ASSUME ImplInv, LinuxStep PROVE AbstractStep
  OBVIOUS
<1>1. CASE connect_start
  <2>1. phase = "new" /\ phase' \in {"deferred", "syn"} /\ UNCHANGED <<wire, accepted, fut, ret>>
    BY <1>1 DEF connect_start, ImplInv, EventInv, PhaseOK, TaskInv, TasksOK, execVars, userVars
  <2>2. UNCHANGED Write
    BY <2>1 DEF Write, Waiting
  <2>3. Conn = "unsent" /\ Conn' \in {"unsent", "sent"}
    BY <2>1, ConnIs, ConnNext DEF Phases
  <2> QED
    BY <2>1, <2>2, <2>3, AbstractStutter DEF AbstractStep, FOS!Next, FOS!Syn
<1>2. CASE connect_with_socket \/ connect_done \/ rival_connect
  <2>1. UNCHANGED <<phase, wire, accepted, fut, ret>>
    BY <1>2 DEF connect_with_socket, ReturnConnecting, connect_done, rival_connect,
       armVars, sockVars, userVars, execVars, callVars
  <2> QED
    BY <2>1, ConnSame, AbstractStutter DEF Write, Waiting
<1> QED
  BY <1>1, <1>2 DEF LinuxStep

\* The Linux stream implements FastOpenStream: bytes go with the SYN or after
\* the handshake, each write is answered once with what it took
\* (linux.rs:85-143, 200-361).
THEOREM LinuxImplements == Spec => Refinement
<1>1. Init => FOS!Init
  BY AbstractInit DEF Init
<1>2. ImplInv /\ [Next]_vars => AbstractStep
  <2>1. UNCHANGED vars => UNCHANGED <<Conn, Write, wire, accepted>>
    BY DEF vars, armVars, sockVars, userVars, execVars, callVars, Conn, Write, Waiting
  <2> QED
    BY <2>1, LinuxNext, LinuxAbstract, AbstractArm, AbstractStutter
<1>3. Spec => []ImplInv
  BY LinuxFresh, LinuxBytesInv, PTL DEF FreshInv, ImplInv
<1> QED
  BY <1>1, <1>2, <1>3, PTL DEF Spec, Refinement, FOS!Spec, AbstractStep
=============================================================================
