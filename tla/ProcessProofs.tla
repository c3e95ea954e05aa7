---------------------------- MODULE ProcessProofs ----------------------------
(* Theorems about the descriptors of a process with any number of streams,  *)
(* threads and descriptors.                                                 *)
EXTENDS TfoProcess, ListenerProofs

-----------------------------------------------------------------------------
(* The inductive invariant.                                                 *)

\* A stream that has a descriptor has a number, which names its socket.
OwnOK ==
  \A s \in Streams : owner[s] \in Holders => fd[s] \in Descriptors /\ table[fd[s]] = s

\* A call borrows a stream that poll_write and drop leave alone meanwhile.
BorrowOK ==
  \A u \in Threads :
    \/ call[u] = Nothing /\ temp[u] = Nothing
    \/ /\ call[u] \in Streams
       /\ owner[call[u]] \in {"Connecting", "TokioTcpStream"}
       /\ temp[u] = fd[call[u]]

OwnInv == StreamTypeOK /\ OwnOK /\ BorrowOK

\* It says more than the property.
LEMMA OwnInvImplies == OwnInv => DescriptorIsOwn
  BY StreamAssumption DEF OwnInv, StreamTypeOK, OwnOK, BorrowOK, DescriptorIsOwn, Holders

-----------------------------------------------------------------------------
(* What a step may do to the table: six kinds.                              *)

Opens(s) ==
  /\ owner[s] = "none"
  /\ \E d \in Descriptors : Opened(s, d)
  /\ \E v \in Holders : Moved(s, v)
  /\ UNCHANGED borrowVars

Closes(s) ==
  /\ owner[s] \in Holders /\ Alone(s)
  /\ DropSocket(s, "none") \/ DropSocket(s, "Empty")
  /\ UNCHANGED borrowVars

\* The descriptor passes from one value to another, or an Empty stream goes.
Passes(s) ==
  /\ Alone(s) /\ UNCHANGED <<table, fd, borrowVars>>
  /\ \/ owner[s] \in Holders /\ \E v \in Holders : Moved(s, v)
     \/ owner[s] = "Empty" /\ Moved(s, "none")

\* The descriptors of others come and go.
Elsewhere ==
  /\ UNCHANGED <<owner, fd, borrowVars>>
  /\ table' \in [Descriptors -> Streams \cup Others]
  /\ \A d \in Descriptors : table'[d] = table[d] \/ (table[d] \in Others /\ table'[d] \in Others)

Borrows(u, s) ==
  /\ call[u] = Nothing /\ owner[s] \in {"Connecting", "TokioTcpStream"}
  /\ call' = [call EXCEPT ![u] = s] /\ temp' = [temp EXCEPT ![u] = fd[s]]
  /\ alone' \subseteq alone \cup {u} /\ UNCHANGED ownVars

Kinds ==
  \/ Elsewhere
  \/ \E s \in Streams : Opens(s) \/ Closes(s) \/ Passes(s)
  \/ \E u \in Threads, s \in Streams : Borrows(u, s)
  \/ \E u \in Threads : return(u)

\* Only a stream in the hands of its owner can be borrowed, so what owns a
\* socket before or during connect is never borrowed.
LEMMA NotBorrowed ==
  ASSUME OwnInv, NEW s \in Streams, owner[s] \in {"none", "TcpSocket", "connect", "Empty"}
  PROVE  Alone(s)
  BY StreamAssumption DEF OwnInv, BorrowOK, Alone

-----------------------------------------------------------------------------
(* Every kind of step keeps it.                                             *)

LEMMA OpensKeeps ==
  ASSUME OwnInv, NEW s \in Streams, Opens(s)
  PROVE  OwnOK' /\ BorrowOK'
<1>1. PICK d \in Descriptors : Opened(s, d)
  BY DEF Opens
<1>2. PICK v \in Holders : Moved(s, v)
  BY DEF Opens
<1>3. Alone(s)
  BY NotBorrowed DEF Opens
<1>4. \A r \in Streams : r # s /\ owner[r] \in Holders => fd[r] # d
  BY <1>1, StreamAssumption DEF OwnInv, OwnOK, Opened, Others
<1>5. OwnOK'
  BY <1>1, <1>2, <1>4 DEF OwnInv, OwnOK, StreamTypeOK, Opened, Moved
<1>6. BorrowOK'
  BY <1>1, <1>2, <1>3 DEF OwnInv, BorrowOK, StreamTypeOK, Opened, Moved, Alone, Opens, borrowVars
<1> QED
  BY <1>5, <1>6

LEMMA ClosesKeeps ==
  ASSUME OwnInv, NEW s \in Streams, Closes(s)
  PROVE  OwnOK' /\ BorrowOK'
<1>1. fd[s] \in Descriptors /\ table[fd[s]] = s
  BY DEF OwnInv, OwnOK, Closes
<1>2. /\ fd' = [fd EXCEPT ![s] = Nothing] /\ table' = [table EXCEPT ![fd[s]] = "free"]
      /\ \E v \in {"none", "Empty"} : owner' = [owner EXCEPT ![s] = v]
  BY DEF Closes, DropSocket, Moved
<1>3. \A r \in Streams : r # s /\ owner[r] \in Holders => fd[r] # fd[s]
  BY <1>1 DEF OwnInv, OwnOK
<1>4. OwnOK'
  BY <1>1, <1>2, <1>3 DEF OwnInv, OwnOK, StreamTypeOK, Holders
<1>5. BorrowOK'
  BY <1>2 DEF OwnInv, BorrowOK, StreamTypeOK, Alone, Closes, borrowVars
<1> QED
  BY <1>4, <1>5

LEMMA PassesKeeps ==
  ASSUME OwnInv, NEW s \in Streams, Passes(s)
  PROVE  OwnOK' /\ BorrowOK'
  BY DEF Passes, OwnInv, OwnOK, BorrowOK, StreamTypeOK, Moved, Alone, Holders, borrowVars

LEMMA ElsewhereKeeps ==
  ASSUME OwnInv, Elsewhere
  PROVE  OwnOK' /\ BorrowOK'
<1>1. \A d \in Descriptors : table[d] \in Streams => table'[d] = table[d]
  BY StreamAssumption DEF Elsewhere
<1> QED
  BY <1>1 DEF Elsewhere, OwnInv, OwnOK, BorrowOK, borrowVars

LEMMA BorrowsKeeps ==
  ASSUME OwnInv, NEW u \in Threads, NEW s \in Streams, Borrows(u, s)
  PROVE  OwnOK' /\ BorrowOK'
  BY DEF Borrows, OwnInv, OwnOK, BorrowOK, StreamTypeOK, ownVars

LEMMA ReturnKeeps ==
  ASSUME OwnInv, NEW u \in Threads, return(u)
  PROVE  OwnOK' /\ BorrowOK'
  BY DEF return, into_raw, OwnInv, OwnOK, BorrowOK, StreamTypeOK

-----------------------------------------------------------------------------
(* Every step is of one of the kinds, and of the right types.               *)

TableTypes ==
  /\ table \in [Descriptors -> Streams \cup Others]
  /\ owner \in [Streams -> Holders \cup {"none", "Empty"}]
  /\ fd \in [Streams -> Descriptors \cup {Nothing}]
  /\ call \in [Threads -> Streams \cup {Nothing}]
  /\ temp \in [Threads -> Descriptors \cup {Nothing}]
  /\ alone \subseteq Threads

LEMMA KindTypes ==
  ASSUME OwnInv, Kinds
  PROVE  TableTypes'
<1> USE DEF TableTypes, OwnInv, StreamTypeOK, ownVars, borrowVars
<1>1. CASE Elsewhere
  BY <1>1 DEF Elsewhere
<1>2. ASSUME NEW s \in Streams, Opens(s) PROVE TableTypes'
  BY <1>2 DEF Opens, Opened, Moved
<1>3. ASSUME NEW s \in Streams, Closes(s) PROVE TableTypes'
  BY <1>3 DEF Closes, DropSocket, Moved, OwnOK, Others
<1>4. ASSUME NEW s \in Streams, Passes(s) PROVE TableTypes'
  BY <1>4 DEF Passes, Moved
<1>5. ASSUME NEW u \in Threads, NEW s \in Streams, Borrows(u, s) PROVE TableTypes'
  BY <1>5 DEF Borrows
<1>6. ASSUME NEW u \in Threads, return(u) PROVE TableTypes'
  BY <1>6 DEF return, into_raw
<1> QED
  BY <1>1, <1>2, <1>3, <1>4, <1>5, <1>6 DEF Kinds

LEMMA KindsKeep ==
  ASSUME OwnInv, Kinds
  PROVE  OwnOK' /\ BorrowOK'
  BY OpensKeeps, ClosesKeeps, PassesKeeps, ElsewhereKeeps, BorrowsKeeps, ReturnKeeps DEF Kinds

\* connect, on every platform.
LEMMA ConnectIsKind ==
  ASSUME OwnInv, NEW s \in Streams, connect(s)
  PROVE  Opens(s) \/ Closes(s) \/ Passes(s)
<1>1. CASE new_socket(s)
  BY <1>1 DEF connect, new_socket, Opens, Holders
<1>2. CASE linux_connect(s) \/ linux_connected(s) \/ bsd_connect(s) \/ macos_connect(s) \/ windows_connect(s)
  <2>1. owner[s] \in {"TcpSocket", "connect"} /\ Alone(s)
    BY <1>2, NotBorrowed DEF linux_connect, linux_connected, bsd_connect, macos_connect, windows_connect
  <2>2. \/ DropSocket(s, "none")
        \/ UNCHANGED <<table, fd>> /\ \E v \in Holders : Moved(s, v)
    BY <1>2 DEF linux_connect, linux_connected, bsd_connect, macos_connect, windows_connect, Holders
  <2> QED
    BY <2>1, <2>2 DEF connect, Closes, Passes, Holders
<1> QED
  BY <1>1, <1>2 DEF connect

\* The first write, and the drop of a stream.
LEMMA WriteIsKind ==
  ASSUME NEW s \in Streams, poll_write(s) \/ drop(s)
  PROVE  Closes(s) \/ Passes(s)
  BY DEF poll_write, drop, unix_adopt, windows_adopt, HandOver, Closes, Passes, Holders

LEMMA LookupIsKind ==
  ASSUME OwnInv, connectex_found \/ process \/ \E s \in Streams : connectex_lookup(s)
  PROVE  Elsewhere
  BY DEF OwnInv, StreamTypeOK, connectex_found, process, connectex_lookup, Elsewhere, Others, borrowVars

LEMMA CallIsKind ==
  ASSUME NEW u \in Threads, NEW s \in Streams, call_socket_api(u, s) \/ socket_take_error(u, s)
  PROVE  Borrows(u, s)
  BY DEF call_socket_api, socket_take_error, Borrow, as_raw, Borrows

\* What the listener does to the table: nothing, close its descriptor when it
\* fails, or hand a connection to a new stream.
LEMMA ListenerIsKind ==
  ASSUME OwnInv, Listener
  PROVE  Elsewhere \/ \E s \in Streams : Opens(s)
<1>1. CASE MakeListener
  BY <1>1 DEF MakeListener, DropListener, OwnInv, StreamTypeOK, Elsewhere, Others, borrowVars
<1>2. CASE \E t \in Tasks : AcceptStream(t)
  BY <1>2 DEF AcceptStream, from, Opens, Holders
<1>3. CASE UNCHANGED streamVars
  BY <1>3 DEF OwnInv, StreamTypeOK, Elsewhere, streamVars, ownVars, borrowVars
<1> QED
  BY <1>1, <1>2, <1>3 DEF Listener

LEMMA StepIsKind == OwnInv /\ [AllNext]_allVars => Kinds
<1> SUFFICES ASSUME OwnInv, [AllNext]_allVars PROVE Kinds
  OBVIOUS
<1>1. CASE UNCHANGED allVars
  BY <1>1 DEF allVars, OwnInv, StreamTypeOK, Kinds, Elsewhere, streamVars, ownVars, borrowVars
<1>2. CASE Listener
  BY <1>2, ListenerIsKind DEF Kinds
<1>3. CASE StreamNext
  BY <1>3, ConnectIsKind, WriteIsKind, LookupIsKind, CallIsKind DEF StreamNext, Kinds
<1> QED
  BY <1>1, <1>2, <1>3 DEF AllNext

LEMMA FlagTypes ==
  OwnInv /\ [AllNext]_allVars
    => platform' \in Platforms /\ connectex' \in {"unset", "loading", "some", "none"}
  BY DEF OwnInv, StreamTypeOK, AllNext, Listener, MakeListener, AcceptStream, from, StreamNext, connect,
         poll_write, drop, connectex_lookup, connectex_found, process, call_socket_api,
         socket_take_error, Borrow, return, allVars, streamVars

LEMMA OwnInit == AllInit => OwnInv
  BY StreamAssumption DEF AllInit, StreamInit, OwnInv, StreamTypeOK, OwnOK, BorrowOK, Holders, Others

LEMMA OwnAlways == AllSpec => []OwnInv
<1>1. OwnInv /\ [AllNext]_allVars => OwnInv'
  BY StepIsKind, KindTypes, KindsKeep, FlagTypes DEF OwnInv, StreamTypeOK, TableTypes
<1> QED
  BY <1>1, OwnInit, PTL DEF AllSpec

\* However connect, accept, the first write, option calls and drops of any
\* number of streams and threads interleave with one another and with the rest
\* of the process, nobody uses or closes a descriptor that is not the stream's
\* (linux.rs:61-68, 248-258; sys/unix/mod.rs:28-33; windows/mod.rs:313-328).
THEOREM ProcessDescriptorIsOwn == AllSpec => []DescriptorIsOwn
  BY OwnAlways, OwnInvImplies, PTL

-----------------------------------------------------------------------------
(* Nothing is left open.                                                    *)

\* A descriptor of a stream's is the one the stream has.
Accounted ==
  \A d \in Descriptors :
    table[d] \in Streams => owner[table[d]] \in Holders /\ fd[table[d]] = d

\* So with the socket of the ConnectEx lookup and the one of the listener.
OthersOK ==
  \A d \in Descriptors :
    /\ table[d] = "winsock" => connectex = "loading"
    /\ table[d] = "listener" => sock # "closed"

LEMMA AccountedStep ==
  ASSUME OwnInv, Accounted, Kinds
  PROVE  Accounted'
<1> USE DEF OwnInv, StreamTypeOK, Accounted
<1>1. CASE Elsewhere
  BY <1>1, StreamAssumption DEF Elsewhere
<1>2. ASSUME NEW s \in Streams, Opens(s) PROVE Accounted'
  BY <1>2 DEF Opens, Opened, Moved, Holders
<1>3. ASSUME NEW s \in Streams, Closes(s) PROVE Accounted'
  <2>1. /\ fd' = [fd EXCEPT ![s] = Nothing] /\ table' = [table EXCEPT ![fd[s]] = "free"]
        /\ \A r \in Streams : r # s => owner'[r] = owner[r]
    BY <1>3 DEF Closes, DropSocket, Moved
  <2>2. ASSUME NEW d \in Descriptors, table'[d] \in Streams
        PROVE  table'[d] = table[d] /\ table[d] # s
    BY <2>1, <2>2, StreamAssumption DEF Others
  <2> QED
    BY <2>1, <2>2
<1>4. ASSUME NEW s \in Streams, Passes(s) PROVE Accounted'
  BY <1>4 DEF Passes, Moved, Holders
<1>5. ASSUME NEW u \in Threads, NEW s \in Streams, Borrows(u, s) PROVE Accounted'
  BY <1>5 DEF Borrows, ownVars
<1>6. ASSUME NEW u \in Threads, return(u) PROVE Accounted'
  BY <1>6 DEF return, into_raw
<1> QED
  BY <1>1, <1>2, <1>3, <1>4, <1>5, <1>6 DEF Kinds

\* All a step can do to the table without the lookup and the listener.
StreamsOnly ==
  /\ UNCHANGED <<connectex, sock>>
  /\ \A d \in Descriptors : table'[d] \in {"winsock", "listener"} => table'[d] = table[d]

LEMMA OnlyStreams ==
  ASSUME OwnInv, [AllNext]_allVars, ~MakeListener, ~connectex_found,
         \A s \in Streams : ~connectex_lookup(s)
  PROVE  StreamsOnly
<1> USE StreamAssumption DEF OwnInv, StreamTypeOK, StreamsOnly, Others
<1>1. CASE UNCHANGED allVars
  BY <1>1 DEF allVars, vars, makeVars, streamVars, ownVars
<1>2. CASE Listener
  <2>1. UNCHANGED sock
    BY <1>2 DEF Listener, AcceptStream, poll_accept_call, Arrive, Deliver, NoListener, Accept, Polled,
                poll_accept, poll_accept_clear, accept, drop_accept, RunTask, makeVars, vars
  <2>2. CASE \E t \in Tasks : AcceptStream(t)
    BY <2>1, <2>2 DEF AcceptStream, from, Opened
  <2> QED
    BY <1>2, <2>1, <2>2 DEF Listener, streamVars, ownVars
<1>3. CASE StreamNext /\ UNCHANGED vars
  <2>1. UNCHANGED <<sock, connectex>>
    BY <1>3 DEF vars, makeVars, StreamNext, connect, poll_write, drop, process, return,
                call_socket_api, socket_take_error, Borrow
  <2>2. ASSUME NEW s \in Streams, connect(s) \/ poll_write(s) \/ drop(s) PROVE StreamsOnly
    <3>1. Opens(s) \/ Closes(s) \/ Passes(s)
      BY <2>2, ConnectIsKind, WriteIsKind
    <3> QED
      BY <2>1, <3>1 DEF Opens, Opened, Closes, DropSocket, Passes
  <2> QED
    BY <1>3, <2>1, <2>2 DEF StreamNext, process, return, into_raw, call_socket_api,
                            socket_take_error, Borrow, ownVars
<1> QED
  BY <1>1, <1>2, <1>3 DEF AllNext

LEMMA OthersStep ==
  ASSUME OwnInv, OthersOK, [AllNext]_allVars
  PROVE  OthersOK'
<1> USE StreamAssumption DEF OwnInv, StreamTypeOK, OthersOK
<1>1. CASE MakeListener
  BY <1>1 DEF MakeListener, DropListener
<1>2. CASE connectex_found /\ UNCHANGED sock
  BY <1>2 DEF connectex_found
<1>3. CASE (\E s \in Streams : connectex_lookup(s)) /\ UNCHANGED sock
  BY <1>3 DEF connectex_lookup
<1>4. CASE StreamsOnly
  BY <1>4 DEF StreamsOnly
<1>5. connectex_found \/ (\E s \in Streams : connectex_lookup(s)) => connectex' # connectex
  BY DEF connectex_found, connectex_lookup
<1>6. Listener /\ ~MakeListener => connectex' = connectex
  BY DEF Listener, AcceptStream, from, streamVars
<1>7. AllNext /\ ~Listener => sock' = sock
  BY DEF AllNext, vars, makeVars
<1>8. UNCHANGED allVars => connectex' = connectex
  BY DEF allVars, streamVars
<1> QED
  BY <1>1, <1>2, <1>3, <1>4, <1>5, <1>6, <1>7, <1>8, OnlyStreams DEF AllNext

LEMMA NoLeakInit == AllInit => Accounted /\ OthersOK
<1> SUFFICES ASSUME AllInit PROVE Accounted /\ OthersOK
  OBVIOUS
<1>1. PICK c \in Descriptors : table = [n \in Descriptors |-> IF n = c THEN "listener" ELSE "free"]
  BY DEF AllInit
<1>2. sock # "closed"
  BY DEF AllInit, Init
<1> QED
  BY <1>1, <1>2, StreamAssumption DEF Accounted, OthersOK, Others

\* No call that fails, no future and no stream that is dropped at any moment
\* leaves a descriptor behind, for any number of them (stream.rs:40-52;
\* linux.rs:98-118, 256; macos.rs:71-76; windows/mod.rs:67-96, 325).
THEOREM ProcessNoLeak == AllSpec => []NoLeak
<1>1. OwnInv /\ Accounted /\ OthersOK /\ [AllNext]_allVars => Accounted' /\ OthersOK'
  BY StepIsKind, AccountedStep, OthersStep
<1>2. Accounted /\ OthersOK => NoLeak
  BY DEF Accounted, OthersOK, NoLeak
<1> QED
  BY <1>1, <1>2, NoLeakInit, OwnAlways, PTL DEF AllSpec

-----------------------------------------------------------------------------
(* The listener of the process is a TfoListener.                            *)

\* Whatever the streams of the process do, and whether or not there was a
\* descriptor for the connection, the listener takes the steps it takes alone
\* (listener.rs:26-96).
THEOREM ProcessImplementsListener == AllSpec => Spec
<1>1. AllInit => Init
  BY DEF AllInit
<1>2. [AllNext]_allVars => [Next]_vars
  <2> SUFFICES ASSUME [AllNext]_allVars PROVE [Next]_vars
    OBVIOUS
  <2>1. CASE MakeListener
    BY <2>1 DEF MakeListener, Next
  <2>2. CASE \E t \in Tasks : AcceptStream(t)
    BY <2>2 DEF AcceptStream, Next, Accept, Polled
  <2>3. CASE Arrive \/ Deliver \/ NoListener \/ \E t \in Tasks : Accept(t) \/ RunTask(t)
    BY <2>3 DEF Next
  <2>4. CASE UNCHANGED vars
    BY <2>4
  <2> QED
    BY <2>1, <2>2, <2>3, <2>4 DEF AllNext, Listener, allVars
<1> QED
  BY <1>1, <1>2, PTL DEF AllSpec, Spec

\* So it keeps the listener's promises among the streams of a process: it
\* listens with fast open on, is refused by the system only, and no task waits
\* in accept for an event that is gone (listener.rs:39-96).
THEOREM ProcessListenerIsUsable == AllSpec => []ListenerUsable
  BY ProcessImplementsListener, ListenerIsUsable, PTL

THEOREM ProcessOrderAllowed == AllSpec => []OrderAllowed
  BY ProcessImplementsListener, ListenerOrderAllowed, PTL

THEOREM ProcessNoMissedConnection == AllSpec => []NoMissedConnection
  BY ProcessImplementsListener, ListenerNoMissedConnection, PTL

\* Every variable of the listener and of the streams keeps its type: no
\* number that is not a descriptor's gets into the table (stream.rs:40-52).
THEOREM ProcessTypes == AllSpec => []AllTypeOK
<1>1. OwnInv => StreamTypeOK
  BY DEF OwnInv
<1> QED
  BY <1>1, OwnAlways, ProcessImplementsListener, ListenerTypes, PTL DEF AllTypeOK
=============================================================================
