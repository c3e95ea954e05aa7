------------------------------ MODULE TfoStream ------------------------------
(***************************************************************************)
(* src/src/stream.rs: TfoStream, and who owns the descriptor of one.  The  *)
(* descriptor passes from a TcpSocket through raw numbers to a tokio       *)
(* stream, may be dropped half way, and every option call wraps its number *)
(* in a temporary Socket that must not close it.  Threads share the table  *)
(* of descriptors with the rest of the process, which reuses the numbers.  *)
(*                                                                         *)
(* A thread borrows a stream shared (&self) or alone (&mut self, or by     *)
(* value), as Rust's types say; nothing else orders the threads.           *)
(***************************************************************************)
CONSTANTS
  Streams,      \* the streams of the process, dropped ones used again
  Threads,      \* the threads that call their methods
  Descriptors,  \* bound: the numbers the process may have open at once
  Platforms,    \* the targets: "linux", "bsd", "macos", "windows"
  Nothing       \* no descriptor, no stream

Others == {"free", "process", "listener", "winsock"}

ASSUME StreamAssumption ==
  /\ Platforms \subseteq {"linux", "bsd", "macos", "windows"}
  /\ Nothing \notin Streams \cup Descriptors
  /\ Streams \cap Others = {}

VARIABLES
  platform,
  table,     \* what each number names: a stream's socket, or another's
  owner,     \* the value that owns the descriptor of a stream
  fd,        \* its number
  call,      \* the stream each thread has borrowed for a call
  temp,      \* the number in the temporary Socket of that call
  alone,     \* the threads whose call is on &mut self
  connectex  \* PFN_CONNECTEX_OPT: unset | loading | some | none

ownVars    == <<table, owner, fd>>
borrowVars == <<call, temp, alone>>
streamVars == <<platform, ownVars, borrowVars, connectex>>

\* The values that close the descriptor when they are dropped.
Holders == {"TcpSocket", "connect", "Connecting", "TokioTcpStream"}

StreamTypeOK ==
  /\ platform \in Platforms
  /\ table \in [Descriptors -> Streams \cup Others]
  /\ owner \in [Streams -> Holders \cup {"none", "Empty"}]
  /\ fd \in [Streams -> Descriptors \cup {Nothing}]
  /\ call \in [Threads -> Streams \cup {Nothing}]
  /\ temp \in [Threads -> Descriptors \cup {Nothing}]
  /\ alone \subseteq Threads
  /\ connectex \in {"unset", "loading", "some", "none"}

\* No stream yet; the rest of the process and the listener have descriptors.
StreamInit ==
  /\ platform \in Platforms
  /\ owner = [s \in Streams |-> "none"] /\ fd = [s \in Streams |-> Nothing]
  /\ call = [u \in Threads |-> Nothing] /\ temp = [u \in Threads |-> Nothing]
  /\ alone = {} /\ connectex = "unset"

-----------------------------------------------------------------------------
(* Descriptors and their owners.                                            *)

Opened(s, d) ==
  /\ table[d] = "free"
  /\ table' = [table EXCEPT ![d] = s] /\ fd' = [fd EXCEPT ![s] = d]

Moved(s, value) == owner' = [owner EXCEPT ![s] = value]

LeakSocket(s, value) ==   \* fault: into_raw_fd comes before the call that fails
  Moved(s, value) /\ fd' = [fd EXCEPT ![s] = Nothing] /\ UNCHANGED table

\* The owner is dropped, which closes the descriptor.
DropSocket(s, value) ==
  /\ Moved(s, value) /\ fd' = [fd EXCEPT ![s] = Nothing]
  /\ table' = [table EXCEPT ![fd[s]] = "free"]

\* Nobody borrows s: what takes &mut self or self may run.
Alone(s) == \A u \in Threads : call[u] # s

-----------------------------------------------------------------------------
(* connect and connect_with_socket                                          *)

\* TcpSocket::new_v4 or new_v6, here or by the caller of connect_with_socket.
new_socket(s) ==
  /\ owner[s] = "none"
  /\ \E d \in Descriptors : Opened(s, d)
  /\ Moved(s, "TcpSocket")

\* setsockopt fails, or leaves the socket to poll_write, or connect takes it.
linux_connect(s) ==
  /\ platform = "linux" /\ owner[s] = "TcpSocket"
  /\ \/ DropSocket(s, "none")
     \/ (Moved(s, "Connecting") \/ Moved(s, "connect")) /\ UNCHANGED <<table, fd>>

\* It returns a stream or an error, or the future of connect is dropped.
linux_connected(s) ==
  /\ owner[s] = "connect"
  /\ \/ DropSocket(s, "none")
     \/ Moved(s, "TokioTcpStream") /\ UNCHANGED <<table, fd>>

bsd_connect(s) ==
  /\ platform = "bsd" /\ owner[s] = "TcpSocket"
  /\ DropSocket(s, "none") \/ (Moved(s, "Connecting") /\ UNCHANGED <<table, fd>>)

\* connectx fails with the TcpSocket, or from_std with the StdTcpStream.
macos_connect(s) ==
  /\ platform = "macos" /\ owner[s] = "TcpSocket"
  /\ DropSocket(s, "none") \/ (Moved(s, "TokioTcpStream") /\ UNCHANGED <<table, fd>>)

windows_connect(s) ==
  /\ platform = "windows" /\ owner[s] = "TcpSocket"
  /\ DropSocket(s, "none") \/ (Moved(s, "Connecting") /\ UNCHANGED <<table, fd>>)

connect(s) ==
  /\ \/ new_socket(s) \/ linux_connect(s) \/ linux_connected(s)
     \/ bsd_connect(s) \/ macos_connect(s) \/ windows_connect(s)
  /\ UNCHANGED <<platform, borrowVars, connectex>>

\* From<TokioTcpStream>, of a connection just accepted.
from(s) ==
  /\ owner[s] = "none"
  /\ \E d \in Descriptors : Opened(s, d)
  /\ Moved(s, "TokioTcpStream")
  /\ UNCHANGED <<platform, borrowVars, connectex>>

-----------------------------------------------------------------------------
(* The first poll_write replaces the TcpSocket by a tokio stream.           *)

HandCopy(s) ==   \* fault: as_raw_fd instead of into_raw_fd
  Moved(s, "TokioTcpStream") /\ table' = [table EXCEPT ![fd[s]] = "free"] /\ UNCHANGED fd

\* into_raw_fd, from_raw_fd, from_std.
HandOver(s) == Moved(s, "TokioTcpStream") /\ UNCHANGED <<table, fd>>

\* ... which may fail and drop the socket, with Empty in its place.
unix_adopt(s) ==
  /\ platform \in {"linux", "bsd"} /\ owner[s] = "Connecting"
  /\ HandOver(s) \/ DropSocket(s, "Empty")

\* set_update_connect_context may fail first and drop the TcpSocket.
windows_adopt(s) ==
  /\ platform = "windows" /\ owner[s] = "Connecting" /\ connectex = "some"
  /\ HandOver(s) \/ DropSocket(s, "Empty")

poll_write(s) ==
  /\ Alone(s)
  /\ unix_adopt(s) \/ windows_adopt(s)
  /\ UNCHANGED <<platform, borrowVars, connectex>>

\* On Windows the first write of all looks ConnectEx up with a socket of its
\* own, which it closes.  Without a socket, or if WSAIoctl fails, None stays.
connectex_lookup(s) ==
  /\ platform = "windows" /\ owner[s] = "Connecting" /\ Alone(s) /\ connectex = "unset"
  /\ \/ \E d \in Descriptors :
          /\ table[d] = "free" /\ table' = [table EXCEPT ![d] = "winsock"]
          /\ connectex' = "loading"
     \/ connectex' = "none" /\ UNCHANGED table
  /\ UNCHANGED <<platform, owner, fd, borrowVars>>

connectex_found ==
  /\ connectex = "loading" /\ connectex' \in {"some", "none"}
  /\ table' = [d \in Descriptors |-> IF table[d] = "winsock" THEN "free" ELSE table[d]]
  /\ UNCHANGED <<platform, owner, fd, borrowVars>>

-----------------------------------------------------------------------------
(* Calls that wrap the number in a Socket of socket2.                       *)

\* as_raw_fd, as_raw_socket: the number, of a stream that is not Empty.
as_raw(s) == fd[s]

Borrow(u, s) ==
  /\ call[u] = Nothing /\ owner[s] \in {"Connecting", "TokioTcpStream"}
  /\ call' = [call EXCEPT ![u] = s]
  /\ temp' = [temp EXCEPT ![u] = as_raw(s)]
  /\ UNCHANGED <<platform, ownVars, connectex>>

\* local_addr, nodelay, linger, ttl and their setters, on &self.  On macOS
\* Deref gives tokio's, which wrap nothing.
call_socket_api(u, s) ==
  /\ platform # "macos"
  /\ \A v \in alone : call[v] # s
  /\ Borrow(u, s) /\ UNCHANGED alone

\* socket_take_error, in poll_write, on &mut self.
socket_take_error(u, s) ==
  /\ owner[s] = "TokioTcpStream" /\ Alone(s)
  /\ Borrow(u, s) /\ alone' = alone \cup {u}

DropTemp(u) == table' = [table EXCEPT ![temp[u]] = "free"]   \* fault: the Socket is dropped

\* into_raw_fd takes the number out of the Socket, which then closes nothing.
into_raw(u) == UNCHANGED table

return(u) ==
  /\ call[u] # Nothing
  /\ into_raw(u)
  /\ call' = [call EXCEPT ![u] = Nothing] /\ temp' = [temp EXCEPT ![u] = Nothing]
  /\ alone' = alone \ {u}
  /\ UNCHANGED <<platform, owner, fd, connectex>>

-----------------------------------------------------------------------------
\* The stream is dropped; an Empty one has nothing to close.
drop(s) ==
  /\ Alone(s)
  /\ \/ owner[s] \in {"Connecting", "TokioTcpStream"} /\ DropSocket(s, "none")
     \/ owner[s] = "Empty" /\ Moved(s, "none") /\ UNCHANGED <<table, fd>>
  /\ UNCHANGED <<platform, borrowVars, connectex>>

\* The rest of the process opens and closes descriptors of its own.
process ==
  /\ \E d \in Descriptors :
       \/ table[d] = "free" /\ table' = [table EXCEPT ![d] = "process"]
       \/ table[d] = "process" /\ table' = [table EXCEPT ![d] = "free"]
  /\ UNCHANGED <<platform, owner, fd, borrowVars, connectex>>

StreamNext ==
  \/ connectex_found \/ process
  \/ \E s \in Streams : connect(s) \/ poll_write(s) \/ connectex_lookup(s) \/ drop(s)
  \/ \E u \in Threads : return(u)
  \/ \E u \in Threads, s \in Streams : call_socket_api(u, s) \/ socket_take_error(u, s)

-----------------------------------------------------------------------------
\* The number a stream or a temporary Socket holds names the stream's own
\* socket: nobody has closed it under them, and it has not been given to someone
\* else since, in any thread and on any path of connect and poll_write
\* (linux.rs:61-68, 248-258; sys/unix/mod.rs:28-33; windows/mod.rs:313-328).
DescriptorIsOwn ==
  /\ \A s \in Streams : owner[s] \in Holders => table[fd[s]] = s
  /\ \A u \in Threads : temp[u] # Nothing => table[temp[u]] = call[u]
=============================================================================
