# Verification of tokio-tfo

tokio-tfo gives tokio TCP streams and listeners that use TCP Fast Open.  Most of
the crate is one small state machine per platform: a stream that has not sent
its SYN when `connect` returns, because the SYN is to carry the first bytes
written.  These TLA+ modules model those machines, the listener and as much of
the kernel and of tokio as they lean on.  TLC checks them on small instances and
TLAPS proves the main safety properties for every value of the constants.

## The system

| Part | Source | State | Operations | Modelled in |
|---|---|---|---|---|
| Linux/Android stream | `sys/unix/linux.rs` | `state`, `stream` (with the reader's waker), the process-wide flag `SUPPORT_TCP_FASTOPEN_CONNECT` | `connect_with_socket`, `poll_read`, `poll_write`, `poll_shutdown`, accessors, `From` | StreamArms, LinuxTfo |
| FreeBSD stream | `sys/unix/bsd/freebsd.rs` | `state` (with Established), `stream` | the same | StreamArms, FreeBsdTfo |
| macOS/iOS stream | `sys/unix/bsd/macos.rs` | `state`, a tokio stream from the start | the same | StreamArms, MacTfo |
| Windows stream | `sys/windows/mod.rs` | `state` with an OVERLAPPED, `stream` | the same | StreamArms, WindowsTfo |
| Listener | `listener.rs` | a tokio listener | `bind`, `from_std`, `from_tokio`, `poll_accept`, `accept` | TfoListener, TfoProcess |
| `TfoStream` | `stream.rs` | the platform's stream, and with it a descriptor | `connect`, `From`, reads and writes on `&mut self`, options on `&self`, drop | TfoStream, TfoProcess |
| Kernel, tokio, executor, application | outside `src/` | socket, readiness cache, wakers, tasks | | TokioTcp (external) |

A stream is used by a reader and a writer.  They call `poll_read` and
`poll_write`, which take `&mut self` and so exclude each other, but may be polled by
different tasks (`tokio::io::split`), by one task (`join!`,
`copy_bidirectional`), or abandoned and called again from another task.
`poll_write` is a loop over `state`; between two of its system calls the network
moves, tokio's driver delivers events, and tasks are woken.  Before the first
write there is (Linux's fallback, BSD, Windows) no tokio stream at all, so a
reader leaves its waker in the stream and `poll_write` must use it when it
replaces the socket by a registered tokio stream.

The stream's descriptor changes hands with it: from a `TcpSocket` through a raw
number and a `StdTcpStream` to tokio, on paths that may fail half way or whose
future may be dropped.  Option calls (`call_socket_api!`, `socket_take_error`)
wrap the number in a second owner for a moment.  Other threads open and close
descriptors meanwhile, and the kernel gives out a closed number again at once.

What is hard, and what would be correct:

- **Stream.** Every byte the kernel took is reported once; a parked future's
  waker is always where it will be used; no readiness event is lost or believed
  after it went stale; the one-shot `SO_ERROR` reaches a caller; the
  `unreachable!()`s are unreachable while registration works; every call is answered.
- **FreeBSD and macOS.** `ENOTCONN`/`EPIPE` of a write that is too early stay inside;
  `Established` turns the retry off only when the connection is open.
- **Linux.** The `sendto` fallback is for kernels without
  `TCP_FASTOPEN_CONNECT`, although the flag is shared by all connects.
- **Windows.** ConnectEx's count is reported once and fits the buffer; the socket is
  made a full one before it is used as one.
- **Listener.** Each platform's order of calls is legal and gives a
  non-blocking, registered listener with fast open; connections are accepted.
- **Descriptors.** The number a stream or a temporary `Socket` holds names that
  stream's socket and nobody else's; whatever fails, no descriptor is left open.

The hazards, each with its line and the properties aimed at it, are listed in
`PROJECT.json`.

## Modules

- `TokioTcp` — external: the socket (`phase`, `soerr`, `inbox`, `full`, `shut`,
  `wire`), what it polls as (`Level`), tokio's cache (`ready`, `edge`, `ticked`,
  `slot`), the executor (`woken`, `task`, `fut`) and the application (`Resume`,
  `Rest`, `Submit`).  A future is `idle`, `awake` (its code runs), `due` (to be
  polled), `parked` or `done`.
- `StreamArms` — the arms of `poll_write`, `poll_read`, `poll_shutdown` that the
  three Unix files repeat.  `state` and `stream` are the fields of `TcpStream`,
  `reader` is the waker in `Connecting`, `pc` the place between two system calls.
  A definition bears the name of the function or of the state whose arm it is:
  `FastOpenWrite_ready`, `_send`, `_match` are the three steps of that arm.
- `LinuxTfo`, `FreeBsdTfo`, `MacTfo` — `connect_with_socket` and the arms of one
  platform, composed with the shared ones; `MCLinuxTfo` adds the symmetry of readers.
- `WindowsTfo` — the Windows stream: the shared reader, loop entry and Connected arm, and
  arms of its own for ConnectEx and its overlapped result (`ovl`, `given`, `owed`, `context`).
- `StreamProps` — the properties of a stream on any of them.
- `FastOpenStream` — the abstract specification: bytes go with the SYN or over an
  open connection, each write is answered once with what it took.
- `ConnectExStream` — the same for Windows, where one call of `poll_write` has ConnectEx send
  its bytes and another, with a buffer of its own, may be answered for them.
- `TfoListener` — how a listener is made, and tasks that accept.
- `TfoStream` — many streams and threads, on any platform, seen from their
  descriptors: `owner` and `fd` are the value that closes a stream's descriptor and the
  number in it, `call`, `temp` and `alone` the calls under way and how they borrow
  the stream, `table` what each number names, `connectex` the lazily loaded
  ConnectEx pointer.  The other modules say what one stream does with its connection;
  this one says what `TfoStream` adds: who may call when, and who closes.
- `TfoProcess` — `TfoListener` and `TfoStream` together: a connection that accept(2) takes
  becomes a stream with a descriptor from the same table, or stays in the backlog
  when the table is full; a listener that could not be made gives its own back.
- `StreamProofs` (bytes, shapes, wakers) and `EventProofs` (events, errors, refinement) — what
  every shared arm preserves; `LinuxProofs`, `FreeBsdProofs`, `MacProofs`, `WindowsProofs` —
  the theorems on one platform's stream; `ListenerProofs`, `ProcessProofs` — on the listener
  and the composed process.

Definitions marked `fault:` are not used by any specification: each is a plausible
mistake, substituted for a definition next to it to confirm that a property
notices (`mutants` in `PROJECT.json`).

### Choices of abstraction

- `poll_write` is cut at every system call and every poll of tokio's readiness;
  what happens between them is one step, since nobody else can see it.
- A buffer is its length (0 to `MaxBuf`); what goes wrong with bytes is their number.
- In `TfoStream` Rust's borrows are guards: `Alone` for `&mut self` and by-value
  receivers, no `&mut` call under way for `&self`.  A call is two steps (the number is
  taken, the result is returned), so that everything else can happen in between.
  `Empty` is what a failed `from_std` leaves; a call on it panics and changes nothing.
- `poll_flush`, getters and option setters change nothing that is modelled; an
  accessor matters when the stream is `Empty`.  `poll_shutdown` of a stream not
  connected is a stutter.  `poll_write_vectored` is the trait's default, `poll_write` of
  one of its buffers.  `TcpSocket::new_*` failing changes nothing; tokio's budget and the error
  of `poll_write_ready` when the runtime shuts down are left out.
- `FastOpenWrite_send` translates `EAGAIN` of the first `send` (linux.rs:350-355) too, but no run takes that
  branch: the socket has sent nothing yet, so its buffer is not full.
- `try_io` is two steps: the call with its snapshot of the readiness, then the
  clearing, which spares events that came in between (`ticked`).
- When a system call takes `SO_ERROR`, `told` is set at once; the steps that
  follow return that error, as no other path leaves them.
- The BSD kernel is modelled from what the comments of `freebsd.rs` and
  `macos.rs` say of it: a socket with data in its SYN polls as writable
  (`EarlyWritable`), and a write then may give `ENOTCONN` or `EPIPE`.
- On Windows an incomplete overlapped result makes mio ask for the readiness again, so
  what is true then is reported once more; that ConnectEx's send buffer and OVERLAPPED stay
  valid while it is pending is a matter of memory, not modelled.  The Lazy that loads
  ConnectEx is in `TfoStream`; `WindowsTfo` has it loaded.
- Linux's `shutdown` during a handshake disconnects the socket; BSD's waits; Windows's is
  refused until the connect context is set.

## Runs

| Run | Instance | Shows |
|---|---|---|
| `linux_safety` | 2 readers' tasks, 1 writer's, buffers to 2, 2 bytes, registration may fail | the safety properties of linux.rs on old and new kernels; no panic but on an `Empty` stream |
| `linux_live` | 1 and 1 task, 2 bytes | every write and read is answered; implements FastOpenStream |
| `linux_one_task` | both halves in one task | **violation** of ReadCompletes: see below |
| `freebsd_safety` | early writability, registration may fail, buffers to 2 | the safety properties of freebsd.rs with its retries; implements FastOpenStream |
| `freebsd_retry` | fair | **violation** of WriteCompletes |
| `macos_live` | fair; deferred and early writability | safety, liveness and refinement of macos.rs |
| `macos_early_failure` | the same | **violation** of NoEarlyFailure |
| `windows_live` | fair; buffers to 1, 1 byte, abandoned writes, context and registration may fail | safety and liveness of windows/mod.rs; implements ConnectExStream |
| `windows_error_dropped` | the same | **violation** of FailureReported |
| `windows_short_buffer` | the same | **violation** of CountFits |
| `listener` | TfoProcess: one acceptor, 2 connections, 2 streams, 2 threads, 3 descriptors; all origins, all platforms | the listener's properties; who owns and closes descriptors |
| `listener_two_acceptors` | two acceptors, 3 connections | **violation** of AcceptCompletes |

**Bounds.** `MaxBuf = 2` in the safety runs allows the empty, the partly taken and the fully taken
buffer; `MaxWire = 2` allows a first write and one after it, which is where the
retrying arms act, and a byte sent twice or lost shows with one.  The liveness runs have buffers of 0 and 1: a loop does not care
for more.  The reader
waker is one cell, so two reader tasks (the one whose waker is kept and the one that
replaces it) are all the cases.  In `listener` one descriptor is the listener's: two are left for two streams and for what the rest
of the process opens, so that the table is full in many states and a number closed too early is
taken by another; two threads are a caller and one that reuses the number.
Two connections let one arrive while the other is being accepted; the run with two
acceptors has three.
Nothing else is bounded: the handshake, events, wake-ups and polls interleave
freely.

**Deadlock** is checked everywhere; a stream that could not be made or whose users are all gone
stutters (`Terminated`, `NoListener`).

**Fairness** (`FairSpec`): the driver turns and woken tasks are polled (tokio's
scheduler); a poll that has begun runs to its end (it is straight-line code); the reader
gets the stream's lock now and then although the writer takes it repeatedly
(strong fairness of `poll_read`, the queue of `tokio::io::split`'s lock); a
handshake ends, by the peer or by TCP's time-out; a full send buffer drains; on Windows an overlapped call ends once the handshake has.
Nothing is assumed of the application: it may never call again.

### What the violations say

- `linux_one_task` — linux.rs:262 wakes the kept reader unless it is the very task
  inside `poll_write`.  If one task runs both halves, its read was polled before
  the first write and is not polled again: tokio does not have the waker.  Data and
  end of stream stay unread until something else wakes the task.  On Linux only a stream that will `sendto` is
  concerned: LinuxOneTaskWhereModern proves that on a kernel with `TCP_FASTOPEN_CONNECT` neither
  half is forgotten, and LinuxWriterTold that the writer never is.  freebsd.rs:265 and windows/mod.rs:334 have
  the same test; macOS has none, and its theorems need no assumption.
- `freebsd_retry` — a stream in `Connected` (from a listener, before its first
  write succeeds) is reset; a read, or a first write, takes `SO_ERROR` and returns it.
  The next write gets `EPIPE`, finds no `SO_ERROR`, comes back to `Connected` and
  gets `EPIPE` again: the readiness stays, so the loop waits for nothing and the write is
  never answered (tokio's budget only makes it yield now and then).
- `macos_early_failure` — the comment at macos.rs:136 names `EPIPE`, the test at 140
  covers `ENOTCONN` only.
- `windows_error_dropped` — mod.rs:416 announces a check of `SO_ERROR`, but `if let Err(err)`
  at 417 matches only a getsockopt that failed.  An `Ok(Some(err))` has taken the error
  out of the socket and is dropped: the write returns `Ok(n)`, and who calls next learns of the
  failure from another system call, if at all.  That check is the only place:
  WindowsConnectingFailureReported proves the property up to `Connected`.
- `windows_short_buffer` — a write is dropped while ConnectEx is pending; the next write, with
  a shorter buffer, is answered with the first one's count, against the
  `debug_assert!` at mod.rs:397.  Even when it fits, the bytes sent are the first buffer's.
  Nothing else breaks the assertion: WindowsCountFits proves it of every behaviour without such a
  shorter retry.
- `listener_two_acceptors` — `accept(&self)` invites concurrent use; `poll_accept`
  keeps one waker.  Of two tasks parked in `accept` one is never woken, however many
  connections wait, once the other stops accepting or fails to.

One thing that is not a run: a failed `TcpStream::from_std` (linux.rs:258 and 292, freebsd.rs:258
and 292, windows/mod.rs:325, 327 and 356) returns its error with `Empty` in the stream: the socket
is closed, the reader's waker is dropped with it, and the next call panics.
`linux_safety`, `freebsd_safety` and `windows_live` let it happen.  NoUnreachable says that this is
the only way to an `unreachable!()`: checked in `linux_safety` with failing registrations, and proved
for Linux, FreeBSD and Windows.
ReadCompletes excepts an `Empty` stream, and so does ParkedHasWaker, as nothing is left to wake
the reader.  What the failure does to the descriptor and to bytes already
sent is in `NoLeak`, `DescriptorIsOwn` and `Lose` of FastOpenStream.

## Proofs

All theorems hold for every set of tasks, every bound, every `EarlyWritable`, and whether or not
registration may fail.  One assumption is left, named where it is made:
*tasks of their own* (`Apart`), that no task runs both halves.  It is the negation of what `linux_one_task`
shows, and exactly what `will_wake` (linux.rs:262) needs; only the reader's waker depends on it, on
the platforms whose streams can be `Connecting`.

**Bytes and shapes** (no assumption)

- **ExactlyOnce** (Linux, FreeBSD, macOS) is inductive only with `CallOK`: the result of a
  send exists only in the places of `poll_write` between the call and its use.
  Lemma `BytesStep` shows that every shared arm keeps `BytesInv`; a platform adds
  its connect and its own arms.  Types are part of it (`LinuxTypes`, `FreeBsdTypes`, `MacTypes`).
- **ConnectExOnce**, **ContextUpdated** and **WinTypeOK** (Windows) need three more facts:
  before ConnectEx is called nothing is owed and the overlapped call has not
  begun (`UncalledOK`); a count that has been collected and not told is what is owed
  (`CountOK`); and each `state` and `pc` goes with certain stages of the
  overlapped call (`PlaceOK`).
- **NoUnreachable** (Linux, FreeBSD, Windows): `ShapeOK` says which `state` goes with which
  `stream` at each `pc`, and that an `Empty` stream comes from a failed registration only.
- **SupportSound** (Linux): the flag and the fallback agree with the kernel.

**Wakers and events**

The argument is in two layers, so that what does not depend on who runs the reader is
free of the assumption.

- `EventInv`, the lower layer, holds with any tasks.  `TasksOK` says that a poll under way has a
  task of its half's.  Whatever a registered socket polls as is cached or on its way (`Covered`); what the clearing after `EINPROGRESS` or `EAGAIN`
  removes, and is still true, comes again (`ClearOK`, the reason for tokio's tick); `poll_write` goes on
  only if the socket was writable and parks only if it was not (`ReadyOK`); and `RegOK` and `PhaseOK` say which
  places of the code are registered and find which phases of the connection.
  Windows has the same argument for a clearing after an incomplete overlapped result.
- `WaitOK(f)`, the upper layer, is about one future: when it is parked its waker is in the place
  that will be used (`HasWaker`) and the cache does not already hold what it waits for (`ParkedOK`).  `WaitStep` shows
  that every shared arm keeps it for the writer always, and for the reader when the tasks
  are apart or the stream is not `Connecting`.
- From these follow **ParkedHasWaker** and **NoMissedEvent**: on macOS without assumption
  (`Whole`: its stream is tokio's from the start), on the others with tasks of their own.
  Without it the writer's half remains (`WriterTold`, on Linux, FreeBSD and Windows), and on Linux
  both halves where the kernel is modern (`SafeWait` with SupportSound).
- **ConnectedMeansResolved** (Linux, macOS): `FreshOK` follows the readiness cached before the SYN until it
  is spent, through the fallback and the registration that come after it; no assumption.
- **EstablishedMeansOpen** (FreeBSD, macOS): only an open connection takes bytes, and only a stream that
  is no longer in the fast open states has them taken by that arm (`StageOK`); no assumption.
  **NoEarlyFailure** (FreeBSD), an action property,
  follows from `EventInv`: while the connection opens, a send can
  fail with the two errors that are retried only.
- **FailureReported** (Linux, FreeBSD, macOS) is inductive by itself; no assumption.  On Windows, where
  it fails, it is proved of a stream that is not yet `Connected`.
- **CountFits** (Windows), of the behaviours in which no write is shorter than the ConnectEx under way:
  `FitOK` follows `given <= buf` and `owed <= given` from the call to the match.

**Refinement** (Linux, FreeBSD, macOS; no assumption): `Spec => Refinement`.  The mapping (`Conn`,
`Write` of StreamProps) reads the abstract connection off `phase` and the abstract write off
`fut["W"]` and `ret`.  Every step is shown to be one of FastOpenStream's actions or a stutter
(`AbstractStep`) from `ImplInv`, the conjunction of `BytesInv` and `EventInv`: that a send is not
repeated and the count is told once comes from the first, that an answer is given on
a connection in the right phase from the second.

**ConnectExRefinement** (Windows; no assumption): `ConnectExStream` keeps apart what ConnectEx sent (`taken`)
and what callers were told (`accepted`).  The mapping reads the overlapped call off `ovl` and `state`
(`First`).  The invariant is `CESInv`: `WinInv`, by which the count that a write finds is exactly what is owed;
`EventInv`; and `MatchOK`, by which the result of ConnectEx is fetched and matched in one state.

**Listener and process**

- **ListenerUsable**, **OrderAllowed**: `MakeOK` says which socket goes with each `pc`.
- **NoMissedConnection**, for any number of acceptors: without cached readiness a
  connection that waits has an event to come (`EventToCome`), which
  clearing keeps since `ClearingIsSafe` knows what came after WouldBlock.
- **DescriptorIsOwn** and **NoLeak** (the composed process), for any number of streams, threads
  and descriptors, on every platform: an owner has a number and the
  number names it (`OwnOK`), and a borrowed stream keeps its owner and number until
  the call returns (`BorrowOK`); in the other direction an open
  descriptor is accounted for by its kind (`Accounted`, `OthersOK`).
- `ProcessImplementsListener`: the composed process does to its listener only what `TfoListener`
  allows, so the listener's promises hold of it (`ProcessListenerIsUsable`,
  `ProcessOrderAllowed`, `ProcessNoMissedConnection`).

The proofs are laid out by action; `StreamProofs` and `EventProofs` hold the lemmas on the shared
arms, so that a platform's theorem needs only its own.  What stays with TLC alone is
liveness (WriteCompletes, ReadCompletes, AcceptCompletes), which is beyond TLAPS as installed, and the
six violations: a theorem can only say, as three of them do, where else the property holds.

## Not modelled

- `sys/mod.rs`, `sys/unix/bsd/mod.rs`, `lib.rs`: which file is compiled.
- The values of socket options, addresses and the bytes themselves; logging.
- Memory: that a caller's buffer and the OVERLAPPED outlive a ConnectEx whose write or stream is
  dropped, and that a buffer of 4 GiB or more is cut at windows/mod.rs:303.
- Whether a panic in `expect()` (no ConnectEx) or on an `Empty` stream is acceptable: the modules say
  when these states are reached, not what a caller should do.

## Plan

Every part that keeps state is modelled, every safety property of the passing runs is proved and so are
both refinements.  What is left:

1. The safety runs with two writers' tasks and `MaxBuf = 3`, which the proofs cover but a run of a few minutes does not.
2. The streams of `TfoStream` as platform streams: `TfoProcess` composes descriptors with the
   listener, not with the connections of `LinuxTfo` and its like.

## Running

    tlc -config linux_safety.cfg MCLinuxTfo      # likewise the other runs
    tlapm LinuxProofs.tla                        # likewise the other *Proofs
