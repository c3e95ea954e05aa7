----------------------------- MODULE StreamProps -----------------------------
(* What a stream promises on every Unix platform. *)
EXTENDS StreamArms

\* The writer is told of every byte the kernel took, once: nothing is sent
\* twice when poll_write loops, and no Ok(n) stands for bytes not taken.  The
\* exception is a stream lost to a failed from_std (linux.rs:256, 290).
ExactlyOnce ==
  stream # "Empty" => wire = accepted + (IF ret = "ok" THEN cnt ELSE 0)

\* poll_write leaves the fast open states only once the SYN carried data or
\* the handshake is over: it never writes, or reports the connection good, on
\* the strength of readiness cached before the connect (linux.rs:207-219, 334).
\* A write side that is shut down is writable at once, to fail with EPIPE.
ConnectedMeansResolved ==
  state = "Connected" => shut \/ phase \in {"fastsyn", "est", "dead", "closed"}

\* A parked future's task is scheduled, or its waker is where it will be used.
HasWaker(f) ==
  fut[f] = "parked" =>
    \/ task[f] \in woken
    \/ stream = "Connecting" /\ f = "R" /\ reader = task[f]
    \/ stream = "Connected" /\ slot[f] = task[f]
    \/ stream = "Empty"

\* Nobody waits without a waker: it is in the one place that will be used, the
\* reader field before the connect and tokio's slot after it
\* (linux.rs:186-191, 261-266, 295-300).
ParkedHasWaker == \A f \in Futures : HasWaker(f)

\* Parked on a registered stream although what f waits for is true, f is woken
\* by an event on its way.
IsTold(f) ==
  /\ stream = "Connected" /\ fut[f] = "parked" /\ task[f] \notin woken
  /\ f \in Level \/ "HUP" \in Level
  => f \in edge \/ "HUP" \in edge

\* No wake-up is lost: not when the readiness is cleared, nor when the stream is
\* registered after the SYN went out (linux.rs:290, 335).
NoMissedEvent == \A f \in Futures : IsTold(f)

\* The one-shot error of a failed connection reaches a caller: whoever clears
\* SO_ERROR (poll_write's check, a write, a read) returns it (linux.rs:214-217).
FailureReported ==
  phase = "dead" /\ ~soerr => told

\* The matches that end in unreachable!() are, but for the one way there is: a
\* from_std that failed left Empty behind (linux.rs:47, 194, 230, 253, 285).
NoUnreachable == panicked => stream = "Empty" /\ RegisterMayFail

\* The BSD streams stop retrying only when the handshake is over: Established
\* never stands for a connection whose write may fail for being early
\* (freebsd.rs:184-187, 208-221, macos.rs:124-127, 155-168).
EstablishedMeansOpen == state = "Established" => phase \in {"est", "dead"}

\* Nor does a write fail for being early: while the fast open is under way and
\* nobody shut the stream down, ENOTCONN and EPIPE stay inside poll_write
\* (freebsd.rs:189-200, macos.rs:129-147).
NoEarlyFailure ==
  [][pc = "top" /\ state = "Connected" /\ Opening /\ ~shut
     => fut'["W"] # "awake"]_armVars

-----------------------------------------------------------------------------
Waiting(f) == fut[f] \in {"due", "parked"}

\* Every write is answered, whichever way the SYN went out and however the
\* handshake ends: no loop of poll_write spins for ever and no parked writer is
\* forgotten (linux.rs:201, 211, 315, 350).
WriteCompletes == Waiting("W") ~> ~Waiting("W")

\* A read that waits while there is something to read, or an error, ends, also
\* when it began before there was a connection (linux.rs:185-192, 261-266, 295).
\* The exception is again a failed from_std, which drops the reader's waker.
ReadCompletes ==
  Waiting("R") /\ (inbox \/ phase = "dead") ~> ~Waiting("R") \/ stream = "Empty"

\* What FastOpenStream sees of the connection and of the write in progress.
Conn  == CASE phase \in {"new", "deferred"} -> "unsent"
           [] phase \in {"syn", "fastsyn"}  -> "sent"
           [] phase = "est"                 -> "open"
           [] OTHER                         -> "broken"
Write == IF ~Waiting("W") THEN "none" ELSE IF ret = "ok" THEN "taken" ELSE "pending"

FOS == INSTANCE FastOpenStream WITH conn <- Conn, write <- Write, taken <- wire

\* The stream implements FastOpenStream: bytes go with the SYN or after the
\* handshake, each write is answered once with what it took (linux.rs:200-361).
Refinement == FOS!Spec
=============================================================================
