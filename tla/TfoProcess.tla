----------------------------- MODULE TfoProcess -----------------------------
(***************************************************************************)
(* A process with a TfoListener and TfoStreams: those accept returns and   *)
(* those connect does.  They share the table of descriptors, which may be  *)
(* full.                                                                   *)
(***************************************************************************)
EXTENDS TfoListener, TfoStream

allVars == <<vars, streamVars>>

AllTypeOK == TypeOK /\ StreamTypeOK

AllInit ==
  /\ Init /\ StreamInit
  /\ apple = (platform = "macos")
  /\ \E d \in Descriptors :
       table = [n \in Descriptors |-> IF n = d THEN "listener" ELSE "free"]

LeakListener == UNCHANGED table   \* fault: the descriptor outlives the listener

\* The listener that could not be made is dropped.
DropListener == table' = [d \in Descriptors |-> IF table[d] = "listener" THEN "free" ELSE table[d]]

MakeListener ==
  /\ Make
  /\ IF sock' = "closed" THEN DropListener ELSE UNCHANGED table
  /\ UNCHANGED <<platform, owner, fd, borrowVars, connectex>>

\* poll_accept wraps the connection; with no free descriptor accept(2) fails.
AcceptStream(t) ==
  /\ poll_accept_call(t) /\ backlog' # backlog
  /\ \E s \in Streams : from(s)

Listener ==
  \/ MakeListener
  \/ \E t \in Tasks : AcceptStream(t)
  \/ /\ \/ Arrive \/ Deliver \/ NoListener
        \/ \E t \in Tasks : (Accept(t) \/ RunTask(t)) /\ UNCHANGED backlog
     /\ UNCHANGED streamVars

AllNext == Listener \/ (StreamNext /\ UNCHANGED vars)

AllSpec == AllInit /\ [][AllNext]_allVars /\ Fairness

-----------------------------------------------------------------------------
\* No descriptor outlives its owner: each that is open belongs to a stream that
\* has that number, to a lookup under way, or to the listener, whichever call
\* failed and whichever future was dropped (stream.rs:40-52; linux.rs:98-118,
\* 256; macos.rs:71-76; windows/mod.rs:67-96, 325; listener.rs:39-85).
NoLeak ==
  \A d \in Descriptors :
    /\ table[d] \in Streams => owner[table[d]] \in Holders /\ fd[table[d]] = d
    /\ table[d] = "winsock" => connectex = "loading"
    /\ table[d] = "listener" => sock # "closed"
=============================================================================
