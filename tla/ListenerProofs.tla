--------------------------- MODULE ListenerProofs ---------------------------
(* Theorems about TfoListener for any number of tasks and connections: how  *)
(* it is made, then what a task parked in accept can rely on.               *)
EXTENDS TfoListener, TLAPS

\* The flags of a listener are Boolean.
FlagsOK ==
  /\ apple \in BOOLEAN /\ fastopen \in BOOLEAN /\ blocking \in BOOLEAN
  /\ reg \in BOOLEAN /\ refused \in BOOLEAN

\* Where the making of a listener is agrees with the socket, on each platform.
MakeOK ==
  /\ pc \in {"options", "bind", "listen", "done", "fastopen"} => ~blocking
  /\ pc \in {"options", "bind", "listen", "nonblocking", "register"} => ~reg
  /\ pc \in {"done", "fastopen"} => reg /\ sock = "listening"
  /\ pc \in {"nonblocking", "register"} => sock = "listening"
  /\ pc = "register" => ~blocking
  /\ pc \in {"bind", "listen"} => fastopen \/ apple
  /\ pc = "done" => fastopen
  /\ pc = "failed" => refused

\* bind, from_std and from_tokio reach the end with a listener that listens,
\* has fast open, does not block and is registered, and they fail only if the
\* system refuses a call (listener.rs:26-85).
LEMMA MakeInv == Spec => [](FlagsOK /\ MakeOK)
<1>1. Init => FlagsOK /\ MakeOK
  <2> SUFFICES ASSUME Init PROVE FlagsOK /\ MakeOK
    OBVIOUS
  <2>1. PICK o \in Origins :
          /\ pc = CASE o = "bind" -> "options" [] o = "from_std" -> "nonblocking"
                    [] o = "from_tokio" -> "fastopen"
          /\ sock = IF o = "bind" THEN "new" ELSE "listening"
          /\ blocking = (o = "from_std")
          /\ reg = (o = "from_tokio")
    BY DEF Init
  <2>2. apple \in BOOLEAN /\ fastopen = FALSE /\ refused = FALSE
    BY DEF Init
  <2>3. CASE o = "bind"
    BY <2>1, <2>2, <2>3 DEF MakeOK, FlagsOK
  <2>4. CASE o = "from_std"
    BY <2>1, <2>2, <2>4 DEF MakeOK, FlagsOK
  <2>5. CASE o = "from_tokio"
    BY <2>1, <2>2, <2>5 DEF MakeOK, FlagsOK
  <2> QED
    BY <2>3, <2>4, <2>5, ListenerAssumption
<1>2. FlagsOK /\ MakeOK /\ [Next]_vars => FlagsOK' /\ MakeOK'
  <2> SUFFICES ASSUME FlagsOK, MakeOK, [Next]_vars PROVE FlagsOK' /\ MakeOK'
    OBVIOUS
  <2> USE DEF makeVars, connVars, ioVars
  <2> DEFINE Refusal == pc' = "failed" /\ refused' = TRUE /\ UNCHANGED <<apple, fastopen, blocking, reg>>
  <2>0. Refusal => FlagsOK' /\ MakeOK'
    BY DEF FlagsOK, MakeOK
  <2>1. CASE bind_options
    <3> DEFINE Goes == /\ pc = "options" /\ pc' = "bind"
                       /\ fastopen' \in BOOLEAN /\ (fastopen' \/ apple')
                       /\ UNCHANGED <<apple, sock, blocking, refused, reg>>
    <3>1. Goes \/ Refusal
      <4>1. OptionBeforeBind => FastOpenAllowed
        BY DEF OptionBeforeBind, FastOpenAllowed
      <4>2. ASSUME fastopen' = OptionBeforeBind, UNCHANGED apple
            PROVE  fastopen' \in BOOLEAN /\ (fastopen' \/ apple')
        <5>1. CASE apple = TRUE
          BY <4>2, <5>1 DEF OptionBeforeBind
        <5>2. CASE apple = FALSE
          BY <4>2, <5>2 DEF OptionBeforeBind
        <5> QED
          BY <5>1, <5>2 DEF FlagsOK
      <4>3. \/ /\ pc = "options" /\ pc' = "bind" /\ fastopen' = OptionBeforeBind
               /\ UNCHANGED <<apple, sock, blocking, refused, reg>>
            \/ Refused
        BY <2>1, <4>1 DEF bind_options
      <4> QED
        BY <4>2, <4>3 DEF Refused, MakeFails
    <3>2. Goes => FlagsOK'
      BY DEF FlagsOK
    <3>3. Goes => MakeOK'
      BY DEF FlagsOK, MakeOK
    <3> QED
      BY <2>0, <3>1, <3>2, <3>3
  <2>2. CASE bind_bind
    <3> DEFINE Goes == /\ pc = "bind" /\ pc' = "listen" /\ sock' = "bound"
                       /\ UNCHANGED <<apple, fastopen, blocking, refused, reg>>
    <3>1. Goes \/ Refusal
      BY <2>2 DEF bind_bind, Refused, Misordered, MakeFails
    <3>2. Goes => FlagsOK'
      BY DEF FlagsOK
    <3>3. Goes => MakeOK'
      BY DEF FlagsOK, MakeOK
    <3> QED
      BY <2>0, <3>1, <3>2, <3>3
  <2>3. CASE bind_listen
    <3> DEFINE Goes == /\ pc = "listen" /\ pc' = (IF apple THEN "fastopen" ELSE "done")
                       /\ sock' = "listening" /\ reg' = TRUE
                       /\ UNCHANGED <<apple, fastopen, blocking, refused>>
    <3>1. Goes \/ Refusal
      BY <2>3 DEF bind_listen, Refused, Misordered, MakeFails
    <3>2. Goes => FlagsOK'
      BY DEF FlagsOK
    <3>3. Goes => MakeOK'
      BY DEF FlagsOK, MakeOK
    <3> QED
      BY <2>0, <3>1, <3>2, <3>3
  <2>4. CASE from_std_nonblocking
    <3> DEFINE Goes == /\ pc = "nonblocking" /\ pc' = "register" /\ blocking' = FALSE
                       /\ UNCHANGED <<apple, sock, fastopen, refused, reg>>
    <3>1. Goes \/ Refusal
      BY <2>4 DEF from_std_nonblocking, SetNonblocking, Refused, Misordered, MakeFails
    <3>2. Goes => FlagsOK'
      BY DEF FlagsOK
    <3>3. Goes => MakeOK'
      BY DEF FlagsOK, MakeOK
    <3> QED
      BY <2>0, <3>1, <3>2, <3>3
  <2>5. CASE from_std_register
    <3> DEFINE Goes == /\ pc = "register" /\ pc' = "fastopen" /\ reg' = TRUE
                       /\ UNCHANGED <<apple, sock, fastopen, blocking, refused>>
    <3>1. Goes \/ Refusal
      BY <2>5 DEF from_std_register, Refused, Misordered, MakeFails
    <3>2. Goes => FlagsOK'
      BY DEF FlagsOK
    <3>3. Goes => MakeOK'
      BY DEF FlagsOK, MakeOK
    <3> QED
      BY <2>0, <3>1, <3>2, <3>3
  <2>6. CASE from_tokio
    <3> DEFINE Goes == /\ pc = "fastopen" /\ pc' = "done" /\ fastopen' = TRUE
                       /\ UNCHANGED <<apple, sock, blocking, refused, reg>>
    <3>1. Goes \/ Refusal
      <4>1. pc = "fastopen" => FastOpenAllowed
        BY DEF MakeOK, FastOpenAllowed
      <4> QED
        BY <2>6, <4>1 DEF from_tokio, set_tcp_fastopen, Refused, Misordered, MakeFails
    <3>2. Goes => FlagsOK'
      BY DEF FlagsOK
    <3>3. Goes => MakeOK'
      BY DEF FlagsOK, MakeOK
    <3> QED
      BY <2>0, <3>1, <3>2, <3>3
  <2>7. CASE \E t \in Tasks : Accept(t) \/ RunTask(t)
    <3>1. UNCHANGED makeVars /\ UNCHANGED reg
      BY <2>7 DEF Accept, accept, drop_accept, Polled, poll_accept, poll_accept_call,
           poll_accept_clear, RunTask
    <3>2. FlagsOK'
      BY <3>1 DEF FlagsOK
    <3>3. MakeOK'
      BY <3>1 DEF MakeOK
    <3> QED
      BY <3>2, <3>3
  <2>8. CASE Arrive \/ Deliver \/ NoListener \/ UNCHANGED vars
    BY <2>8 DEF Arrive, Deliver, NoListener, vars, FlagsOK, MakeOK
  <2> QED
    BY <2>1, <2>2, <2>3, <2>4, <2>5, <2>6, <2>7, <2>8 DEF Next, Make
<1> QED
  BY <1>1, <1>2, PTL DEF Spec

\* What the constructors return is usable on every platform (listener.rs:39-85).
THEOREM ListenerIsUsable == Spec => []ListenerUsable
<1>1. MakeOK => ListenerUsable
  BY DEF MakeOK, ListenerUsable
<1> QED
  BY <1>1, MakeInv, PTL

\* No platform's order of calls makes the constructors fail (listener.rs:42-63).
THEOREM ListenerOrderAllowed == Spec => []OrderAllowed
<1>1. MakeOK => OrderAllowed
  BY DEF MakeOK, OrderAllowed
<1> QED
  BY <1>1, MakeInv, PTL
-----------------------------------------------------------------------------
(* No missed connection: why a parked task can rely on the driver.          *)

\* The driver's state, with no bound on the connections.
NumbersOK ==
  /\ edge \in BOOLEAN /\ ready \in BOOLEAN /\ backlog \in Nat /\ fresh \subseteq Tasks
  /\ acc \in [Tasks -> {"idle", "due", "calling", "clearing", "parked"}]

\* Until it listens a socket gets no connection.
NotListening ==
  pc \in {"options", "bind", "listen"} => sock # "listening" /\ backlog = 0

\* Only a listener that is registered is accepted from.
OnlyWhenDone == \A t \in Tasks : acc[t] # "idle" => pc = "done"

\* With no readiness cached, a connection that waits has an event to come.
EventToCome == reg /\ backlog > 0 /\ ~ready => edge

\* A waker is kept only while there is no readiness cached.
KeptWhenNotReady == slot # NoTask => ~ready

\* After WouldBlock, a connection that came since has its event to come, or
\* the event came too and the task's snapshot is no longer fresh.
ClearingIsSafe ==
  \A t \in Tasks : acc[t] = "clearing" /\ t \in fresh /\ backlog > 0 => edge

EventInv == /\ NumbersOK /\ NotListening /\ OnlyWhenDone
            /\ EventToCome /\ KeptWhenNotReady /\ ClearingIsSafe

\* What EventInv speaks of; a step that changes none of it keeps it.
waitVars == <<backlog, edge, ready, fresh, slot, acc>>

LEMMA EventInvInit == Init => EventInv
<1> SUFFICES ASSUME Init PROVE EventInv
  OBVIOUS
<1>1. backlog = 0 /\ edge = FALSE /\ ready = FALSE /\ fresh = {} /\ slot = NoTask
  BY DEF Init
<1>2. acc \in [Tasks -> {"idle", "due", "calling", "clearing", "parked"}] /\ \A t \in Tasks : acc[t] = "idle"
  BY DEF Init
<1>3. NumbersOK
  BY <1>1, <1>2 DEF NumbersOK
<1>4. NotListening
  <2>1. pc \in {"options", "bind", "listen"} => sock = "new"
    <3>1. PICK o \in Origins :
            /\ pc = CASE o = "bind" -> "options" [] o = "from_std" -> "nonblocking"
                      [] o = "from_tokio" -> "fastopen"
            /\ sock = IF o = "bind" THEN "new" ELSE "listening"
      BY DEF Init
    <3> QED
      BY <3>1, ListenerAssumption
  <2> QED
    BY <2>1, <1>1 DEF NotListening
<1> QED
  BY <1>1, <1>2, <1>3, <1>4 DEF EventInv, OnlyWhenDone, EventToCome, KeptWhenNotReady, ClearingIsSafe

\* Making the listener: tokio is told of a backlog when it registers.
LEMMA EventInvMake ==
  ASSUME EventInv, FlagsOK, MakeOK, Make
  PROVE  EventInv'
<1> USE DEF makeVars, connVars, ioVars, waitVars
<1>1. pc # "done"
  BY DEF Make, bind_options, bind_bind, bind_listen, from_std_nonblocking,
         from_std_register, from_tokio
<1>2. \A t \in Tasks : acc[t] = "idle"
  BY <1>1 DEF EventInv, OnlyWhenDone
<1>3. CASE from_std_register /\ ~Refused
  <2>1. /\ pc = "register" /\ pc' = "fastopen" /\ edge' = (backlog > 0)
        /\ UNCHANGED <<sock, backlog, ready, slot, fresh, acc>>
    BY <1>3 DEF from_std_register
  <2>2. edge' \in BOOLEAN /\ (backlog > 0 => edge')
    <3>1. CASE backlog > 0
      BY <2>1, <3>1
    <3>2. CASE ~(backlog > 0)
      BY <2>1, <3>2
    <3> QED
      BY <3>1, <3>2
  <2>3. KeptWhenNotReady'
    BY <2>1 DEF EventInv, KeptWhenNotReady
  <2>4. NotListening' /\ OnlyWhenDone' /\ ClearingIsSafe' /\ EventToCome'
    BY <2>1, <2>2, <1>2 DEF NotListening, OnlyWhenDone, EventToCome, ClearingIsSafe
  <2>5. NumbersOK'
    BY <2>1, <2>2 DEF EventInv, NumbersOK
  <2> QED
    BY <2>3, <2>4, <2>5 DEF EventInv
<1>4. CASE bind_listen /\ ~Refused
  <2>1. /\ pc = "listen" /\ pc' \notin {"options", "bind", "listen"}
        /\ UNCHANGED waitVars
    BY <1>4 DEF bind_listen
  <2> QED
    BY <2>1, <1>2 DEF EventInv, NumbersOK, NotListening, OnlyWhenDone, EventToCome,
      KeptWhenNotReady, ClearingIsSafe
<1>5. CASE Refused \/ Misordered \/ bind_options \/ bind_bind \/ from_std_nonblocking \/ from_tokio
  <2>1. UNCHANGED waitVars /\ UNCHANGED reg
    BY <1>5 DEF Refused, Misordered, MakeFails, bind_options, bind_bind,
                from_std_nonblocking, from_tokio, set_tcp_fastopen
  <2>2. NotListening'
    BY <2>1, <1>5 DEF EventInv, NotListening, MakeOK, Refused, Misordered, MakeFails,
                      bind_options, bind_bind, from_std_nonblocking, from_tokio
  <2> QED
    BY <2>1, <2>2, <1>2 DEF EventInv, NumbersOK, OnlyWhenDone, EventToCome,
      KeptWhenNotReady, ClearingIsSafe
<1> QED
  BY <1>3, <1>4, <1>5 DEF Make

\* Accepting: readiness is cleared only if no event came since the snapshot.
LEMMA EventInvAccept ==
  ASSUME EventInv, FlagsOK, MakeOK, NEW t \in Tasks, Accept(t) \/ RunTask(t)
  PROVE  EventInv'
<1> USE DEF makeVars, connVars, ioVars, EventInv, NumbersOK, NotListening, OnlyWhenDone,
            EventToCome, KeptWhenNotReady, ClearingIsSafe
<1>0. UNCHANGED <<pc, sock, reg, edge>>
  BY DEF Accept, accept, drop_accept, Polled, poll_accept, poll_accept_call,
         poll_accept_clear, RunTask
<1>1. CASE accept(t) \/ drop_accept(t)
  BY <1>0, <1>1 DEF accept, drop_accept
<1>5. CASE RunTask(t)
  BY <1>0, <1>5 DEF RunTask
<1>2. CASE poll_accept(t)
  BY <1>0, <1>2 DEF poll_accept, KeepWaker
<1>3. CASE poll_accept_call(t)
  BY <1>0, <1>3 DEF poll_accept_call, Accepted
<1>4. CASE poll_accept_clear(t)
  <2>1. pc = "done" /\ reg
    BY <1>4 DEF poll_accept_clear, MakeOK
  <2>2. EventToCome'
    BY <2>1, <1>0, <1>4 DEF poll_accept_clear, ClearReady
  <2>3. KeptWhenNotReady'
    BY <1>0, <1>4 DEF poll_accept_clear, ClearReady
  <2> QED
    BY <2>1, <2>2, <2>3, <1>0, <1>4 DEF poll_accept_clear, ClearReady
<1> QED
  BY <1>1, <1>2, <1>3, <1>4, <1>5 DEF Accept, Polled

\* The clients and the driver: every arrival leaves an event to deliver.
LEMMA EventInvOutside ==
  ASSUME EventInv, FlagsOK, MakeOK, Arrive \/ Deliver \/ UNCHANGED vars
  PROVE  EventInv'
<1> USE DEF makeVars, connVars, ioVars, EventInv, NumbersOK, NotListening, OnlyWhenDone,
            EventToCome, KeptWhenNotReady, ClearingIsSafe
<1>1. CASE Arrive
  <2>1. \A t \in Tasks : acc[t] # "idle" => reg
    BY DEF MakeOK
  <2> QED
    BY <1>1, <2>1 DEF Arrive, FlagsOK
<1>2. CASE Deliver
  BY <1>2 DEF Deliver
<1>3. CASE UNCHANGED vars
  BY <1>3 DEF vars
<1> QED
  BY <1>1, <1>2, <1>3

\* A task parked in accept, whose waker is the one kept, is woken for a
\* connection that waits: readiness is never lost between poll_accept's
\* WouldBlock and its clearing of it (listener.rs:88-96).
THEOREM ListenerNoMissedConnection == Spec => []NoMissedConnection
<1>1. EventInv /\ FlagsOK /\ MakeOK /\ [Next]_vars => EventInv'
  BY EventInvMake, EventInvAccept, EventInvOutside DEF Next, NoListener
<1>2. EventInv /\ MakeOK => NoMissedConnection
  <2> SUFFICES ASSUME EventInv, MakeOK, NEW t \in Tasks,
                      acc[t] = "parked", slot = t, backlog > 0
               PROVE  edge
    BY DEF NoMissedConnection
  <2>1. reg
    BY DEF EventInv, OnlyWhenDone, MakeOK
  <2>2. ~ready
    BY ListenerAssumption DEF EventInv, KeptWhenNotReady
  <2> QED
    BY <2>1, <2>2 DEF EventInv, EventToCome
<1> QED
  BY <1>1, <1>2, EventInvInit, MakeInv, PTL DEF Spec

-----------------------------------------------------------------------------
\* Every variable of the listener keeps its type; in particular the backlog
\* is never more than what arrived, nor less than nothing (listener.rs:93-96).
THEOREM ListenerTypes == Spec => []TypeOK
<1> USE DEF TypeOK, makeVars, connVars, ioVars, vars
<1>1. Init => TypeOK
  <2> SUFFICES ASSUME Init PROVE TypeOK
    OBVIOUS
  <2>1. /\ pc \in {"options", "nonblocking", "fastopen"} /\ sock \in {"new", "listening"}
        /\ blocking \in BOOLEAN /\ reg \in BOOLEAN
    BY ListenerAssumption DEF Init
  <2>2. {apple, fastopen, blocking, reg, refused, edge, ready} \subseteq BOOLEAN
    BY <2>1 DEF Init
  <2>3. arrived \in 0..MaxConns /\ backlog \in 0..arrived
    BY ListenerAssumption DEF Init
  <2>4. fresh \subseteq Tasks /\ woken \subseteq Tasks /\ slot \in Tasks \cup {NoTask}
        /\ acc \in [Tasks -> {"idle", "due", "calling", "clearing", "parked"}]
    BY DEF Init
  <2> QED
    BY <2>1, <2>2, <2>3, <2>4
<1>2. TypeOK /\ [Next]_vars => TypeOK'
  <2> SUFFICES ASSUME TypeOK, [Next]_vars PROVE TypeOK'
    OBVIOUS
  <2>1. CASE Make
    <3>1. UNCHANGED <<apple, connVars, ready, slot, woken, fresh, acc>> /\ edge' \in BOOLEAN
      <4> USE DEF Refused, Misordered, MakeFails
      <4>1. CASE from_std_register
        <5>1. edge' = (backlog > 0) \/ edge' = edge
          BY <4>1 DEF from_std_register
        <5>2. UNCHANGED <<apple, connVars, ready, slot, woken, fresh, acc>>
          BY <4>1 DEF from_std_register
        <5>3. (backlog > 0) \in BOOLEAN /\ edge \in BOOLEAN
          OBVIOUS
        <5>4. edge' \in BOOLEAN
          <6> HIDE DEF TypeOK
          <6> QED
            BY <5>1, <5>3, Zenon
        <5> QED
          BY <5>2, <5>4
      <4>2. CASE bind_options \/ bind_bind \/ bind_listen \/ from_std_nonblocking \/ from_tokio
        BY <4>2 DEF bind_options, bind_bind, bind_listen, from_std_nonblocking, from_tokio
      <4> QED
        BY <2>1, <4>1, <4>2 DEF Make
    <3>2. /\ pc' \in {"options", "bind", "listen", "nonblocking", "register", "fastopen", "done", "failed"}
          /\ sock' \in {"new", "bound", "listening", "closed"}
      BY <2>1 DEF Make, bind_options, bind_bind, bind_listen, from_std_nonblocking,
         from_std_register, from_tokio, Refused, Misordered, MakeFails
    <3>3. fastopen' \in BOOLEAN /\ blocking' \in BOOLEAN /\ reg' \in BOOLEAN /\ refused' \in BOOLEAN
      BY <2>1 DEF Make, bind_options, bind_bind, bind_listen, from_std_nonblocking,
         from_std_register, from_tokio, Refused, Misordered, MakeFails, OptionBeforeBind,
         SetNonblocking, set_tcp_fastopen
    <3> QED
      BY <3>1, <3>2, <3>3
  <2>2. CASE \E t \in Tasks : Accept(t)
    <3>1. PICK t \in Tasks : Accept(t)
      BY <2>2
    <3>2. CASE accept(t) \/ drop_accept(t)
      BY <3>2 DEF accept, drop_accept
    <3>3. CASE poll_accept(t)
      BY <3>3 DEF poll_accept, KeepWaker
    <3>4. CASE poll_accept_call(t)
      BY <3>4 DEF poll_accept_call, Accepted
    <3>5. CASE poll_accept_clear(t)
      BY <3>5 DEF poll_accept_clear, ClearReady
    <3> QED
      BY <3>1, <3>2, <3>3, <3>4, <3>5 DEF Accept, Polled
  <2>3. CASE Arrive
    BY <2>3, ListenerAssumption DEF Arrive
  <2>4. CASE Deliver
    BY <2>4 DEF Deliver
  <2>5. CASE \E t \in Tasks : RunTask(t)
    BY <2>5 DEF RunTask
  <2>6. CASE NoListener \/ UNCHANGED vars
    BY <2>6 DEF NoListener
  <2> QED
    BY <2>1, <2>2, <2>3, <2>4, <2>5, <2>6 DEF Next
<1> QED
  BY <1>1, <1>2, PTL DEF Spec
=============================================================================
